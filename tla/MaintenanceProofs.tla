------------------------- MODULE MaintenanceProofs -------------------------
(***************************************************************************)
(* Theorems about Maintenance, for every set of tables, every way to run   *)
(* maintenance, however often it is retried and however long writes and    *)
(* runs take: it loses no file that a version or a write needs, removes    *)
(* nothing young, ends with its tables in order, and changes no contents.  *)
(***************************************************************************)
EXTENDS Maintenance, SequenceTheorems, WellFoundedInduction, TLAPS

----------------------------------------------------------------------------
(* The invariant *)

\* The highest row a snapshot can have: that of a write in progress is not yet in one.
Written == IF write = NULL THEN writes ELSE writes - 1

\* A file has a number of its own, and is a row or the deletion of one.  Copy-on-write
\* tables have no delete files, and no delete file is older than what it deletes.
FilesFit ==
  \A t \in Table :
    /\ \A f \in storage[t] :
         /\ f.id <= files /\ f.created <= now
         /\ f.row = NULL <=> f.deletes # NULL
         /\ f.deletes # NULL => t \in MOR_TABLES /\ f.deletes <= files
    /\ \A f, g \in storage[t] : f.id = g.id => f = g

\* Each snapshot has its files, none younger than itself; one row is live in it; and
\* snapshots are in the order of their times.
SnapshotsFit ==
  \A t \in Table :
    /\ \A i \in DOMAIN snapshots[t] :
         /\ snapshots[t][i].files \subseteq storage[t]
         /\ \E f \in snapshots[t][i].files :
              LiveIn(snapshots[t][i].files) = {f} /\ f.row <= Written
         /\ \A f \in snapshots[t][i].files :
              f.created <= snapshots[t][i].time /\ (IsData(f) => f.row <= Written)
    /\ \A i, j \in DOMAIN snapshots[t] :
         i <= j => snapshots[t][i].time <= snapshots[t][j].time

\* A write in progress: its files are on storage but not in a snapshot, are young, and
\* replace one row, by deleting it or by dropping its file.
WriteFits ==
  \A t \in Table : write # NULL /\ write.table = t =>
    /\ write.adds \subseteq storage[t]
    /\ write.adds \cap Referenced(t) = {}
    /\ \A f \in write.adds : now <= f.created + LongestWrite
    /\ \E row \in write.adds, old \in write.needs :
         /\ IsData(row) /\ row.row = writes
         /\ IsData(old) /\ write.needs = {old}
         /\ \A d \in storage[t] : d.deletes # row.id
         /\ \/ /\ t \in MOR_TABLES /\ write.drops = {}
               /\ \E d \in write.adds : d.deletes = old.id /\ write.adds = {row, d}
            \/ /\ t \notin MOR_TABLES /\ write.drops = {old}
               /\ write.adds = {row}

\* A rewrite in progress: like a write, but the new file has the row of one of the files
\* it drops, if that was live.
RewriteFits(t) ==
  /\ IsFirst("rewrite_data_files")
  /\ plan.adds \subseteq storage[t]
  /\ plan.adds \cap Referenced(t) = {}
  /\ write # NULL /\ write.table = t => plan.adds \cap write.adds = {}
  /\ \A f \in plan.adds :
       /\ IsData(f) /\ now <= f.created + LongestWrite
       /\ \A d \in storage[t] : d.deletes # f.id
  /\ plan.drops \subseteq plan.base /\ plan.base \subseteq storage[t]
  /\ \A f \in plan.drops : IsData(f)
  /\ \A d \in plan.base : IsData(d) \/ d \in LastOf(t).files
  /\ \E f \in plan.base :
       /\ LiveIn(plan.base) = {f}
       /\ \/ f \in plan.drops /\ \E g \in plan.adds : plan.adds = {g} /\ g.row = f.row
          \/ f \notin plan.drops /\ plan.adds = {}

\* Of a table that expire_snapshots is done with, every snapshot but one is young.
Expired(t) == \A i \in DOMAIN snapshots[t] : i > 1 => snapshots[t][i].time >= older_than

\* What no snapshot of a table has is young.
NoOrphans(t) == \A f \in storage[t] \ Referenced(t) : f.created >= older_than

\* A deletion in progress: what is left to delete is old and in no snapshot.
DeletionFits(t) ==
  /\ plan.adds = {}
  /\ plan.drops \cap Referenced(t) = {}
  /\ \A f \in plan.drops : f.created < older_than
  /\ \/ IsFirst("expire_snapshots") /\ Expired(t)
     \/ /\ IsFirst("remove_orphan_files")
        /\ \A f \in storage[t] \ Referenced(t) : f.created >= older_than \/ f \in plan.drops

PlanType == [adds : SUBSET File, drops : SUBSET File, base : SUBSET File]

PlanFits ==
  plan # NULL =>
    /\ plan \in PlanType
    /\ exit = "running" /\ todo # <<>>
    /\ RewriteFits(t1) \/ DeletionFits(t1)

\* What the steps of an attempt have left behind on the table in work.
StepsLeft(t) ==
  /\ steps \subseteq StepsFor(t)
  /\ CLEANUP_STEPS \subseteq run.args.steps /\ "expire_snapshots" \notin steps => Expired(t)
  /\ "remove_orphan_files" \in run.args.steps \ steps =>
       steps = {} /\ (CLEANUP_STEPS \subseteq run.args.steps => NoOrphans(t))
  /\ t \in MOR_TABLES /\ "rewrite_position_delete_files" \in run.args.all \ steps =>
       "rewrite_data_files" \notin steps /\ Dangling(LastOf(t).files) = {}

StepsFit == exit = "running" /\ todo # <<>> => StepsLeft(t1)

Clean(t) ==
  /\ CLEANUP_STEPS \subseteq run.args.steps => Expired(t) /\ NoOrphans(t)
  /\ "rewrite_position_delete_files" \in run.args.all => Dangling(LastOf(t).files) = {}

AttemptFits ==
  /\ exit = "none" => attempts = 0
  /\ exit # "none" => run # NULL /\ older_than = Cutoff
  /\ exit \in {"success", "error"} => todo = <<>>
  /\ exit \in {"running", "success", "error"} =>
       \A t \in ToSet(run.args.tables) \ (failed \cup ToSet(todo)) : Clean(t)

IInv ==
  /\ TypeOK
  /\ FilesFit
  /\ SnapshotsFit
  /\ WriteFits
  /\ PlanFits
  /\ StepsFit
  /\ AttemptFits

----------------------------------------------------------------------------
(* Steps and times *)

\* The step that comes first, by the order of the definition.
LEMMA FirstSteps ==
  ASSUME steps \subseteq ToSet(STEP_ORDER)
  PROVE  /\ \A s : IsFirst(s) => s \in steps
         /\ IsFirst("rewrite_position_delete_files") => "rewrite_data_files" \notin steps
         /\ IsFirst("rewrite_manifests") =>
              steps \cap REWRITE_FILES = {}
         /\ IsFirst("expire_snapshots") =>
              steps \subseteq CLEANUP_STEPS
         /\ IsFirst("remove_orphan_files") => steps = {"remove_orphan_files"}
<1> USE DEF STEP_ORDER
<1>1. DOMAIN STEP_ORDER = 1 .. 5
  OBVIOUS
<1>2. ToSet(STEP_ORDER) =
        {"rewrite_data_files", "rewrite_position_delete_files", "rewrite_manifests",
         "expire_snapshots", "remove_orphan_files"}
  BY <1>1 DEF ToSet
<1>3. \A s : IsFirst(s) => s \in steps
  BY DEF IsFirst
<1>4. IsFirst("rewrite_position_delete_files") => "rewrite_data_files" \notin steps
  BY <1>1 DEF IsFirst
<1>5. IsFirst("rewrite_manifests") => steps \cap REWRITE_FILES = {}
  BY <1>1 DEF IsFirst, REWRITE_FILES
<1>6. IsFirst("expire_snapshots") => steps \subseteq CLEANUP_STEPS
  BY <1>1, <1>2 DEF IsFirst, CLEANUP_STEPS
<1>7. IsFirst("remove_orphan_files") => steps = {"remove_orphan_files"}
  BY <1>1, <1>2 DEF IsFirst
<1> QED
  BY <1>3, <1>4, <1>5, <1>6, <1>7

\* What the arguments of a run are.
LEMMA RunArguments ==
  ASSUME TypeOK, run # NULL
  PROVE  /\ run.args.tables \in Seq(Table)
         /\ run.args.steps \subseteq ToSet(STEP_ORDER)
         /\ run.args.all \subseteq run.args.steps \cap REWRITE_FILES /\ run.args.retries \in Nat
         /\ run.args.steps \cap CLEANUP_STEPS # {} =>
              run.args.retention \in Nat /\ LongestWrite <= run.args.retention
         /\ run.args.retention = NULL \/ run.args.retention \in Nat
         /\ run.due \in 0 .. now
<1>1. run.args \in Invocations /\ run.due \in 0 .. now
  BY DEF TypeOK
<1>2. run.args \in Invocation
  BY <1>1, MaintenanceAssumption
<1> QED
  BY <1>1, <1>2, MaintenanceAssumption DEF Invocation

\* Integers the arithmetic below is about.
LEMMA Numbers ==
  ASSUME TypeOK
  PROVE  /\ now \in Nat /\ files \in Nat /\ writes \in Nat /\ older_than \in Int
         /\ Written \in Int /\ Written <= writes
<1>1. /\ now \in 0 .. MaxTime /\ files \in Nat /\ writes \in 0 .. MaxWrites
      /\ older_than \in Int
  BY DEF TypeOK
<1>2. now \in Nat /\ writes \in Nat
  BY <1>1, MaintenanceAssumption
<1> QED
  BY <1>1, <1>2 DEF Written

\* What an attempt deletes is older than every file of a write in progress.
LEMMA CutoffIsPast ==
  ASSUME TypeOK, AttemptFits, exit # "none"
  PROVE  /\ run # NULL
         /\ older_than <= now
         /\ run.args.steps \cap CLEANUP_STEPS # {} =>
              /\ older_than = run.due - run.args.retention
              /\ older_than + LongestWrite <= now
<1>1. run # NULL /\ older_than = Cutoff
  BY DEF AttemptFits
<1>2. now \in Nat /\ run.due \in 0 .. now
  BY <1>1, MaintenanceAssumption DEF TypeOK
<1>3. older_than <= now
  BY <1>1, <1>2, RunArguments DEF Cutoff, as_of
<1>4. ASSUME run.args.steps \cap CLEANUP_STEPS # {}
      PROVE  older_than = run.due - run.args.retention /\ older_than + LongestWrite <= now
  <2>1. run.args.retention \in Nat /\ LongestWrite <= run.args.retention
    BY <1>1, <1>4, RunArguments
  <2>2. older_than = run.due - run.args.retention
    BY <1>1, <2>1, MaintenanceAssumption DEF Cutoff, as_of
  <2> QED
    BY <1>2, <2>1, <2>2, MaintenanceAssumption
<1> QED
  BY <1>1, <1>3, <1>4

----------------------------------------------------------------------------
(* Snapshots *)

\* A sequence that is not empty, and one more element.
LEMMA NonEmptySeq ==
  ASSUME NEW S, NEW s \in Seq(S), s # <<>>
  PROVE  /\ Len(s) \in Nat /\ Len(s) >= 1 /\ DOMAIN s = 1 .. Len(s)
         /\ \A i \in DOMAIN s : s[i] \in S
         /\ Last(s) = s[Len(s)]
BY DEF Last

\* The same for a sequence with one more element.
LEMMA AppendSeq ==
  ASSUME NEW S, NEW s \in Seq(S), NEW x \in S
  PROVE  /\ Append(s, x) \in Seq(S) \ {<<>>}
         /\ Len(s) \in Nat /\ DOMAIN s = 1 .. Len(s)
         /\ Len(Append(s, x)) = Len(s) + 1
         /\ DOMAIN Append(s, x) = 1 .. Len(s) + 1
         /\ \A i \in DOMAIN s : Append(s, x)[i] = s[i]
         /\ Append(s, x)[Len(s) + 1] = x
OBVIOUS

SnapshotType == [time : 0 .. now, files : SUBSET File]

\* The current snapshot is one of the table's.
LEMMA CurrentSnapshot ==
  ASSUME TypeOK, NEW t \in Table
  PROVE  /\ snapshots[t] \in Seq(SnapshotType)
         /\ Len(snapshots[t]) \in Nat /\ Len(snapshots[t]) >= 1
         /\ DOMAIN snapshots[t] = 1 .. Len(snapshots[t])
         /\ LastOf(t) = snapshots[t][Len(snapshots[t])]
         /\ LastOf(t).files \subseteq Referenced(t)
         /\ \A i \in DOMAIN snapshots[t] :
              /\ snapshots[t][i].time \in 0 .. now
              /\ snapshots[t][i].files \in SUBSET File
              /\ snapshots[t][i].files \subseteq Referenced(t)
<1>1. snapshots[t] \in Seq(SnapshotType) /\ snapshots[t] # <<>>
  BY Zenon DEF TypeOK, SnapshotType
<1>2. /\ Len(snapshots[t]) \in Nat /\ Len(snapshots[t]) >= 1
      /\ DOMAIN snapshots[t] = 1 .. Len(snapshots[t])
      /\ \A i \in DOMAIN snapshots[t] : snapshots[t][i] \in SnapshotType
  BY <1>1, NonEmptySeq
<1>3. LastOf(t) = snapshots[t][Len(snapshots[t])]
  BY DEF LastOf, Last
<1> QED
  BY <1>1, <1>2, <1>3 DEF Referenced, SnapshotType

\* A commit leaves the snapshots of a table and adds one, which is then current.
LEMMA CommitAppends ==
  ASSUME TypeOK, NEW t \in Table, NEW fs \in SUBSET File, Commit(t, fs), now' = now
  PROVE  /\ snapshots' \in [Table -> Seq(SnapshotType) \ {<<>>}]
         /\ \A u \in Table \ {t} : snapshots'[u] = snapshots[u]
         /\ Len(snapshots'[t]) = Len(snapshots[t]) + 1
         /\ DOMAIN snapshots'[t] = 1 .. Len(snapshots[t]) + 1
         /\ \A i \in DOMAIN snapshots[t] : snapshots'[t][i] = snapshots[t][i]
         /\ snapshots'[t][Len(snapshots[t]) + 1] = [time |-> now, files |-> fs]
         /\ LastOf(t)' = [time |-> now, files |-> fs]
         /\ Referenced(t)' = Referenced(t) \cup fs
         /\ ToSet(snapshots[t]) \subseteq ToSet(snapshots'[t])
<1> DEFINE S == SnapshotType
           x == [time |-> now, files |-> fs]
           n == Len(snapshots[t])
<1>1. snapshots \in [Table -> Seq(S) \ {<<>>}]
  BY Zenon DEF TypeOK, SnapshotType
<1>2. x \in S
  BY MaintenanceAssumption DEF TypeOK, SnapshotType
<1>3. snapshots' = [snapshots EXCEPT ![t] = Append(snapshots[t], x)]
  BY DEF Commit, Snapshot
<1> HIDE DEF S, x
<1>4. snapshots[t] \in Seq(S)
  BY <1>1
<1>5. /\ Append(snapshots[t], x) \in Seq(S) \ {<<>>}
      /\ n \in Nat /\ DOMAIN snapshots[t] = 1 .. n
      /\ Len(Append(snapshots[t], x)) = n + 1
      /\ DOMAIN Append(snapshots[t], x) = 1 .. n + 1
      /\ \A i \in 1 .. n : Append(snapshots[t], x)[i] = snapshots[t][i]
      /\ Append(snapshots[t], x)[n + 1] = x
  BY <1>2, <1>4, AppendSeq
<1>6. snapshots'[t] = Append(snapshots[t], x) /\ \A u \in Table \ {t} : snapshots'[u] = snapshots[u]
  BY <1>1, <1>3
<1>7. snapshots' \in [Table -> Seq(S) \ {<<>>}]
  BY <1>1, <1>3, <1>5
<1>8. LastOf(t)' = x
  BY <1>5, <1>6 DEF LastOf, Last
<1>9. Referenced(t)' = Referenced(t) \cup fs
  <2>1. Referenced(t)' = UNION {snapshots'[t][i].files : i \in 1 .. n + 1}
    BY <1>5, <1>6 DEF Referenced
  <2>2. Referenced(t) = UNION {snapshots[t][i].files : i \in 1 .. n}
    BY <1>5 DEF Referenced
  <2>3. x.files = fs
    BY DEF x
  <2>4. 1 .. n + 1 = (1 .. n) \cup {n + 1}
    BY <1>5
  <2>5. /\ \A i \in 1 .. n : snapshots'[t][i] = snapshots[t][i]
        /\ snapshots'[t][n + 1] = x
    BY <1>5, <1>6
  <2> HIDE DEF n
  <2> QED
    BY <2>1, <2>2, <2>3, <2>4, <2>5
<1>10. ToSet(snapshots[t]) \subseteq ToSet(snapshots'[t])
  BY <1>5, <1>6 DEF ToSet
<1> QED
  BY <1>4, <1>5, <1>6, <1>7, <1>8, <1>9, <1>10 DEF S, x

LessThan == {ss \in Nat \X Nat : ss[1] < ss[2]}

\* Min is the least of any numbers.
LEMMA LeastIndex ==
  ASSUME NEW S \in SUBSET Nat, S # {}
  PROVE  Min(S) \in S /\ \A x \in S : Min(S) <= x
<1>1. IsWellFoundedOn(LessThan, Nat)
  BY NatLessThanWellFounded, Zenon DEF OpToRel, LessThan
<1>2. PICK m \in S : \A x \in S : ~ (<<x, m>> \in LessThan)
  BY <1>1, WFMin
<1>3. ASSUME NEW x \in S PROVE m <= x
  <2>1. <<x, m>> \in Nat \X Nat /\ <<x, m>>[1] = x /\ <<x, m>>[2] = m
    OBVIOUS
  <2>2. ~ (x < m)
    BY <1>2, <2>1, Zenon DEF LessThan
  <2> QED
    BY <2>2
<1> QED
  BY <1>3 DEF Min

\* A suffix of a sequence.
LEMMA SuffixSeq ==
  ASSUME NEW S, NEW s \in Seq(S), NEW k \in 1 .. Len(s)
  PROVE  /\ SubSeq(s, k, Len(s)) \in Seq(S) \ {<<>>}
         /\ Len(SubSeq(s, k, Len(s))) = Len(s) - k + 1
         /\ \A i \in 1 .. Len(s) - k + 1 : SubSeq(s, k, Len(s))[i] = s[k + i - 1]
<1>1. Len(s) \in Nat
  OBVIOUS
<1>2. /\ SubSeq(s, k, Len(s)) \in Seq(S)
      /\ Len(SubSeq(s, k, Len(s))) = Len(s) - k + 1
      /\ \A i \in 1 .. Len(s) - k + 1 : SubSeq(s, k, Len(s))[i] = s[k + i - 1]
  <2>1. k \in Int /\ Len(s) - k + 1 >= 1 /\ k <= Len(s) + 1
    BY <1>1
  <2>2. \A i \in k .. Len(s) : s[i] \in S
    BY <1>1
  <2>3. SubSeq(s, k, Len(s)) \in Seq(S)
    BY <1>1, <2>2, SubSeqProperties
  <2> QED
    BY <1>1, <2>1, <2>2, <2>3, SubSeqProperties
<1>3. Len(SubSeq(s, k, Len(s))) >= 1
  BY <1>1, <1>2
<1>4. SubSeq(s, k, Len(s)) # <<>>
  <2> DEFINE q == SubSeq(s, k, Len(s))
  <2> HIDE DEF q
  <2>1. q \in Seq(S) /\ Len(q) >= 1
    BY <1>2, <1>3 DEF q
  <2>2. q # <<>>
    BY <2>1
  <2> QED
    BY <2>2 DEF q
<1> QED
  BY <1>2, <1>4

\* What expire_snapshots leaves of a table: the snapshots from some k on, of which the
\* first alone can be old; those before it are old.
LEMMA ExpireKeepsSuffix ==
  ASSUME TypeOK, SnapshotsFit, NEW t \in Table, t = t1,
         snapshots' = [snapshots EXCEPT ![t1] = Retained]
  PROVE  \E k \in DOMAIN snapshots[t] :
           /\ snapshots' \in [Table -> Seq(SnapshotType) \ {<<>>}]
           /\ \A u \in Table \ {t} : snapshots'[u] = snapshots[u]
           /\ DOMAIN snapshots'[t] = 1 .. Len(snapshots[t]) - k + 1
           /\ \A i \in DOMAIN snapshots'[t] :
                /\ k + i - 1 \in DOMAIN snapshots[t]
                /\ snapshots'[t][i] = snapshots[t][k + i - 1]
                /\ i > 1 => snapshots'[t][i].time >= older_than
           /\ snapshots'[t][Len(snapshots[t]) - k + 1] = LastOf(t)
           /\ LastOf(t)' = LastOf(t)
           /\ \A i \in 1 .. k - 1 : snapshots[t][i].time < older_than
           /\ \A i \in k .. Len(snapshots[t]) : snapshots[t][i] \in ToSet(snapshots'[t])
           /\ Referenced(t)' = FilesOf(Retained)
           /\ Referenced(t)' \subseteq Referenced(t)
<1> DEFINE s == snapshots[t]
           n == Len(s)
           k == FirstRetained
           S == SnapshotType
<1>1. /\ s \in Seq(S) /\ n \in Nat /\ n >= 1 /\ DOMAIN s = 1 .. n /\ LastOf(t) = s[n]
      /\ \A i \in 1 .. n : s[i].time \in Int
  BY CurrentSnapshot
<1>2. older_than \in Int /\ snapshots \in [Table -> Seq(S) \ {<<>>}]
  BY Zenon DEF TypeOK, SnapshotType
<1>3. YoungEnough = {i \in 1 .. n : s[i].time >= older_than}
  BY <1>1 DEF YoungEnough
<1>4. k \in YoungEnough \cup {n} /\ \A i \in YoungEnough : k <= i
  <2>1. YoungEnough \cup {n} \in SUBSET Nat /\ YoungEnough \cup {n} # {}
    BY <1>1, <1>3
  <2>2. k = Min(YoungEnough \cup {n})
    BY DEF FirstRetained
  <2> QED
    BY <2>1, <2>2, LeastIndex
<1>5. k \in 1 .. n
  BY <1>1, <1>3, <1>4
<1>6. \A i \in 1 .. k - 1 : s[i].time < older_than
  <2>1. ASSUME NEW i \in 1 .. k - 1, ~ (s[i].time < older_than) PROVE FALSE
    <3>1. k \in Int /\ i \in 1 .. n /\ i < k
      BY <1>1, <1>5
    <3>2. s[i].time \in Int
      BY <1>1, <3>1
    <3>3. s[i].time >= older_than
      BY <1>2, <2>1, <3>2
    <3>4. i \in YoungEnough
      BY <1>3, <3>1, <3>3
    <3> QED
      BY <1>4, <3>1, <3>4
  <2> QED
    BY <2>1
<1>7. \A i \in 1 .. n : i > k => s[i].time >= older_than
  <2>1. ASSUME NEW i \in 1 .. n, i > k PROVE s[i].time >= older_than
    <3>1. k \in YoungEnough
      BY <1>4, <2>1
    <3>2. s[k].time >= older_than /\ s[k].time <= s[i].time
      BY <1>1, <1>3, <1>5, <2>1, <3>1 DEF SnapshotsFit
    <3> QED
      BY <1>1, <1>2, <1>5, <3>2
  <2> QED
    BY <2>1
<1> HIDE DEF S, k
<1>8. Retained = SubSeq(s, k, n)
  BY DEF Retained, k
<1>9. /\ Retained \in Seq(S) \ {<<>>}
      /\ Len(Retained) = n - k + 1
      /\ \A i \in 1 .. n - k + 1 : Retained[i] = s[k + i - 1]
  BY <1>1, <1>5, <1>8, SuffixSeq
<1>10. DOMAIN Retained = 1 .. n - k + 1
  BY <1>9
<1>11. snapshots'[t] = Retained /\ \A u \in Table \ {t} : snapshots'[u] = snapshots[u]
  BY <1>2
<1>12. snapshots' \in [Table -> Seq(S) \ {<<>>}]
  BY <1>2, <1>9
<1> HIDE DEF s, n
<1>13. \A i \in 1 .. n - k + 1 :
         k + i - 1 \in 1 .. n /\ (i > 1 => Retained[i].time >= older_than)
  BY <1>1, <1>5, <1>7, <1>9
<1>14. Retained[n - k + 1] = s[n] /\ Last(Retained) = s[n]
  <2>1. n - k + 1 \in 1 .. n - k + 1 /\ k + (n - k + 1) - 1 = n
    BY <1>1, <1>5
  <2>2. Retained[n - k + 1] = s[n]
    BY <1>9, <2>1
  <2> QED
    BY <1>9, <2>2 DEF Last
<1>15. \A i \in k .. n : s[i] \in ToSet(Retained)
  <2>1. ASSUME NEW i \in k .. n PROVE s[i] \in ToSet(Retained)
    <3>1. i - k + 1 \in 1 .. n - k + 1 /\ Retained[i - k + 1] = s[k + (i - k + 1) - 1]
      BY <1>1, <1>5, <1>9
    <3>2. k + (i - k + 1) - 1 = i
      BY <1>5
    <3> QED
      BY <1>10, <3>1, <3>2 DEF ToSet
  <2> QED
    BY <2>1
<1>16. Referenced(t)' = FilesOf(Retained)
  BY <1>11 DEF Referenced, FilesOf, ToSet
<1>17. Referenced(t)' \subseteq Referenced(t)
  <2>1. \A i \in 1 .. n - k + 1 : \E j \in 1 .. n : Retained[i] = s[j]
    BY <1>9, <1>13
  <2> QED
    BY <1>1, <1>10, <1>11, <2>1 DEF Referenced, s
<1>18. LastOf(t)' = s[n]
  BY <1>11, <1>14 DEF LastOf
<1> QED
  BY <1>1, <1>5, <1>6, <1>10, <1>11, <1>12, <1>13, <1>9, <1>14, <1>15, <1>16, <1>17, <1>18
  DEF s, n, S

----------------------------------------------------------------------------
(* Rows *)

\* What FilesFit says of each file: it is a row or the deletion of one.
OneKind(fs) == \A f \in fs : f.row = NULL <=> f.deletes # NULL

\* A merge on read: the new row lives, the deleted one does not.
LEMMA LiveAfterDelete ==
  ASSUME NEW fs \in SUBSET File, NEW old, LiveIn(fs) = {old},
         NEW row \in File, NEW d \in File,
         OneKind(fs \cup {row, d}), IsData(row), d.deletes = old.id, old.id # row.id,
         \A f \in fs : f.deletes # row.id
  PROVE  LiveIn(fs \cup {row, d}) = {row}
<1>1. old \in File /\ old \in fs
  BY DEF LiveIn
<1>2. old.id \in Nat /\ row.id \in Nat /\ NULL \notin Nat
  BY <1>1, MaintenanceAssumption DEF File
<1>3. row.deletes = NULL /\ ~IsData(d)
  BY <1>2 DEF OneKind, IsData
<1>4. row \in LiveIn(fs \cup {row, d})
  BY <1>2, <1>3 DEF LiveIn
<1>5. ASSUME NEW f \in LiveIn(fs \cup {row, d}), f # row PROVE FALSE
  <2>1. f \in fs /\ IsData(f) /\ \A e \in fs \cup {d} : e.deletes # f.id
    BY <1>3, <1>5 DEF LiveIn
  <2>2. f = old
    BY <2>1 DEF LiveIn
  <2> QED
    BY <2>1, <2>2
<1> QED
  BY <1>4, <1>5

\* A copy on write: the new row lives, the file of the old one is dropped.
LEMMA LiveAfterCopy ==
  ASSUME NEW fs \in SUBSET File, NEW old, LiveIn(fs) = {old}, NEW row \in File,
         OneKind(fs \cup {row}), IsData(row),
         \A f \in fs : f.deletes # row.id
  PROVE  LiveIn((fs \ {old}) \cup {row}) = {row}
<1>1. old \in fs /\ IsData(old)
  BY DEF LiveIn
<1>2. row.id \in Nat /\ NULL \notin Nat
  BY MaintenanceAssumption DEF File
<1>3. row.deletes = NULL /\ old.deletes = NULL
  BY <1>1 DEF OneKind, IsData
<1>4. row \in LiveIn((fs \ {old}) \cup {row})
  BY <1>2, <1>3 DEF LiveIn
<1>5. ASSUME NEW f \in LiveIn((fs \ {old}) \cup {row}), f # row PROVE FALSE
  <2>1. f \in fs /\ f # old /\ IsData(f) /\ \A e \in fs \ {old} : e.deletes # f.id
    BY <1>5 DEF LiveIn
  <2>2. f.id \in Nat
    BY <2>1 DEF File
  <2>3. f \in LiveIn(fs)
    BY <1>2, <1>3, <2>1, <2>2 DEF LiveIn
  <2> QED
    BY <2>1, <2>3
<1> QED
  BY <1>4, <1>5

\* Delete files that delete nothing of a snapshot can go.
LEMMA LiveWithoutDangling ==
  ASSUME NEW fs, NEW old \in SUBSET Dangling(fs)
  PROVE  LiveIn(fs \ old) = LiveIn(fs)
<1>1. ASSUME NEW f \in LiveIn(fs) PROVE f \in LiveIn(fs \ old)
  BY DEF LiveIn, Dangling
<1>2. ASSUME NEW f \in LiveIn(fs \ old) PROVE f \in LiveIn(fs)
  BY DEF LiveIn, Dangling
<1> QED
  BY <1>1, <1>2

\* A rewrite of the files drops of base to adds, while other commits have led to fs: fs
\* still has drops, and nothing that is new in it deletes one of them.
Rewrites(base, drops, adds, fs) ==
  /\ fs \in SUBSET File /\ base \in SUBSET File /\ adds \in SUBSET File
  /\ OneKind(fs) /\ OneKind(base) /\ OneKind(adds)
  /\ drops \subseteq base /\ drops \subseteq fs /\ adds \cap fs = {}
  /\ \A f \in drops : IsData(f)
  /\ \A d \in base : IsData(d) \/ d \in fs
  /\ \A d \in fs \ base : \A f \in drops : d.deletes # f.id
  /\ \A g \in adds : IsData(g) /\ \A d \in fs : d.deletes # g.id
  /\ \E f \in base :
       /\ LiveIn(base) = {f}
       /\ \/ f \in drops /\ \E g \in adds : adds = {g} /\ g.row = f.row
          \/ f \notin drops /\ adds = {}

\* In new, which adds are part of, the row that lives is that of live.
KeepsRow(new, adds, live) ==
  /\ \E g \in new : LiveIn(new) = {g} /\ g.row = live.row
  /\ \A g \in adds : g.row = live.row

\* Files go and new ones come: if what was live is kept or copied, its row is still the one.
LEMMA LiveAfterRewrite ==
  ASSUME NEW base, NEW drops, NEW adds, NEW fs, Rewrites(base, drops, adds, fs),
         NEW live, LiveIn(fs) = {live}
  PROVE  KeepsRow((fs \ drops) \cup adds, adds, live)
<1> USE DEF Rewrites, KeepsRow
<1>0. PICK f \in base :
        /\ LiveIn(base) = {f}
        /\ \/ f \in drops /\ \E g \in adds : adds = {g} /\ g.row = f.row
           \/ f \notin drops /\ adds = {}
  OBVIOUS
<1> DEFINE new == (fs \ drops) \cup adds
<1>1. /\ \A g \in fs \cup base \cup adds : g.id \in Nat
      /\ \A g \in fs \cup base \cup adds : IsData(g) => g.deletes = NULL
      /\ NULL \notin Nat
  BY MaintenanceAssumption DEF File, OneKind, IsData
<1>2. \A d \in drops \cup adds, g \in fs \cup base \cup adds : d.deletes # g.id
  BY <1>1
<1>3. ASSUME NEW g \in fs, g \in LiveIn(new) PROVE g = live /\ g \notin drops
  <2>1. g \notin drops /\ IsData(g) /\ \A d \in new : d.deletes # g.id
    BY <1>3 DEF LiveIn
  <2>2. g \in LiveIn(fs)
    BY <1>2, <2>1 DEF LiveIn
  <2> QED
    BY <2>1, <2>2
<1>4. CASE f \in drops
  <2>1. PICK g \in adds : adds = {g} /\ g.row = f.row
    BY <1>0, <1>4
  <2>2. f = live
    <3>1. f \in fs /\ IsData(f) /\ \A d \in base : d.deletes # f.id
      BY <1>0, <1>4 DEF LiveIn
    <3>2. f \in LiveIn(fs)
      BY <1>4, <3>1 DEF LiveIn
    <3> QED
      BY <3>2
  <2>3. g \in LiveIn(new)
    BY <1>2, <2>1 DEF LiveIn
  <2>4. LiveIn(new) = {g}
    <3>1. \A h \in LiveIn(new) : h \in fs \/ h = g
      BY <2>1 DEF LiveIn
    <3> QED
      BY <1>3, <1>4, <2>2, <2>3, <3>1
  <2> QED
    BY <2>1, <2>2, <2>4
<1>5. CASE f \notin drops
  <2>1. adds = {}
    BY <1>0, <1>5
  <2>2. live \in fs /\ IsData(live) /\ \A d \in fs : d.deletes # live.id
    BY DEF LiveIn
  <2>3. live \notin drops
    <3>1. ASSUME live \in drops PROVE FALSE
      <4>1. live \in base /\ \A d \in base : d.deletes # live.id
        BY <1>1, <2>2, <3>1
      <4>2. live \in LiveIn(base)
        BY <2>2, <4>1 DEF LiveIn
      <4> QED
        BY <1>0, <1>5, <3>1, <4>2
    <3> QED
      BY <3>1
  <2>4. live \in LiveIn(new)
    BY <2>1, <2>2, <2>3 DEF LiveIn
  <2>5. LiveIn(new) = {live}
    <3>1. \A h \in LiveIn(new) : h \in fs
      BY <2>1 DEF LiveIn
    <3> QED
      BY <1>3, <2>4, <3>1
  <2> QED
    BY <2>1, <2>2, <2>3, <2>5
<1> QED
  BY <1>4, <1>5

----------------------------------------------------------------------------
(* The table in work *)

\* The tables of an attempt: the first one is in work, the rest follows.
LEMMA FirstOfTodo ==
  ASSUME todo \in Seq(Table), todo # <<>>
  PROVE  /\ t1 \in Table
         /\ Tail(todo) \in Seq(Table)
         /\ ToSet(todo) = {t1} \cup ToSet(Tail(todo))
<1>1. /\ Len(todo) \in Nat /\ Len(todo) >= 1 /\ DOMAIN todo = 1 .. Len(todo)
      /\ Tail(todo) \in Seq(Table) /\ Len(Tail(todo)) = Len(todo) - 1
      /\ \A i \in 1 .. Len(todo) - 1 : Tail(todo)[i] = todo[i + 1]
      /\ Head(todo) = todo[1] /\ Head(todo) \in Table
  OBVIOUS
<1>2. DOMAIN Tail(todo) = 1 .. Len(todo) - 1
  BY <1>1
<1>3. \A x \in ToSet(todo) : x \in {Head(todo)} \cup ToSet(Tail(todo))
  <2>1. ASSUME NEW i \in 1 .. Len(todo), i # 1 PROVE todo[i] \in ToSet(Tail(todo))
    <3>1. i - 1 \in 1 .. Len(todo) - 1 /\ (i - 1) + 1 = i
      BY <1>1, <2>1
    <3> QED
      BY <1>1, <1>2, <3>1 DEF ToSet
  <2> QED
    BY <1>1, <2>1 DEF ToSet
<1>4. \A x \in {Head(todo)} \cup ToSet(Tail(todo)) : x \in ToSet(todo)
  BY <1>1, <1>2 DEF ToSet
<1> QED
  BY <1>1, <1>3, <1>4 DEF t1

\* A step that deletes: its arguments, and that the plan is one of deletion.
LEMMA CleanupInWork ==
  ASSUME IInv, NEW s \in CLEANUP_STEPS, At(s)
  PROVE  /\ exit = "running" /\ todo # <<>> /\ t1 \in Table
         /\ run # NULL
         /\ run.due \in 0 .. now /\ run.args.retention \in Nat
         /\ older_than \in Int
         /\ older_than = run.due - run.args.retention
         /\ older_than + LongestWrite <= now
         /\ s \in steps /\ steps \subseteq CLEANUP_STEPS
         /\ plan # NULL => DeletionFits(t1)
<1> USE DEF IInv
<1>1. exit = "running" /\ todo # <<>> /\ IsFirst(s)
  BY DEF At
<1>2. t1 \in Table
  BY <1>1, FirstOfTodo DEF TypeOK
<1>3. steps \subseteq ToSet(STEP_ORDER)
  BY DEF TypeOK
<1>4. s \in steps /\ steps \subseteq CLEANUP_STEPS
  BY <1>1, <1>3, FirstSteps DEF CLEANUP_STEPS
<1>5. s \in run.args.steps
  BY <1>1, <1>4 DEF StepsFit, StepsLeft, StepsFor
<1>6. run # NULL /\ older_than = run.due - run.args.retention /\ older_than + LongestWrite <= now
  BY <1>1, <1>5, CutoffIsPast
<1>7. run.due \in 0 .. now /\ run.args.retention \in Nat
  BY <1>5, <1>6, RunArguments
<1>8. "rewrite_data_files" \notin steps
  BY <1>4 DEF CLEANUP_STEPS
<1>9. plan # NULL => DeletionFits(t1)
  BY <1>3, <1>8, FirstSteps DEF PlanFits, RewriteFits
<1> QED
  BY <1>1, <1>2, <1>4, <1>6, <1>7, <1>9 DEF TypeOK

\* What is deleted is in no snapshot, and not of a write in progress.
LEMMA DeletedIsUnused ==
  ASSUME IInv, DeleteFiles
  PROVE  /\ DeletionFits(t1)
         /\ t1 \in Table
         /\ plan.drops \cap Referenced(t1) = {}
         /\ write # NULL /\ write.table = t1 => plan.drops \cap write.adds = {}
         /\ storage' \in [Table -> SUBSET File]
         /\ \A t \in Table : storage'[t] \subseteq storage[t]
         /\ \A t \in Table : storage[t] \ storage'[t] \subseteq plan.drops
         /\ \A t \in Table \ {t1} : storage'[t] = storage[t]
<1> USE DEF IInv
<1>1. PICK s \in CLEANUP_STEPS : At(s)
  BY DEF DeleteFiles
<1>2. plan # NULL
  BY DEF DeleteFiles
<1>3. /\ DeletionFits(t1) /\ t1 \in Table
      /\ older_than \in Int /\ older_than + LongestWrite <= now
  BY <1>1, <1>2, CleanupInWork
<1>4. plan.drops \cap Referenced(t1) = {}
  BY <1>3 DEF DeletionFits
<1>5. ASSUME write # NULL, write.table = t1 PROVE plan.drops \cap write.adds = {}
  <2>1. ASSUME NEW f \in write.adds, f \in plan.drops PROVE FALSE
    <3>1. f \in storage[t1]
      BY <1>5 DEF TypeOK
    <3>2. storage[t1] \in SUBSET File
      BY <1>3 DEF TypeOK
    <3>3. f.created \in Nat
      BY <3>1, <3>2 DEF File
    <3>4. f.created < older_than
      BY <1>3, <2>1 DEF DeletionFits
    <3>5. now <= f.created + LongestWrite
      BY <1>3, <1>5, <2>1 DEF WriteFits
    <3>6. now \in Nat /\ LongestWrite \in Nat
      BY MaintenanceAssumption DEF TypeOK
    <3> QED
      BY <1>3, <3>3, <3>4, <3>5, <3>6
  <2> QED
    BY <2>1
<1>6. storage \in [Table -> SUBSET File]
  BY DEF TypeOK
<1>7. \/ storage' = storage
      \/ \E f \in plan.drops : storage' = [storage EXCEPT ![t1] = @ \ {f}]
  BY DEF DeleteFiles
<1> QED
  BY <1>3, <1>4, <1>5, <1>6, <1>7

----------------------------------------------------------------------------
(* Types *)

\* Sequences over a set are sequences over a larger one.
LEMMA SeqOfMore ==
  ASSUME NEW S, NEW T, S \subseteq T
  PROVE  Seq(S) \subseteq Seq(T)
OBVIOUS

\* The types of an attempt, which Proceed sets to the next tables.
LEMMA ProceedTypes ==
  ASSUME TypeOK, run # NULL, NEW tables \in Seq(Table), Proceed(tables)
  PROVE  todo' \in Seq(Table) /\ steps' \subseteq ToSet(STEP_ORDER)
BY RunArguments DEF Proceed, StepsFor

\* Files are added to a table.
LEMMA AddedFiles ==
  ASSUME TypeOK, NEW t \in Table, NEW fs \in SUBSET File, AddFiles(t, fs)
  PROVE  /\ storage' \in [Table -> SUBSET File]
         /\ storage'[t] = storage[t] \cup fs
         /\ \A u \in Table \ {t} : storage'[u] = storage[u]
         /\ \A u \in Table : storage[u] \subseteq storage'[u]
<1>1. storage \in [Table -> SUBSET File]
  BY DEF TypeOK
<1> QED
  BY <1>1 DEF AddFiles

\* What is live in the current snapshot is one file.
LEMMA OneIsLive ==
  ASSUME TypeOK, SnapshotsFit, NEW t \in Table
  PROVE  \E f \in LastOf(t).files :
           /\ f \in File /\ f \in storage[t] /\ IsData(f)
           /\ f.row \in Nat /\ f.row <= Written
           /\ LiveIn(LastOf(t).files) = {f}
<1>1. /\ LastOf(t) = snapshots[t][Len(snapshots[t])]
      /\ Len(snapshots[t]) \in DOMAIN snapshots[t]
  BY CurrentSnapshot
<1>2. PICK f \in LastOf(t).files : LiveIn(LastOf(t).files) = {f} /\ f.row <= Written
  BY <1>1 DEF SnapshotsFit
<1>3. f \in storage[t] /\ storage[t] \in SUBSET File
  BY <1>1 DEF SnapshotsFit, TypeOK
<1>4. IsData(f)
  BY <1>2 DEF LiveIn
<1> QED
  BY <1>2, <1>3, <1>4 DEF File, IsData

\* What a merge writes.
LEMMA BegunWrite ==
  ASSUME IInv, NEW t \in Table, BeginWrite(t)
  PROVE  \E old \in LastOf(t).files, row \in File, d \in File :
           /\ LiveIn(LastOf(t).files) = {old} /\ IsData(old) /\ old.id \in Nat
           /\ row = Data(files + 1, writes + 1, now)
           /\ d = Delete(files + 2, old.id, now)
           /\ write'.table = t /\ write'.needs = {old}
           /\ \/ /\ t \in MOR_TABLES /\ write'.adds = {row, d} /\ write'.drops = {}
              \/ /\ t \notin MOR_TABLES /\ write'.adds = {row} /\ write'.drops = {old}
           /\ AddFiles(t, write'.adds)
<1> USE DEF IInv
<1>1. PICK old \in LastOf(t).files :
        old \in File /\ IsData(old) /\ LiveIn(LastOf(t).files) = {old}
  BY OneIsLive
<1> DEFINE row == Data(files + 1, writes + 1, now)
           d == Delete(files + 2, old.id, now)
<1>2. /\ row \in File /\ d \in File /\ old.id \in Nat
  BY <1>1, MaintenanceAssumption DEF TypeOK, File, Data, Delete
<1>3. {Delete(files + 2, f.id, now) : f \in LiveIn(LastOf(t).files)} = {d}
  BY <1>1
<1> HIDE DEF row, d
<1>4. \/ /\ t \in MOR_TABLES
         /\ write' = [table |-> t, adds |-> {row, d}, needs |-> {old}, drops |-> {}]
         /\ AddFiles(t, {row, d})
      \/ /\ t \notin MOR_TABLES
         /\ write' = [table |-> t, adds |-> {row}, needs |-> {old}, drops |-> {old}]
         /\ AddFiles(t, {row})
  <2>1. {row} \cup {d} = {row, d}
    OBVIOUS
  <2> QED
    BY <1>1, <1>3, <2>1 DEF BeginWrite, row, d
<1>5. /\ write'.table = t /\ write'.needs = {old}
      /\ \/ t \in MOR_TABLES /\ write'.adds = {row, d} /\ write'.drops = {}
         \/ t \notin MOR_TABLES /\ write'.adds = {row} /\ write'.drops = {old}
      /\ AddFiles(t, write'.adds)
  BY <1>4
<1>6. row = Data(files + 1, writes + 1, now) /\ d = Delete(files + 2, old.id, now)
  BY DEF row, d
<1>7. LiveIn(LastOf(t).files) = {old} /\ IsData(old)
  BY <1>1
<1> USE <1>2
<1> WITNESS old \in LastOf(t).files, row \in File, d \in File
<1> QED
  BY <1>5, <1>6, <1>7

\* What a rewrite writes: a file with the row that is live, if it takes up its file.
LEMMA BegunRewrite ==
  ASSUME IInv, RewriteDataFiles, ~ UNCHANGED table
  PROVE  /\ t1 \in Table
         /\ \E live \in Current, old \in SUBSET Current, adds \in SUBSET File :
              /\ LiveIn(Current) = {live} /\ \A f \in old : IsData(f)
              /\ plan' = [adds |-> adds, drops |-> old, base |-> Current]
              /\ \/ live \in old /\ adds = {Data(files + 1, live.row, now)}
                 \/ live \notin old /\ adds = {}
              /\ Data(files + 1, live.row, now) \in File
              /\ AddFiles(t1, adds)
              /\ files' = files + 1
              /\ UNCHANGED <<snapshots, steps>>
<1> USE DEF IInv
<1>1. t1 \in Table
  BY FirstOfTodo DEF TypeOK, RewriteDataFiles, At
<1>2. PICK t \in Table : t = t1
  BY <1>1
<1>3. PICK live \in Current : LiveIn(Current) = {live} /\ live \in File /\ live.row \in Nat
  BY <1>2, OneIsLive DEF Current
<1> DEFINE new == Data(files + 1, live.row, now)
<1>4. new \in File
  BY <1>3, MaintenanceAssumption DEF TypeOK, File, Data
<1>5. PICK old \in Chosen("rewrite_data_files", {f \in Current : IsData(f)}) :
        LET adds == {Data(files + 1, f.row, now) : f \in LiveIn(Current) \cap old}
        IN  /\ plan' = [adds |-> adds, drops |-> old, base |-> Current]
            /\ AddFiles(t1, adds)
            /\ files' = files + 1
            /\ UNCHANGED <<snapshots, steps>>
  BY DEF RewriteDataFiles, Unchanged
<1>6. old \in SUBSET Current /\ \A f \in old : IsData(f)
  BY <1>5 DEF Chosen
<1> DEFINE adds == {Data(files + 1, f.row, now) : f \in LiveIn(Current) \cap old}
<1>7. \/ live \in old /\ adds = {new}
      \/ live \notin old /\ adds = {}
  BY <1>3
<1>8. adds \in SUBSET File
  BY <1>4, <1>7
<1> HIDE DEF adds
<1> USE <1>6, <1>8
<1> SUFFICES \E l \in Current, o \in SUBSET Current, a \in SUBSET File :
              /\ LiveIn(Current) = {l} /\ \A f \in o : IsData(f)
              /\ plan' = [adds |-> a, drops |-> o, base |-> Current]
              /\ \/ l \in o /\ a = {Data(files + 1, l.row, now)}
                 \/ l \notin o /\ a = {}
              /\ Data(files + 1, l.row, now) \in File
              /\ AddFiles(t1, a)
              /\ files' = files + 1
              /\ UNCHANGED <<snapshots, steps>>
  BY <1>1
<1> WITNESS live \in Current, old \in SUBSET Current, adds \in SUBSET File
<1> QED
  BY <1>3, <1>4, <1>5, <1>7 DEF adds

\* A commit of a snapshot of files that are there.
LEMMA CommitTypes ==
  ASSUME TypeOK, NEW t \in Table, NEW fs \in SUBSET File, Commit(t, fs), now' = now
  PROVE  snapshots' \in [Table -> Seq([time : 0 .. now', files : SUBSET File]) \ {<<>>}]
BY CommitAppends, Zenon DEF SnapshotType

\* What the steps that commit have to know of the current files.
LEMMA CurrentFiles ==
  ASSUME TypeOK, NEW t \in Table
  PROVE  LastOf(t).files \in SUBSET File
BY CurrentSnapshot

\* Steps of the clock and of the job.
LEMMA JobTypes ==
  ASSUME IInv, Tick \/ (\E t \in Table : BeginWrite(t)) \/ EndWrite \/ AbandonWrite
  PROVE  TypeOK'
<1> USE DEF IInv
<1> DEFINE Snapshots == [Table -> Seq([time : 0 .. now, files : SUBSET File]) \ {<<>>}]
<1>1. CASE Tick
  <2>1. 0 .. now \subseteq 0 .. now' /\ now' \in 0 .. MaxTime
    BY <1>1, MaintenanceAssumption DEF Tick, TypeOK
  <2>2. [time : 0 .. now, files : SUBSET File] \subseteq [time : 0 .. now', files : SUBSET File]
    BY <2>1
  <2>3. \A q : q \in Seq([time : 0 .. now, files : SUBSET File]) =>
                 q \in Seq([time : 0 .. now', files : SUBSET File])
    BY <2>2, SeqOfMore, Zenon
  <2>4. snapshots' \in Snapshots'
    BY <1>1, <2>3 DEF Tick, table, TypeOK
  <2>5. run' # NULL => run'.args \in Invocations /\ run'.due \in 0 .. now'
    BY <1>1, <2>1 DEF Tick, TypeOK
  <2> HIDE DEF Snapshots
  <2> QED
    BY <1>1, <2>1, <2>4, <2>5 DEF Tick, TypeOK, table, job, attempt, Snapshots
<1>2. ASSUME NEW t \in Table, BeginWrite(t) PROVE TypeOK'
  <2>1. /\ write'.table = t /\ write'.adds \in SUBSET File /\ AddFiles(t, write'.adds)
    <3>1. PICK old \in LastOf(t).files, row \in File, d \in File :
            /\ write'.table = t /\ AddFiles(t, write'.adds)
            /\ write'.adds = {row, d} \/ write'.adds = {row}
      BY <1>2, BegunWrite
    <3> QED
      BY <3>1
  <2>2. /\ storage' \in [Table -> SUBSET File]
        /\ write'.adds \subseteq storage'[write'.table]
    BY <2>1, AddedFiles
  <2>3. snapshots' \in Snapshots'
    BY <1>2 DEF BeginWrite, TypeOK
  <2>4. files' \in Nat /\ writes' \in 0 .. MaxWrites
    BY <1>2, MaintenanceAssumption DEF BeginWrite, TypeOK
  <2> HIDE DEF Snapshots
  <2> QED
    BY <1>2, <2>1, <2>2, <2>3, <2>4 DEF BeginWrite, TypeOK, attempt, Snapshots
<1>3. CASE EndWrite
  <2> DEFINE fs == (LastOf(write.table).files \ write.drops) \cup write.adds
  <2>1. write.table \in Table /\ Commit(write.table, fs) /\ now' = now
    BY <1>3 DEF EndWrite, TypeOK
  <2>2. fs \in SUBSET File
    BY <1>3, <2>1, CurrentFiles DEF EndWrite, TypeOK
  <2> HIDE DEF fs
  <2>3. snapshots' \in Snapshots'
    BY <2>1, <2>2, CommitTypes
  <2> HIDE DEF Snapshots
  <2> QED
    BY <1>3, <2>3 DEF EndWrite, TypeOK, attempt, Snapshots
<1>4. CASE AbandonWrite
  <2>1. snapshots' \in Snapshots'
    BY <1>4 DEF AbandonWrite, table, TypeOK
  <2> HIDE DEF Snapshots
  <2> QED
    BY <1>4, <2>1 DEF AbandonWrite, TypeOK, table, attempt, Snapshots
<1> QED
  BY <1>1, <1>2, <1>3, <1>4

AttemptStep == Create \/ Begin \/ FinishTable \/ StepRaises \/ End \/ Die

\* What begins, goes on with and ends a run leaves the tables and the job alone.
LEMMA AttemptLeaves ==
  ASSUME AttemptStep
  PROVE  /\ UNCHANGED <<now, storage, snapshots, files, write, writes>>
         /\ plan' = plan \/ plan' = NULL
BY DEF AttemptStep, Create, Begin, FinishTable, StepRaises, End, Die, Proceed, table, job

\* What attempts do outside of the steps leaves the variables well-formed.
LEMMA AttemptTypes ==
  ASSUME IInv, AttemptStep
  PROVE  TypeOK'
<1> USE DEF IInv
<1>1. UNCHANGED <<now, storage, snapshots, files, write, writes>>
  BY AttemptLeaves
<1> DEFINE Tables ==
      /\ now \in 0 .. MaxTime
      /\ storage \in [Table -> SUBSET File]
      /\ snapshots \in [Table -> Seq([time : 0 .. now, files : SUBSET File]) \ {<<>>}]
      /\ files \in Nat
      /\ write # NULL => write.table \in Table /\ write.adds \subseteq storage[write.table]
      /\ writes \in 0 .. MaxWrites
<1>2. Tables'
  BY <1>1 DEF TypeOK
<1>3. /\ now \in Nat
      /\ run # NULL => run.args \in Invocations /\ run.due \in 0 .. now
      /\ run # NULL => run.args.retries \in Nat
  <2>1. now \in Nat
    BY MaintenanceAssumption DEF TypeOK
  <2>2. run # NULL => run.args.retries \in Nat
    BY RunArguments
  <2> QED
    BY <2>1, <2>2 DEF TypeOK
<1> HIDE DEF Tables
<1>4. CASE Create
  <2>1. run'.args \in Invocations /\ run'.due \in 0 .. now /\ now' = now
    BY <1>1, <1>3, <1>4 DEF Create
  <2>2. run'.args.retries \in Nat /\ attempts' = 0
    BY <1>4, <2>1, MaintenanceAssumption DEF Create, Invocation
  <2>3. runs' \in 0 .. MaxRuns
    BY <1>4, MaintenanceAssumption DEF Create, TypeOK
  <2>4. run' # NULL => run'.args \in Invocations /\ run'.due \in 0 .. now'
    BY <2>1
  <2>5. attempts' \in Nat /\ (run' # NULL => attempts' <= run'.args.retries + 1)
    BY <2>2
  <2>6. exit' \in {"none", "running", "success", "error", "died"}
    BY <1>4 DEF Create
  <2>7. UNCHANGED <<older_than, todo, steps, failed>>
    BY <1>4 DEF Create
  <2> QED
    BY <1>2, <2>3, <2>4, <2>5, <2>6, <2>7 DEF TypeOK, Tables
<1>5. CASE Begin
  <2>1. run # NULL /\ run.args.tables \in Seq(Table)
    BY <1>5, RunArguments DEF Begin
  <2>2. todo' \in Seq(Table) /\ steps' \subseteq ToSet(STEP_ORDER)
    BY <1>5, <2>1, ProceedTypes DEF Begin
  <2>3. older_than' \in Int
    <3>1. run.args.retention = NULL \/ run.args.retention \in Nat
      BY <2>1, RunArguments
    <3> QED
      BY <1>3, <1>5, <2>1, <3>1 DEF Begin, Cutoff, as_of
  <2>4. attempts' \in Nat /\ attempts' <= run.args.retries + 1
    BY <1>3, <1>5, <2>1 DEF Begin, MayRetry, TypeOK, AttemptFits
  <2> QED
    BY <1>2, <1>5, <2>2, <2>3, <2>4 DEF TypeOK, Begin, Tables
<1>6. CASE FinishTable
  <2>1. run # NULL /\ Tail(todo) \in Seq(Table)
    BY <1>6, FirstOfTodo DEF FinishTable, TypeOK, AttemptFits
  <2>2. todo' \in Seq(Table) /\ steps' \subseteq ToSet(STEP_ORDER)
    BY <1>6, <2>1, ProceedTypes DEF FinishTable
  <2> QED
    BY <1>2, <1>6, <2>2 DEF TypeOK, FinishTable, Tables
<1>7. CASE StepRaises
  <2>1. run # NULL /\ Tail(todo) \in Seq(Table) /\ t1 \in Table
    BY <1>7, FirstOfTodo DEF StepRaises, TypeOK, AttemptFits
  <2>2. todo' \in Seq(Table) /\ steps' \subseteq ToSet(STEP_ORDER)
    BY <1>7, <2>1, ProceedTypes DEF StepRaises, AfterFailure
  <2> QED
    BY <1>2, <1>7, <2>1, <2>2 DEF TypeOK, StepRaises, t1, Tables
<1>8. CASE End
  BY <1>2, <1>8 DEF TypeOK, End, Tables
<1>9. CASE Die
  BY <1>2, <1>9 DEF TypeOK, Die, Tables
<1> QED
  BY <1>4, <1>5, <1>6, <1>7, <1>8, <1>9 DEF AttemptStep

----------------------------------------------------------------------------
(* What the steps do to the table in work *)

\* What FilesFit and SnapshotsFit say of the files of a snapshot.
LEMMA FilesOfSnapshot ==
  ASSUME IInv, NEW t \in Table, NEW f \in Referenced(t)
  PROVE  /\ f \in storage[t] /\ f \in File
         /\ f.created <= now
         /\ IsData(f) => f.row <= Written
<1> USE DEF IInv
<1>1. PICK i \in DOMAIN snapshots[t] : f \in snapshots[t][i].files
  BY DEF Referenced
<1>2. f \in storage[t] /\ (IsData(f) => f.row <= Written)
  BY <1>1 DEF SnapshotsFit
<1>3. storage[t] \in SUBSET File
  BY DEF TypeOK
<1> QED
  BY <1>2, <1>3 DEF FilesFit

\* On storage, each file is a row or the deletion of one.
LEMMA StoredAreOneKind ==
  ASSUME IInv, NEW t \in Table
  PROVE  OneKind(storage[t]) /\ OneKind(LastOf(t).files) /\ LastOf(t).files \subseteq storage[t]
<1> USE DEF IInv
<1>1. OneKind(storage[t])
  BY DEF FilesFit, OneKind
<1>2. LastOf(t).files \subseteq storage[t]
  BY CurrentSnapshot, FilesOfSnapshot
<1> QED
  BY <1>1, <1>2 DEF OneKind

RewriteCommit == CommitDataFiles \/ RewritePositionDeleteFiles \/ RewriteManifests

\* Every rewrite commits a snapshot of files that are there, with the same row live.
LEMMA RewritesKeepTheRow ==
  ASSUME IInv, RewriteCommit
  PROVE  /\ t1 \in Table
         /\ UNCHANGED <<now, storage, files, write, writes>>
         /\ \/ snapshots' = snapshots
            \/ \E fs \in SUBSET storage[t1], live \in Current : \E g \in fs :
                 /\ Commit(t1, fs)
                 /\ LiveIn(Current) = {live} /\ LiveIn(fs) = {g} /\ g.row = live.row
                 /\ g.row <= Written
                 /\ \A f \in fs : f.created <= now /\ (IsData(f) => f.row <= Written)
                 /\ write # NULL /\ write.table = t1 => fs \cap write.adds = {}
<1> USE DEF IInv
<1>1. t1 \in Table
  BY FirstOfTodo DEF TypeOK, RewriteCommit, CommitDataFiles, RewritePositionDeleteFiles,
                     RewriteManifests, At
<1>2. UNCHANGED <<now, storage, files, write, writes>>
  BY DEF RewriteCommit, CommitDataFiles, RewritePositionDeleteFiles, RewriteManifests,
         Unchanged, job
<1>3. PICK t \in Table : t = t1
  BY <1>1
<1>4. PICK live \in Current :
        /\ LiveIn(Current) = {live} /\ live \in File /\ IsData(live)
        /\ live.row \in Nat /\ live.row <= Written
  BY <1>3, OneIsLive DEF Current
<1>5. /\ Current \in SUBSET File /\ OneKind(Current)
      /\ Current \subseteq storage[t1] /\ Current \subseteq Referenced(t1)
  BY <1>3, StoredAreOneKind, CurrentFiles, CurrentSnapshot DEF Current
<1>6. \A f \in Current : f.created <= now /\ (IsData(f) => f.row <= Written)
  BY <1>3, <1>5, FilesOfSnapshot
<1>10. write # NULL /\ write.table = t1 => Current \cap write.adds = {}
  BY <1>1, <1>5 DEF WriteFits
<1> SUFFICES ASSUME snapshots' # snapshots
             PROVE  \E fs \in SUBSET storage[t1] : \E g \in fs :
                      /\ Commit(t1, fs)
                      /\ LiveIn(fs) = {g} /\ g.row = live.row
                      /\ \A f \in fs : f.created <= now /\ (IsData(f) => f.row <= Written)
                      /\ write # NULL /\ write.table = t1 => fs \cap write.adds = {}
  BY <1>1, <1>2, <1>4
<1>7. CASE CommitDataFiles
  <2> DEFINE fs == (Current \ plan.drops) \cup plan.adds
  <2>1. /\ plan # NULL /\ plan.drops \subseteq Current /\ Commit(t1, fs)
        /\ \A d \in Current \ plan.base : \A f \in plan.drops : d.deletes # f.id
        /\ IsFirst("rewrite_data_files")
    BY <1>7 DEF CommitDataFiles, At
  <2>2. RewriteFits(t1)
    <3>1. steps \subseteq ToSet(STEP_ORDER)
      BY DEF TypeOK
    <3>2. "rewrite_data_files" \in steps
      BY <2>1, <3>1, FirstSteps
    <3>3. ~ IsFirst("expire_snapshots") /\ ~ IsFirst("remove_orphan_files")
      BY <3>1, <3>2, FirstSteps DEF CLEANUP_STEPS
    <3> QED
      BY <2>1, <3>3 DEF PlanFits, DeletionFits
  <2>3. storage[t1] \in SUBSET File /\ OneKind(storage[t1])
    BY <1>3, StoredAreOneKind DEF TypeOK
  <2>4. /\ plan.adds \in SUBSET File /\ OneKind(plan.adds) /\ plan.adds \cap Current = {}
        /\ plan.base \in SUBSET File /\ OneKind(plan.base)
        /\ plan.drops \in SUBSET plan.base
        /\ plan.adds \subseteq storage[t1]
    BY <1>5, <2>2, <2>3 DEF RewriteFits, OneKind
  <2>5. /\ \A g \in plan.adds : IsData(g) /\ \A d \in Current : d.deletes # g.id
        /\ \A d \in plan.base : IsData(d) \/ d \in Current
        /\ \A g \in plan.drops : IsData(g)
    BY <1>5, <2>2 DEF RewriteFits, Current
  <2>6. Rewrites(plan.base, plan.drops, plan.adds, Current)
    BY <1>5, <2>1, <2>2, <2>4, <2>5 DEF Rewrites, RewriteFits
  <2>7. /\ \E g \in fs : LiveIn(fs) = {g} /\ g.row = live.row
        /\ \A g \in plan.adds : g.row = live.row
    <3>1. LiveIn(Current) = {live}
      BY <1>4
    <3>2. KeepsRow(fs, plan.adds, live)
      BY <2>6, <3>1, LiveAfterRewrite, Zenon
    <3> QED
      BY <3>2 DEF KeepsRow
  <2>8. fs \in SUBSET storage[t1]
    BY <1>5, <2>4
  <2>9. \A g \in fs : g.created <= now /\ (IsData(g) => g.row <= Written)
    BY <1>3, <1>4, <1>6, <2>4, <2>7 DEF FilesFit
  <2>10. write # NULL /\ write.table = t1 => fs \cap write.adds = {}
    BY <1>10, <2>2 DEF RewriteFits
  <2> QED
    BY <2>1, <2>7, <2>8, <2>9, <2>10
<1>8. CASE RewritePositionDeleteFiles
  <2>1. PICK old \in Chosen("rewrite_position_delete_files", Dangling(Current)) : Commit(t1, Current \ old)
    BY <1>8 DEF RewritePositionDeleteFiles
  <2>2. old \in SUBSET Dangling(Current)
    BY DEF Chosen
  <2>3. LiveIn(Current \ old) = {live} /\ live \in Current \ old
    BY <1>4, <2>2, LiveWithoutDangling DEF LiveIn
  <2> QED
    <3> DEFINE fs == Current \ old
    <3>1. fs \in SUBSET storage[t1] /\ live \in fs /\ LiveIn(fs) = {live} /\ Commit(t1, fs)
      BY <1>5, <2>1, <2>3
    <3>2. \A f \in fs : f.created <= now /\ (IsData(f) => f.row <= Written)
      BY <1>6
    <3>3. write # NULL /\ write.table = t1 => fs \cap write.adds = {}
      BY <1>10
    <3> HIDE DEF fs
    <3> QED
      BY <3>1, <3>2, <3>3
<1>9. CASE RewriteManifests
  BY <1>4, <1>5, <1>6, <1>9, <1>10 DEF RewriteManifests
<1> QED
  BY <1>7, <1>8, <1>9 DEF RewriteCommit

\* A merge that commits makes its row the one that lives, and leaves no delete file
\* without its data file if there was none.
LEMMA MergeSetsTheRow ==
  ASSUME IInv, EndWrite
  PROVE  /\ write # NULL /\ write.table \in Table /\ write' = NULL
         /\ UNCHANGED <<now, storage, files, writes>>
         /\ \E fs \in SUBSET storage[write.table] : \E row \in fs :
              /\ Commit(write.table, fs)
              /\ LiveIn(fs) = {row} /\ row.row = writes
              /\ \A f \in fs : f.created <= now /\ (IsData(f) => f.row <= writes)
              /\ Dangling(LastOf(write.table).files) = {} => Dangling(fs) = {}
         /\ \A f \in Referenced(write.table) : IsData(f) => f.row < writes
<1> USE DEF IInv
<1>1. write # NULL /\ write.table \in Table /\ write' = NULL
  BY DEF EndWrite, TypeOK
<1>2. UNCHANGED <<now, storage, files, writes>>
  BY DEF EndWrite
<1>3. PICK t \in Table : t = write.table
  BY <1>1
<1> DEFINE old == LastOf(t).files
           fs == (old \ write.drops) \cup write.adds
<1>4. Commit(t, fs) /\ write.needs \subseteq LiveIn(old)
  BY <1>3 DEF EndWrite
<1>5. /\ old \in SUBSET File /\ old \subseteq storage[t] /\ OneKind(storage[t])
      /\ old \subseteq Referenced(t) /\ storage[t] \in SUBSET File
  BY CurrentFiles, CurrentSnapshot, StoredAreOneKind DEF TypeOK
<1>6. PICK live \in old : LiveIn(old) = {live} /\ IsData(live) /\ live \in File
  BY OneIsLive
<1>7. write.adds \subseteq storage[t] /\ write.adds \cap Referenced(t) = {}
  BY <1>1, <1>3 DEF WriteFits
<1>8. PICK row \in write.adds, o \in write.needs :
        /\ IsData(row) /\ row.row = writes
        /\ write.needs = {o}
        /\ \A d \in storage[t] : d.deletes # row.id
        /\ \/ /\ t \in MOR_TABLES /\ write.drops = {}
              /\ \E d \in write.adds : d.deletes = o.id /\ write.adds = {row, d}
           \/ /\ t \notin MOR_TABLES /\ write.drops = {o}
              /\ write.adds = {row}
  BY <1>1, <1>3 DEF WriteFits
<1>9. o = live
  BY <1>4, <1>6, <1>8
<1>10. row \in File /\ row \notin old
  BY <1>5, <1>7, <1>8
<1>11. live.id # row.id
  BY <1>3, <1>5, <1>6, <1>7, <1>10 DEF FilesFit
<1>12. \A f \in Referenced(t) : f.created <= now /\ (IsData(f) => f.row < writes)
  <2>1. ASSUME NEW f \in Referenced(t) PROVE f.created <= now /\ (IsData(f) => f.row < writes)
    <3>1. f \in File /\ f.created <= now /\ (IsData(f) => f.row <= Written)
      BY FilesOfSnapshot
    <3>2. Written = writes - 1 /\ writes \in Nat
      BY <1>1, MaintenanceAssumption DEF Written, TypeOK
    <3> QED
      BY <3>1, <3>2 DEF File, IsData
  <2> QED
    BY <2>1
<1>13. fs \in SUBSET storage[t]
  BY <1>5, <1>7
<1>14. \A f \in write.adds : f.created <= now /\ (IsData(f) => f.row <= writes)
  <2>1. writes \in Nat
    BY MaintenanceAssumption DEF TypeOK
  <2>2. \A f \in write.adds : f.created <= now
    BY <1>7 DEF FilesFit
  <2>3. \A f \in write.adds : f = row \/ ~ IsData(f)
    <3>1. ASSUME NEW f \in write.adds, f # row PROVE ~ IsData(f)
      <4>1. f.deletes = live.id /\ live.id \in Nat
        BY <1>6, <1>8, <1>9, <3>1 DEF File
      <4> QED
        BY <1>5, <1>7, <4>1, MaintenanceAssumption DEF OneKind, IsData
    <3> QED
      BY <3>1
  <2> QED
    BY <1>8, <2>1, <2>2, <2>3
<1>15. \A f \in fs : f.created <= now /\ (IsData(f) => f.row <= writes)
  <2>1. \A f \in old : f.created <= now /\ (IsData(f) => f.row <= writes)
    BY <1>5, <1>12, MaintenanceAssumption DEF TypeOK, File, IsData
  <2> QED
    BY <1>14, <2>1
<1>16. LiveIn(fs) = {row} /\ (Dangling(old) = {} => Dangling(fs) = {})
  <2>1. CASE t \in MOR_TABLES
    <3>1. PICK d \in write.adds : d.deletes = live.id /\ write.adds = {row, d}
      BY <1>8, <1>9, <2>1
    <3>2. fs = old \cup {row, d} /\ d \in File
      BY <1>5, <1>7, <1>8, <2>1, <3>1
    <3>3. OneKind(old \cup {row, d}) /\ \A f \in old : f.deletes # row.id
      BY <1>5, <1>7, <1>8, <3>1 DEF OneKind
    <3> HIDE DEF fs, old
    <3>4. LiveIn(fs) = {row}
      BY <1>5, <1>6, <1>8, <1>10, <1>11, <3>1, <3>2, <3>3, LiveAfterDelete
    <3>5. ASSUME Dangling(old) = {} PROVE Dangling(fs) = {}
      <4>1. ASSUME NEW e \in fs, ~IsData(e) PROVE \E f \in fs : IsData(f) /\ e.deletes = f.id
        <5>1. CASE e \in old
          BY <3>2, <3>5, <4>1, <5>1 DEF Dangling
        <5>2. CASE e = d
          BY <1>6, <3>1, <3>2, <5>2
        <5> QED
          BY <1>8, <3>2, <4>1, <5>1, <5>2
      <4> QED
        BY <4>1 DEF Dangling
    <3> QED
      BY <3>4, <3>5
  <2>2. CASE t \notin MOR_TABLES
    <3>1. fs = (old \ {live}) \cup {row}
      BY <1>8, <1>9, <2>2
    <3>2. OneKind(old \cup {row}) /\ \A f \in old : f.deletes # row.id
      BY <1>5, <1>7, <1>8 DEF OneKind
    <3>3. \A f \in fs : IsData(f)
      BY <1>13, <2>2 DEF FilesFit, IsData
    <3> HIDE DEF fs, old
    <3>4. LiveIn(fs) = {row}
      <4>1. old \in SUBSET File /\ LiveIn(old) = {live} /\ row \in File /\ IsData(row)
        BY <1>5, <1>6, <1>8, <1>10
      <4> HIDE DEF IInv
      <4>2. LiveIn((old \ {live}) \cup {row}) = {row}
        BY <3>2, <4>1, LiveAfterCopy, SMT
      <4> QED
        BY <3>1, <4>2
    <3> QED
      BY <3>3, <3>4 DEF Dangling
  <2> QED
    BY <2>1, <2>2
<1>17. row \in fs
  BY <1>8
<1> HIDE DEF fs
<1>18. \E f \in SUBSET storage[t] : \E r \in f :
         /\ Commit(t, f)
         /\ LiveIn(f) = {r} /\ r.row = writes
         /\ \A g \in f : g.created <= now /\ (IsData(g) => g.row <= writes)
         /\ Dangling(LastOf(t).files) = {} => Dangling(f) = {}
  BY <1>4, <1>8, <1>13, <1>15, <1>16, <1>17
<1> QED
  BY <1>1, <1>2, <1>3, <1>12, <1>18

\* Steps leave the clock, the job, and what the attempt has decided before alone.
LEMMA StepLeaves ==
  ASSUME Step
  PROVE  /\ UNCHANGED <<now, write, writes, run, attempts, older_than, todo, failed, exit, runs>>
         /\ steps' \subseteq steps
         /\ exit = "running" /\ todo # <<>>
<1>1. UNCHANGED <<now, write, writes, run, attempts, older_than, todo, failed, exit, runs>>
  BY DEF Step, RewriteDataFiles, CommitDataFiles, RewritePositionDeleteFiles,
         RewriteManifests, ExpireSnapshots, RemoveOrphanFiles, DeleteFiles, Unchanged, job
<1>2. steps' \subseteq steps
  BY DEF Step, RewriteDataFiles, CommitDataFiles, RewritePositionDeleteFiles,
         RewriteManifests, ExpireSnapshots, RemoveOrphanFiles, DeleteFiles, EndStep
<1>3. exit = "running" /\ todo # <<>>
  BY DEF Step, RewriteDataFiles, CommitDataFiles, RewritePositionDeleteFiles,
         RewriteManifests, ExpireSnapshots, RemoveOrphanFiles, DeleteFiles, At
<1> QED
  BY <1>1, <1>2, <1>3

\* What a step does to the tables: it commits the same row, drops old snapshots, adds a
\* file, or deletes files that nothing needs.
LEMMA StepOnTables ==
  ASSUME Step
  PROVE  \/ RewriteCommit
         \/ /\ ExpireSnapshots /\ snapshots' = [snapshots EXCEPT ![t1] = Retained]
            /\ UNCHANGED <<storage, files>>
         \/ RewriteDataFiles /\ ~ UNCHANGED table
         \/ DeleteFiles /\ UNCHANGED <<snapshots, files>>
         \/ (RewriteDataFiles \/ RemoveOrphanFiles) /\ UNCHANGED <<snapshots, storage, files>>
BY DEF Step, RewriteCommit, ExpireSnapshots, DeleteFiles, RemoveOrphanFiles, table

\* The steps leave the variables well-formed.
LEMMA StepTypes ==
  ASSUME IInv, Step
  PROVE  TypeOK'
<1> USE DEF IInv
<1>1. /\ UNCHANGED <<now, write, writes, run, attempts, older_than, todo, failed, exit, runs>>
      /\ steps' \subseteq steps
      /\ t1 \in Table
  BY StepLeaves, FirstOfTodo DEF TypeOK
<1> DEFINE Tables ==
      /\ storage \in [Table -> SUBSET File]
      /\ snapshots \in [Table -> Seq([time : 0 .. now, files : SUBSET File]) \ {<<>>}]
      /\ files \in Nat
      /\ write # NULL => write.adds \subseteq storage[write.table]
<1>2. Tables
  BY DEF TypeOK
<1>3. storage \in [Table -> SUBSET File]
  BY DEF TypeOK
<1>4. ASSUME UNCHANGED <<snapshots, storage, files>> PROVE Tables'
  BY <1>1, <1>2, <1>4
<1>5. ASSUME RewriteCommit PROVE Tables'
  <2>1. UNCHANGED <<now, storage, files>>
    BY <1>5, RewritesKeepTheRow
  <2>2. ASSUME NEW fs \in SUBSET storage[t1], Commit(t1, fs) PROVE Tables'
    <3>1. fs \in SUBSET File
      BY <1>1, <1>3
    <3>2. snapshots' \in [Table -> Seq([time : 0 .. now', files : SUBSET File]) \ {<<>>}]
      <4>1. PICK t \in Table : t = t1
        BY <1>1
      <4>2. Commit(t, fs)
        BY <2>2, <4>1
      <4> QED
        BY <2>1, <3>1, <4>2, CommitTypes
    <3> QED
      BY <1>1, <1>2, <2>1, <3>2
  <2> HIDE DEF Tables
  <2>3. snapshots' = snapshots => Tables'
    BY <1>4, <2>1
  <2> QED
    BY <1>5, <2>2, <2>3, RewritesKeepTheRow
<1>6. ASSUME ExpireSnapshots, snapshots' = [snapshots EXCEPT ![t1] = Retained],
             UNCHANGED <<storage, files>>
      PROVE  Tables'
  <2>1. PICK t \in Table : t = t1
    BY <1>1
  <2>2. snapshots' \in [Table -> Seq(SnapshotType) \ {<<>>}]
    BY <1>6, <2>1, ExpireKeepsSuffix
  <2>3. snapshots' \in [Table -> Seq([time : 0 .. now', files : SUBSET File]) \ {<<>>}]
    BY <1>1, <2>2, Zenon DEF SnapshotType
  <2> QED
    BY <1>1, <1>2, <1>6, <2>3
<1>7. ASSUME RewriteDataFiles, ~ UNCHANGED table PROVE Tables'
  <2>1. PICK fs \in SUBSET File : AddFiles(t1, fs) /\ files' = files + 1 /\ snapshots' = snapshots
    BY <1>7, BegunRewrite
  <2>2. PICK t \in Table : t = t1
    BY <1>1
  <2>3. storage' \in [Table -> SUBSET File] /\ \A u \in Table : storage[u] \subseteq storage'[u]
    BY <2>1, <2>2, AddedFiles
  <2>4. write # NULL => write.table \in Table
    BY DEF TypeOK
  <2>5. snapshots' \in [Table -> Seq([time : 0 .. now', files : SUBSET File]) \ {<<>>}]
    BY <1>1, <1>2, <2>1
  <2>6. write' # NULL => write'.adds \subseteq storage'[write'.table]
    BY <1>1, <1>2, <2>3, <2>4
  <2>7. files' \in Nat
    BY <1>2, <2>1
  <2> QED
    BY <2>3, <2>5, <2>6, <2>7
<1>8. ASSUME DeleteFiles, UNCHANGED <<snapshots, files>> PROVE Tables'
  <2>1. /\ storage' \in [Table -> SUBSET File]
        /\ write # NULL /\ write.table = t1 => plan.drops \cap write.adds = {}
        /\ \A t \in Table : storage[t] \ storage'[t] \subseteq plan.drops
        /\ \A t \in Table \ {t1} : storage'[t] = storage[t]
    BY <1>8, DeletedIsUnused
  <2>2. write # NULL => write.table \in Table /\ write.adds \subseteq storage[write.table]
    BY DEF TypeOK
  <2>3. write # NULL => write.adds \subseteq storage'[write.table]
    BY <2>1, <2>2
  <2> QED
    BY <1>1, <1>2, <1>8, <2>1, <2>3
<1> HIDE DEF Tables
<1>9. Tables'
  BY <1>4, <1>5, <1>6, <1>7, <1>8, StepOnTables
<1> QED
  BY <1>1, <1>9 DEF TypeOK, Tables

----------------------------------------------------------------------------
(* Files *)

\* Files that are new to a table, with numbers that no file had.
LEMMA NewFilesFit ==
  ASSUME TypeOK, FilesFit, NEW t \in Table, NEW fs \in SUBSET File, AddFiles(t, fs),
         now' = now, files' \in Nat, files <= files',
         \A f \in fs :
           /\ files < f.id /\ f.id <= files' /\ f.created <= now
           /\ f.row = NULL <=> f.deletes # NULL
           /\ f.deletes # NULL => t \in MOR_TABLES /\ f.deletes <= files,
         \A f, g \in fs : f.id = g.id => f = g
  PROVE  FilesFit'
<1>1. /\ storage' \in [Table -> SUBSET File]
      /\ storage'[t] = storage[t] \cup fs
      /\ \A u \in Table \ {t} : storage'[u] = storage[u]
  BY AddedFiles
<1>2. files \in Nat /\ \A u \in Table : \A f \in storage[u] : f \in File
  BY DEF TypeOK
<1>3. \A u \in Table : \A f \in storage'[u] : f \in storage[u] \/ (u = t /\ f \in fs)
  BY <1>1
<1>4. ASSUME NEW u \in Table, NEW f \in storage'[u]
      PROVE  /\ f.id <= files' /\ f.created <= now'
             /\ f.row = NULL <=> f.deletes # NULL
             /\ f.deletes # NULL => u \in MOR_TABLES /\ f.deletes <= files'
  <2>1. CASE f \in storage[u]
    <3>1. f.id \in Nat /\ f.deletes \in Nat \cup {NULL}
      BY <1>2, <2>1 DEF File
    <3>2. /\ f.id <= files /\ f.created <= now
          /\ f.row = NULL <=> f.deletes # NULL
          /\ f.deletes # NULL => u \in MOR_TABLES /\ f.deletes <= files
      BY <2>1 DEF FilesFit
    <3> QED
      BY <1>2, <3>1, <3>2
  <2>2. CASE u = t /\ f \in fs
    <3>1. f.deletes \in Nat \cup {NULL}
      BY <2>2 DEF File
    <3> QED
      BY <1>2, <2>2, <3>1
  <2> QED
    BY <1>3, <2>1, <2>2
<1>5. ASSUME NEW u \in Table, NEW f \in storage'[u], NEW g \in storage'[u], f.id = g.id
      PROVE  f = g
  <2>1. f.id \in Nat
    BY <1>2, <1>3 DEF File
  <2>2. \A h \in storage[u] : h.id <= files
    BY DEF FilesFit
  <2>3. CASE f \in storage[u] /\ g \in storage[u]
    BY <1>5, <2>3 DEF FilesFit
  <2>4. CASE f \in fs /\ g \in fs
    BY <1>5, <2>4
  <2>5. CASE f \in storage[u] /\ g \in fs
    BY <1>2, <1>5, <2>1, <2>2, <2>5
  <2>6. CASE f \in fs /\ g \in storage[u]
    BY <1>2, <1>5, <2>1, <2>2, <2>6
  <2> QED
    BY <1>3, <2>3, <2>4, <2>5, <2>6
<1> QED
  BY <1>4, <1>5 DEF FilesFit

\* Deleting files disturbs none of the others.
LEMMA FewerFilesFit ==
  ASSUME TypeOK, FilesFit, \A t \in Table : storage'[t] \subseteq storage[t],
         now' \in Nat, now <= now', files' = files
  PROVE  FilesFit'
<1>1. ASSUME NEW t \in Table, NEW f \in storage'[t]
      PROVE  f.created <= now'
  <2>1. f \in storage[t] /\ f \in File
    BY DEF TypeOK
  <2>2. f.created \in Nat /\ f.created <= now /\ now \in Nat
    BY <2>1, MaintenanceAssumption DEF File, FilesFit, TypeOK
  <2> QED
    BY <2>2
<1> QED
  BY <1>1 DEF FilesFit

\* A step of a maintenance attempt or of the job, or of time.
LEMMA StepOfNext ==
  ASSUME [Next]_vars
  PROVE  \/ Tick
         \/ \E t \in Table : BeginWrite(t)
         \/ EndWrite
         \/ AbandonWrite
         \/ AttemptStep
         \/ Step
         \/ UNCHANGED vars
BY DEF Next, AttemptStep

\* Files keep their numbers and kinds, whatever is written and deleted.
LEMMA FilesStayFit ==
  ASSUME IInv, [Next]_vars
  PROVE  FilesFit'
<1>0. TypeOK /\ FilesFit /\ now \in Nat /\ files \in Nat
  <2>1. TypeOK /\ FilesFit
    BY DEF IInv
  <2> QED
    BY <2>1, Numbers
<1>1. ASSUME storage' = storage, files' = files, now' = now \/ now' = now + 1 PROVE FilesFit'
  BY <1>0, <1>1, FewerFilesFit
<1>2. ASSUME NEW t \in Table, BeginWrite(t) PROVE FilesFit'
  <2>1. PICK old \in LastOf(t).files, row \in File, d \in File :
          /\ old.id \in Nat /\ LiveIn(LastOf(t).files) = {old}
          /\ row = Data(files + 1, writes + 1, now)
          /\ d = Delete(files + 2, old.id, now)
          /\ \/ t \in MOR_TABLES /\ write'.adds = {row, d}
             \/ t \notin MOR_TABLES /\ write'.adds = {row}
          /\ AddFiles(t, write'.adds)
    BY <1>2, BegunWrite
  <2>2. old \in storage[t] /\ old.id <= files
    BY <1>0, CurrentSnapshot, FilesOfSnapshot DEF FilesFit
  <2>3. /\ row.id = files + 1 /\ row.created = now /\ row.row = writes + 1 /\ row.deletes = NULL
        /\ d.id = files + 2 /\ d.created = now /\ d.row = NULL /\ d.deletes = old.id
    BY <2>1 DEF Data, Delete
  <2>4. NULL \notin Nat /\ writes + 1 \in Nat /\ files' = files + 2 /\ now' = now
    BY <1>2, MaintenanceAssumption DEF BeginWrite, IInv, TypeOK
  <2>5. \A f \in write'.adds :
          /\ f \in File
          /\ files < f.id /\ f.id <= files' /\ f.created <= now
          /\ f.row = NULL <=> f.deletes # NULL
          /\ f.deletes # NULL => t \in MOR_TABLES /\ f.deletes <= files
    BY <1>0, <2>1, <2>2, <2>3, <2>4
  <2>6. \A f, g \in write'.adds : f.id = g.id => f = g
    BY <1>0, <2>1, <2>3
  <2> HIDE DEF IInv
  <2>7. write'.adds \in SUBSET File /\ files' \in Nat /\ files <= files'
    BY <1>0, <2>4, <2>5
  <2> QED
    BY <1>0, <2>1, <2>4, <2>5, <2>6, <2>7, NewFilesFit
<1>3. ASSUME RewriteDataFiles, ~ UNCHANGED table PROVE FilesFit'
  <2>1. PICK live \in Current, adds \in SUBSET File :
          /\ adds = {Data(files + 1, live.row, now)} \/ adds = {}
          /\ LiveIn(Current) = {live}
          /\ AddFiles(t1, adds) /\ files' = files + 1
    BY <1>3, BegunRewrite
  <2>2. live.row # NULL /\ now' = now
    BY <1>3, <2>1 DEF LiveIn, IsData, RewriteDataFiles, Unchanged
  <2>3. \A f \in adds : f.id = files + 1 /\ f.created = now /\ f.row # NULL /\ f.deletes = NULL
    BY <2>1, <2>2 DEF Data
  <2>4. \A f, g \in adds : f = g
    BY <2>1
  <2>5. PICK t \in Table : t = t1
    BY <1>3, BegunRewrite
  <2>6. /\ AddFiles(t, adds) /\ files' \in Nat /\ files <= files'
        /\ \A f \in adds :
             /\ files < f.id /\ f.id <= files' /\ f.created <= now
             /\ f.row = NULL <=> f.deletes # NULL
             /\ f.deletes # NULL => t \in MOR_TABLES /\ f.deletes <= files
    BY <1>0, <2>1, <2>3, <2>5
  <2> QED
    BY <1>0, <2>2, <2>4, <2>6, NewFilesFit
<1>4. ASSUME DeleteFiles PROVE FilesFit'
  <2>1. \A t \in Table : storage'[t] \subseteq storage[t]
    BY <1>4, DeletedIsUnused
  <2>2. files' = files /\ now' = now
    BY <1>4 DEF DeleteFiles, Unchanged
  <2> QED
    BY <1>0, <2>1, <2>2, FewerFilesFit
<1>5. CASE Step
  <2>1. now' = now
    BY <1>5, StepLeaves
  <2>2. RewriteCommit => UNCHANGED <<storage, files>>
    BY RewritesKeepTheRow
  <2> QED
    BY <1>1, <1>3, <1>4, <1>5, <2>1, <2>2, StepOnTables
<1>6. CASE AttemptStep
  BY <1>1, <1>6, AttemptLeaves
<1>7. CASE Tick \/ EndWrite \/ AbandonWrite \/ UNCHANGED vars
  BY <1>1, <1>7 DEF Tick, EndWrite, AbandonWrite, vars, table
<1> QED
  BY <1>2, <1>5, <1>6, <1>7, StepOfNext

----------------------------------------------------------------------------
(* Snapshots of the next state *)

\* What SnapshotsFit says of one snapshot; w is the highest row it can have.
Fits(s, stored, w) ==
  /\ s.files \subseteq stored
  /\ \E f \in s.files : LiveIn(s.files) = {f} /\ f.row <= w
  /\ \A f \in s.files : f.created <= s.time /\ (IsData(f) => f.row <= w)

\* SnapshotsFit, one snapshot at a time.
LEMMA SnapshotsFitEach ==
  SnapshotsFit <=>
    \A t \in Table :
      /\ \A i \in DOMAIN snapshots[t] : Fits(snapshots[t][i], storage[t], Written)
      /\ \A i, j \in DOMAIN snapshots[t] :
           i <= j => snapshots[t][i].time <= snapshots[t][j].time
BY DEF SnapshotsFit, Fits

\* A snapshot goes on to fit while files are added, deleted elsewhere, or rows written.
LEMMA FitsStill ==
  ASSUME NEW s, NEW stored, NEW w \in Int, Fits(s, stored, w), s.files \in SUBSET File,
         NEW more, s.files \subseteq more, NEW v \in Int, w <= v
  PROVE  Fits(s, more, v)
<1>1. PICK f \in s.files : LiveIn(s.files) = {f} /\ f.row <= w
  BY DEF Fits
<1>2. IsData(f) /\ f.row \in Nat
  BY <1>1 DEF LiveIn, IsData, File
<1>3. \A g \in s.files : IsData(g) => g.row \in Nat /\ g.row <= v
  BY DEF Fits, File, IsData
<1> QED
  BY <1>1, <1>2, <1>3 DEF Fits

\* Snapshots stay whole as long as their files are there.
LEMMA SameSnapshotsFit ==
  ASSUME IInv, snapshots' = snapshots,
         \A t \in Table : Referenced(t) \subseteq storage'[t],
         Written' \in Int, Written <= Written'
  PROVE  SnapshotsFit'
<1>1. TypeOK /\ SnapshotsFit /\ Written \in Int
  BY Numbers DEF IInv
<1>2. ASSUME NEW t \in Table, NEW i \in DOMAIN snapshots[t]
      PROVE  Fits(snapshots[t][i], storage'[t], Written')
  <2>1. snapshots[t][i].files \in SUBSET File /\ snapshots[t][i].files \subseteq storage'[t]
    BY <1>1, CurrentSnapshot
  <2>2. Fits(snapshots[t][i], storage[t], Written)
    BY <1>1, SnapshotsFitEach
  <2> QED
    BY <1>1, <2>1, <2>2, FitsStill
<1> QED
  BY <1>1, <1>2 DEF SnapshotsFit, Fits

\* A commit of files on storage with one live row leaves all snapshots whole.
LEMMA CommittedSnapshotFits ==
  ASSUME IInv, NEW t \in Table, NEW fs \in SUBSET storage[t], Commit(t, fs),
         now' = now, storage' = storage, Written' \in Int, Written <= Written',
         NEW g \in fs, LiveIn(fs) = {g}, g.row <= Written',
         \A f \in fs : f.created <= now /\ (IsData(f) => f.row <= Written')
  PROVE  SnapshotsFit'
<1> DEFINE n == Len(snapshots[t])
           x == [time |-> now, files |-> fs]
<1>1. TypeOK /\ SnapshotsFit /\ Written \in Int /\ now \in Nat
  BY Numbers DEF IInv
<1>2. fs \in SUBSET File
  BY <1>1 DEF TypeOK
<1>3. /\ \A u \in Table \ {t} : snapshots'[u] = snapshots[u]
      /\ DOMAIN snapshots'[t] = 1 .. n + 1
      /\ \A i \in DOMAIN snapshots[t] : snapshots'[t][i] = snapshots[t][i]
      /\ snapshots'[t][n + 1] = x
  BY <1>1, <1>2, CommitAppends
<1>4. DOMAIN snapshots[t] = 1 .. n /\ n \in Nat
  BY <1>1, CurrentSnapshot
<1>5. \A u \in Table : \A i \in DOMAIN snapshots[u] :
        /\ Fits(snapshots[u][i], storage'[u], Written')
        /\ snapshots[u][i].time \in 0 .. now
  <2>1. ASSUME NEW u \in Table, NEW i \in DOMAIN snapshots[u]
        PROVE  /\ Fits(snapshots[u][i], storage'[u], Written')
               /\ snapshots[u][i].time \in 0 .. now
    <3>1. snapshots[u][i].files \in SUBSET File /\ snapshots[u][i].time \in 0 .. now
      BY <1>1, CurrentSnapshot
    <3>2. Fits(snapshots[u][i], storage[u], Written)
      BY <1>1, SnapshotsFitEach
    <3>3. snapshots[u][i].files \subseteq storage'[u]
      BY <3>2 DEF Fits
    <3> QED
      BY <1>1, <3>1, <3>2, <3>3, FitsStill
  <2> QED
    BY <2>1
<1>6. Fits(x, storage'[t], Written')
  BY DEF Fits
<1> HIDE DEF n
<1>7. \A u \in Table : \A i \in DOMAIN snapshots'[u] :
        /\ Fits(snapshots'[u][i], storage'[u], Written')
        /\ \/ i \in DOMAIN snapshots[u] /\ snapshots'[u][i] = snapshots[u][i]
           \/ u = t /\ i = n + 1
  <2>1. \A i \in 1 .. n + 1 : i \in 1 .. n \/ i = n + 1
    BY <1>4
  <2> QED
    BY <1>3, <1>4, <1>5, <1>6, <2>1
<1>8. ASSUME NEW u \in Table, NEW i \in DOMAIN snapshots'[u], NEW j \in DOMAIN snapshots'[u],
             i <= j
      PROVE  snapshots'[u][i].time <= snapshots'[u][j].time
  <2>1. \A k \in DOMAIN snapshots'[u] : snapshots'[u][k].time \in 0 .. now
    BY <1>1, <1>3, <1>5, <1>7
  <2>2. CASE u = t /\ j = n + 1
    BY <1>1, <1>3, <2>1, <2>2
  <2>3. CASE ~ (u = t /\ j = n + 1)
    <3>1. j \in DOMAIN snapshots[u] /\ snapshots'[u][j] = snapshots[u][j]
      BY <1>7, <2>3
    <3>2. ~ (u = t /\ i = n + 1)
      BY <1>3, <1>4, <1>8, <2>3
    <3>3. i \in DOMAIN snapshots[u] /\ snapshots'[u][i] = snapshots[u][i]
      BY <1>7, <3>2
    <3> QED
      BY <1>1, <1>8, <3>1, <3>3 DEF SnapshotsFit
  <2> QED
    BY <2>2, <2>3
<1> QED
  BY <1>7, <1>8 DEF SnapshotsFit, Fits

\* Every snapshot stays whole: what is deleted is in none of them.
LEMMA SnapshotsStayFit ==
  ASSUME IInv, [Next]_vars
  PROVE  SnapshotsFit'
<1>0. /\ TypeOK /\ SnapshotsFit /\ now \in Nat /\ writes \in Nat
      /\ Written \in Int /\ Written <= writes
  BY Numbers DEF IInv
<1>1. \A t \in Table : Referenced(t) \subseteq storage[t]
  BY FilesOfSnapshot
<1>2. ASSUME snapshots' = snapshots, storage' = storage, UNCHANGED <<write, writes>>
      PROVE  SnapshotsFit'
  <2>1. Written' = Written
    BY <1>2 DEF Written
  <2> QED
    BY <1>0, <1>1, <1>2, <2>1, SameSnapshotsFit
<1>3. ASSUME NEW t \in Table, BeginWrite(t) PROVE SnapshotsFit'
  <2>1. Written' \in Int /\ Written <= Written'
    BY <1>0, <1>3 DEF BeginWrite, Written
  <2>2. PICK old \in LastOf(t).files, row \in File, d \in File :
          (write'.adds = {row, d} \/ write'.adds = {row}) /\ AddFiles(t, write'.adds)
    BY <1>3, BegunWrite
  <2>3. \A u \in Table : storage[u] \subseteq storage'[u]
    BY <1>0, <2>2, AddedFiles
  <2>4. snapshots' = snapshots
    BY <1>3 DEF BeginWrite
  <2> QED
    BY <1>1, <2>1, <2>3, <2>4, SameSnapshotsFit
<1>4. CASE EndWrite
  <2>1. PICK t \in Table : t = write.table
    BY <1>4, MergeSetsTheRow
  <2>2. PICK fs \in SUBSET storage[t] : \E row \in fs :
          /\ Commit(t, fs) /\ LiveIn(fs) = {row} /\ row.row = writes
          /\ \A f \in fs : f.created <= now /\ (IsData(f) => f.row <= writes)
    BY <1>4, <2>1, MergeSetsTheRow
  <2>3. UNCHANGED <<now, storage>> /\ Written' = writes
    BY <1>4, MergeSetsTheRow DEF Written
  <2> QED
    BY <1>0, <2>2, <2>3, CommittedSnapshotFits
<1>5. CASE AbandonWrite
  <2>1. UNCHANGED <<storage, snapshots>> /\ Written' = writes
    BY <1>5 DEF AbandonWrite, Written, table
  <2> QED
    BY <1>0, <1>1, <2>1, SameSnapshotsFit
<1>6. CASE Step
  <2>1. UNCHANGED <<now, write, writes>> /\ Written' = Written
    BY <1>6, StepLeaves DEF Written
  <2>2. CASE RewriteCommit
    <3>1. UNCHANGED storage /\ t1 \in Table
      BY <2>2, RewritesKeepTheRow
    <3>2. PICK t \in Table : t = t1
      BY <3>1
    <3>3. ASSUME snapshots' # snapshots PROVE SnapshotsFit'
      <4>1. PICK fs \in SUBSET storage[t] : \E g \in fs :
              /\ Commit(t, fs) /\ LiveIn(fs) = {g} /\ g.row <= Written
              /\ \A f \in fs : f.created <= now /\ (IsData(f) => f.row <= Written)
        BY <2>2, <3>2, <3>3, RewritesKeepTheRow
      <4> QED
        BY <1>0, <2>1, <3>1, <4>1, CommittedSnapshotFits
    <3> QED
      BY <1>2, <2>1, <3>1, <3>3
  <2>3. ASSUME ExpireSnapshots, snapshots' = [snapshots EXCEPT ![t1] = Retained],
               UNCHANGED storage
        PROVE  SnapshotsFit'
    <3>1. PICK t \in Table : t = t1
      BY <2>3, FirstOfTodo, <1>0 DEF ExpireSnapshots, At, TypeOK
    <3>2. PICK k \in DOMAIN snapshots[t] :
            /\ \A u \in Table \ {t} : snapshots'[u] = snapshots[u]
            /\ \A i \in DOMAIN snapshots'[t] :
                 /\ k + i - 1 \in DOMAIN snapshots[t]
                 /\ snapshots'[t][i] = snapshots[t][k + i - 1]
            /\ DOMAIN snapshots'[t] = 1 .. Len(snapshots[t]) - k + 1
      BY <1>0, <2>3, <3>1, ExpireKeepsSuffix
    <3>3. ASSUME NEW u \in Table, NEW i \in DOMAIN snapshots'[u]
          PROVE  Fits(snapshots'[u][i], storage'[u], Written')
      BY <1>0, <2>1, <2>3, <3>2, <3>3, SnapshotsFitEach
    <3>4. ASSUME NEW u \in Table, NEW i \in DOMAIN snapshots'[u], NEW j \in DOMAIN snapshots'[u],
                 i <= j
          PROVE  snapshots'[u][i].time <= snapshots'[u][j].time
      <4>1. CASE u = t
        <5>1. /\ k \in Int /\ i \in Int /\ j \in Int
              /\ k + i - 1 \in DOMAIN snapshots[t] /\ k + j - 1 \in DOMAIN snapshots[t]
              /\ snapshots'[t][i] = snapshots[t][k + i - 1]
              /\ snapshots'[t][j] = snapshots[t][k + j - 1]
          <6>1. DOMAIN snapshots[t] = 1 .. Len(snapshots[t])
            BY <1>0, CurrentSnapshot
          <6>2. i \in DOMAIN snapshots'[t] /\ j \in DOMAIN snapshots'[t]
            BY <4>1
          <6>3. k \in Int /\ i \in Int /\ j \in Int
            BY <3>2, <6>1, <6>2
          <6> QED
            BY <3>2, <6>2, <6>3
        <5>2. k + i - 1 <= k + j - 1
          BY <3>4, <5>1
        <5> QED
          BY <1>0, <4>1, <5>1, <5>2 DEF SnapshotsFit
      <4>2. CASE u # t
        BY <1>0, <3>2, <3>4, <4>2 DEF SnapshotsFit
      <4> QED
        BY <4>1, <4>2
    <3> QED
      BY <3>3, <3>4 DEF SnapshotsFit, Fits
  <2>4. ASSUME RewriteDataFiles, ~ UNCHANGED table PROVE SnapshotsFit'
    <3>1. PICK adds \in SUBSET File : AddFiles(t1, adds) /\ snapshots' = snapshots
      BY <2>4, BegunRewrite
    <3>2. PICK t \in Table : t = t1
      BY <2>4, BegunRewrite
    <3>3. \A u \in Table : storage[u] \subseteq storage'[u]
      BY <1>0, <3>1, <3>2, AddedFiles
    <3> QED
      BY <1>0, <1>1, <2>1, <3>1, <3>3, SameSnapshotsFit
  <2>5. ASSUME DeleteFiles, UNCHANGED snapshots PROVE SnapshotsFit'
    <3>1. \A u \in Table : Referenced(u) \subseteq storage'[u]
      BY <1>1, <2>5, DeletedIsUnused
    <3> QED
      BY <1>0, <2>1, <2>5, <3>1, SameSnapshotsFit
  <2> QED
    BY <1>2, <1>6, <2>1, <2>2, <2>3, <2>4, <2>5, StepOnTables
<1>7. CASE AttemptStep
  BY <1>2, <1>7, AttemptLeaves
<1>8. CASE Tick \/ UNCHANGED vars
  BY <1>2, <1>8 DEF Tick, vars, table, job
<1> QED
  BY <1>3, <1>4, <1>5, <1>6, <1>7, <1>8, StepOfNext

----------------------------------------------------------------------------
(* The write in progress *)

\* The new file of a rewrite is no deletion and has a number that no file had.
LEMMA RewriteAdds ==
  ASSUME IInv, RewriteDataFiles, ~ UNCHANGED table
  PROVE  \E adds \in SUBSET File :
           /\ AddFiles(t1, adds) /\ plan'.adds = adds
           /\ \A f \in adds :
                f.id = files + 1 /\ f.created = now /\ IsData(f) /\ f.deletes = NULL
           /\ UNCHANGED <<snapshots, steps>> /\ files' = files + 1
<1>1. PICK live \in Current, old \in SUBSET Current, adds \in SUBSET File :
        /\ LiveIn(Current) = {live}
        /\ plan' = [adds |-> adds, drops |-> old, base |-> Current]
        /\ adds = {Data(files + 1, live.row, now)} \/ adds = {}
        /\ AddFiles(t1, adds)
        /\ UNCHANGED <<snapshots, steps>> /\ files' = files + 1
  BY BegunRewrite
<1>2. live.row # NULL
  BY <1>1 DEF LiveIn, IsData
<1>3. plan'.adds = adds
  BY <1>1
<1>4. \A f \in adds : f.id = files + 1 /\ f.created = now /\ IsData(f) /\ f.deletes = NULL
  BY <1>1, <1>2 DEF Data, IsData
<1> QED
  BY <1>1, <1>3, <1>4

\* No step makes a snapshot of the files of a write in progress.
LEMMA StepLeavesWrites ==
  ASSUME IInv, Step, NEW u \in Table, write # NULL, write.table = u
  PROVE  write.adds \cap Referenced(u)' = {}
<1>1. TypeOK
  BY DEF IInv
<1>3. UNCHANGED write /\ write.adds \cap Referenced(u) = {}
  BY StepLeaves DEF IInv, WriteFits
<1>4. snapshots'[u] = snapshots[u] => Referenced(u)' = Referenced(u)
  BY DEF Referenced
<1>5. CASE RewriteCommit
  <2>1. PICK t \in Table : t = t1
    BY <1>5, RewritesKeepTheRow
  <2>2. ASSUME snapshots' # snapshots PROVE write.adds \cap Referenced(u)' = {}
    <3>1. PICK fs \in SUBSET storage[t] :
            Commit(t, fs) /\ (write # NULL /\ write.table = t => fs \cap write.adds = {})
      BY <1>5, <2>1, <2>2, RewritesKeepTheRow
    <3>2. fs \in SUBSET File /\ now' = now
      BY <1>1, <1>5, RewritesKeepTheRow DEF TypeOK
    <3>3. /\ Referenced(t)' = Referenced(t) \cup fs
          /\ \A v \in Table \ {t} : snapshots'[v] = snapshots[v]
      BY <1>1, <3>1, <3>2, CommitAppends
    <3> QED
      BY <1>3, <1>4, <3>1, <3>3
  <2> QED
    BY <1>3, <1>4, <2>2
<1>6. ASSUME ExpireSnapshots, snapshots' = [snapshots EXCEPT ![t1] = Retained]
      PROVE  write.adds \cap Referenced(u)' = {}
  <2>1. PICK t \in Table : t = t1
    BY <1>1, <1>6, FirstOfTodo DEF ExpireSnapshots, At, TypeOK
  <2>2. /\ Referenced(t)' \subseteq Referenced(t)
        /\ \A v \in Table \ {t} : snapshots'[v] = snapshots[v]
    BY <1>6, <2>1, ExpireKeepsSuffix DEF IInv
  <2> QED
    BY <1>3, <1>4, <2>2
<1>7. ASSUME RewriteDataFiles, ~ UNCHANGED table PROVE snapshots'[u] = snapshots[u]
  BY <1>7, RewriteAdds
<1> QED
  BY <1>3, <1>4, <1>5, <1>6, <1>7, StepOnTables

\* Files that a step adds delete nothing.
LEMMA StepDeletesNothing ==
  ASSUME IInv, Step, NEW t \in Table, NEW d \in storage'[t]
  PROVE  d \in storage[t] \/ d.deletes = NULL
<1>1. CASE RewriteCommit
  BY <1>1, RewritesKeepTheRow
<1>2. ASSUME RewriteDataFiles, ~ UNCHANGED table PROVE d \in storage[t] \/ d.deletes = NULL
  <2>1. PICK adds \in SUBSET File : AddFiles(t1, adds) /\ \A f \in adds : f.deletes = NULL
    BY <1>2, RewriteAdds
  <2>2. PICK u \in Table : u = t1
    BY <1>2, BegunRewrite
  <2>3. storage'[u] = storage[u] \cup adds /\ \A v \in Table \ {u} : storage'[v] = storage[v]
    BY <2>1, <2>2, AddedFiles DEF IInv
  <2> QED
    BY <2>1, <2>3
<1>3. CASE DeleteFiles
  BY <1>3, DeletedIsUnused
<1> QED
  BY <1>1, <1>2, <1>3, StepOnTables

\* Nothing takes away or uses the files of a write in progress.
LEMMA WriteStaysFit ==
  ASSUME IInv, [Next]_vars, TypeOK'
  PROVE  WriteFits'
<1>0. /\ TypeOK /\ WriteFits /\ now \in Nat /\ files \in Nat /\ writes \in Nat
      /\ storage \in [Table -> SUBSET File]
  <2>1. TypeOK /\ WriteFits
    BY DEF IInv
  <2> QED
    BY <2>1, Numbers DEF TypeOK
<1>1. ASSUME UNCHANGED <<now, storage, snapshots, write, writes>> PROVE WriteFits'
  BY <1>0, <1>1 DEF WriteFits, Referenced
<1>2. CASE Tick
  <2>1. ASSUME write # NULL, NEW f \in write.adds PROVE now' <= f.created + LongestWrite
    <3>1. f \in storage[write.table] /\ write.table \in Table
      BY <1>0, <2>1 DEF TypeOK
    <3>2. f.created \in Nat
      BY <1>0, <3>1 DEF File
    <3>3. f.created \in Pending
      BY <2>1 DEF Pending
    <3>4. now < f.created + LongestWrite /\ now' = now + 1
      BY <1>2, <3>3 DEF Tick
    <3> QED
      BY <1>0, <3>2, <3>4, MaintenanceAssumption
  <2>2. UNCHANGED <<storage, snapshots, write, writes>>
    BY <1>2 DEF Tick, table, job
  <2>3. write # NULL => \A f \in write.adds : now' <= f.created + LongestWrite
    BY <2>1
  <2> QED
    BY <1>0, <2>2, <2>3 DEF WriteFits, Referenced
<1>3. ASSUME NEW t \in Table, BeginWrite(t) PROVE WriteFits'
  <2>1. PICK old \in LastOf(t).files, row \in File, d \in File :
          /\ IsData(old) /\ old.id \in Nat
          /\ row = Data(files + 1, writes + 1, now)
          /\ d = Delete(files + 2, old.id, now)
          /\ write'.table = t /\ write'.needs = {old}
          /\ \/ /\ t \in MOR_TABLES /\ write'.adds = {row, d} /\ write'.drops = {}
             \/ /\ t \notin MOR_TABLES /\ write'.adds = {row} /\ write'.drops = {old}
          /\ AddFiles(t, write'.adds)
    BY <1>3, BegunWrite
  <2>2. /\ row.id = files + 1 /\ row.created = now /\ row.row = writes + 1 /\ row.deletes = NULL
        /\ d.id = files + 2 /\ d.created = now /\ d.row = NULL /\ d.deletes = old.id
    BY <2>1 DEF Data, Delete
  <2>3. /\ UNCHANGED <<now, snapshots>> /\ writes' = writes + 1
        /\ NULL \notin Nat /\ LongestWrite \in Nat
    BY <1>3, MaintenanceAssumption DEF BeginWrite
  <2>4. \A f \in storage[t] :
          /\ f.id \in Nat /\ f.id <= files
          /\ f.deletes = NULL \/ (f.deletes \in Nat /\ f.deletes <= files)
    BY <1>0 DEF FilesFit, IInv, File
  <2>5. Referenced(t) \subseteq storage[t] /\ old \in storage[t]
    BY <1>0, CurrentSnapshot, FilesOfSnapshot
  <2>6. write'.adds \in SUBSET File /\ write'.adds \cap Referenced(t)' = {}
    <3>1. \A f \in write'.adds : f.id > files /\ f \in File
      BY <1>0, <2>1, <2>2
    <3>2. Referenced(t)' = Referenced(t)
      BY <2>3 DEF Referenced
    <3> QED
      BY <1>0, <2>4, <2>5, <3>1, <3>2
  <2>7. write'.adds \subseteq storage'[t] /\ storage'[t] = storage[t] \cup write'.adds
    BY <1>0, <2>1, <2>6, AddedFiles
  <2>8. \A f \in write'.adds : now <= f.created + LongestWrite
    BY <1>0, <2>1, <2>2, <2>3
  <2>9. \A e \in storage'[t] : e.deletes # row.id
    <3>1. \A e \in storage[t] : e.deletes # row.id
      BY <1>0, <2>2, <2>3, <2>4
    <3>2. row.deletes # row.id /\ d.deletes # row.id
      BY <1>0, <2>2, <2>3, <2>4, <2>5
    <3> QED
      BY <2>1, <2>7, <3>1, <3>2
  <2>10. IsData(row) /\ row.row = writes'
    BY <1>0, <2>2, <2>3 DEF IsData
  <2>11. /\ row \in write'.adds /\ old \in write'.needs
         /\ \/ /\ t \in MOR_TABLES /\ write'.drops = {}
               /\ \E e \in write'.adds : e.deletes = old.id /\ write'.adds = {row, e}
            \/ /\ t \notin MOR_TABLES /\ write'.drops = {old}
               /\ write'.adds = {row}
    BY <2>1, <2>2
  <2>12. write'.table = t /\ now' = now /\ write'.needs = {old} /\ IsData(old)
    BY <2>1, <2>3
  <2> QED
    BY <2>6, <2>7, <2>8, <2>9, <2>10, <2>11, <2>12 DEF WriteFits
<1>4. CASE EndWrite \/ AbandonWrite
  BY <1>4 DEF EndWrite, AbandonWrite, WriteFits
<1>5. CASE Step
  <2>1. UNCHANGED <<now, write, writes>>
    BY <1>5, StepLeaves
  <2>2. ASSUME NEW t \in Table, write # NULL, write.table = t
        PROVE  /\ write.adds \subseteq storage'[t]
               /\ write.adds \cap Referenced(t)' = {}
               /\ \A f \in write.adds : now <= f.created + LongestWrite
               /\ \E row \in write.adds, old \in write.needs :
                    /\ IsData(row) /\ row.row = writes
                    /\ IsData(old) /\ write.needs = {old}
                    /\ \A d \in storage'[t] : d.deletes # row.id
                    /\ \/ /\ t \in MOR_TABLES /\ write.drops = {}
                          /\ \E d \in write.adds : d.deletes = old.id /\ write.adds = {row, d}
                       \/ /\ t \notin MOR_TABLES /\ write.drops = {old}
                          /\ write.adds = {row}
    <3>1. write.adds \subseteq storage'[t] /\ storage[t] \in SUBSET File
      BY <1>0, <2>1, <2>2 DEF TypeOK
    <3>2. write.adds \cap Referenced(t)' = {}
      BY <1>5, <2>2, StepLeavesWrites
    <3>3. \A f \in write.adds : f \in File /\ now <= f.created + LongestWrite
      BY <1>0, <2>2, <3>1 DEF WriteFits
    <3>4. \A row \in write.adds :
            (\A d \in storage[t] : d.deletes # row.id) => \A d \in storage'[t] : d.deletes # row.id
      <4>1. ASSUME NEW row \in write.adds, NEW d \in storage'[t],
                   \A e \in storage[t] : e.deletes # row.id
            PROVE  d.deletes # row.id
        <5>1. row.id \in Nat /\ NULL \notin Nat
          BY <3>3, MaintenanceAssumption DEF File
        <5>2. d \in storage[t] \/ d.deletes = NULL
          BY <1>5, StepDeletesNothing
        <5> QED
          BY <4>1, <5>1, <5>2
      <4> QED
        BY <4>1
    <3> QED
      BY <1>0, <2>2, <3>1, <3>2, <3>3, <3>4 DEF WriteFits
  <2> QED
    BY <2>1, <2>2 DEF WriteFits
<1>6. CASE AttemptStep
  BY <1>1, <1>6, AttemptLeaves
<1>7. CASE UNCHANGED vars
  BY <1>1, <1>7 DEF vars, table, job
<1> QED
  BY <1>2, <1>3, <1>4, <1>5, <1>6, <1>7, StepOfNext

----------------------------------------------------------------------------
(* The plan *)

\* A plan that deletes has no file of a write in progress.
LEMMA DeletionIsOld ==
  ASSUME IInv, plan # NULL, DeletionFits(t1)
  PROVE  /\ older_than <= now
         /\ write # NULL /\ write.table = t1 => plan.drops \cap write.adds = {}
<1>1. exit = "running" /\ todo # <<>> /\ TypeOK /\ WriteFits
  BY DEF IInv, PlanFits
<1>2. PICK s \in CLEANUP_STEPS : At(s)
  BY <1>1 DEF DeletionFits, At, CLEANUP_STEPS
<1>3. t1 \in Table /\ older_than \in Int /\ older_than + LongestWrite <= now
  BY <1>2, CleanupInWork
<1>4. now \in Nat /\ LongestWrite \in Nat
  BY <1>1, Numbers, MaintenanceAssumption
<1>5. ASSUME write # NULL, write.table = t1, NEW f \in write.adds, f \in plan.drops
      PROVE  FALSE
  <2>1. f \in storage[t1] /\ storage[t1] \in SUBSET File
    BY <1>1, <1>3, <1>5 DEF TypeOK
  <2>2. f.created \in Nat
    BY <2>1 DEF File
  <2>3. f.created < older_than
    BY <1>5 DEF DeletionFits
  <2>4. now <= f.created + LongestWrite
    BY <1>1, <1>3, <1>5 DEF WriteFits
  <2> QED
    BY <1>3, <1>4, <2>2, <2>3, <2>4
<1> QED
  BY <1>3, <1>4, <1>5

\* The first step depends on the steps that are left only.
LEMMA FirstStill ==
  ASSUME steps' = steps, NEW s
  PROVE  IsFirst(s)' <=> IsFirst(s)
BY DEF IsFirst

\* What the job does leaves a plan as it is.
LEMMA JobLeavesPlans ==
  ASSUME IInv, plan # NULL, (\E t \in Table : BeginWrite(t)) \/ EndWrite \/ AbandonWrite
  PROVE  /\ UNCHANGED <<now, plan, run, todo, steps, exit, older_than, failed>>
         /\ t1 \in Table /\ t1' = t1
<1>1. UNCHANGED <<now, plan, run, todo, steps, exit, older_than, failed>>
  BY DEF BeginWrite, EndWrite, AbandonWrite, attempt
<1>2. todo # <<>> /\ TypeOK
  BY DEF IInv, PlanFits
<1> QED
  BY <1>1, <1>2, FirstOfTodo DEF TypeOK, t1

\* A commit is young.
LEMMA ExpiredAfterCommit ==
  ASSUME TypeOK, NEW t \in Table, NEW fs \in SUBSET File, Commit(t, fs), now' = now,
         older_than' = older_than, older_than <= now, Expired(t)
  PROVE  Expired(t)'
<1> DEFINE n == Len(snapshots[t])
<1>1. /\ DOMAIN snapshots'[t] = 1 .. n + 1
      /\ \A i \in DOMAIN snapshots[t] : snapshots'[t][i] = snapshots[t][i]
      /\ snapshots'[t][n + 1] = [time |-> now, files |-> fs]
  BY CommitAppends
<1>2. /\ DOMAIN snapshots[t] = 1 .. n /\ n \in Nat
      /\ now \in Nat /\ older_than \in Int
  BY CurrentSnapshot, Numbers
<1>3. snapshots'[t][n + 1].time = now
  BY <1>1
<1> HIDE DEF n
<1>4. ASSUME NEW i \in DOMAIN snapshots'[t], i > 1 PROVE snapshots'[t][i].time >= older_than
  <2>1. CASE i \in DOMAIN snapshots[t]
    BY <1>1, <1>4, <2>1 DEF Expired
  <2>2. CASE i = n + 1
    BY <1>2, <1>3, <2>2
  <2> QED
    BY <1>1, <1>2, <2>1, <2>2
<1> QED
  BY <1>4 DEF Expired

\* A merge begins beside a rewrite or a deletion.
LEMMA PlanFitsBesideWrite ==
  ASSUME IInv, plan # NULL, NEW u \in Table, BeginWrite(u)
  PROVE  RewriteFits(t1)' \/ DeletionFits(t1)'
<1>0. PICK t \in Table : t = t1 /\ t = t1'
  BY JobLeavesPlans
<1>1. /\ UNCHANGED <<now, plan, steps, older_than, snapshots>>
      /\ RewriteFits(t) \/ DeletionFits(t)
      /\ TypeOK /\ FilesFit
      /\ now \in Nat /\ files \in Nat /\ NULL \notin Nat
      /\ storage \in [Table -> SUBSET File]
  <2>1. TypeOK /\ FilesFit /\ PlanFits
    BY DEF IInv
  <2>2. now \in Nat /\ files \in Nat /\ NULL \notin Nat
    BY <2>1, Numbers, MaintenanceAssumption
  <2>3. UNCHANGED <<now, plan, steps, older_than, snapshots>>
    BY DEF BeginWrite, attempt
  <2> QED
    BY <1>0, <2>1, <2>2, <2>3 DEF PlanFits, TypeOK
<1>2. PICK old \in LastOf(u).files, row \in File, d \in File :
        /\ LiveIn(LastOf(u).files) = {old} /\ old.id \in Nat
        /\ row = Data(files + 1, writes + 1, now)
        /\ d = Delete(files + 2, old.id, now)
        /\ write'.table = u
        /\ write'.adds = {row, d} \/ write'.adds = {row}
        /\ AddFiles(u, write'.adds)
  BY BegunWrite
<1>3. /\ row.id = files + 1 /\ row.created = now /\ row.deletes = NULL
      /\ d.id = files + 2 /\ d.created = now /\ d.deletes = old.id
  BY <1>2 DEF Data, Delete
<1>4. /\ storage'[u] = storage[u] \cup write'.adds
      /\ \A v \in Table \ {u} : storage'[v] = storage[v]
  BY <1>1, <1>2, AddedFiles
<1>5. old \in Referenced(u) /\ old \in storage[u]
  BY <1>1, <1>2, CurrentSnapshot, FilesOfSnapshot
<1>6. Referenced(t)' = Referenced(t) /\ LastOf(t)' = LastOf(t)
  BY <1>1 DEF Referenced, LastOf
<1>7. \A f \in write'.adds : f.id > files /\ f.created = now /\ (f.deletes = NULL \/ f.deletes = old.id)
  BY <1>1, <1>2, <1>3
<1>8. \A f \in storage[t] : f.id \in Nat /\ f.id <= files
  BY <1>1 DEF FilesFit, File
<1>9. CASE RewriteFits(t)
  <2>1. /\ IsFirst("rewrite_data_files")' /\ plan.adds \subseteq storage'[t]
        /\ plan.adds \cap Referenced(t)' = {} /\ plan.base \subseteq storage'[t]
    BY <1>1, <1>4, <1>6, <1>9, FirstStill DEF RewriteFits
  <2>2. plan.adds \cap write'.adds = {}
    BY <1>1, <1>7, <1>8, <1>9 DEF RewriteFits
  <2>3. \A f \in plan.adds : \A e \in storage'[t] : e.deletes # f.id
    <3>1. ASSUME NEW f \in plan.adds, NEW e \in write'.adds, t = u PROVE e.deletes # f.id
      <4>1. f \in storage[t] /\ f \notin Referenced(t)
        BY <1>9 DEF RewriteFits
      <4>2. f # old /\ f.id # old.id
        BY <1>1, <1>5, <3>1, <4>1 DEF FilesFit
      <4> QED
        BY <1>1, <1>7, <1>8, <4>1, <4>2
    <3> QED
      BY <1>4, <1>9, <3>1 DEF RewriteFits
  <2> QED
    BY <1>0, <1>1, <1>6, <1>9, <2>1, <2>2, <2>3 DEF RewriteFits
<1>10. CASE DeletionFits(t)
  <2>1. older_than <= now
    BY <1>0, <1>10, DeletionIsOld
  <2>2. \A f \in storage'[t] : f \in storage[t] \/ f.created >= older_than
    BY <1>1, <1>4, <1>7, <2>1
  <2>3. Expired(t)' <=> Expired(t)
    BY <1>1 DEF Expired
  <2> QED
    BY <1>0, <1>1, <1>6, <1>10, <2>2, <2>3, FirstStill DEF DeletionFits
<1> QED
  BY <1>1, <1>9, <1>10

\* A merge ends beside a rewrite or a deletion.
LEMMA PlanFitsBesideCommit ==
  ASSUME IInv, plan # NULL, EndWrite
  PROVE  RewriteFits(t1)' \/ DeletionFits(t1)'
<1>0. PICK t \in Table : t = t1 /\ t = t1'
  BY JobLeavesPlans
<1>1. /\ UNCHANGED <<now, plan, steps, older_than, storage>> /\ write' = NULL
      /\ RewriteFits(t) \/ DeletionFits(t)
      /\ TypeOK /\ storage[t] \in SUBSET File /\ now \in Nat
      /\ FilesFit /\ WriteFits
  <2>1. TypeOK /\ FilesFit /\ WriteFits /\ PlanFits
    BY DEF IInv
  <2>2. UNCHANGED <<now, plan, steps, older_than, storage>> /\ write' = NULL
    BY DEF EndWrite, attempt
  <2> QED
    BY <1>0, <2>1, <2>2, Numbers DEF PlanFits, TypeOK
<1>2. PICK u \in Table : u = write.table
  BY MergeSetsTheRow
<1> DEFINE fs == (LastOf(u).files \ write.drops) \cup write.adds
<1>3. Commit(u, fs) /\ write.needs \subseteq LiveIn(LastOf(u).files) /\ write # NULL
  BY <1>2 DEF EndWrite
<1>4. fs \in SUBSET File /\ LastOf(u).files \subseteq Referenced(u)
  BY <1>1, <1>2, <1>3, CurrentFiles, CurrentSnapshot DEF TypeOK
<1> HIDE DEF fs
<1>5. /\ \A v \in Table \ {u} : snapshots'[v] = snapshots[v]
      /\ DOMAIN snapshots'[u] = 1 .. Len(snapshots[u]) + 1
      /\ \A i \in DOMAIN snapshots[u] : snapshots'[u][i] = snapshots[u][i]
      /\ snapshots'[u][Len(snapshots[u]) + 1] = [time |-> now, files |-> fs]
      /\ LastOf(u)' = [time |-> now, files |-> fs]
      /\ Referenced(u)' = Referenced(u) \cup fs
  BY <1>1, <1>3, <1>4, CommitAppends
<1>6. t # u => Referenced(t)' = Referenced(t) /\ LastOf(t)' = LastOf(t)
  BY <1>5 DEF Referenced, LastOf
<1>7. Referenced(t)' \subseteq Referenced(t) \cup (IF t = u THEN write.adds ELSE {})
  BY <1>4, <1>5, <1>6 DEF fs
<1>8. \A f \in write.drops : IsData(f)
  BY <1>1, <1>2, <1>3 DEF WriteFits, LiveIn
<1>9. CASE RewriteFits(t)
  <2>1. plan.adds \cap Referenced(t)' = {}
    BY <1>0, <1>2, <1>3, <1>7, <1>9 DEF RewriteFits
  <2>2. \A d \in plan.base : IsData(d) \/ d \in LastOf(t)'.files
    BY <1>5, <1>6, <1>8, <1>9 DEF RewriteFits, fs
  <2> QED
    BY <1>0, <1>1, <1>9, <2>1, <2>2, FirstStill DEF RewriteFits
<1>10. CASE DeletionFits(t)
  <2>1. older_than <= now /\ (t = u => plan.drops \cap write.adds = {})
    BY <1>0, <1>2, <1>3, <1>10, DeletionIsOld
  <2>2. plan.drops \cap Referenced(t)' = {}
    BY <1>7, <1>10, <2>1 DEF DeletionFits
  <2>3. Referenced(t) \subseteq Referenced(t)'
    BY <1>5, <1>6
  <2>4. Expired(t) => Expired(t)'
    <3>1. t = u => now' = now
      BY DEF EndWrite
    <3>2. t = u /\ Expired(t) => Expired(t)'
      BY <1>1, <1>3, <1>4, <2>1, <3>1, ExpiredAfterCommit
    <3>3. t # u /\ Expired(t) => Expired(t)'
      BY <1>1, <1>5 DEF Expired
    <3> QED
      BY <3>2, <3>3
  <2> QED
    BY <1>0, <1>1, <1>10, <2>2, <2>3, <2>4, FirstStill DEF DeletionFits
<1> QED
  BY <1>1, <1>9, <1>10

\* A rewrite that changes no table is over.
LEMMA NothingToRewrite ==
  ASSUME IInv, RewriteDataFiles, UNCHANGED table
  PROVE  EndStep("rewrite_data_files")
<1>1. files \in Nat /\ files' = files
  BY Numbers DEF IInv, table
<1>2. files' # files + 1
  BY <1>1
<1> QED
  BY <1>2 DEF RewriteDataFiles

\* The plan that a rewrite begins with.
LEMMA BegunPlanFits ==
  ASSUME IInv, RewriteDataFiles, ~ UNCHANGED table
  PROVE  plan' \in PlanType /\ RewriteFits(t1)'
<1>0. /\ TypeOK /\ FilesFit /\ now \in Nat /\ files \in Nat
      /\ NULL \notin Nat /\ LongestWrite \in Nat
  <2>1. TypeOK /\ FilesFit
    BY DEF IInv
  <2> QED
    BY <2>1, Numbers, MaintenanceAssumption
<1>1. PICK t \in Table : t = t1 /\ t = t1'
  <2>1. t1 \in Table /\ todo' = todo
    BY BegunRewrite DEF RewriteDataFiles, Unchanged
  <2> QED
    BY <2>1 DEF t1
<1>2. PICK live \in Current, old \in SUBSET Current, adds \in SUBSET File :
        /\ LiveIn(Current) = {live} /\ \A f \in old : IsData(f)
        /\ plan' = [adds |-> adds, drops |-> old, base |-> Current]
        /\ \/ live \in old /\ adds = {Data(files + 1, live.row, now)}
           \/ live \notin old /\ adds = {}
        /\ AddFiles(t1, adds)
        /\ UNCHANGED <<snapshots, steps>>
  BY BegunRewrite
<1>3. /\ storage'[t] = storage[t] \cup adds /\ adds \subseteq storage'[t]
      /\ storage[t] \in SUBSET File
  <2>1. AddFiles(t, adds)
    BY <1>1, <1>2
  <2>2. storage'[t] = storage[t] \cup adds
    BY <1>0, <2>1, AddedFiles
  <2> QED
    BY <1>0, <2>2 DEF TypeOK
<1>4. /\ Current \in SUBSET File /\ Current \subseteq storage[t]
      /\ Current = LastOf(t).files /\ LastOf(t)' = LastOf(t) /\ Referenced(t)' = Referenced(t)
      /\ Referenced(t) \subseteq storage[t]
  <2>1. Current = LastOf(t).files
    BY <1>1 DEF Current
  <2>2. LastOf(t)' = LastOf(t) /\ Referenced(t)' = Referenced(t)
    BY <1>2 DEF LastOf, Referenced
  <2> QED
    BY <1>0, <2>1, <2>2, CurrentFiles, StoredAreOneKind, FilesOfSnapshot
<1>5. live.row # NULL
  BY <1>2 DEF LiveIn, IsData
<1>6. \A f \in adds : f.id = files + 1 /\ f.created = now /\ IsData(f) /\ f.deletes = NULL
  BY <1>2, <1>5 DEF Data, IsData
<1>7. \A f \in storage[t] :
        /\ f.id \in Nat /\ f.id <= files
        /\ f.deletes = NULL \/ (f.deletes \in Nat /\ f.deletes <= files)
  BY <1>0, <1>3 DEF FilesFit, File
<1>8. adds \cap storage[t] = {}
  BY <1>0, <1>6, <1>7
<1>9. /\ plan'.adds = adds /\ plan'.drops = old /\ plan'.base = Current
      /\ plan' \in PlanType
  BY <1>2, <1>4 DEF PlanType
<1>10. IsFirst("rewrite_data_files")'
  <2>1. IsFirst("rewrite_data_files") /\ steps' = steps
    BY <1>2 DEF RewriteDataFiles, At
  <2> QED
    BY <2>1, FirstStill
<1>11. write' # NULL /\ write'.table = t => adds \cap write'.adds = {}
  <2>1. write' = write
    BY DEF RewriteDataFiles, Unchanged, job
  <2> QED
    BY <1>0, <1>8, <2>1 DEF TypeOK
<1>12. \A f \in adds : now' <= f.created + LongestWrite /\ \A d \in storage'[t] : d.deletes # f.id
  <2>1. now' = now
    BY DEF RewriteDataFiles, Unchanged
  <2> QED
    BY <1>0, <1>3, <1>6, <1>7, <2>1
<1>13. \/ live \in old /\ \E g \in adds : adds = {g} /\ g.row = live.row
       \/ live \notin old /\ adds = {}
  BY <1>2 DEF Data
<1>14. adds \cap Referenced(t)' = {} /\ old \subseteq Current /\ Current \subseteq storage'[t]
  BY <1>2, <1>3, <1>4, <1>8
<1>15. plan'.base = LastOf(t)'.files
  BY <1>4, <1>9
<1> QED
  BY <1>1, <1>2, <1>3, <1>6, <1>9, <1>10, <1>11, <1>12, <1>13, <1>14, <1>15 DEF RewriteFits

\* The files that expire_snapshots deletes are those of the snapshots it has removed.
LEMMA ExpiryPlanFits ==
  ASSUME IInv, ExpireSnapshots
  PROVE  plan' \in PlanType /\ DeletionFits(t1)'
<1>0. TypeOK /\ SnapshotsFit /\ At("expire_snapshots")
  BY DEF IInv, ExpireSnapshots
<1>1. PICK t \in Table : t = t1 /\ t = t1'
  <2>1. t1 \in Table /\ todo' = todo
    BY <1>0, FirstOfTodo DEF At, TypeOK, ExpireSnapshots, Unchanged
  <2> QED
    BY <2>1 DEF t1
<1>2. PICK k \in DOMAIN snapshots[t] :
        /\ \A i \in DOMAIN snapshots'[t] : i > 1 => snapshots'[t][i].time >= older_than
        /\ \A i \in 1 .. k - 1 : snapshots[t][i].time < older_than
        /\ \A i \in k .. Len(snapshots[t]) : snapshots[t][i] \in ToSet(snapshots'[t])
        /\ Referenced(t)' = FilesOf(Retained)
  BY <1>0, <1>1, ExpireKeepsSuffix DEF ExpireSnapshots
<1>3. /\ plan' = [adds |-> {}, drops |-> Referenced(t) \ Referenced(t)', base |-> {}]
      /\ UNCHANGED <<steps, older_than>>
  BY <1>1, <1>2 DEF ExpireSnapshots, Unchanged
<1>4. /\ plan'.adds = {} /\ plan'.drops = Referenced(t) \ Referenced(t)'
      /\ plan' \in PlanType
  <2>1. Referenced(t) \in SUBSET File
    BY FilesOfSnapshot
  <2> QED
    BY <1>3, <2>1 DEF PlanType
<1>5. ASSUME NEW f \in Referenced(t), f \notin Referenced(t)' PROVE f.created < older_than
  <2>1. PICK i \in DOMAIN snapshots[t] : f \in snapshots[t][i].files
    BY DEF Referenced
  <2>2. snapshots[t][i] \notin ToSet(snapshots'[t])
    BY <1>5, <2>1 DEF Referenced, ToSet
  <2>3. k \in Int /\ i \in Int /\ i < k /\ i >= 1
    BY <1>0, <1>2, <2>2, CurrentSnapshot
  <2>4. snapshots[t][i].time < older_than
    BY <1>2, <2>3
  <2>5. f.created <= snapshots[t][i].time
    BY <1>0, <2>1 DEF SnapshotsFit
  <2>6. /\ f.created \in Int /\ snapshots[t][i].time \in Int
        /\ older_than \in Int
    BY <1>0, CurrentSnapshot, FilesOfSnapshot, Numbers DEF File
  <2> QED
    BY <2>4, <2>5, <2>6
<1>6. IsFirst("expire_snapshots")'
  BY <1>0, <1>3, FirstStill DEF At
<1>7. Expired(t)'
  BY <1>2, <1>3 DEF Expired
<1> QED
  BY <1>1, <1>3, <1>4, <1>5, <1>6, <1>7 DEF DeletionFits

\* Orphans are old and in no snapshot.
LEMMA OrphanPlanFits ==
  ASSUME IInv, RemoveOrphanFiles
  PROVE  plan' \in PlanType /\ DeletionFits(t1)'
<1>0. TypeOK /\ At("remove_orphan_files")
  BY DEF IInv, RemoveOrphanFiles
<1>1. PICK t \in Table : t = t1 /\ t = t1'
  <2>1. t1 \in Table /\ todo' = todo
    BY <1>0, FirstOfTodo DEF At, TypeOK, RemoveOrphanFiles, Unchanged
  <2> QED
    BY <2>1 DEF t1
<1>2. /\ plan' = [adds |-> {}, drops |-> {f \in storage[t] : IsOrphan(f)}, base |-> {}]
      /\ UNCHANGED <<steps, older_than, snapshots, storage>>
  BY <1>1 DEF RemoveOrphanFiles, Unchanged, table
<1>3. Referenced(t)' = Referenced(t)
  BY <1>2 DEF Referenced
<1>4. \A f \in storage[t] : IsOrphan(f) <=> f \notin Referenced(t) /\ f.created < older_than
  BY <1>1 DEF IsOrphan
<1>5. \A f \in storage[t] : f.created \in Int /\ f \in File
  BY <1>0 DEF TypeOK, File
<1>6. older_than \in Int
  BY <1>0, Numbers
<1>7. /\ plan'.adds = {} /\ plan' \in PlanType
      /\ plan'.drops = {f \in storage[t] : f \notin Referenced(t) /\ f.created < older_than}
  BY <1>2, <1>4, <1>5 DEF PlanType
<1>8. IsFirst("remove_orphan_files")'
  BY <1>0, <1>2, FirstStill DEF At
<1>9. \A f \in storage[t] \ Referenced(t) : f.created >= older_than \/ f \in plan'.drops
  BY <1>5, <1>6, <1>7
<1> QED
  BY <1>1, <1>2, <1>3, <1>7, <1>8, <1>9 DEF DeletionFits

\* One file is deleted, or all have been.
LEMMA DeletionGoesOn ==
  ASSUME IInv, DeleteFiles, plan' # NULL
  PROVE  plan' \in PlanType /\ DeletionFits(t1)'
<1>1. DeletionFits(t1) /\ t1 \in Table /\ plan \in PlanType
  BY DeletedIsUnused DEF IInv, PlanFits, DeleteFiles
<1>2. PICK t \in Table : t = t1 /\ t = t1'
  <2>1. todo' = todo
    BY DEF DeleteFiles, Unchanged
  <2> QED
    BY <1>1, <2>1 DEF t1
<1>3. PICK f \in plan.drops :
        /\ storage' = [storage EXCEPT ![t1] = @ \ {f}]
        /\ plan' = [plan EXCEPT !.drops = @ \ {f}]
        /\ UNCHANGED <<steps, older_than, snapshots>>
  BY DEF DeleteFiles, EndStep, Unchanged
<1>4. plan' \in PlanType /\ plan'.adds = plan.adds /\ plan'.drops = plan.drops \ {f}
  BY <1>1, <1>3 DEF PlanType
<1>5. storage'[t] = storage[t] \ {f}
  BY <1>2, <1>3 DEF IInv, TypeOK
<1>6. Referenced(t)' = Referenced(t) /\ (Expired(t)' <=> Expired(t))
  BY <1>3 DEF Referenced, Expired
<1>7. IsFirst("expire_snapshots")' <=> IsFirst("expire_snapshots")
  BY <1>3, FirstStill
<1>8. IsFirst("remove_orphan_files")' <=> IsFirst("remove_orphan_files")
  BY <1>3, FirstStill
<1> QED
  BY <1>1, <1>2, <1>3, <1>4, <1>5, <1>6, <1>7, <1>8 DEF DeletionFits

\* What is planned stays right while a job begins, commits and abandons writes.
LEMMA PlanStaysFit ==
  ASSUME IInv, [Next]_vars
  PROVE  PlanFits'
<1>0. TypeOK /\ PlanFits /\ now \in Nat
  BY Numbers DEF IInv
<1>1. ASSUME plan' = NULL PROVE PlanFits'
  BY <1>1 DEF PlanFits
<1>2. ASSUME UNCHANGED <<plan, exit, todo>>, RewriteFits(t1)' \/ DeletionFits(t1)'
      PROVE  PlanFits'
  BY <1>0, <1>2 DEF PlanFits
<1>3. CASE Tick
  <2>1. /\ UNCHANGED <<storage, snapshots, write, run, todo, steps, plan, exit, older_than>>
        /\ now' = now + 1
    BY <1>3 DEF Tick, table, job, attempt
  <2>2. ASSUME plan # NULL PROVE RewriteFits(t1)' \/ DeletionFits(t1)'
    <3>1. PICK t \in Table : t = t1 /\ t = t1'
      BY <1>0, <2>1, <2>2, FirstOfTodo DEF PlanFits, TypeOK, t1
    <3>2. /\ Referenced(t)' = Referenced(t) /\ LastOf(t)' = LastOf(t)
          /\ Expired(t)' <=> Expired(t)
      BY <2>1 DEF Referenced, LastOf, Expired
    <3>3. ASSUME RewriteFits(t), NEW f \in plan.adds PROVE now' <= f.created + LongestWrite
      <4>1. f \in storage[t] /\ storage[t] \in SUBSET File
        BY <1>0, <3>3 DEF RewriteFits, TypeOK
      <4>2. f.created \in Nat
        BY <4>1 DEF File
      <4>3. f.created \in Pending
        BY <2>2 DEF Pending
      <4>4. now < f.created + LongestWrite
        BY <1>3, <4>3 DEF Tick
      <4> QED
        BY <1>0, <2>1, <4>2, <4>4, MaintenanceAssumption
    <3>4. RewriteFits(t) => RewriteFits(t1)'
      BY <2>1, <3>1, <3>2, <3>3, FirstStill DEF RewriteFits
    <3>5. DeletionFits(t) => DeletionFits(t1)'
      BY <2>1, <3>1, <3>2, FirstStill DEF DeletionFits
    <3> QED
      BY <1>0, <2>2, <3>1, <3>4, <3>5 DEF PlanFits
  <2> QED
    BY <1>1, <1>2, <2>1, <2>2
<1>4. ASSUME NEW u \in Table, BeginWrite(u) PROVE PlanFits'
  <2>1. UNCHANGED <<plan, exit, todo>>
    BY <1>4 DEF BeginWrite, attempt
  <2> QED
    BY <1>1, <1>2, <1>4, <2>1, PlanFitsBesideWrite
<1>5. CASE EndWrite
  <2>1. UNCHANGED <<plan, exit, todo>>
    BY <1>5 DEF EndWrite, attempt
  <2> QED
    BY <1>1, <1>2, <1>5, <2>1, PlanFitsBesideCommit
<1>6. CASE AbandonWrite
  <2>1. /\ UNCHANGED <<now, storage, snapshots, run, todo, steps, plan, exit, older_than>>
        /\ write' = NULL
    BY <1>6 DEF AbandonWrite, table, attempt
  <2>2. ASSUME plan # NULL PROVE RewriteFits(t1)' \/ DeletionFits(t1)'
    <3>1. PICK t \in Table : t = t1 /\ t = t1'
      BY <1>0, <2>1, <2>2, FirstOfTodo DEF PlanFits, TypeOK, t1
    <3>2. /\ Referenced(t)' = Referenced(t) /\ LastOf(t)' = LastOf(t)
          /\ Expired(t)' <=> Expired(t)
      BY <2>1 DEF Referenced, LastOf, Expired
    <3>3. RewriteFits(t) => RewriteFits(t1)'
      BY <2>1, <3>1, <3>2, FirstStill DEF RewriteFits
    <3>4. DeletionFits(t) => DeletionFits(t1)'
      BY <2>1, <3>1, <3>2, FirstStill DEF DeletionFits
    <3> QED
      BY <1>0, <2>2, <3>1, <3>3, <3>4 DEF PlanFits
  <2> QED
    BY <1>1, <1>2, <2>1, <2>2
<1>7. CASE AttemptStep
  BY <1>0, <1>1, <1>7 DEF AttemptStep, Create, Begin, FinishTable, StepRaises, End, Die,
                          Proceed, PlanFits
<1>8. CASE Step
  <2>1. UNCHANGED <<todo, exit>> /\ exit = "running" /\ todo # <<>>
    BY <1>8, StepLeaves
  <2>2. ASSUME plan' \in PlanType, RewriteFits(t1)' \/ DeletionFits(t1)' PROVE PlanFits'
    BY <2>1, <2>2 DEF PlanFits
  <2>3. CASE RewriteDataFiles
    BY <1>1, <2>2, <2>3, NothingToRewrite, BegunPlanFits DEF EndStep
  <2>4. CASE RewriteCommit
    BY <1>1, <2>4 DEF RewriteCommit, CommitDataFiles, RewritePositionDeleteFiles,
                      RewriteManifests, EndStep
  <2>5. CASE ExpireSnapshots
    BY <2>2, <2>5, ExpiryPlanFits
  <2>6. CASE RemoveOrphanFiles
    BY <2>2, <2>6, OrphanPlanFits
  <2>7. CASE DeleteFiles
    BY <1>1, <2>2, <2>7, DeletionGoesOn
  <2> QED
    BY <1>8, <2>3, <2>4, <2>5, <2>6, <2>7 DEF Step, RewriteCommit
<1>9. CASE UNCHANGED vars
  <2>1. /\ UNCHANGED <<now, storage, snapshots, write, run, todo, steps, plan, exit, older_than>>
    BY <1>9 DEF vars, table, job, attempt
  <2> QED
    BY <1>0, <2>1 DEF PlanFits, RewriteFits, DeletionFits, Referenced, Expired, LastOf, IsFirst, t1
<1> QED
  BY <1>3, <1>4, <1>5, <1>6, <1>7, <1>8, <1>9, StepOfNext

----------------------------------------------------------------------------
(* The order that an attempt leaves behind *)

InOrder(t) ==
  /\ Expired(t) => Expired(t)'
  /\ NoOrphans(t) => NoOrphans(t)'
  /\ Dangling(LastOf(t).files) = {} => Dangling(LastOf(t).files)' = {}

\* A table that a step does not touch.
LEMMA UntouchedInOrder ==
  ASSUME NEW t \in Table, snapshots'[t] = snapshots[t], storage'[t] = storage[t],
         older_than' = older_than
  PROVE  InOrder(t)
BY DEF InOrder, Expired, NoOrphans, Referenced, LastOf, Dangling, IsData

\* The job and the clock leave tables in order: what they add is young.
LEMMA JobKeepsOrder ==
  ASSUME IInv, exit # "none", NEW t \in Table,
         Tick \/ (\E u \in Table : BeginWrite(u)) \/ EndWrite \/ AbandonWrite
  PROVE  InOrder(t)
<1>0. TypeOK /\ older_than <= now /\ now \in Nat
  BY CutoffIsPast, Numbers DEF IInv
<1>1. CASE Tick \/ AbandonWrite
  <2>1. snapshots'[t] = snapshots[t] /\ storage'[t] = storage[t] /\ older_than' = older_than
    BY <1>1 DEF Tick, AbandonWrite, table, attempt
  <2> QED
    BY <2>1, UntouchedInOrder
<1>2. ASSUME NEW u \in Table, BeginWrite(u) PROVE InOrder(t)
  <2>1. PICK old \in LastOf(u).files, row \in File, d \in File :
          /\ row = Data(files + 1, writes + 1, now)
          /\ d = Delete(files + 2, old.id, now)
          /\ write'.adds = {row, d} \/ write'.adds = {row}
          /\ AddFiles(u, write'.adds)
    BY <1>2, BegunWrite
  <2>2. \A f \in write'.adds : f \in File /\ f.created = now
    BY <2>1 DEF Data, Delete
  <2>3. \A f \in storage'[t] : f \in storage[t] \/ f.created = now
    BY <1>0, <2>1, <2>2, AddedFiles
  <2>4. snapshots' = snapshots /\ older_than' = older_than
    BY <1>2 DEF BeginWrite, attempt
  <2>5. Referenced(t)' = Referenced(t) /\ LastOf(t)' = LastOf(t) /\ (Expired(t)' <=> Expired(t))
    BY <2>4 DEF Referenced, LastOf, Expired
  <2>6. NoOrphans(t) => NoOrphans(t)'
    BY <1>0, <2>3, <2>4, <2>5 DEF NoOrphans
  <2>7. Dangling(LastOf(t).files)' = Dangling(LastOf(t).files)
    BY <2>5 DEF Dangling, IsData
  <2> QED
    BY <2>5, <2>6, <2>7 DEF InOrder
<1>3. CASE EndWrite
  <2>1. PICK u \in Table : u = write.table
    BY <1>3, MergeSetsTheRow
  <2>2. PICK fs \in SUBSET storage[u] :
          /\ Commit(u, fs)
          /\ Dangling(LastOf(u).files) = {} => Dangling(fs) = {}
    BY <1>3, <2>1, MergeSetsTheRow
  <2>3. /\ UNCHANGED <<now, storage, older_than>>
        /\ fs \in SUBSET File
    BY <1>0, <1>3 DEF EndWrite, attempt, TypeOK
  <2>4. /\ \A v \in Table \ {u} : snapshots'[v] = snapshots[v]
        /\ LastOf(u)' = [time |-> now, files |-> fs]
        /\ Referenced(u)' = Referenced(u) \cup fs
    BY <1>0, <2>2, <2>3, CommitAppends
  <2>5. Expired(u) => Expired(u)'
    BY <1>0, <2>2, <2>3, ExpiredAfterCommit
  <2>6. NoOrphans(u) => NoOrphans(u)'
    BY <2>3, <2>4 DEF NoOrphans
  <2>7. Dangling(LastOf(u).files)' = Dangling(fs)
    BY <2>4 DEF Dangling, IsData
  <2>8. InOrder(u)
    BY <2>2, <2>5, <2>6, <2>7 DEF InOrder
  <2>9. t # u => InOrder(t)
    BY <2>3, <2>4, UntouchedInOrder
  <2> QED
    BY <2>8, <2>9
<1> QED
  BY <1>1, <1>2, <1>3

\* Steps touch the table in work only.
LEMMA StepOnOneTable ==
  ASSUME IInv, Step
  PROVE  /\ t1 \in Table
         /\ \A t \in Table \ {t1} : snapshots'[t] = snapshots[t] /\ storage'[t] = storage[t]
<1>0. TypeOK /\ todo # <<>>
  BY StepLeaves DEF IInv
<1>1. PICK t \in Table : t = t1
  BY <1>0, FirstOfTodo DEF TypeOK
<1>2. CASE RewriteCommit
  <2>1. UNCHANGED <<now, storage>>
    BY <1>2, RewritesKeepTheRow
  <2>2. ASSUME snapshots' # snapshots PROVE \A u \in Table \ {t} : snapshots'[u] = snapshots[u]
    <3>1. PICK fs \in SUBSET storage[t] : Commit(t, fs)
      BY <1>1, <1>2, <2>2, RewritesKeepTheRow
    <3>2. fs \in SUBSET File
      BY <1>0 DEF TypeOK
    <3> QED
      BY <1>0, <2>1, <3>1, <3>2, CommitAppends
  <2> QED
    BY <1>1, <2>1, <2>2
<1>3. ASSUME ExpireSnapshots, snapshots' = [snapshots EXCEPT ![t1] = Retained],
             UNCHANGED storage
      PROVE  \A u \in Table \ {t} : snapshots'[u] = snapshots[u]
  BY <1>0, <1>1, <1>3, ExpireKeepsSuffix DEF IInv
<1>4. ASSUME RewriteDataFiles, ~ UNCHANGED table
      PROVE  /\ snapshots' = snapshots
             /\ \A u \in Table \ {t} : storage'[u] = storage[u]
  <2>1. PICK adds \in SUBSET File : AddFiles(t, adds) /\ snapshots' = snapshots
    BY <1>1, <1>4, RewriteAdds
  <2> QED
    BY <1>0, <2>1, AddedFiles
<1>5. ASSUME DeleteFiles PROVE \A u \in Table \ {t} : storage'[u] = storage[u]
  BY <1>1, <1>5, DeletedIsUnused
<1> QED
  BY <1>1, <1>2, <1>3, <1>4, <1>5, StepOnTables

----------------------------------------------------------------------------
(* The steps of an attempt *)

\* The steps that an attempt begins a table with.
LEMMA FirstStepsLeft ==
  ASSUME IInv, run # NULL, UNCHANGED run, NEW t \in Table, steps' = StepsFor(t)
  PROVE  StepsLeft(t)'
<1>1. /\ "remove_orphan_files" \notin MOR_ONLY_STEPS /\ "expire_snapshots" \notin MOR_ONLY_STEPS
      /\ "expire_snapshots" \in CLEANUP_STEPS
      /\ "rewrite_position_delete_files" \in REWRITE_FILES
  BY DEF MOR_ONLY_STEPS, CLEANUP_STEPS, REWRITE_FILES
<1>2. StepsFor(t)' = StepsFor(t)
  BY DEF StepsFor
<1>3. /\ "expire_snapshots" \in run.args.steps => "expire_snapshots" \in steps'
      /\ "remove_orphan_files" \in run.args.steps => "remove_orphan_files" \in steps'
      /\ t \in MOR_TABLES => steps' = run.args.steps
  BY <1>1 DEF StepsFor
<1>4. run.args.all \subseteq run.args.steps
  BY RunArguments DEF IInv
<1> QED
  BY <1>1, <1>2, <1>3, <1>4 DEF StepsLeft

\* A step that commits: the table stays expired if it was.
LEMMA RewriteKeepsExpired ==
  ASSUME IInv, RewriteCommit, NEW t \in Table, t = t1, Expired(t)
  PROVE  Expired(t)'
<1>0. TypeOK /\ older_than <= now /\ older_than' = older_than
  <2>1. Step
    BY DEF Step, RewriteCommit
  <2>2. exit = "running" /\ older_than' = older_than
    BY <2>1, StepLeaves
  <2> QED
    BY <2>2, CutoffIsPast DEF IInv
<1>1. now' = now
  BY RewritesKeepTheRow
<1>2. CASE snapshots' = snapshots
  BY <1>0, <1>2 DEF Expired
<1>3. CASE snapshots' # snapshots
  <2>1. PICK fs \in SUBSET storage[t] : Commit(t, fs)
    BY <1>3, RewritesKeepTheRow
  <2>2. fs \in SUBSET File
    BY <1>0 DEF TypeOK
  <2> QED
    BY <1>0, <1>1, <2>1, <2>2, ExpiredAfterCommit
<1> QED
  BY <1>2, <1>3

\* After rewrite_position_delete_files of all files none is dangling.
LEMMA NothingDangles ==
  ASSUME IInv, RewritePositionDeleteFiles, "rewrite_position_delete_files" \in run.args.all,
         NEW t \in Table, t = t1
  PROVE  Dangling(LastOf(t).files)' = {}
<1>1. PICK old \in Chosen("rewrite_position_delete_files", Dangling(Current)) :
        IF old = {} THEN UNCHANGED snapshots ELSE Commit(t, Current \ old)
  BY DEF RewritePositionDeleteFiles
<1>2. old = Dangling(Current) /\ Current = LastOf(t).files
  BY DEF Chosen, Current
<1>3. CASE old = {}
  <2>1. LastOf(t)' = LastOf(t)
    BY <1>1, <1>3 DEF LastOf
  <2> QED
    BY <1>2, <1>3, <2>1 DEF Dangling, IsData
<1>4. CASE old # {}
  <2> DEFINE fs == Current \ old
  <2>1. fs \in SUBSET File /\ TypeOK /\ now' = now
    BY <1>2, CurrentFiles DEF IInv, RewritePositionDeleteFiles, Unchanged
  <2>2. Commit(t, fs)
    BY <1>1, <1>4
  <2>3. Dangling(fs) = {}
    BY <1>2 DEF Dangling
  <2> HIDE DEF fs
  <2>4. LastOf(t)' = [time |-> now, files |-> fs]
    BY <2>1, <2>2, CommitAppends
  <2> QED
    BY <2>3, <2>4 DEF Dangling, IsData
<1> QED
  BY <1>3, <1>4

\* Each step leaves behind what the later ones and the end of the table rely on.
LEMMA StepsLeftAfterStep ==
  ASSUME IInv, Step, NEW t \in Table, t = t1, t = t1', StepsLeft(t)
  PROVE  StepsLeft(t)'
<1>0. /\ TypeOK /\ SnapshotsFit /\ steps' \subseteq steps /\ steps \subseteq ToSet(STEP_ORDER)
      /\ UNCHANGED <<run, older_than>>
      /\ StepsFor(t)' = StepsFor(t)
  BY StepLeaves DEF IInv, TypeOK, StepsFor
<1>1. ASSUME NEW s \in steps, steps \ {s} \subseteq steps',
             s \notin CLEANUP_STEPS,
             Expired(t) => Expired(t)',
             \/ s = "rewrite_data_files"
             \/ /\ "rewrite_data_files" \notin steps
                /\ "rewrite_position_delete_files" \in run.args.all =>
                     Dangling(LastOf(t).files)' = {}
             \/ /\ steps \cap REWRITE_FILES = {}
                /\ LastOf(t)'.files = LastOf(t).files
      PROVE  StepsLeft(t)'
  <2>1. "remove_orphan_files" \in run.args.steps => "remove_orphan_files" \in steps
    BY <1>1 DEF StepsLeft
  <2>2. \A c \in CLEANUP_STEPS : c \in steps => c \in steps'
    BY <1>1
  <2>3. /\ CLEANUP_STEPS = {"expire_snapshots", "remove_orphan_files"}
        /\ REWRITE_FILES = {"rewrite_data_files", "rewrite_position_delete_files"}
    BY DEF CLEANUP_STEPS, REWRITE_FILES
  <2>4. ASSUME t \in MOR_TABLES, "rewrite_position_delete_files" \in run.args.all \ steps'
        PROVE  "rewrite_data_files" \notin steps' /\ Dangling(LastOf(t).files)' = {}
    <3>1. CASE s = "rewrite_data_files"
      <4>1. "rewrite_position_delete_files" \notin steps
        BY <1>1, <2>4, <3>1
      <4> QED
        BY <1>1, <2>4, <3>1, <4>1 DEF StepsLeft
    <3>2. CASE /\ "rewrite_data_files" \notin steps
               /\ Dangling(LastOf(t).files)' = {}
      BY <1>0, <3>2
    <3>3. CASE steps \cap REWRITE_FILES = {} /\ LastOf(t)'.files = LastOf(t).files
      <4>1. Dangling(LastOf(t).files)' = Dangling(LastOf(t).files)
        BY <3>3 DEF Dangling, IsData
      <4>2. "rewrite_position_delete_files" \notin steps /\ "rewrite_data_files" \notin steps
        BY <2>3, <3>3
      <4> QED
        BY <1>0, <2>4, <4>1, <4>2 DEF StepsLeft
    <3> QED
      BY <1>1, <2>4, <3>1, <3>2, <3>3
  <2> QED
    BY <1>0, <1>1, <2>1, <2>2, <2>3, <2>4 DEF StepsLeft
<1>2. CASE RewriteDataFiles \/ CommitDataFiles
  <2>1. "rewrite_data_files" \in steps
    BY <1>0, <1>2, FirstSteps DEF RewriteDataFiles, CommitDataFiles, At
  <2>2. steps \ {"rewrite_data_files"} \subseteq steps'
    BY <1>2 DEF RewriteDataFiles, CommitDataFiles, EndStep
  <2>3. Expired(t) => Expired(t)'
    <3>1. RewriteDataFiles => snapshots' = snapshots
      BY DEF RewriteDataFiles, table
    <3> QED
      BY <1>0, <1>2, <3>1, RewriteKeepsExpired DEF Expired, RewriteCommit
  <2>4. "rewrite_data_files" \notin CLEANUP_STEPS
    BY DEF CLEANUP_STEPS
  <2> QED
    BY <1>1, <2>1, <2>2, <2>3, <2>4
<1>4. CASE RewritePositionDeleteFiles
  <2> DEFINE s == "rewrite_position_delete_files"
  <2>1. s \in steps /\ "rewrite_data_files" \notin steps
    BY <1>0, <1>4, FirstSteps DEF RewritePositionDeleteFiles, At
  <2>2. steps \ {s} \subseteq steps' /\ s \notin CLEANUP_STEPS
    BY <1>4 DEF RewritePositionDeleteFiles, EndStep, CLEANUP_STEPS
  <2>3. Expired(t) => Expired(t)'
    BY <1>4, RewriteKeepsExpired DEF RewriteCommit
  <2>4. s \in run.args.all => Dangling(LastOf(t).files)' = {}
    BY <1>4, NothingDangles
  <2> QED
    BY <1>1, <2>1, <2>2, <2>3, <2>4
<1>5. CASE RewriteManifests
  <2>1. /\ "rewrite_manifests" \in steps /\ steps \cap REWRITE_FILES = {}
        /\ "rewrite_manifests" \notin CLEANUP_STEPS
    BY <1>0, <1>5, FirstSteps DEF RewriteManifests, At, CLEANUP_STEPS
  <2>2. steps \ {"rewrite_manifests"} \subseteq steps'
    BY <1>5 DEF RewriteManifests, EndStep
  <2>3. Expired(t) => Expired(t)'
    BY <1>5, RewriteKeepsExpired DEF RewriteCommit
  <2>4. LastOf(t)'.files = LastOf(t).files
    <3> DEFINE fs == LastOf(t).files
    <3>1. fs \in SUBSET File /\ now' = now /\ Commit(t, fs)
      BY <1>0, <1>5, CurrentFiles DEF RewriteManifests, Unchanged, Current
    <3> HIDE DEF fs
    <3>2. LastOf(t)' = [time |-> now, files |-> fs]
      BY <1>0, <3>1, CommitAppends
    <3> QED
      BY <3>2 DEF fs
  <2> QED
    BY <1>1, <2>1, <2>2, <2>3, <2>4
<1>6. CASE ExpireSnapshots
  <2>1. "expire_snapshots" \in steps /\ steps' = steps
    BY <1>0, <1>6, FirstSteps DEF ExpireSnapshots, At
  <2>2. LastOf(t)' = LastOf(t)
    BY <1>0, <1>6, ExpireKeepsSuffix DEF ExpireSnapshots
  <2>3. Dangling(LastOf(t).files)' = Dangling(LastOf(t).files)
    BY <2>2 DEF Dangling, IsData
  <2> QED
    BY <1>0, <2>1, <2>3 DEF StepsLeft
<1>7. CASE RemoveOrphanFiles
  <2>1. UNCHANGED <<storage, snapshots, steps>>
    BY <1>7 DEF RemoveOrphanFiles, table
  <2>2. InOrder(t)
    BY <1>0, <2>1, UntouchedInOrder
  <2> QED
    BY <1>0, <2>1, <2>2 DEF StepsLeft, InOrder
<1>8. CASE DeleteFiles
  <2>1. PICK s \in CLEANUP_STEPS : At(s) /\ ((EndStep(s) /\ plan.drops = {}) \/ steps' = steps)
    BY <1>8 DEF DeleteFiles
  <2>2. /\ s \in steps /\ snapshots' = snapshots
        /\ s = "remove_orphan_files" => steps = {"remove_orphan_files"}
    BY <1>0, <1>8, <2>1, FirstSteps DEF DeleteFiles, At
  <2>3. /\ Dangling(LastOf(t).files)' = Dangling(LastOf(t).files)
        /\ Expired(t)' <=> Expired(t)
        /\ Referenced(t)' = Referenced(t) /\ storage'[t] \subseteq storage[t]
    BY <1>0, <1>8, <2>2, DeletedIsUnused DEF Dangling, IsData, LastOf, Expired, Referenced
  <2>4. "remove_orphan_files" \in run.args.steps => "remove_orphan_files" \in steps
    BY <2>2 DEF StepsLeft
  <2>5. CASE steps' = steps
    BY <1>0, <2>2, <2>3, <2>5 DEF StepsLeft
  <2>6. CASE EndStep(s) /\ plan.drops = {} /\ s = "expire_snapshots"
    <3>1. steps' = steps \ {"expire_snapshots"}
      BY <2>6 DEF EndStep
    <3>2. Expired(t)
      <4>1. steps # {"remove_orphan_files"}
        BY <2>2, <2>6
      <4> QED
        BY <1>0, <1>8, <4>1, DeletedIsUnused, FirstSteps DEF DeletionFits
    <3> QED
      BY <1>0, <2>3, <2>4, <3>1, <3>2 DEF StepsLeft
  <2>7. CASE EndStep(s) /\ plan.drops = {} /\ s = "remove_orphan_files"
    <3>1. steps' = {} /\ steps = {"remove_orphan_files"}
      BY <2>2, <2>7 DEF EndStep
    <3>2. NoOrphans(t)
      <4>1. ~ IsFirst("expire_snapshots")
        BY <1>0, <3>1, FirstSteps
      <4> QED
        BY <1>8, <2>7, <4>1, DeletedIsUnused DEF DeletionFits, NoOrphans
    <3>3. NoOrphans(t)'
      BY <1>0, <2>3, <3>2 DEF NoOrphans
    <3> QED
      BY <1>0, <2>3, <3>1, <3>3 DEF StepsLeft
  <2> QED
    BY <2>1, <2>5, <2>6, <2>7 DEF CLEANUP_STEPS
<1> QED
  BY <1>2, <1>4, <1>5, <1>6, <1>7, <1>8 DEF Step

\* The table in work is in the order its finished steps have put it into.
LEMMA StepsStayFit ==
  ASSUME IInv, [Next]_vars
  PROVE  StepsFit'
<1>0. /\ TypeOK /\ StepsFit
      /\ exit = "running" => run # NULL
  BY DEF IInv, AttemptFits
<1>1. CASE Tick \/ (\E t \in Table : BeginWrite(t)) \/ EndWrite \/ AbandonWrite
  <2>1. UNCHANGED <<run, todo, steps, exit>>
    BY <1>1 DEF Tick, BeginWrite, EndWrite, AbandonWrite, attempt
  <2>2. ASSUME exit = "running", todo # <<>> PROVE StepsLeft(t1)'
    <3>1. PICK t \in Table : t = t1 /\ t = t1'
      BY <1>0, <2>1, <2>2, FirstOfTodo DEF TypeOK, t1
    <3>2. StepsLeft(t) /\ InOrder(t)
      BY <1>0, <1>1, <2>2, <3>1, JobKeepsOrder DEF StepsFit
    <3>3. StepsFor(t)' = StepsFor(t)
      BY <2>1 DEF StepsFor
    <3>4. StepsLeft(t)'
      BY <2>1, <3>2, <3>3 DEF StepsLeft, InOrder
    <3> QED
      BY <3>1, <3>4 DEF StepsLeft, StepsFor, Expired, NoOrphans, Referenced, LastOf
  <2> QED
    BY <2>1, <2>2 DEF StepsFit
<1>2. CASE Begin \/ FinishTable \/ StepRaises
  <2>1. /\ run # NULL /\ UNCHANGED run
        /\ \E tables \in Seq(Table) : Proceed(tables)
    <3>1. CASE Begin
      BY <1>0, <3>1, RunArguments DEF Begin
    <3>2. CASE FinishTable \/ StepRaises
      BY <1>0, <3>2, FirstOfTodo DEF FinishTable, StepRaises, AfterFailure, TypeOK
    <3> QED
      BY <1>2, <3>1, <3>2
  <2>2. ASSUME todo' # <<>> PROVE StepsLeft(t1)'
    <3>1. PICK tables \in Seq(Table) : Proceed(tables)
      BY <2>1
    <3>2. todo' = tables /\ tables # <<>> /\ steps' = StepsFor(Head(tables))
      BY <2>2, <3>1 DEF Proceed
    <3>3. PICK t \in Table : t = Head(tables)
      BY <3>2
    <3>4. t = t1'
      BY <3>2, <3>3 DEF t1
    <3>5. StepsLeft(t)'
      BY <2>1, <3>2, <3>3, FirstStepsLeft
    <3> QED
      BY <3>4, <3>5 DEF StepsLeft, StepsFor, Expired, NoOrphans, Referenced, LastOf
  <2> QED
    BY <2>2 DEF StepsFit
<1>3. CASE Create \/ End \/ Die
  <2>1. exit' # "running"
    BY <1>3 DEF Create, End, Die
  <2> QED
    BY <2>1 DEF StepsFit
<1>4. CASE Step
  <2>1. PICK t \in Table : t = t1 /\ t = t1'
    BY <1>0, <1>4, StepLeaves, FirstOfTodo DEF TypeOK, t1
  <2>2. StepsLeft(t)
    BY <1>0, <1>4, <2>1, StepLeaves DEF StepsFit
  <2>3. StepsLeft(t)'
    BY <1>4, <2>1, <2>2, StepsLeftAfterStep
  <2>4. StepsLeft(t1)'
    BY <2>1, <2>3 DEF StepsLeft, StepsFor, Expired, NoOrphans, Referenced, LastOf
  <2> QED
    BY <2>4 DEF StepsFit
<1>5. CASE UNCHANGED vars
  BY <1>0, <1>5 DEF vars, table, attempt, StepsFit, StepsLeft, StepsFor, Expired, NoOrphans,
                    Referenced, LastOf, t1
<1> QED
  BY <1>1, <1>2, <1>3, <1>4, <1>5, StepOfNext DEF AttemptStep

\* A table that an attempt has no step left for is in order.
LEMMA FinishedIsClean ==
  ASSUME IInv, exit = "running", todo # <<>>, steps = {}, NEW t \in Table, t = t1
  PROVE  Clean(t)
<1>1. StepsLeft(t) /\ FilesFit /\ TypeOK
  BY DEF IInv, StepsFit
<1>2. "remove_orphan_files" \in CLEANUP_STEPS
  BY DEF CLEANUP_STEPS
<1>3. CLEANUP_STEPS \subseteq run.args.steps => Expired(t) /\ NoOrphans(t)
  BY <1>1, <1>2 DEF StepsLeft
<1>4. t \notin MOR_TABLES => Dangling(LastOf(t).files) = {}
  <2>1. LastOf(t).files \subseteq storage[t]
    BY StoredAreOneKind
  <2> QED
    BY <1>1, <2>1 DEF FilesFit, Dangling, IsData
<1>5. t \in MOR_TABLES /\ "rewrite_position_delete_files" \in run.args.all =>
        Dangling(LastOf(t).files) = {}
  BY <1>1 DEF StepsLeft
<1> QED
  BY <1>3, <1>4, <1>5 DEF Clean

\* A table that is clean stays so if no old snapshot or file comes back.
LEMMA CleanStays ==
  ASSUME NEW t, Clean(t), InOrder(t), run' = run
  PROVE  Clean(t)'
BY DEF Clean, InOrder

\* Tables that the attempt has finished without failure stay clean until it ends.
LEMMA AttemptStaysFit ==
  ASSUME IInv, [Next]_vars
  PROVE  AttemptFits'
<1>0. TypeOK /\ AttemptFits
  BY DEF IInv
<1> DEFINE Done == ToSet(run.args.tables) \ (failed \cup ToSet(todo))
<1>1. exit # "none" => ToSet(run.args.tables) \subseteq Table
  <2>1. exit # "none" => run.args.tables \in Seq(Table)
    BY <1>0, RunArguments DEF AttemptFits
  <2> QED
    BY <2>1 DEF ToSet
<1>2. ASSUME UNCHANGED <<run, attempts, older_than, todo, failed, exit>>,
             exit # "none" => \A t \in Done : InOrder(t)
      PROVE  AttemptFits'
  <2>1. Cutoff' = Cutoff
    BY <1>2 DEF Cutoff, as_of
  <2>2. ASSUME exit \in {"running", "success", "error"}, NEW t \in Done PROVE Clean(t)'
    BY <1>0, <1>2, <2>2, CleanStays DEF AttemptFits
  <2> QED
    BY <1>0, <1>2, <2>1, <2>2 DEF AttemptFits
<1>3. CASE Tick \/ (\E t \in Table : BeginWrite(t)) \/ EndWrite \/ AbandonWrite
  <2>1. UNCHANGED <<run, attempts, older_than, todo, failed, exit>>
    BY <1>3 DEF Tick, BeginWrite, EndWrite, AbandonWrite, attempt
  <2> QED
    BY <1>1, <1>2, <1>3, <2>1, JobKeepsOrder
<1>4. CASE Step
  <2>1. /\ UNCHANGED <<run, attempts, older_than, todo, failed, exit>>
        /\ exit = "running" /\ todo # <<>>
    BY <1>4, StepLeaves
  <2>2. t1 \in ToSet(todo)
    BY <1>0, <2>1, FirstOfTodo DEF TypeOK
  <2>3. \A t \in Table \ {t1} : InOrder(t)
    BY <1>4, <2>1, StepOnOneTable, UntouchedInOrder
  <2> QED
    BY <1>1, <1>2, <2>1, <2>2, <2>3
<1>5. CASE UNCHANGED vars
  <2>1. UNCHANGED <<run, attempts, older_than, todo, failed, exit, snapshots, storage>>
    BY <1>5 DEF vars, table, attempt
  <2> QED
    BY <1>1, <1>2, <2>1, UntouchedInOrder
<1>6. CASE Create
  BY <1>6 DEF Create, AttemptFits
<1>7. CASE Begin
  <2>1. Cutoff' = Cutoff /\ todo' = run.args.tables /\ run' = run
    BY <1>7 DEF Begin, Proceed, Cutoff, as_of
  <2> QED
    BY <1>7, <2>1 DEF Begin, AttemptFits
<1>8. CASE FinishTable \/ StepRaises
  <2>1. /\ UNCHANGED <<run, attempts, older_than, exit, snapshots, storage>>
        /\ exit = "running" /\ todo # <<>> /\ todo' = Tail(todo)
        /\ \/ steps = {} /\ failed' = failed
           \/ failed' = failed \cup {t1}
    BY <1>8 DEF FinishTable, StepRaises, AfterFailure, Proceed, table, t1
  <2>2. ToSet(todo) = {t1} \cup ToSet(Tail(todo)) /\ t1 \in Table
    BY <1>0, <2>1, FirstOfTodo DEF TypeOK
  <2>3. ASSUME NEW t \in ToSet(run.args.tables) \ (failed' \cup ToSet(todo')) PROVE Clean(t)
    <3>1. t \in Table /\ t \notin failed /\ (t \in ToSet(todo) => t = t1 /\ steps = {})
      BY <1>1, <2>1, <2>2, <2>3
    <3>2. CASE t \in ToSet(todo)
      BY <2>1, <3>1, <3>2, FinishedIsClean
    <3>3. CASE t \notin ToSet(todo)
      BY <1>0, <2>1, <2>3, <3>1, <3>3 DEF AttemptFits
    <3> QED
      BY <3>2, <3>3
  <2>4. \A t \in Table : InOrder(t)
    BY <2>1, UntouchedInOrder
  <2>5. \A t \in ToSet(run.args.tables) \ (failed' \cup ToSet(todo')) : Clean(t)'
    BY <1>1, <2>1, <2>3, <2>4, CleanStays
  <2>6. Cutoff' = Cutoff
    BY <2>1 DEF Cutoff, as_of
  <2> QED
    BY <1>0, <2>1, <2>5, <2>6 DEF AttemptFits
<1>9. CASE End
  <2>1. /\ UNCHANGED <<run, attempts, older_than, todo, failed, snapshots, storage>>
        /\ exit = "running" /\ todo = <<>> /\ exit' \in {"success", "error"}
    BY <1>9 DEF End, table
  <2>2. \A t \in Done : Clean(t) /\ InOrder(t)
    BY <1>0, <1>1, <2>1, UntouchedInOrder DEF AttemptFits
  <2>3. \A t \in Done : Clean(t)'
    BY <2>1, <2>2, CleanStays
  <2>4. Cutoff' = Cutoff
    BY <2>1 DEF Cutoff, as_of
  <2> QED
    BY <1>0, <2>1, <2>3, <2>4 DEF AttemptFits
<1>10. CASE Die
  <2>1. UNCHANGED <<run, older_than>> /\ exit = "running" /\ exit' = "died"
    BY <1>10 DEF Die
  <2>2. Cutoff' = Cutoff
    BY <2>1 DEF Cutoff, as_of
  <2> QED
    BY <1>0, <2>1, <2>2 DEF AttemptFits
<1> QED
  BY <1>3, <1>4, <1>5, <1>6, <1>7, <1>8, <1>9, <1>10, StepOfNext DEF AttemptStep

----------------------------------------------------------------------------
(* The theorems *)

\* Before the first run each table has one snapshot of one file.
LEMMA InitInvariant ==
  ASSUME Init
  PROVE  IInv
<1> DEFINE f0 == Data(0, 0, 0)
           S == [time : 0 .. now, files : SUBSET File]
           x == [time |-> 0, files |-> {f0}]
<1>1. NULL \notin Nat /\ MaxTime \in Nat /\ MaxRuns \in Nat /\ MaxWrites \in Nat
  BY MaintenanceAssumption
<1>2. f0 \in File /\ f0.id = 0 /\ f0.created = 0 /\ f0.row = 0 /\ f0.deletes = NULL
  BY <1>1 DEF Data, File
<1>3. /\ now = 0 /\ storage = [t \in Table |-> {f0}]
      /\ snapshots = [t \in Table |-> <<x>>]
  BY DEF Init, Snapshot
<1>4. x \in S
  BY <1>2, <1>3
<1>5. LiveIn({f0}) = {f0} /\ IsData(f0)
  BY <1>1, <1>2 DEF LiveIn, IsData
<1> HIDE DEF f0, S
<1>6. <<x>> \in Seq(S) \ {<<>>} /\ DOMAIN <<x>> = {1} /\ <<x>>[1] = x
  BY <1>4
<1>7. x.files = {f0} /\ x.time = 0
  OBVIOUS
<1> HIDE DEF x
<1>8. TypeOK
  <2>1. snapshots \in [Table -> Seq(S) \ {<<>>}]
    BY <1>3, <1>6
  <2>2. storage \in [Table -> SUBSET File]
    BY <1>2, <1>3
  <2>3. snapshots \in [Table -> Seq([time : 0 .. now, files : SUBSET File]) \ {<<>>}]
    BY <2>1 DEF S
  <2>4. /\ now \in 0 .. MaxTime /\ files \in Nat /\ writes \in 0 .. MaxWrites
        /\ attempts \in Nat /\ older_than \in Int /\ runs \in 0 .. MaxRuns
        /\ write = NULL /\ run = NULL
    BY <1>1 DEF Init
  <2>5. /\ todo = <<>> /\ steps = {} /\ failed = {} /\ exit = "none"
    BY DEF Init
  <2>6. todo \in Seq(Table)
    BY <2>5
  <2> QED
    BY <2>2, <2>3, <2>4, <2>5, <2>6 DEF TypeOK
<1>9. FilesFit
  BY <1>1, <1>2, <1>3 DEF FilesFit, Init
<1>10. SnapshotsFit
  <2>1. \A t \in Table : DOMAIN snapshots[t] = {1} /\ snapshots[t][1] = x /\ storage[t] = {f0}
    BY <1>3, <1>6
  <2>2. Written = 0
    BY DEF Init, Written
  <2>3. /\ f0.created <= x.time /\ f0.row <= Written
        /\ x.files \subseteq {f0} /\ x.time <= x.time
    BY <1>2, <1>7, <2>2
  <2>4. ASSUME NEW t \in Table, NEW i \in DOMAIN snapshots[t]
        PROVE  Fits(snapshots[t][i], storage[t], Written)
    BY <1>5, <1>7, <2>1, <2>3 DEF Fits
  <2> QED
    BY <2>1, <2>3, <2>4, SnapshotsFitEach
<1>11. WriteFits /\ PlanFits /\ StepsFit /\ AttemptFits
  BY DEF Init, WriteFits, PlanFits, StepsFit, AttemptFits
<1> QED
  BY <1>8, <1>9, <1>10, <1>11 DEF IInv

\* The inductive invariant: TypeOK, and what files, snapshots, the write, the plan and
\* the attempt in progress have to do with each other.
THEOREM MaintenanceInvariant == Spec => []IInv
<1>1. Init => IInv
  BY InitInvariant
<1>2. IInv /\ [Next]_vars => IInv'
  <2>1. ASSUME IInv, [Next]_vars PROVE IInv'
    <3>1. UNCHANGED vars => TypeOK'
      BY <2>1 DEF IInv, TypeOK, vars, table, job, attempt
    <3>2. TypeOK'
      BY <2>1, <3>1, JobTypes, AttemptTypes, StepTypes, StepOfNext
    <3> QED
      BY <2>1, <3>2, FilesStayFit, SnapshotsStayFit, WriteStaysFit, PlanStaysFit, StepsStayFit,
         AttemptStaysFit DEF IInv
  <2> QED
    BY <2>1
<1> QED
  BY <1>1, <1>2, PTL DEF Spec

\* Every variable keeps its type: no table is ever without a snapshot, and no attempt
\* begins more often than its retries allow.
THEOREM MaintenanceTypes == Spec => []TypeOK
<1>1. IInv => TypeOK
  BY DEF IInv
<1> QED
  BY <1>1, MaintenanceInvariant, PTL

\* However jobs, expiry and the removal of orphans interleave, and whenever processes
\* die, no file of a snapshot or of a write in progress is deleted.
THEOREM SnapshotsStayWhole == Spec => []SnapshotsAreWhole
<1>1. IInv => SnapshotsAreWhole
  <2>1. ASSUME IInv PROVE SnapshotsAreWhole
    <3>1. \A t \in Table : Referenced(t) \subseteq storage[t]
      BY <2>1, FilesOfSnapshot
    <3>2. write # NULL => write.adds \subseteq storage[write.table]
      BY <2>1 DEF IInv, TypeOK
    <3> QED
      BY <3>1, <3>2 DEF SnapshotsAreWhole
  <2> QED
    BY <2>1
<1> QED
  BY <1>1, MaintenanceInvariant, PTL

\* Whatever an attempt before has left behind, and whatever jobs commit meanwhile, the
\* tables that an attempt has not reported as failed are in order when it ends.
THEOREM FinishedTablesStayClean == Spec => []FinishedTablesAreClean
<1>1. IInv => FinishedTablesAreClean
  <2>1. ASSUME IInv, exit \in {"success", "error"}, NEW t \in ToSet(run.args.tables) \ failed
        PROVE  Clean(t)
    <3>1. todo = <<>>
      BY <2>1 DEF IInv, AttemptFits
    <3>2. ToSet(todo) = {}
      BY <3>1 DEF ToSet
    <3> QED
      BY <2>1, <3>2 DEF IInv, AttemptFits
  <2> QED
    BY <2>1 DEF FinishedTablesAreClean, Clean, Swept, Expired, NoOrphans
<1> QED
  BY <1>1, MaintenanceInvariant, PTL

\* An attempt deletes by the time its run was due, never by the time it is at last run:
\* every snapshot and file that goes is older than the retention was then.
THEOREM OnlyOldIsRemoved == Spec => RemovesOnlyOlder
<1> DEFINE OnlyOlder ==
      \A t \in Table :
        /\ \A i \in DOMAIN snapshots[t] :
             snapshots[t][i] \in ToSet(snapshots'[t])
               \/ snapshots[t][i].time < run.due - run.args.retention
        /\ \A f \in storage[t] \ storage'[t] : f.created < run.due - run.args.retention
<1>1. ASSUME IInv, [Next]_vars PROVE OnlyOlder
  <2>0. TypeOK /\ SnapshotsFit
    BY <1>1 DEF IInv
  <2>1. \A t \in Table : \A i \in DOMAIN snapshots[t] : snapshots[t][i] \in ToSet(snapshots[t])
    BY DEF ToSet
  <2>2. ASSUME snapshots' = snapshots, \A t \in Table : storage[t] \subseteq storage'[t]
        PROVE  OnlyOlder
    BY <2>1, <2>2
  <2>3. ASSUME NEW t \in Table, NEW fs \in SUBSET storage[t], Commit(t, fs), now' = now,
               storage' = storage
        PROVE  OnlyOlder
    <3>1. fs \in SUBSET File
      BY <2>0 DEF TypeOK
    <3>2. /\ \A u \in Table \ {t} : snapshots'[u] = snapshots[u]
          /\ ToSet(snapshots[t]) \subseteq ToSet(snapshots'[t])
      BY <2>0, <2>3, <3>1, CommitAppends
    <3> QED
      BY <2>1, <2>3, <3>2
  <2>4. ASSUME NEW t \in Table, BeginWrite(t) PROVE OnlyOlder
    <3>1. PICK fs \in SUBSET File : AddFiles(t, fs)
      <4>1. PICK row \in File, d \in File :
              (write'.adds = {row, d} \/ write'.adds = {row}) /\ AddFiles(t, write'.adds)
        BY <1>1, <2>4, BegunWrite
      <4> QED
        BY <4>1
    <3>2. \A u \in Table : storage[u] \subseteq storage'[u]
      BY <2>0, <3>1, AddedFiles
    <3> QED
      BY <2>2, <2>4, <3>2 DEF BeginWrite
  <2>5. CASE EndWrite
    <3>1. PICK t \in Table : t = write.table
      BY <1>1, <2>5, MergeSetsTheRow
    <3>2. PICK fs \in SUBSET storage[t] : Commit(t, fs)
      BY <1>1, <2>5, <3>1, MergeSetsTheRow
    <3> QED
      BY <2>3, <2>5, <3>2 DEF EndWrite
  <2>6. CASE RewriteCommit
    <3>1. PICK t \in Table : t = t1
      BY <1>1, <2>6, RewritesKeepTheRow
    <3>2. UNCHANGED <<now, storage>>
      BY <1>1, <2>6, RewritesKeepTheRow
    <3>3. snapshots' = snapshots \/ \E fs \in SUBSET storage[t] : Commit(t, fs)
      BY <1>1, <2>6, <3>1, RewritesKeepTheRow
    <3> QED
      BY <2>2, <2>3, <3>2, <3>3
  <2>7. ASSUME ExpireSnapshots, snapshots' = [snapshots EXCEPT ![t1] = Retained],
               UNCHANGED storage
        PROVE  OnlyOlder
    <3>1. At("expire_snapshots") /\ "expire_snapshots" \in CLEANUP_STEPS
      BY <2>7 DEF ExpireSnapshots, CLEANUP_STEPS
    <3>2. t1 \in Table /\ older_than = run.due - run.args.retention
      BY <1>1, <3>1, CleanupInWork
    <3>3. PICK t \in Table : t = t1
      BY <3>2
    <3>4. PICK k \in DOMAIN snapshots[t] :
            /\ \A u \in Table \ {t} : snapshots'[u] = snapshots[u]
            /\ \A i \in 1 .. k - 1 : snapshots[t][i].time < older_than
            /\ \A i \in k .. Len(snapshots[t]) : snapshots[t][i] \in ToSet(snapshots'[t])
      BY <2>0, <2>7, <3>3, ExpireKeepsSuffix
    <3>5. DOMAIN snapshots[t] = 1 .. Len(snapshots[t]) /\ k \in Int
      BY <2>0, <3>4, CurrentSnapshot
    <3>6. \A i \in DOMAIN snapshots[t] : i \in 1 .. k - 1 \/ i \in k .. Len(snapshots[t])
      BY <3>5
    <3> QED
      BY <2>1, <2>7, <3>2, <3>4, <3>6
  <2>8. ASSUME RewriteDataFiles, ~ UNCHANGED table PROVE OnlyOlder
    <3>1. PICK fs \in SUBSET File : AddFiles(t1, fs) /\ snapshots' = snapshots
      BY <1>1, <2>8, RewriteAdds
    <3>2. PICK t \in Table : t = t1
      BY <1>1, <2>8, BegunRewrite
    <3>3. \A u \in Table : storage[u] \subseteq storage'[u]
      BY <2>0, <3>1, <3>2, AddedFiles
    <3> QED
      BY <2>2, <3>1, <3>3
  <2>9. ASSUME DeleteFiles, UNCHANGED snapshots PROVE OnlyOlder
    <3>1. /\ DeletionFits(t1)
          /\ \A t \in Table : storage[t] \ storage'[t] \subseteq plan.drops
      BY <1>1, <2>9, DeletedIsUnused
    <3>2. older_than = run.due - run.args.retention
      BY <1>1, <2>9, CleanupInWork DEF DeleteFiles
    <3> QED
      BY <2>1, <2>9, <3>1, <3>2 DEF DeletionFits
  <2>10. CASE Step
    BY <2>2, <2>6, <2>7, <2>8, <2>9, <2>10, StepOnTables
  <2>11. CASE Tick \/ AbandonWrite \/ AttemptStep \/ UNCHANGED vars
    BY <2>2, <2>11, AttemptLeaves DEF Tick, AbandonWrite, vars, table
  <2> QED
    BY <1>1, <2>4, <2>5, <2>10, <2>11, StepOfNext
<1>2. IInv /\ [Next]_vars => [OnlyOlder]_vars
  BY <1>1
<1> HIDE DEF OnlyOlder
<1>3. Spec => [][OnlyOlder]_vars
  BY <1>2, MaintenanceInvariant, PTL DEF Spec
<1> QED
  BY <1>3 DEF RemovesOnlyOlder, OnlyOlder

----------------------------------------------------------------------------
(* The refinement *)

contents == [t \in Table |-> RowsIn(LastOf(t).files)]
versions == [t \in Table |-> ReadableVersions(t)]

VersionOf(s) == [time |-> s.time, rows |-> RowsIn(s.files)]

\* Since every snapshot is whole, every one of them can be read.
LEMMA AllAreReadable ==
  ASSUME SnapshotsFit, NEW t \in Table
  PROVE  versions[t] = {VersionOf(snapshots[t][i]) : i \in DOMAIN snapshots[t]}
<1>1. \A i \in DOMAIN snapshots[t] : snapshots[t][i].files \subseteq storage[t]
  BY DEF SnapshotsFit
<1>2. versions[t] = ReadableVersions(t)
  BY DEF versions
<1> QED
  BY <1>1, <1>2 DEF ReadableVersions, VersionOf

\* The same after a step.
LEMMA AllStayReadable ==
  ASSUME SnapshotsFit', NEW t \in Table
  PROVE  versions'[t] = {VersionOf(snapshots'[t][i]) : i \in DOMAIN snapshots'[t]}
<1>1. \A i \in DOMAIN snapshots'[t] : snapshots'[t][i].files \subseteq storage'[t]
  BY DEF SnapshotsFit
<1>2. versions'[t] = ReadableVersions(t)'
  BY DEF versions
<1> QED
  BY <1>1, <1>2 DEF ReadableVersions, VersionOf

\* A version has one row.
LEMMA OneRow ==
  ASSUME NEW fs, NEW f, LiveIn(fs) = {f}
  PROVE  RowsIn(fs) = {f.row}
BY DEF RowsIn

\* What becomes of contents and versions when a table gets one more snapshot.
LEMMA CommitAsVersions ==
  ASSUME TypeOK, SnapshotsFit, SnapshotsFit', NEW t \in Table, NEW fs \in SUBSET File,
         Commit(t, fs), now' = now
  PROVE  /\ contents' = [contents EXCEPT ![t] = RowsIn(fs)]
         /\ versions' = [versions EXCEPT ![t] = @ \cup {[time |-> now, rows |-> RowsIn(fs)]}]
<1> DEFINE n == Len(snapshots[t])
           x == [time |-> now, files |-> fs]
<1>1. /\ \A u \in Table \ {t} : snapshots'[u] = snapshots[u]
      /\ DOMAIN snapshots'[t] = 1 .. n + 1
      /\ \A i \in DOMAIN snapshots[t] : snapshots'[t][i] = snapshots[t][i]
      /\ snapshots'[t][n + 1] = x
      /\ LastOf(t)' = x
  BY CommitAppends
<1>2. DOMAIN snapshots[t] = 1 .. n /\ n \in Nat
  BY CurrentSnapshot
<1>3. x.files = fs /\ VersionOf(x) = [time |-> now, rows |-> RowsIn(fs)]
  BY DEF VersionOf
<1> HIDE DEF n, x
<1>4. \A u \in Table \ {t} : contents'[u] = contents[u]
  BY <1>1 DEF contents, LastOf
<1>5. contents'[t] = RowsIn(fs)
  BY <1>1, <1>3 DEF contents
<1>6. ASSUME NEW u \in Table \ {t} PROVE versions'[u] = versions[u]
  <2>1. versions[u] = {VersionOf(snapshots[u][i]) : i \in DOMAIN snapshots[u]}
    BY AllAreReadable
  <2>2. versions'[u] = {VersionOf(snapshots'[u][i]) : i \in DOMAIN snapshots'[u]}
    BY AllStayReadable
  <2> QED
    BY <1>1, <2>1, <2>2
<1>7. versions'[t] = versions[t] \cup {VersionOf(x)}
  <2>1. versions[t] = {VersionOf(snapshots[t][i]) : i \in 1 .. n}
    BY <1>2, AllAreReadable
  <2>2. versions'[t] = {VersionOf(snapshots'[t][i]) : i \in 1 .. n + 1}
    BY <1>1, AllStayReadable
  <2>3. 1 .. n + 1 = (1 .. n) \cup {n + 1}
    BY <1>2
  <2> QED
    BY <1>1, <1>2, <2>1, <2>2, <2>3
<1>8. /\ contents = [u \in Table |-> contents[u]] /\ contents' = [u \in Table |-> contents'[u]]
      /\ versions = [u \in Table |-> versions[u]] /\ versions' = [u \in Table |-> versions'[u]]
  BY DEF contents, versions
<1> QED
  BY <1>3, <1>4, <1>5, <1>6, <1>7, <1>8

\* Whatever leaves the snapshots alone leaves contents and versions alone.
LEMMA SameVersions ==
  ASSUME SnapshotsFit, SnapshotsFit', snapshots' = snapshots
  PROVE  contents' = contents /\ versions' = versions
<1>1. contents' = contents
  BY DEF contents, LastOf
<1>2. ASSUME NEW t \in Table PROVE versions'[t] = versions[t]
  <2>1. versions[t] = {VersionOf(snapshots[t][i]) : i \in DOMAIN snapshots[t]}
    BY AllAreReadable
  <2>2. versions'[t] = {VersionOf(snapshots'[t][i]) : i \in DOMAIN snapshots'[t]}
    BY AllStayReadable
  <2> QED
    BY <2>1, <2>2
<1>3. versions = [t \in Table |-> versions[t]] /\ versions' = [t \in Table |-> versions'[t]]
  BY DEF versions
<1> QED
  BY <1>1, <1>2, <1>3

\* At first each table has one version, with the row 0.
LEMMA InitAsVersions ==
  ASSUME Init
  PROVE  Versions!Init
<1> DEFINE f == Data(0, 0, 0)
           s == [time |-> 0, files |-> {f}]
<1>1. f.row = 0 /\ f.deletes = NULL /\ f.id = 0 /\ NULL # 0
  BY MaintenanceAssumption DEF Data
<1> HIDE DEF f
<1>2. LiveIn({f}) = {f}
  BY <1>1 DEF LiveIn, IsData
<1>3. RowsIn({f}) = {0}
  BY <1>1, <1>2, OneRow
<1>4. now = 0
  BY DEF Init
<1>5. \A t \in Table : snapshots[t] = <<s>> /\ storage[t] = {f}
  BY DEF Init, Snapshot, f
<1>6. s.files = {f} /\ s.time = 0
  OBVIOUS
<1> HIDE DEF s
<1>7. ASSUME NEW t \in Table
      PROVE  RowsIn(LastOf(t).files) = {0} /\ ReadableVersions(t) = {[time |-> 0, rows |-> {0}]}
  <2>1. LastOf(t) = s
    BY <1>5 DEF LastOf, Last
  <2>2. DOMAIN snapshots[t] = {1} /\ snapshots[t][1] = s
    BY <1>5
  <2>3. snapshots[t][1].files \subseteq storage[t]
    BY <1>5, <1>6, <2>2
  <2> QED
    BY <1>3, <1>6, <2>1, <2>2, <2>3 DEF ReadableVersions
<1> QED
  BY <1>4, <1>7 DEF Versions!Init

\* What a job commits, the table has not had.
LEMMA MergeIsCommit ==
  ASSUME IInv, SnapshotsFit', EndWrite
  PROVE  \E t \in Table : Versions!Commit(t)
<1>0. TypeOK /\ SnapshotsFit /\ now' = now
  BY DEF IInv, EndWrite
<1>1. PICK t \in Table : t = write.table
  BY MergeSetsTheRow
<1>2. PICK fs \in SUBSET storage[t] : \E row \in fs :
        Commit(t, fs) /\ LiveIn(fs) = {row} /\ row.row = writes
  BY <1>1, MergeSetsTheRow
<1>3. RowsIn(fs) = {writes}
  BY <1>2, OneRow
<1>4. fs \in SUBSET File
  BY <1>0, <1>2 DEF TypeOK
<1>5. /\ contents' = [contents EXCEPT ![t] = {writes}]
      /\ versions' = [versions EXCEPT ![t] = @ \cup {[time |-> now, rows |-> {writes}]}]
  BY <1>0, <1>2, <1>3, <1>4, CommitAsVersions
<1>6. writes \in 0 .. MaxWrites
  BY <1>0 DEF TypeOK
<1>7. ASSUME NEW v \in versions[t] PROVE writes \notin v.rows
  <2>1. PICK i \in DOMAIN snapshots[t] : v = VersionOf(snapshots[t][i])
    BY <1>0, <1>7, AllAreReadable
  <2>2. PICK f \in snapshots[t][i].files : LiveIn(snapshots[t][i].files) = {f}
    BY <1>0 DEF SnapshotsFit
  <2>3. f \in Referenced(t) /\ IsData(f)
    BY <2>2 DEF Referenced, LiveIn
  <2>4. f.row < writes
    BY <1>1, <2>3, MergeSetsTheRow
  <2>5. v.rows = {f.row}
    BY <2>1, <2>2, OneRow DEF VersionOf
  <2> QED
    BY <1>6, <2>4, <2>5
<1>8. contents'[t] = {writes}
  BY <1>5 DEF contents
<1> QED
  BY <1>0, <1>5, <1>6, <1>7, <1>8 DEF Versions!Commit, Versions!Current, contents, versions

\* A rewrite commits the rows that were there.
LEMMA RewriteIsRewrite ==
  ASSUME IInv, SnapshotsFit', RewriteCommit, snapshots' # snapshots
  PROVE  \E t \in Table : Versions!Rewrite(t)
<1>0. TypeOK /\ SnapshotsFit
  BY DEF IInv
<1>1. PICK t \in Table : t = t1
  BY RewritesKeepTheRow
<1>2. now' = now
  BY RewritesKeepTheRow
<1>3. PICK fs \in SUBSET storage[t], live \in Current : \E g \in fs :
        Commit(t, fs) /\ LiveIn(Current) = {live} /\ LiveIn(fs) = {g} /\ g.row = live.row
  BY <1>1, RewritesKeepTheRow
<1>4. RowsIn(fs) = RowsIn(Current)
  BY <1>3, OneRow
<1>5. contents[t] = RowsIn(Current)
  BY <1>1 DEF contents, Current
<1>6. fs \in SUBSET File
  BY <1>0, <1>3 DEF TypeOK
<1>7. /\ contents' = [contents EXCEPT ![t] = RowsIn(fs)]
      /\ versions' = [versions EXCEPT ![t] = @ \cup {[time |-> now, rows |-> RowsIn(fs)]}]
  BY <1>0, <1>2, <1>3, <1>6, CommitAsVersions
<1>8. contents' = contents
  BY <1>4, <1>5, <1>7 DEF contents
<1>9. versions' = [versions EXCEPT ![t] = @ \cup {[time |-> now, rows |-> contents[t]]}]
  BY <1>4, <1>5, <1>7
<1> QED
  BY <1>2, <1>8, <1>9 DEF Versions!Rewrite, Versions!Current, contents, versions

\* The shortest retention is one that a run can have, and none is shorter.
LEMMA RetentionsAreLonger ==
  ASSUME NEW a \in Invocations, a.retention # NULL
  PROVE  /\ ShortestRetention \in Nat
         /\ ShortestRetention <= a.retention
<1> DEFINE R == {b.retention : b \in Invocations} \ {NULL}
           IsLeast(r) == \A b \in Invocations : b.retention # NULL => r <= b.retention
<1>1. \A b \in Invocations : b.retention \in Nat \cup {NULL}
  BY MaintenanceAssumption DEF Invocation
<1>2. R \in SUBSET Nat /\ R # {}
  BY <1>1
<1>3. Min(R) \in R /\ \A x \in R : Min(R) <= x
  BY <1>2, LeastIndex
<1>4. \E r \in R : IsLeast(r)
  BY <1>3
<1>5. ShortestRetention \in R /\ IsLeast(ShortestRetention)
  BY <1>4 DEF ShortestRetention
<1> QED
  BY <1>2, <1>5

\* What expires is older than the retention; the current version stays.
LEMMA ExpiryIsForget ==
  ASSUME IInv, SnapshotsFit', ExpireSnapshots, snapshots' = [snapshots EXCEPT ![t1] = Retained]
  PROVE  \E t \in Table : Versions!Forget(t)
<1>0. TypeOK /\ SnapshotsFit
  BY DEF IInv
<1>1. At("expire_snapshots") /\ "expire_snapshots" \in CLEANUP_STEPS /\ now' = now
  BY DEF ExpireSnapshots, CLEANUP_STEPS, Unchanged
<1>2. /\ t1 \in Table /\ run # NULL
      /\ run.due \in 0 .. now /\ run.args.retention \in Nat
      /\ older_than = run.due - run.args.retention
  BY <1>1, CleanupInWork
<1>3. run.args \in Invocations /\ run.args.retention # NULL /\ now \in Nat
  BY <1>0, <1>2, Numbers, MaintenanceAssumption DEF TypeOK
<1>4. older_than <= now - ShortestRetention
  BY <1>2, <1>3, RetentionsAreLonger
<1>5. ShortestRetention \in Nat
  BY <1>3, RetentionsAreLonger
<1>6. PICK t \in Table : t = t1
  BY <1>2
<1>7. PICK k \in DOMAIN snapshots[t] :
        /\ \A u \in Table \ {t} : snapshots'[u] = snapshots[u]
        /\ DOMAIN snapshots'[t] = 1 .. Len(snapshots[t]) - k + 1
        /\ \A i \in DOMAIN snapshots'[t] :
             /\ k + i - 1 \in DOMAIN snapshots[t]
             /\ snapshots'[t][i] = snapshots[t][k + i - 1]
        /\ LastOf(t)' = LastOf(t)
        /\ snapshots'[t][Len(snapshots[t]) - k + 1] = LastOf(t)
        /\ \A i \in 1 .. k - 1 : snapshots[t][i].time < older_than
  BY <1>0, <1>6, ExpireKeepsSuffix
<1>8. DOMAIN snapshots[t] = 1 .. Len(snapshots[t]) /\ k \in Int /\ Len(snapshots[t]) \in Nat
  BY <1>0, <1>7, CurrentSnapshot
<1>9. /\ versions[t] = {VersionOf(snapshots[t][i]) : i \in DOMAIN snapshots[t]}
      /\ versions'[t] = {VersionOf(snapshots'[t][i]) : i \in DOMAIN snapshots'[t]}
  BY <1>0, AllAreReadable, AllStayReadable
<1>10. ASSUME NEW u \in Table \ {t} PROVE versions'[u] = versions[u]
  <2>1. versions[u] = {VersionOf(snapshots[u][i]) : i \in DOMAIN snapshots[u]}
    BY <1>0, AllAreReadable
  <2>2. versions'[u] = {VersionOf(snapshots'[u][i]) : i \in DOMAIN snapshots'[u]}
    BY AllStayReadable
  <2> QED
    BY <1>7, <2>1, <2>2
<1>11. contents' = contents
  <2>1. \A u \in Table \ {t} : LastOf(u)' = LastOf(u)
    BY <1>7 DEF LastOf
  <2>2. \A u \in Table : LastOf(u)' = LastOf(u)
    BY <1>7, <2>1
  <2> QED
    BY <2>2 DEF contents
<1>12. versions'[t] \subseteq versions[t]
  BY <1>7, <1>9
<1>13. ASSUME NEW v \in versions[t], v \notin versions'[t] PROVE v.time < now - ShortestRetention
  <2>1. PICK i \in DOMAIN snapshots[t] : v = VersionOf(snapshots[t][i])
    BY <1>9
  <2>2. v.time = snapshots[t][i].time /\ snapshots[t][i].time \in 0 .. now
    BY <1>0, <2>1, CurrentSnapshot DEF VersionOf
  <2>3. ASSUME i \notin 1 .. k - 1 PROVE FALSE
    <3>1. i - k + 1 \in DOMAIN snapshots'[t] /\ k + (i - k + 1) - 1 = i
      BY <1>7, <1>8, <2>3
    <3>2. snapshots'[t][i - k + 1] = snapshots[t][i]
      BY <1>7, <3>1
    <3> QED
      BY <1>9, <1>13, <2>1, <3>1, <3>2
  <2>4. v.time < older_than
    BY <1>7, <2>2, <2>3
  <2>5. older_than \in Int
    BY <1>0, Numbers
  <2> QED
    BY <1>3, <1>4, <1>5, <2>2, <2>4, <2>5
<1>14. \E v \in versions'[t] : v.rows = contents[t]
  <2>1. Len(snapshots[t]) - k + 1 \in DOMAIN snapshots'[t]
    BY <1>7, <1>8
  <2>2. VersionOf(LastOf(t)) \in versions'[t]
    BY <1>7, <1>9, <2>1
  <2>3. VersionOf(LastOf(t)).rows = contents[t]
    BY DEF VersionOf, contents
  <2> QED
    BY <2>2, <2>3
<1> DEFINE removed == versions[t] \ versions'[t]
<1>15. removed \in SUBSET {v \in versions[t] : v.time < now - ShortestRetention}
  BY <1>13
<1>16. versions = [u \in Table |-> versions[u]] /\ versions' = [u \in Table |-> versions'[u]]
  BY DEF versions
<1>17. versions'[t] = versions[t] \ removed
  BY <1>12
<1> HIDE DEF removed
<1>18. versions' = [versions EXCEPT ![t] = @ \ removed]
  BY <1>10, <1>16, <1>17
<1> QED
  BY <1>1, <1>11, <1>14, <1>15, <1>18 DEF Versions!Forget, contents, versions

\* Every step of the jobs and of maintenance is one of TableVersions, or none.
LEMMA StepAsVersions ==
  ASSUME IInv, IInv', [Next]_vars
  PROVE  [Versions!Next]_Versions!vars
<1>0. SnapshotsFit /\ SnapshotsFit'
  BY DEF IInv
<1>1. ASSUME snapshots' = snapshots, now' = now PROVE UNCHANGED Versions!vars
  BY <1>0, <1>1, SameVersions DEF Versions!vars, contents, versions
<1>2. CASE Tick
  <2>1. contents' = contents /\ versions' = versions
    BY <1>0, <1>2, SameVersions DEF Tick, table
  <2> QED
    BY <1>2, <2>1 DEF Tick, Versions!Next, Versions!Wait, contents, versions
<1>3. CASE EndWrite
  BY <1>0, <1>3, MergeIsCommit DEF Versions!Next
<1>4. CASE RewriteCommit
  <2>1. now' = now
    BY <1>4, RewritesKeepTheRow
  <2>2. CASE snapshots' = snapshots
    BY <1>1, <2>1, <2>2
  <2>3. CASE snapshots' # snapshots
    BY <1>0, <1>4, <2>3, RewriteIsRewrite DEF Versions!Next
  <2> QED
    BY <2>2, <2>3
<1>5. CASE ExpireSnapshots /\ snapshots' = [snapshots EXCEPT ![t1] = Retained]
  BY <1>0, <1>5, ExpiryIsForget DEF Versions!Next
<1>6. CASE Step
  <2>1. now' = now
    BY <1>6, StepLeaves
  <2>2. ASSUME RewriteDataFiles, ~ UNCHANGED table PROVE snapshots' = snapshots
    BY <2>2, RewriteAdds
  <2> QED
    BY <1>1, <1>4, <1>5, <1>6, <2>1, <2>2, StepOnTables
<1>7. CASE (\E t \in Table : BeginWrite(t)) \/ AbandonWrite
  BY <1>1, <1>7 DEF BeginWrite, AbandonWrite, table
<1>8. CASE AttemptStep
  BY <1>1, <1>8, AttemptLeaves
<1>9. CASE UNCHANGED vars
  BY <1>1, <1>9 DEF vars, table
<1> QED
  BY <1>2, <1>3, <1>6, <1>7, <1>8, <1>9, StepOfNext

\* Jobs and maintenance together implement TableVersions, for every set of tables and
\* every way to run maintenance: only a job's commit changes what a table contains, and
\* every version can be read until it is older than the shortest retention.
THEOREM ImplementsVersions == Spec => ImplementsTableVersions
<1>1. Init => Versions!Init
  BY InitAsVersions
<1>2. IInv /\ IInv' /\ [Next]_vars => [Versions!Next]_Versions!vars
  BY StepAsVersions
<1>3. Spec => Versions!Spec
  BY <1>1, <1>2, MaintenanceInvariant, PTL DEF Spec, Versions!Spec
<1> QED
  BY <1>3 DEF ImplementsTableVersions
=============================================================================
