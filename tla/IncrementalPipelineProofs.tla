--------------------- MODULE IncrementalPipelineProofs ---------------------
(***************************************************************************)
(* Theorems about IncrementalPipeline, for every set of events, number of  *)
(* retries and number of runs.                                             *)
(***************************************************************************)
EXTENDS IncrementalPipeline, FunnelRulesProofs

\* What a funnel attempt is about to merge was computed from the tables as they still
\* are: nothing else writes between its reads and its MERGE.
PlanIsCurrent ==
  step = "planned" =>
    task = "silver_funnel" /\ plan = PlanFor(silver, funnel, batchFile)

IInv ==
  /\ TypeOK
  /\ PlanIsCurrent
  /\ UniqueKeys(funnel)

----------------------------------------------------------------------------
(* Types of what the actions compute *)

\* The dates of events, and the Gold partitions of dates, are known ones.
LEMMA EventDatesAreDates ==
  ASSUME NEW S \in SUBSET Event
  PROVE  EventDates(S) \subseteq Date
BY DEF EventDates, Date

\* The partitions that events or rows of known dates feed are known ones.
LEMMA CellsAreCells ==
  ASSUME NEW D \in SUBSET Date
  PROVE  EventCells(D) \subseteq GoldTable \X Date /\ FunnelCells(D) \subseteq GoldTable \X Date
BY DEF EventCells, FunnelCells

\* The rows whose replacement dirties Gold have dates.
LEMMA ChangedRowDates ==
  ASSUME NEW T \in SUBSET FunnelRowType, NEW U \in SUBSET FunnelRowType
  PROVE  RowDates((T \ U) \cup (U \ T)) \subseteq Date
BY DEF RowDates, FunnelRowType

\* BUILDERS lists five tables.
LEMMA BuildersFacts ==
  /\ Len(BUILDERS) = 5
  /\ \A i \in 1 .. 5 : BUILDERS[i] \in GoldTable
  /\ GoldTable = {"daily_gmv", "category_gmv", "pipeline_sla", "data_quality", "funnel_daily"}
BY DEF BUILDERS, GoldTable

Partition == [events : SUBSET Event, rows : SUBSET FunnelRowType]

\* What an aggregation reads for a date is a partition.
LEMMA ContentsType ==
  ASSUME NEW S \in SUBSET Event, NEW F \in SUBSET FunnelRowType, NEW t \in GoldTable, NEW d
  PROVE  Contents(t, S, F, d) \in Partition
<1>1. /\ EventsOn(S, d) \in SUBSET Event
      /\ Purchases(EventsOn(S, d)) \in SUBSET Event
      /\ RowsOn(F, d) \in SUBSET FunnelRowType
      /\ PurchasedUnviewed(RowsOn(F, d)) \in SUBSET FunnelRowType
  BY DEF EventsOn, Purchases, OfType, RowsOn, PurchasedUnviewed
<1>2. Absent \in Partition
  BY DEF Absent, Partition
<1>3. CASE t \in {"daily_gmv", "category_gmv"}
  BY <1>1, <1>3 DEF Contents, Absent, Partition
<1>4. CASE t = "pipeline_sla"
  BY <1>1, <1>4 DEF Contents, Absent, Partition
<1>5. CASE t = "data_quality"
  BY <1>1, <1>2, <1>5 DEF Contents, Partition
<1>6. CASE t = "funnel_daily"
  BY <1>1, <1>6 DEF Contents, Absent, Partition
<1>7. QED
  BY <1>3, <1>4, <1>5, <1>6, BuildersFacts

\* An incremental job plans well-formed rows, one per key, and its dates cover them.
LEMMA PlanForType ==
  ASSUME NEW S \in SUBSET Event, NEW T \in SUBSET FunnelRowType, NEW B \in SUBSET Event
  PROVE  /\ PlanFor(S, T, B) \in [rows : SUBSET FunnelRowType, dates : SUBSET Date]
         /\ UniqueKeys(PlanFor(S, T, B).rows)
         /\ \A t \in T, r \in PlanFor(S, T, B).rows :
              KeyOf(t) = KeyOf(r) => t.date \in PlanFor(S, T, B).dates
<1> DEFINE K == AffectedKeys(T, B)
           R == Recompute(S, K)
<1>1. R \in SUBSET FunnelRowType /\ UniqueKeys(R) /\ KeysOf(R) \subseteq K
  BY RecomputeIsTable
<1>2. MergeDates(T, K, R) \subseteq Date
  BY <1>1, RowDatesAreDates
<1>3. PlanFor(S, T, B) = [rows |-> R, dates |-> MergeDates(T, K, R)]
  BY DEF PlanFor
<1>4. \A t \in T, r \in R : KeyOf(t) = KeyOf(r) => t.date \in MergeDates(T, K, R)
  BY <1>1, MergeDatesCover
<1> HIDE DEF K, R
<1>5. /\ PlanFor(S, T, B).rows = R
      /\ PlanFor(S, T, B).dates = MergeDates(T, K, R)
  BY <1>3
<1>6. QED
  BY <1>1, <1>2, <1>3, <1>4, <1>5

\* Refreshing partitions keeps the Gold tables well-formed.
LEMMA OverwriteType ==
  ASSUME TypeOK, NEW t \in GoldTable, NEW D, Overwrite(t, D)
  PROVE  gold' \in [GoldTable -> [Date -> Partition]]
<1>1. \A d \in Date : Contents(t, silver, funnel, d) \in Partition
  BY ContentsType DEF TypeOK
<1>2. gold \in [GoldTable -> [Date -> Partition]]
  BY DEF TypeOK, Partition
<1>3. [d \in Date |-> IF d \in D THEN Contents(t, silver, funnel, d) ELSE gold[t][d]]
        \in [Date -> Partition]
  BY <1>1, <1>2
<1>4. QED
  BY <1>2, <1>3 DEF Overwrite

----------------------------------------------------------------------------
(* The invariant: initially, and in every step *)

\* The empty tables satisfy the invariant.
LEMMA InitIInv == Init => IInv
<1> SUFFICES ASSUME Init PROVE IInv
  OBVIOUS
<1>1. Absent \in Partition
  BY DEF Absent, Partition
<1>2. gold \in [GoldTable -> [Date -> Partition]]
  BY <1>1 DEF Init
<1>3. /\ NoPlan \in [rows : SUBSET FunnelRowType, dates : SUBSET Date]
      /\ 0 \in 0 .. Retries
      /\ 0 \in 0 .. MaxRuns
      /\ 1 \in 1 .. (Len(BUILDERS) + 1)
  BY BuildersFacts, RetriesAssumption, MaxRunsAssumption DEF NoPlan
<1>4. TypeOK
  BY <1>2, <1>3 DEF Init, TypeOK, Partition
<1>5. QED
  BY <1>4 DEF Init, IInv, PlanIsCurrent, UniqueKeys

\* Silver takes events in.
LEMMA EnterSilverType ==
  ASSUME TypeOK, NEW B \in SUBSET Event, EnterSilver(B)
  PROVE  /\ silver' \subseteq Event
         /\ owedEvents' \subseteq Event
         /\ dirty' \subseteq GoldTable \X Date
<1>1. EventDates(B \ silver) \subseteq Date
  BY EventDatesAreDates
<1>2. QED
  BY <1>1, CellsAreCells DEF TypeOK, EnterSilver

\* A MERGE of rows into the funnel, with all that follows from it.
LEMMA MergeFunnelIInv ==
  ASSUME IInv, NEW R \in SUBSET FunnelRowType, NEW D, UniqueKeys(R),
         \A t \in funnel, r \in R : KeyOf(t) = KeyOf(r) => D = {} \/ t.date \in D,
         funnel' = Merge(funnel, R, D)
  PROVE  /\ funnel' \subseteq FunnelRowType
         /\ UniqueKeys(funnel')
         /\ FunnelCells(RowDates((funnel \ funnel') \cup (funnel' \ funnel)))
              \subseteq GoldTable \X Date
<1>1. funnel \in SUBSET FunnelRowType /\ UniqueKeys(funnel)
  BY DEF IInv, TypeOK
<1>2. funnel' \subseteq FunnelRowType /\ UniqueKeys(funnel')
  BY <1>1, MergeIsTable
<1>3. RowDates((funnel \ funnel') \cup (funnel' \ funnel)) \subseteq Date
  BY <1>1, <1>2, ChangedRowDates
<1>4. QED
  BY <1>2, <1>3, CellsAreCells

\* The silver_events task: a batch enters Silver and is handed on.
LEMMA SilverTaskIInv == IInv /\ SilverTask => IInv'
<1> SUFFICES ASSUME IInv, SilverTask PROVE IInv'
  OBVIOUS
<1> USE DEF IInv
<1>1. CASE MergeSilver
  <2>1. PICK B \in SUBSET Event : batch' = B /\ EnterSilver(B) /\ merged' = B
    BY <1>1 DEF MergeSilver, Batch
  <2>2. TypeOK'
    BY <1>1, <2>1, EnterSilverType DEF MergeSilver, TypeOK
  <2>3. QED
    BY <1>1, <2>2 DEF MergeSilver, PlanIsCurrent
<1>2. CASE WriteBatchOutput
  BY <1>2 DEF WriteBatchOutput, TypeOK, PlanIsCurrent, layers, history
<1>3. CASE ReportSilver
  <2>1. EventDates(batch) \subseteq Date
    BY EventDatesAreDates DEF TypeOK
  <2>2. TypeOK'
    BY <1>3, <2>1, BuildersFacts, RetriesAssumption
    DEF ReportSilver, TypeOK, Begin, layers, history, Task
  <2>3. QED
    BY <1>3, <2>2 DEF ReportSilver, PlanIsCurrent, Begin, layers
<1>4. QED
  BY <1>1, <1>2, <1>3 DEF SilverTask

\* The silver_funnel task: the plan is current until it is merged, and its dates cover it.
LEMMA FunnelTaskIInv == IInv /\ FunnelTask => IInv'
<1> SUFFICES ASSUME IInv, FunnelTask PROVE IInv'
  OBVIOUS
<1> USE DEF IInv
<1>1. CASE SkipFunnel
  <2>1. TypeOK'
    BY <1>1, BuildersFacts, RetriesAssumption
    DEF SkipFunnel, TypeOK, Begin, layers, history, Task
  <2>2. QED
    BY <1>1, <2>1 DEF SkipFunnel, PlanIsCurrent, Begin, layers
<1>2. CASE PlanFunnel
  <2>1. PlanFor(silver, funnel, batchFile) \in [rows : SUBSET FunnelRowType, dates : SUBSET Date]
    BY PlanForType DEF TypeOK
  <2>2. TypeOK'
    BY <1>2, <2>1 DEF PlanFunnel, TypeOK, layers, history
  <2>3. QED
    BY <1>2, <2>2 DEF PlanFunnel, PlanIsCurrent, layers
<1>3. CASE MergeFunnel
  <2>1. /\ UniqueKeys(plan.rows)
        /\ \A t \in funnel, r \in plan.rows : KeyOf(t) = KeyOf(r) => t.date \in plan.dates
    BY <1>3, PlanForType DEF MergeFunnel, PlanIsCurrent, TypeOK
  <2>2. plan.rows \in SUBSET FunnelRowType
    BY DEF TypeOK
  <2>3. /\ funnel' \subseteq FunnelRowType
        /\ UniqueKeys(funnel')
        /\ FunnelCells(RowDates((funnel \ funnel') \cup (funnel' \ funnel)))
              \subseteq GoldTable \X Date
    BY <1>3, <2>1, <2>2, MergeFunnelIInv DEF MergeFunnel
  <2>4. TypeOK'
    BY <1>3, <2>3 DEF MergeFunnel, TypeOK
  <2>5. QED
    BY <1>3, <2>3, <2>4 DEF MergeFunnel, PlanIsCurrent
<1>4. CASE ReportFunnel
  <2>1. TypeOK'
    BY <1>4, BuildersFacts, RetriesAssumption
    DEF ReportFunnel, TypeOK, Begin, layers, history, Task, NoPlan
  <2>2. QED
    BY <1>4, <2>1 DEF ReportFunnel, PlanIsCurrent, Begin, layers
<1>5. QED
  BY <1>1, <1>2, <1>3, <1>4 DEF FunnelTask

\* The gold task: partitions are replaced by contents of the right type.
LEMMA GoldTaskIInv == IInv /\ GoldTask => IInv'
<1> SUFFICES ASSUME IInv, GoldTask PROVE IInv'
  OBVIOUS
<1> USE DEF IInv
<1>1. CASE OverwriteGold
  <2>1. Current \in GoldTable /\ position \in 1 .. 5
    BY <1>1, BuildersFacts DEF OverwriteGold, AtTable, Current, TypeOK
  <2>2. gold' \in [GoldTable -> [Date -> Partition]]
    BY <1>1, <2>1, OverwriteType DEF OverwriteGold
  <2>3. TypeOK'
    BY <1>1, <2>1, <2>2, BuildersFacts DEF OverwriteGold, TypeOK, handoff, Partition
  <2>4. QED
    BY <1>1, <2>3 DEF OverwriteGold, PlanIsCurrent, handoff
<1>2. CASE SkipGoldTable
  <2>1. position \in 1 .. 5
    BY <1>2, BuildersFacts DEF SkipGoldTable, AtTable, TypeOK
  <2>2. TypeOK'
    BY <1>2, <2>1, BuildersFacts DEF SkipGoldTable, TypeOK, layers, handoff, history
  <2>3. QED
    BY <1>2, <2>2 DEF SkipGoldTable, PlanIsCurrent, layers, handoff
<1>3. CASE FinishGold
  <2>1. TypeOK'
    BY <1>3, BuildersFacts, RetriesAssumption
    DEF FinishGold, TypeOK, Begin, layers, handoff, history, Task
  <2>2. QED
    BY <1>3, <2>1 DEF FinishGold, PlanIsCurrent, Begin, layers, handoff
<1>4. QED
  BY <1>1, <1>2, <1>3 DEF GoldTask

\* Attempts and runs end without touching the tables.
LEMMA EndingIInv == IInv /\ (FinishRun \/ FailAttempt \/ FailRun) => IInv'
<1> SUFFICES ASSUME IInv, FinishRun \/ FailAttempt \/ FailRun PROVE IInv'
  OBVIOUS
<1> USE DEF IInv
<1>1. CASE EndRun
  <2>1. /\ NoPlan \in [rows : SUBSET FunnelRowType, dates : SUBSET Date]
        /\ 0 \in 0 .. Retries
        /\ 1 \in 1 .. (Len(BUILDERS) + 1)
    BY BuildersFacts, RetriesAssumption DEF NoPlan
  <2>2. lost \cup dirty \subseteq GoldTable \X Date
    BY DEF TypeOK
  <2>3. TypeOK'
    BY <1>1, <2>1, <2>2 DEF EndRun, TypeOK, Begin, layers
  <2>4. QED
    BY <1>1, <2>3 DEF EndRun, PlanIsCurrent, Begin, layers
<1>2. CASE FailAttempt
  <2>1. failures' \in 0 .. Retries
    BY <1>2, RetriesAssumption DEF FailAttempt, RetriesLeft, TypeOK
  <2>2. TypeOK'
    BY <1>2, <2>1, BuildersFacts DEF FailAttempt, TypeOK, layers, NoPlan
  <2>3. QED
    BY <1>2, <2>2 DEF FailAttempt, PlanIsCurrent, layers
<1>3. QED
  BY <1>1, <1>2 DEF FinishRun, FailRun

\* Jobs by hand.
LEMMA OperatorIInv == IInv /\ Operator => IInv'
<1> SUFFICES ASSUME IInv, Operator PROVE IInv'
  OBVIOUS
<1> USE DEF IInv
<1>1. step # "planned" /\ step' = step /\ runs' \in 0 .. MaxRuns
  BY MaxRunsAssumption
  DEF Operator, RebuildSilver, RebuildFunnel, RebuildGold, ByHand, control, PlanIsCurrent, TypeOK
<1>2. CASE RebuildSilver
  <2>1. PICK B \in SUBSET Event :
          /\ silver' = B
          /\ owedEvents' = owedEvents \cup (B \ silver)
          /\ lost' = lost \cup EventCells(EventDates(B \ silver))
    BY <1>2 DEF RebuildSilver
  <2>2. EventCells(EventDates(B \ silver)) \subseteq GoldTable \X Date
    BY EventDatesAreDates, CellsAreCells
  <2>3. TypeOK'
    BY <1>1, <1>2, <2>1, <2>2 DEF RebuildSilver, TypeOK, control, handoff
  <2>4. QED
    BY <1>1, <1>2, <2>3 DEF RebuildSilver, PlanIsCurrent
<1>3. CASE RebuildFunnel
  <2>1. FullRebuild(silver) \in SUBSET FunnelRowType /\ UniqueKeys(FullRebuild(silver))
    BY FullRebuildIsTable DEF TypeOK
  <2>2. /\ funnel' \subseteq FunnelRowType
        /\ UniqueKeys(funnel')
        /\ FunnelCells(RowDates((funnel \ funnel') \cup (funnel' \ funnel)))
              \subseteq GoldTable \X Date
    BY <1>3, <2>1, MergeFunnelIInv DEF RebuildFunnel
  <2>3. TypeOK'
    BY <1>1, <1>3, <2>2 DEF RebuildFunnel, TypeOK, control, handoff
  <2>4. QED
    BY <1>1, <2>2, <2>3 DEF PlanIsCurrent
<1>4. CASE RebuildGold
  <2>1. PICK t \in GoldTable, D \in SUBSET Date : Overwrite(t, D) /\ lost' = lost \ ({t} \X D)
    BY <1>4 DEF RebuildGold
  <2>2. gold' \in [GoldTable -> [Date -> Partition]]
    BY <2>1, OverwriteType
  <2>3. TypeOK'
    BY <1>1, <1>4, <2>1, <2>2 DEF RebuildGold, TypeOK, control, handoff, Partition
  <2>4. QED
    BY <1>1, <1>4, <2>3 DEF RebuildGold, PlanIsCurrent
<1>5. QED
  BY <1>2, <1>3, <1>4 DEF Operator

\* The invariant is inductive.
LEMMA StepIInv == IInv /\ [Next]_vars => IInv'
<1> SUFFICES ASSUME IInv, [Next]_vars PROVE IInv'
  OBVIOUS
<1>1. CASE StartRun
  <2>1. TypeOK'
    BY <1>1, BuildersFacts, RetriesAssumption, MaxRunsAssumption
    DEF IInv, StartRun, TypeOK, Begin, layers, handoff, history, Task
  <2>2. QED
    BY <1>1, <2>1 DEF IInv, StartRun, PlanIsCurrent, Begin, layers, handoff
<1>2. CASE RunStep
  BY <1>2, SilverTaskIInv, FunnelTaskIInv, GoldTaskIInv, EndingIInv DEF RunStep
<1>3. CASE Operator
  BY <1>3, OperatorIInv
<1>4. CASE UNCHANGED vars
  BY <1>4 DEF IInv, TypeOK, PlanIsCurrent, vars, layers, control, handoff, history
<1>5. QED
  BY <1>1, <1>2, <1>3, <1>4 DEF Next

\* The funnel MERGE gives the affected keys the rows of a full rebuild, and touches no other.
LEMMA MergeFunnelReplaces ==
  ASSUME IInv, MergeFunnel
  PROVE  LET K == AffectedKeys(funnel, batchFile) \cap KeysOf(silver)
         IN  /\ silver' = silver /\ batchFile' = batchFile
             /\ funnel' = {t \in funnel : KeyOf(t) \notin K} \cup {FunnelRow(silver, k) : k \in K}
<1> DEFINE K == AffectedKeys(funnel, batchFile) \cap KeysOf(silver)
           R == {FunnelRow(silver, k) : k \in K}
<1>1. /\ silver \in SUBSET Event /\ funnel \in SUBSET FunnelRowType
      /\ batchFile \in SUBSET Event
      /\ silver' = silver /\ batchFile' = batchFile
  BY DEF IInv, TypeOK, MergeFunnel
<1>2. plan = PlanFor(silver, funnel, batchFile)
  BY DEF IInv, PlanIsCurrent, MergeFunnel
<1>3. plan.rows = R
  BY <1>1, <1>2, RecomputeIsFullRebuild DEF PlanFor
<1>4. KeysOf(R) = K
  <2>1. \A k \in K : KeyOf(FunnelRow(silver, k)) = k
    BY <1>1, FunnelRowIsRow
  <2>2. QED
    BY <2>1 DEF KeysOf
<1>5. /\ UniqueKeys(plan.rows)
      /\ \A t \in funnel, r \in plan.rows : KeyOf(t) = KeyOf(r) => t.date \in plan.dates
  BY <1>1, <1>2, PlanForType
<1>6. Merge(funnel, plan.rows, plan.dates)
        = {t \in funnel : KeyOf(t) \notin KeysOf(plan.rows)} \cup plan.rows
  BY <1>5, MergeReplacesKeys
<1>7. QED
  BY <1>1, <1>3, <1>4, <1>6 DEF MergeFunnel

\* The tables are well-formed, funnel keys are unique and a plan is never out of date.
THEOREM Invariance == Spec => []IInv
BY InitIInv, StepIInv, PTL DEF Spec

\* The tables, the hand-off between tasks and the bookkeeping stay well-formed,
\* whatever attempts die and whatever is rebuilt by hand.
THEOREM TypeCorrect == Spec => []TypeOK
<1>1. IInv => TypeOK
  BY DEF IInv
<1>2. QED
  BY <1>1, Invariance, PTL

\* silver_funnel keeps one row per key, although the MERGE of an incremental job only
\* looks for its keys in the partitions it lists.
THEOREM FunnelKeysStayUnique == Spec => []UniqueFunnelKeys
<1>1. IInv => UniqueFunnelKeys
  BY DEF IInv, UniqueKeys, UniqueFunnelKeys
<1>2. QED
  BY <1>1, Invariance, PTL

=============================================================================
