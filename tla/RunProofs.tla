----------------------------- MODULE RunProofs -----------------------------
(***************************************************************************)
(* What a run that gets through owes nobody: every event its attempts      *)
(* merged is covered by its funnel MERGE, and every Gold partition its     *)
(* changes made stale is overwritten, or still on record.                  *)
(***************************************************************************)
EXTENDS IncrementalPipelineProofs

\* What the attempts of a run leave for its later tasks.
HandOff ==
  /\ task = "none" => merged = {} /\ dirty = {} /\ ~unreported
  /\ task = "silver_events" =>
       /\ ~unreported
       /\ step \in {"merged", "written"} => batch = merged
       /\ step = "written" => batchFile = merged
  /\ task = "silver_funnel" =>
       batch = merged /\ batchFile = merged /\ eventDates = EventDates(merged)
  /\ task = "silver_funnel" /\ step = "merged" => merged \cap owedEvents = {}
  /\ NothingMergedIsForgotten

\* Gold partitions that this gold attempt is still going to overwrite.
Remaining ==
  {c \in GoldTable \X Date :
     \E i \in position .. Len(BUILDERS) :
       c[1] = BUILDERS[i] /\ c[2] \in SelectedDates(c[1], eventDates, funnelDates)}

\* Until a funnel attempt dies unreported, what the run dirtied is listed for its gold
\* task: in the events and dates handed on, then in the tables it has yet to come to.
DirtyIsListed ==
  ~unreported =>
    /\ task = "silver_events" => dirty \subseteq EventCells(EventDates(merged))
    /\ task = "silver_funnel" =>
         dirty \subseteq EventCells(eventDates)
                           \cup (IF step = "merged" THEN FunnelCells(plan.dates) ELSE {})
    /\ task = "gold" => dirty \subseteq Remaining
    /\ task = "health_check" => dirty = {}

RInv ==
  /\ IInv
  /\ HandOff
  /\ DirtyIsListed

----------------------------------------------------------------------------
(* What the hand-off lists *)

\* The dates of an incremental MERGE list every row it replaces, inserts or updates.
LEMMA MergeChangesListedDates ==
  ASSUME NEW S \in SUBSET Event, NEW T \in SUBSET FunnelRowType, NEW B \in SUBSET Event,
         NEW U, U = Merge(T, PlanFor(S, T, B).rows, PlanFor(S, T, B).dates)
  PROVE  RowDates((T \ U) \cup (U \ T)) \subseteq PlanFor(S, T, B).dates
<1> DEFINE K == AffectedKeys(T, B)
           R == Recompute(S, K)
           D == MergeDates(T, K, R)
<1>1. U = Merge(T, R, D) /\ PlanFor(S, T, B).dates = D
  BY DEF PlanFor
<1>2. KeysOf(R) \subseteq K /\ UniqueKeys(R)
  BY RecomputeIsTable
<1> HIDE DEF K, R
<1>3. \A t \in T, r \in R : KeyOf(t) = KeyOf(r) => t.date \in D
  BY <1>2, MergeDatesCover
<1>4. RowDates(R) \subseteq D
  BY DEF MergeDates
<1> HIDE DEF D
<1>5. U = {t \in T : KeyOf(t) \notin KeysOf(R)} \cup R
  BY <1>1, <1>2, <1>3, MergeReplacesKeys
<1>6. ASSUME NEW t \in T \ U PROVE t.date \in D
  BY <1>3, <1>5 DEF KeysOf
<1>7. ASSUME NEW r \in U \ T PROVE r.date \in D
  BY <1>4, <1>5 DEF RowDates
<1>8. QED
  BY <1>1, <1>6, <1>7 DEF RowDates

\* At the start of a gold attempt everything listed is ahead of it.
LEMMA AllIsAhead ==
  ASSUME NEW D \in SUBSET Date, NEW F \in SUBSET Date,
         position' = 1, eventDates' = D, funnelDates' = F
  PROVE  EventCells(D) \cup FunnelCells(F) \subseteq Remaining'
<1> SUFFICES ASSUME NEW c \in EventCells(D) \cup FunnelCells(F) PROVE c \in Remaining'
  OBVIOUS
<1>1. /\ c \in GoldTable \X Date
      /\ c[2] \in SelectedDates(c[1], D, F)
  BY DEF EventCells, FunnelCells, SelectedDates
<1>2. c[1] \in GoldTable
  BY <1>1
<1>3. PICK i \in 1 .. Len(BUILDERS) : c[1] = BUILDERS[i]
  BY <1>2, BuildersFacts DEF GoldTable
<1>4. QED
  BY <1>1, <1>3 DEF Remaining

\* A new event is listed with the events of its batch, as were those merged before.
LEMMA BatchIsListed ==
  ASSUME NEW B \in SUBSET Event, NEW N \in SUBSET B, NEW A \in SUBSET B
  PROVE  EventCells(EventDates(A)) \cup EventCells(EventDates(N))
           \subseteq EventCells(EventDates(B))
BY DEF EventCells, EventDates

----------------------------------------------------------------------------
(* The steps *)

\* silver_events hands on all it merged, in this attempt and in those before.
LEMMA SilverTaskRInv == RInv /\ SilverTask => HandOff' /\ DirtyIsListed'
<1> SUFFICES ASSUME RInv, SilverTask PROVE HandOff' /\ DirtyIsListed'
  OBVIOUS
<1> USE DEF RInv
<1>1. CASE MergeSilver
  <2>1. PICK B \in SUBSET Event :
          merged \subseteq B /\ batch' = B /\ EnterSilver(B) /\ merged' = B
    BY <1>1 DEF MergeSilver, Batch
  <2>2. HandOff'
    BY <1>1, <2>1 DEF MergeSilver, HandOff, NothingMergedIsForgotten
  <2>3. dirty \subseteq EventCells(EventDates(merged))
    BY <1>1 DEF MergeSilver, DirtyIsListed, HandOff
  <2>4. dirty' \subseteq EventCells(EventDates(B))
    BY <2>1, <2>3, BatchIsListed DEF EnterSilver
  <2>5. QED
    BY <1>1, <2>1, <2>2, <2>4 DEF MergeSilver, DirtyIsListed
<1>2. CASE WriteBatchOutput
  BY <1>2
  DEF WriteBatchOutput, HandOff, DirtyIsListed, NothingMergedIsForgotten, layers, history
<1>3. CASE ReportSilver
  <2>1. HandOff'
    BY <1>3 DEF ReportSilver, Begin, HandOff, NothingMergedIsForgotten, history
  <2>2. DirtyIsListed'
    BY <1>3 DEF ReportSilver, Begin, HandOff, DirtyIsListed, history
  <2>3. QED
    BY <2>1, <2>2
<1>4. QED
  BY <1>1, <1>2, <1>3 DEF SilverTask

\* silver_funnel covers the batch and lists the dates of the rows it changed.
LEMMA FunnelTaskRInv == RInv /\ FunnelTask => HandOff' /\ DirtyIsListed'
<1> SUFFICES ASSUME RInv, FunnelTask PROVE HandOff' /\ DirtyIsListed'
  OBVIOUS
<1> USE DEF RInv
<1>1. CASE SkipFunnel
  <2>1. merged = {}
    BY <1>1 DEF SkipFunnel, HandOff
  <2>2. HandOff'
    BY <1>1, <2>1 DEF SkipFunnel, Begin, HandOff, NothingMergedIsForgotten, history
  <2>3. eventDates \in SUBSET Date /\ {} \in SUBSET Date
    BY DEF IInv, TypeOK
  <2>4. /\ ~unreported => dirty \subseteq EventCells(eventDates)
        /\ eventDates' = eventDates /\ dirty' = dirty /\ unreported' = unreported
        /\ position' = 1 /\ funnelDates' = {} /\ task' = "gold"
    BY <1>1 DEF SkipFunnel, Begin, DirtyIsListed, history
  <2>5. EventCells(eventDates) \subseteq Remaining'
    BY <2>3, <2>4, AllIsAhead
  <2>6. QED
    BY <2>2, <2>4, <2>5 DEF DirtyIsListed
<1>2. CASE PlanFunnel
  <2>1. HandOff'
    BY <1>2 DEF PlanFunnel, HandOff, NothingMergedIsForgotten, history
  <2>2. DirtyIsListed'
    BY <1>2 DEF PlanFunnel, DirtyIsListed, history
  <2>3. QED
    BY <2>1, <2>2
<1>3. CASE MergeFunnel
  <2>1. HandOff'
    BY <1>3 DEF MergeFunnel, HandOff, NothingMergedIsForgotten
  <2>2. plan = PlanFor(silver, funnel, batchFile)
    BY <1>3 DEF MergeFunnel, IInv, PlanIsCurrent
  <2>3. RowDates((funnel \ funnel') \cup (funnel' \ funnel)) \subseteq plan.dates
    BY <1>3, <2>2, MergeChangesListedDates DEF MergeFunnel, IInv, TypeOK
  <2>4. FunnelCells(RowDates((funnel \ funnel') \cup (funnel' \ funnel)))
          \subseteq FunnelCells(plan.dates)
    BY <2>3 DEF FunnelCells
  <2>5. QED
    BY <1>3, <2>1, <2>4 DEF MergeFunnel, DirtyIsListed
<1>4. CASE ReportFunnel
  <2>1. HandOff'
    BY <1>4 DEF ReportFunnel, Begin, HandOff, NothingMergedIsForgotten, history
  <2>2. eventDates \in SUBSET Date /\ plan.dates \in SUBSET Date
    BY DEF IInv, TypeOK
  <2>3. /\ ~unreported => dirty \subseteq EventCells(eventDates) \cup FunnelCells(plan.dates)
        /\ eventDates' = eventDates /\ dirty' = dirty /\ unreported' = unreported
        /\ position' = 1 /\ funnelDates' = plan.dates /\ task' = "gold"
    BY <1>4 DEF ReportFunnel, Begin, DirtyIsListed, history
  <2>4. EventCells(eventDates) \cup FunnelCells(plan.dates) \subseteq Remaining'
    BY <2>2, <2>3, AllIsAhead
  <2>5. QED
    BY <2>1, <2>3, <2>4 DEF DirtyIsListed
<1>5. QED
  BY <1>1, <1>2, <1>3, <1>4 DEF FunnelTask

\* gold strikes off partition by partition what is listed.
LEMMA GoldTaskRInv == RInv /\ GoldTask => HandOff' /\ DirtyIsListed'
<1> SUFFICES ASSUME RInv, GoldTask PROVE HandOff' /\ DirtyIsListed'
  OBVIOUS
<1> USE DEF RInv
<1>1. position \in 1 .. 6 /\ Len(BUILDERS) = 5
  BY BuildersFacts DEF IInv, TypeOK
<1>2. ASSUME position' = position + 1, eventDates' = eventDates, funnelDates' = funnelDates,
             NEW c \in Remaining, c \notin {Current} \X CurrentDates
      PROVE  c \in Remaining'
  <2>1. PICK i \in position .. Len(BUILDERS) :
          c[1] = BUILDERS[i] /\ c[2] \in SelectedDates(c[1], eventDates, funnelDates)
    BY DEF Remaining
  <2>2. c \in GoldTable \X Date
    BY DEF Remaining
  <2>3. i # position
    BY <1>2, <2>1, <2>2 DEF Current, CurrentDates
  <2>4. i \in position' .. Len(BUILDERS)
    BY <1>1, <1>2, <2>1, <2>3
  <2>5. QED
    BY <1>2, <2>1, <2>2, <2>4 DEF Remaining
<1>3. CASE OverwriteGold
  <2>1. HandOff'
    BY <1>3 DEF OverwriteGold, AtTable, HandOff, NothingMergedIsForgotten, handoff
  <2>2. ~unreported => dirty' \subseteq Remaining'
    BY <1>2, <1>3 DEF OverwriteGold, AtTable, DirtyIsListed, handoff
  <2>3. QED
    BY <1>3, <2>1, <2>2 DEF OverwriteGold, AtTable, DirtyIsListed, handoff
<1>4. CASE SkipGoldTable
  <2>1. HandOff'
    BY <1>4 DEF SkipGoldTable, AtTable, HandOff, NothingMergedIsForgotten, handoff, history
  <2>2. ~unreported => dirty' \subseteq Remaining'
    BY <1>2, <1>4 DEF SkipGoldTable, AtTable, DirtyIsListed, handoff, history
  <2>3. QED
    BY <1>4, <2>1, <2>2 DEF SkipGoldTable, AtTable, DirtyIsListed, handoff, history
<1>5. CASE FinishGold
  <2>1. HandOff'
    BY <1>5 DEF FinishGold, Begin, HandOff, NothingMergedIsForgotten, handoff, history
  <2>2. Remaining = {}
    BY <1>1, <1>5 DEF FinishGold, Remaining
  <2>3. QED
    BY <1>5, <2>1, <2>2 DEF FinishGold, Begin, DirtyIsListed, history
<1>6. QED
  BY <1>3, <1>4, <1>5 DEF GoldTask

\* A retry of gold starts with the first table again, and a new run with nothing owed.
LEMMA EndingRInv == RInv /\ (FinishRun \/ FailAttempt \/ FailRun) => HandOff' /\ DirtyIsListed'
<1> SUFFICES ASSUME RInv, FinishRun \/ FailAttempt \/ FailRun PROVE HandOff' /\ DirtyIsListed'
  OBVIOUS
<1> USE DEF RInv
<1>1. CASE EndRun
  BY <1>1 DEF EndRun, Begin, HandOff, DirtyIsListed, NothingMergedIsForgotten
<1>2. CASE FailAttempt
  <2>1. HandOff'
    BY <1>2 DEF FailAttempt, HandOff, NothingMergedIsForgotten, layers
  <2>2. CASE task = "gold"
    <3>1. Remaining \subseteq Remaining'
      <4>1. position' = 1 /\ position \in 1 .. 6 /\ Len(BUILDERS) = 5
        BY <1>2, BuildersFacts DEF FailAttempt, IInv, TypeOK
      <4>2. position .. Len(BUILDERS) \subseteq position' .. Len(BUILDERS)
        BY <4>1
      <4>3. QED
        BY <1>2, <4>2 DEF FailAttempt, Remaining
    <3>2. QED
      BY <1>2, <2>1, <2>2, <3>1 DEF FailAttempt, DirtyIsListed
  <2>3. CASE task # "gold"
    BY <1>2, <2>1, <2>3 DEF FailAttempt, DirtyIsListed
  <2>4. QED
    BY <2>2, <2>3
<1>3. QED
  BY <1>1, <1>2 DEF FinishRun, FailRun

\* The invariant is inductive.
LEMMA StepRInv == RInv /\ [Next]_vars => RInv'
<1> SUFFICES ASSUME RInv, [Next]_vars PROVE HandOff' /\ DirtyIsListed'
  BY StepIInv DEF RInv
<1> USE DEF RInv
<1>1. CASE StartRun
  BY <1>1
  DEF StartRun, Begin, HandOff, DirtyIsListed, NothingMergedIsForgotten, handoff, history
<1>2. CASE RunStep
  BY <1>2, SilverTaskRInv, FunnelTaskRInv, GoldTaskRInv, EndingRInv DEF RunStep
<1>3. CASE Operator
  <2>1. /\ task = "none" /\ task' = "none"
        /\ merged' = merged /\ dirty' = dirty /\ unreported' = unreported
    BY <1>3 DEF Operator, RebuildSilver, RebuildFunnel, RebuildGold, ByHand, control
  <2>2. QED
    BY <2>1 DEF HandOff, DirtyIsListed, NothingMergedIsForgotten
<1>4. CASE UNCHANGED vars
  BY <1>4 DEF vars, layers, control, handoff, history, HandOff, DirtyIsListed, Remaining,
              NothingMergedIsForgotten
<1>5. QED
  BY <1>1, <1>2, <1>3, <1>4 DEF Next

\* What a run merged and dirtied is in its hand-off, at every point of every attempt.
THEOREM RunInvariance == Spec => []RInv
<1>1. Init => RInv
  BY InitIInv DEF Init, RInv, HandOff, DirtyIsListed, NothingMergedIsForgotten
<1>2. QED
  BY <1>1, StepRInv, PTL DEF Spec

\* A run past its silver_funnel task has covered every event its attempts merged, also
\* those of attempts that died before they handed anything on.
THEOREM MergedEventsAreCovered == Spec => []NothingMergedIsForgotten
<1>1. RInv => NothingMergedIsForgotten
  BY DEF RInv, HandOff
<1>2. QED
  BY <1>1, RunInvariance, PTL

\* A run past its gold task has overwritten every partition its changes made stale, on
\* both date axes, unless a funnel attempt died between its MERGE and its report.
THEOREM GoldIsSettled == Spec => []GoldSettlesRun
<1>1. RInv => GoldSettlesRun
  BY DEF RInv, DirtyIsListed, GoldSettlesRun
<1>2. QED
  BY <1>1, RunInvariance, PTL

----------------------------------------------------------------------------
(* Gold partitions against the Silver they aggregate *)

\* A partition depends on the events and rows of its date, if its builder reads them.
LEMMA ContentsOfDate ==
  ASSUME NEW t \in GoldTable, NEW d, NEW S, NEW F, NEW U, NEW G,
         ReadsEvents(t) => EventsOn(S, d) = EventsOn(U, d),
         ReadsFunnels(t) => RowsOn(F, d) = RowsOn(G, d)
  PROVE  Contents(t, S, F, d) = Contents(t, U, G, d)
<1>1. CASE t \in {"daily_gmv", "category_gmv"}
  BY <1>1 DEF Contents, ReadsEvents
<1>2. CASE t = "pipeline_sla"
  BY <1>2 DEF Contents, ReadsEvents
<1>3. CASE t = "data_quality"
  BY <1>3 DEF Contents, ReadsEvents, ReadsFunnels
<1>4. CASE t = "funnel_daily"
  BY <1>4 DEF Contents, ReadsFunnels
<1>5. QED
  BY <1>1, <1>2, <1>3, <1>4, BuildersFacts

\* Events that enter Silver make no other partitions stale than those of their dates.
LEMMA ArrivalsStale ==
  ASSUME NEW N, silver' = silver \cup N, UNCHANGED <<funnel, gold>>
  PROVE  StaleCells' \subseteq StaleCells \cup EventCells(EventDates(N))
<1> SUFFICES ASSUME NEW c \in StaleCells', c \notin EventCells(EventDates(N))
             PROVE  c \in StaleCells
  OBVIOUS
<1>1. /\ c \in GoldTable \X Date /\ c[1] \in GoldTable
      /\ gold[c[1]][c[2]] # Contents(c[1], silver', funnel, c[2])
  BY DEF StaleCells
<1>2. ReadsEvents(c[1]) => EventsOn(silver, c[2]) = EventsOn(silver', c[2])
  BY <1>1 DEF EventCells, EventDates, EventsOn
<1>3. Contents(c[1], silver', funnel, c[2]) = Contents(c[1], silver, funnel, c[2])
  BY <1>1, <1>2, ContentsOfDate
<1>4. QED
  BY <1>1, <1>3 DEF StaleCells

\* Nor do funnel rows that come, go or change.
LEMMA ChangedRowsStale ==
  ASSUME UNCHANGED <<silver, gold>>
  PROVE  StaleCells' \subseteq
           StaleCells \cup FunnelCells(RowDates((funnel \ funnel') \cup (funnel' \ funnel)))
<1> DEFINE X == (funnel \ funnel') \cup (funnel' \ funnel)
<1> SUFFICES ASSUME NEW c \in StaleCells', c \notin FunnelCells(RowDates(X))
             PROVE  c \in StaleCells
  OBVIOUS
<1>1. /\ c \in GoldTable \X Date /\ c[1] \in GoldTable
      /\ gold[c[1]][c[2]] # Contents(c[1], silver, funnel', c[2])
  BY DEF StaleCells
<1>2. ReadsFunnels(c[1]) => RowsOn(funnel, c[2]) = RowsOn(funnel', c[2])
  BY <1>1 DEF FunnelCells, RowDates, RowsOn
<1>3. Contents(c[1], silver, funnel', c[2]) = Contents(c[1], silver, funnel, c[2])
  BY <1>1, <1>2, ContentsOfDate
<1>4. QED
  BY <1>1, <1>3 DEF StaleCells

\* An overwrite leaves none of the partitions it overwrites stale, and no other changes.
LEMMA OverwriteStale ==
  ASSUME TypeOK, NEW t \in GoldTable, NEW D, Overwrite(t, D), UNCHANGED <<silver, funnel>>
  PROVE  StaleCells' \subseteq StaleCells \ ({t} \X D)
<1> SUFFICES ASSUME NEW c \in StaleCells' PROVE c \in StaleCells /\ c \notin {t} \X D
  OBVIOUS
<1>1. /\ c \in GoldTable \X Date /\ c[1] \in GoldTable /\ c[2] \in Date
      /\ gold'[c[1]][c[2]] # Contents(c[1], silver, funnel, c[2])
  BY DEF StaleCells
<1>2. gold'[c[1]][c[2]] = IF c[1] = t /\ c[2] \in D
                          THEN Contents(t, silver, funnel, c[2])
                          ELSE gold[c[1]][c[2]]
  BY <1>1 DEF Overwrite, TypeOK
<1>3. ~ (c[1] = t /\ c[2] \in D)
  BY <1>1, <1>2
<1>4. QED
  BY <1>1, <1>2, <1>3 DEF StaleCells

\* Whatever makes a partition stale puts it on record.
LEMMA StepStale == IInv /\ StaleGoldIsAccountedFor /\ [Next]_vars => StaleGoldIsAccountedFor'
<1> SUFFICES ASSUME IInv, StaleGoldIsAccountedFor, [Next]_vars
             PROVE  StaleCells' \subseteq dirty' \cup lost'
  BY DEF StaleGoldIsAccountedFor
<1> USE DEF StaleGoldIsAccountedFor
<1>1. CASE MergeSilver
  <2>1. PICK B \in SUBSET Event : EnterSilver(B)
    BY <1>1 DEF MergeSilver
  <2>2. /\ silver' = silver \cup (B \ silver)
        /\ dirty' = dirty \cup EventCells(EventDates(B \ silver))
        /\ lost' = lost /\ UNCHANGED <<funnel, gold>>
    BY <1>1, <2>1 DEF MergeSilver, EnterSilver
  <2>3. QED
    BY <2>2, ArrivalsStale
<1>2. CASE RebuildSilver
  <2>1. PICK B \in SUBSET Event :
          /\ silver \subseteq B /\ silver' = B
          /\ lost' = lost \cup EventCells(EventDates(B \ silver))
    BY <1>2 DEF RebuildSilver
  <2>2. silver' = silver \cup (B \ silver) /\ dirty' = dirty /\ UNCHANGED <<funnel, gold>>
    BY <1>2, <2>1 DEF RebuildSilver
  <2>3. QED
    BY <2>1, <2>2, ArrivalsStale
<1>3. CASE MergeFunnel
  BY <1>3, ChangedRowsStale DEF MergeFunnel
<1>4. CASE RebuildFunnel
  BY <1>4, ChangedRowsStale DEF RebuildFunnel
<1>5. CASE OverwriteGold
  <2>1. Current \in GoldTable
    BY <1>5, BuildersFacts DEF OverwriteGold, AtTable, Current, IInv, TypeOK
  <2>2. StaleCells' \subseteq StaleCells \ ({Current} \X CurrentDates)
    BY <1>5, <2>1, OverwriteStale DEF OverwriteGold, IInv
  <2>3. QED
    BY <1>5, <2>2 DEF OverwriteGold
<1>6. CASE RebuildGold
  <2>1. PICK t \in GoldTable, D \in SUBSET Date : Overwrite(t, D) /\ lost' = lost \ ({t} \X D)
    BY <1>6 DEF RebuildGold
  <2>2. StaleCells' \subseteq StaleCells \ ({t} \X D)
    BY <1>6, <2>1, OverwriteStale DEF RebuildGold, IInv
  <2>3. QED
    BY <1>6, <2>1, <2>2 DEF RebuildGold
<1>7. CASE EndRun
  BY <1>7 DEF EndRun, layers, StaleCells
<1>8. CASE UNCHANGED <<layers, dirty, lost>>
  BY <1>8 DEF layers, StaleCells
<1>9. ASSUME ~ MergeSilver, ~ RebuildSilver, ~ MergeFunnel, ~ RebuildFunnel, ~ OverwriteGold,
             ~ RebuildGold, ~ EndRun
      PROVE  UNCHANGED <<layers, dirty, lost>>
  BY <1>9
  DEF Next, RunStep, SilverTask, FunnelTask, GoldTask, Operator, StartRun, WriteBatchOutput,
      ReportSilver, SkipFunnel, PlanFunnel, ReportFunnel, SkipGoldTable, FinishGold, FinishRun,
      FailAttempt, FailRun, vars, history
<1>10. QED
  BY <1>1, <1>2, <1>3, <1>4, <1>5, <1>6, <1>7, <1>8, <1>9

\* No Gold partition is stale without having been touched by the current run, a failed
\* one or a job by hand.
THEOREM StaleGoldIsKnown == Spec => []StaleGoldIsAccountedFor
<1>1. Init => StaleGoldIsAccountedFor
  <2> SUFFICES ASSUME Init, NEW t \in GoldTable, NEW d \in Date
               PROVE  gold[t][d] = Contents(t, silver, funnel, d)
    BY DEF StaleGoldIsAccountedFor, StaleCells
  <2>1. EventsOn(silver, d) = {} /\ RowsOn(funnel, d) = {} /\ gold[t][d] = Absent
    BY DEF Init, EventsOn, RowsOn
  <2>2. Contents(t, silver, funnel, d) = Absent
    BY <2>1, BuildersFacts DEF Contents, Absent, Purchases, OfType
  <2>3. QED
    BY <2>1, <2>2
<1>2. QED
  BY <1>1, StepStale, Invariance, PTL DEF Spec

----------------------------------------------------------------------------
(* A MERGE repeated by a retry *)

\* The keys that the batch would affect now have the row a full rebuild gives them.
NothingLeftToDo ==
  \A k \in AffectedKeys(funnel, batchFile) \cap KeysOf(silver) :
    FunnelRow(silver, k) \in funnel

NothingToRepeat ==
  task = "silver_funnel" /\ (step = "merged" \/ unreported) => NothingLeftToDo

\* A MERGE changes rows that propagation may look at, but makes it find no further keys.
LEMMA MergeLeavesNothing == IInv /\ MergeFunnel => NothingLeftToDo'
<1> SUFFICES ASSUME IInv, MergeFunnel PROVE NothingLeftToDo'
  OBVIOUS
<1> DEFINE A == AffectedKeys(funnel, batchFile)
           K == A \cap KeysOf(silver)
           R == {FunnelRow(silver, k) : k \in K}
<1>1. /\ silver' = silver /\ batchFile' = batchFile
      /\ funnel' = {t \in funnel : KeyOf(t) \notin K} \cup R
  BY MergeFunnelReplaces
<1>2. KeysOf(R) = K
  <2>1. \A k \in K : KeyOf(FunnelRow(silver, k)) = k
    BY FunnelRowIsRow DEF IInv, TypeOK
  <2>2. QED
    BY <2>1 DEF KeysOf
<1>3. ASSUME NEW k \in AffectedKeys(funnel', batchFile), k \in KeysOf(silver)
      PROVE  FunnelRow(silver, k) \in funnel'
  <2>1. CASE k \in K
    BY <1>1, <2>1
  <2>2. CASE k \notin K
    <3>1. k \notin DirectKeys(batchFile)
      BY <1>3, <2>2 DEF AffectedKeys
    <3>2. k \in PropagatedKeys(funnel', batchFile)
      BY <1>3, <3>1 DEF AffectedKeys
    <3> HIDE DEF A, R
    <3>3. PICK u \in funnel' :
            /\ KeyOf(u) = k
            /\ u.date \in PropagatedPartitions(batchFile)
            /\ u.purchase = NULL
            /\ LaterPurchases(u, Purchases(batchFile)) # {}
      BY <3>2 DEF PropagatedKeys
    <3>4. u \in funnel
      BY <1>2, <1>1, <2>2, <3>3 DEF KeysOf
    <3>5. k \in PropagatedKeys(funnel, batchFile)
      BY <3>3, <3>4 DEF PropagatedKeys
    <3>6. QED
      BY <1>3, <2>2, <3>5 DEF A, AffectedKeys
  <2>3. QED
    BY <2>1, <2>2
<1>4. QED
  BY <1>1, <1>3 DEF NothingLeftToDo

\* From the first MERGE of a run on there is nothing left to do, whatever attempts die.
LEMMA StepRepeat == IInv /\ HandOff /\ NothingToRepeat /\ [Next]_vars => NothingToRepeat'
<1> SUFFICES ASSUME IInv, HandOff, NothingToRepeat, [Next]_vars,
                    task' = "silver_funnel", step' = "merged" \/ unreported'
             PROVE  NothingLeftToDo'
  BY DEF NothingToRepeat
<1>1. CASE MergeFunnel
  BY <1>1, MergeLeavesNothing
<1>2. CASE PlanFunnel \/ FailAttempt \/ UNCHANGED vars
  <2>1. /\ task' = task /\ UNCHANGED <<silver, funnel, batchFile>>
        /\ step = "merged" \/ unreported
    <3>1. CASE PlanFunnel
      BY <3>1 DEF PlanFunnel, layers, history
    <3>2. CASE FailAttempt
      <4>1. /\ task' = task /\ UNCHANGED <<silver, funnel, batchFile>>
            /\ step' = "start"
        BY <3>2 DEF FailAttempt, layers
      <4>2. unreported' => unreported \/ step = "merged"
        BY <3>2, Zenon DEF FailAttempt
      <4>3. QED
        BY <4>1, <4>2
    <3>3. CASE UNCHANGED vars
      BY <3>3 DEF vars, layers, control, handoff, history
    <3>4. QED
      BY <1>2, <3>1, <3>2, <3>3
  <2>2. NothingLeftToDo
    BY <2>1 DEF NothingToRepeat
  <2>3. QED
    BY <2>1, <2>2 DEF NothingLeftToDo
<1>3. CASE ReportSilver
  BY <1>3 DEF ReportSilver, Begin, history, HandOff
<1>4. QED
  BY <1>1, <1>2, <1>3
  DEF Next, RunStep, SilverTask, FunnelTask, GoldTask, Operator, StartRun, MergeSilver,
      WriteBatchOutput, SkipFunnel, ReportFunnel, OverwriteGold, SkipGoldTable, FinishGold,
      AtTable, FinishRun, FailRun, EndRun, Begin, RebuildSilver, RebuildFunnel, RebuildGold,
      ByHand, control

\* A MERGE over rows that are all there already writes none.
LEMMA MergeOfTheSame ==
  ASSUME IInv, MergeFunnel, NothingLeftToDo
  PROVE  Written(funnel, plan.rows, plan.dates) = {}
<1>1. /\ silver \in SUBSET Event /\ funnel \in SUBSET FunnelRowType
      /\ batchFile \in SUBSET Event /\ UniqueKeys(funnel)
  BY DEF IInv, TypeOK
<1>2. plan = PlanFor(silver, funnel, batchFile)
  BY DEF IInv, PlanIsCurrent, MergeFunnel
<1>3. plan.rows \subseteq funnel
  BY <1>1, <1>2, RecomputeIsFullRebuild DEF PlanFor, NothingLeftToDo
<1>4. \A t \in funnel, r \in plan.rows : KeyOf(t) = KeyOf(r) => t.date \in plan.dates
  BY <1>1, <1>2, PlanForType
<1>5. \A r \in plan.rows : Matched(funnel, r, plan.dates) = {r}
  BY <1>1, <1>3, <1>4 DEF Matched, UniqueKeys
<1>6. QED
  BY <1>5 DEF Written

\* The retry of a funnel attempt that died after its MERGE finds every row in place, and
\* its MERGE writes none.
THEOREM RepeatedMergeIsIdle == Spec => RetriedMergeWritesNothing
<1>1. Init => NothingToRepeat
  BY DEF Init, NothingToRepeat
<1>2. IInv /\ NothingToRepeat /\ [Next]_vars
        => [step = "planned" /\ step' = "merged" /\ unreported =>
              Written(funnel, plan.rows, plan.dates) = {}]_vars
  <2> SUFFICES ASSUME IInv, NothingToRepeat, Next,
                      step = "planned", step' = "merged", unreported
               PROVE  Written(funnel, plan.rows, plan.dates) = {}
    OBVIOUS
  <2>1. MergeFunnel
    BY DEF Next, RunStep, SilverTask, FunnelTask, GoldTask, Operator, StartRun, MergeSilver,
           WriteBatchOutput, ReportSilver, SkipFunnel, PlanFunnel, ReportFunnel,
           OverwriteGold, SkipGoldTable, FinishGold, FinishRun, FailAttempt, FailRun, EndRun,
           Begin, RebuildSilver, RebuildFunnel, RebuildGold, control
  <2>2. NothingLeftToDo
    BY <2>1 DEF MergeFunnel, NothingToRepeat
  <2>3. QED
    BY <2>1, <2>2, MergeOfTheSame
<1>3. RInv => IInv /\ HandOff
  BY DEF RInv
<1>4. QED
  BY <1>1, <1>2, <1>3, StepRepeat, RunInvariance, PTL DEF Spec, RetriedMergeWritesNothing

=============================================================================
