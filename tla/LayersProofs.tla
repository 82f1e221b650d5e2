---------------------------- MODULE LayersProofs ----------------------------
(***************************************************************************)
(* IncrementalPipeline implements DerivedLayers: whatever batches, crashes,*)
(* retries and jobs by hand, each write to the tables is one of the writes *)
(* that specification allows; and what its incremental MERGEs leave out    *)
(* makes no difference to the funnel, but for the rows named below.        *)
(***************************************************************************)
EXTENDS IncrementalPipelineProofs

----------------------------------------------------------------------------
(* DerivedLayers is instantiated with the constants of this module, so its copies of *)
(* the rules are the rules.                                                          *)

\* Dates and first times.
LEMMA SameTimes ==
  /\ \A t : Promised!DateOf(t) = DateOf(t)
  /\ Promised!Date = Date
  /\ \A a, b : Promised!Coalesce(a, b) = Coalesce(a, b)
  /\ \A S, type : Promised!OfType(S, type) = OfType(S, type)
  /\ \A S : Promised!Purchases(S) = Purchases(S)
  /\ \A S : Promised!Min(S) = Min(S)
  /\ \A S, type : Promised!FirstTime(S, type) = FirstTime(S, type)
<1>1. \A t : Promised!DateOf(t) = DateOf(t)
  BY DEF Promised!DateOf, DateOf, Promised!SECONDS_PER_DAY, SECONDS_PER_DAY
<1>2. Promised!Date = Date
  BY <1>1, Zenon DEF Promised!Date, Date, Promised!EventDates, EventDates
<1>3. \A a, b : Promised!Coalesce(a, b) = Coalesce(a, b)
  BY DEF Promised!Coalesce, Coalesce
<1>4. \A S, type : Promised!OfType(S, type) = OfType(S, type)
  BY DEF Promised!OfType, OfType
<1>5. \A S : Promised!Purchases(S) = Purchases(S)
  BY <1>4 DEF Promised!Purchases, Purchases
<1>6. \A S : Promised!Min(S) = Min(S)
  BY Zenon DEF Promised!Min, Min
<1>7. \A S, type : Promised!FirstTime(S, type) = FirstTime(S, type)
  BY <1>4, <1>6 DEF Promised!FirstTime, FirstTime
<1>8. QED
  BY <1>1, <1>2, <1>3, <1>4, <1>5, <1>6, <1>7

\* Funnel rows.
LEMMA SameRows ==
  /\ \A x : Promised!KeyOf(x) = KeyOf(x)
  /\ \A X : Promised!KeysOf(X) = KeysOf(X)
  /\ \A S, k : Promised!SessionFunnel(S, k) = SessionFunnel(S, k)
  /\ \A f, P : Promised!AttachCrossSession(f, P) = AttachCrossSession(f, P)
  /\ \A S, k : Promised!FunnelRow(S, k) = FunnelRow(S, k)
<1>1. \A x : Promised!KeyOf(x) = KeyOf(x)
  BY DEF Promised!KeyOf, KeyOf
<1>2. \A X : Promised!KeysOf(X) = KeysOf(X)
  BY <1>1, Zenon DEF Promised!KeysOf, KeysOf
<1>3. \A X, k : Promised!OfKey(X, k) = OfKey(X, k)
  BY <1>1, Zenon DEF Promised!OfKey, OfKey
<1>4. \A S : Promised!EarliestEvent(S) = EarliestEvent(S)
  BY Zenon DEF Promised!EarliestEvent, EarliestEvent
<1>5. \A S, k : Promised!SessionFunnel(S, k) = SessionFunnel(S, k)
  <2>1. \A S : Promised!Cardinality(S) = Cardinality(S)
    BY Zenon DEF Promised!Cardinality, Cardinality
  <2>2. QED
    BY <1>3, <1>4, <2>1, SameTimes DEF Promised!SessionFunnel, SessionFunnel
<1>6. \A f : Promised!Anchor(f) = Anchor(f)
  BY SameTimes DEF Promised!Anchor, Anchor
<1>7. Promised!WindowSeconds = WindowSeconds
  BY DEF Promised!WindowSeconds, WindowSeconds, Promised!SECONDS_PER_DAY, SECONDS_PER_DAY,
         Promised!CROSS_SESSION_WINDOW_DAYS, CROSS_SESSION_WINDOW_DAYS
<1>8. \A f, P : Promised!LaterPurchases(f, P) = LaterPurchases(f, P)
  BY <1>6, <1>7, Zenon
  DEF Promised!LaterPurchases, LaterPurchases, Promised!FollowsInWindow, FollowsInWindow
<1>9. \A f, P : Promised!AttachCrossSession(f, P) = AttachCrossSession(f, P)
  BY <1>8, SameTimes DEF Promised!AttachCrossSession, AttachCrossSession
<1>10. \A S, k : Promised!FunnelRow(S, k) = FunnelRow(S, k)
  BY <1>5, <1>9, SameTimes DEF Promised!FunnelRow, FunnelRow
<1>11. QED
  BY <1>1, <1>2, <1>5, <1>9, <1>10

\* Gold partitions.
LEMMA SamePartitions ==
  /\ Promised!GoldTable = GoldTable
  /\ Promised!Absent = Absent
  /\ \A t \in GoldTable : \A S, F, d : Promised!Contents(t, S, F, d) = Contents(t, S, F, d)
<1>1. Promised!GoldTable = GoldTable
  BY DEF Promised!GoldTable, GoldTable, Promised!BUILDERS, BUILDERS
<1>2. Promised!Absent = Absent
  BY DEF Promised!Absent, Absent
<1>3. \A S, d : Promised!EventsOn(S, d) = EventsOn(S, d)
  BY SameTimes, Zenon DEF Promised!EventsOn, EventsOn
<1>4. \A F, d : Promised!RowsOn(F, d) = RowsOn(F, d)
  BY DEF Promised!RowsOn, RowsOn
<1>5. \A F : Promised!PurchasedUnviewed(F) = PurchasedUnviewed(F)
  BY DEF Promised!PurchasedUnviewed, PurchasedUnviewed
<1>6. ASSUME NEW t \in GoldTable, NEW S, NEW F, NEW d
      PROVE  Promised!Contents(t, S, F, d) = Contents(t, S, F, d)
  <2>1. CASE t \in {"daily_gmv", "category_gmv"}
    BY <1>2, <1>3, <2>1, SameTimes DEF Promised!Contents, Contents
  <2>2. CASE t = "pipeline_sla"
    BY <1>2, <1>3, <2>2 DEF Promised!Contents, Contents
  <2>3. CASE t = "data_quality"
    BY <1>2, <1>3, <1>4, <1>5, <2>3 DEF Promised!Contents, Contents
  <2>4. CASE t = "funnel_daily"
    BY <1>2, <1>4, <2>4 DEF Promised!Contents, Contents
  <2>5. QED
    BY <2>1, <2>2, <2>3, <2>4, BuildersFacts
<1>7. QED
  BY <1>1, <1>2, <1>6

----------------------------------------------------------------------------
(* The steps *)

\* A MERGE of the rows a full rebuild gives the keys K refreshes those keys.
LEMMA MergeRefreshes ==
  ASSUME IInv, NEW K \in SUBSET KeysOf(silver), NEW D,
         LET R == {FunnelRow(silver, k) : k \in K}
         IN  /\ \A t \in funnel, r \in R : KeyOf(t) = KeyOf(r) => D = {} \/ t.date \in D
             /\ funnel' = Merge(funnel, R, D),
         UNCHANGED <<silver, gold>>
  PROVE  Promised!RefreshFunnel
<1> DEFINE R == {FunnelRow(silver, k) : k \in K}
<1>1. KeysOf(R) = K /\ UniqueKeys(R)
  <2>1. \A k \in K : KeyOf(FunnelRow(silver, k)) = k
    BY FunnelRowIsRow DEF IInv, TypeOK
  <2>2. QED
    BY <2>1 DEF KeysOf, UniqueKeys
<1>2. funnel' = {t \in funnel : KeyOf(t) \notin KeysOf(R)} \cup R
  BY <1>1, MergeReplacesKeys
<1>3. QED
  BY <1>1, <1>2, SameRows DEF Promised!RefreshFunnel

\* An overwrite of partitions re-aggregates them.
LEMMA OverwriteRefreshes ==
  ASSUME NEW t \in GoldTable, NEW D \in SUBSET Date, Overwrite(t, D),
         UNCHANGED <<silver, funnel>>
  PROVE  Promised!RefreshGold
<1>1. [d \in Date |-> IF d \in D THEN Contents(t, silver, funnel, d) ELSE gold[t][d]]
        = [d \in Promised!Date |-> IF d \in D THEN Promised!Contents(t, silver, funnel, d)
                                              ELSE gold[t][d]]
  BY SameTimes, SamePartitions
<1>2. t \in Promised!GoldTable /\ D \in SUBSET Promised!Date
  BY SameTimes, SamePartitions
<1>3. gold' = [gold EXCEPT ![t] = [d \in Promised!Date |->
                 IF d \in D THEN Promised!Contents(t, silver, funnel, d) ELSE gold[t][d]]]
  BY <1>1 DEF Overwrite
<1>4. QED
  BY <1>2, <1>3 DEF Promised!RefreshGold

\* The incremental MERGE refreshes the affected keys.
LEMMA MergeFunnelRefreshes == IInv /\ MergeFunnel => Promised!RefreshFunnel
<1> SUFFICES ASSUME IInv, MergeFunnel PROVE Promised!RefreshFunnel
  OBVIOUS
<1> DEFINE A == AffectedKeys(funnel, batchFile)
           K == A \cap KeysOf(silver)
<1>1. plan = PlanFor(silver, funnel, batchFile)
  BY DEF IInv, PlanIsCurrent, MergeFunnel
<1>2. plan.rows = {FunnelRow(silver, k) : k \in K}
  BY <1>1, RecomputeIsFullRebuild DEF PlanFor, IInv, TypeOK
<1>3. \A t \in funnel, r \in plan.rows :
        KeyOf(t) = KeyOf(r) => t.date \in plan.dates
  BY <1>1, PlanForType DEF IInv, TypeOK
<1>4. funnel' = Merge(funnel, plan.rows, plan.dates) /\ UNCHANGED <<silver, gold>>
  BY DEF MergeFunnel
<1> HIDE DEF A
<1>5. QED
  BY <1>2, <1>3, <1>4, MergeRefreshes

\* Jobs by hand ingest, refresh every key, or refresh partitions.
LEMMA OperatorRefines == IInv /\ Operator => Promised!Next
<1> SUFFICES ASSUME IInv, Operator PROVE Promised!Next
  OBVIOUS
<1>1. CASE RebuildSilver
  <2>1. PICK B \in SUBSET Event : silver \subseteq B /\ silver' = B
    BY <1>1 DEF RebuildSilver
  <2>2. silver' = silver \cup B /\ UNCHANGED <<funnel, gold>>
    BY <1>1, <2>1 DEF RebuildSilver
  <2>3. QED
    BY <2>2 DEF Promised!Next, Promised!Ingest
<1>2. CASE RebuildFunnel
  <2>1. funnel' = Merge(funnel, {FunnelRow(silver, k) : k \in KeysOf(silver)}, {})
    BY <1>2 DEF RebuildFunnel, FullRebuild
  <2>2. UNCHANGED <<silver, gold>>
    BY <1>2 DEF RebuildFunnel
  <2>3. QED
    BY <2>1, <2>2, MergeRefreshes DEF Promised!Next
<1>3. CASE RebuildGold
  <2>1. PICK t \in GoldTable, D \in SUBSET Date : Overwrite(t, D)
    BY <1>3 DEF RebuildGold
  <2>2. UNCHANGED <<silver, funnel>>
    BY <1>3 DEF RebuildGold
  <2>3. QED
    BY <2>1, <2>2, OverwriteRefreshes DEF Promised!Next
<1>4. QED
  BY <1>1, <1>2, <1>3 DEF Operator

\* Every step maps to a step of DerivedLayers or to a stutter.
LEMMA StepRefines == IInv /\ [Next]_vars => [Promised!Next]_(Promised!layers)
<1> SUFFICES ASSUME IInv, [Next]_vars PROVE [Promised!Next]_(Promised!layers)
  OBVIOUS
<1>1. CASE MergeSilver
  <2>1. PICK B \in SUBSET Event : EnterSilver(B)
    BY <1>1 DEF MergeSilver
  <2>2. silver' = silver \cup B /\ UNCHANGED <<funnel, gold>>
    BY <1>1, <2>1 DEF MergeSilver, EnterSilver
  <2>3. QED
    BY <2>2 DEF Promised!Next, Promised!Ingest
<1>2. CASE MergeFunnel
  BY <1>2, MergeFunnelRefreshes DEF Promised!Next
<1>3. CASE OverwriteGold
  <2>1. Current \in GoldTable
    BY <1>3, BuildersFacts DEF OverwriteGold, AtTable, Current, IInv, TypeOK
  <2>2. CurrentDates \in SUBSET Date
    BY DEF CurrentDates, SelectedDates, IInv, TypeOK
  <2>3. Overwrite(Current, CurrentDates) /\ UNCHANGED <<silver, funnel>>
    BY <1>3 DEF OverwriteGold
  <2>4. QED
    BY <2>1, <2>2, <2>3, OverwriteRefreshes DEF Promised!Next
<1>4. CASE Operator
  BY <1>4, OperatorRefines
<1>5. CASE StartRun \/ WriteBatchOutput \/ ReportSilver \/ SkipFunnel \/ PlanFunnel
             \/ ReportFunnel \/ SkipGoldTable \/ FinishGold
  BY <1>5 DEF StartRun, WriteBatchOutput, ReportSilver, SkipFunnel, PlanFunnel,
              ReportFunnel, SkipGoldTable, FinishGold, layers, Promised!layers
<1>6. CASE FinishRun \/ FailAttempt \/ FailRun
  BY <1>6 DEF FinishRun, FailAttempt, FailRun, EndRun, layers, Promised!layers
<1>7. CASE UNCHANGED vars
  BY <1>7 DEF vars, layers, Promised!layers
<1>8. QED
  BY <1>1, <1>2, <1>3, <1>4, <1>5, <1>6, <1>7
  DEF Next, RunStep, SilverTask, FunnelTask, GoldTask

\* The pipeline keeps the contract of its layers: Silver only grows, and every other
\* write puts there what the Silver tables of that moment define.
THEOREM ImplementsLayers == Spec => ImplementsDerivedLayers
<1>1. Init => Promised!Init
  BY SameTimes, SamePartitions DEF Init, Promised!Init
<1>2. QED
  BY <1>1, StepRefines, Invariance, PTL DEF Spec, ImplementsDerivedLayers, Promised!Spec

----------------------------------------------------------------------------
(* Recomputing only the affected keys keeps silver_funnel equal to a full rebuild, but *)
(* for keys with an event that still awaits its funnel MERGE and for keys whose views  *)
(* and carts straddle midnight.                                                        *)

\* Key k has no event of its own that awaits its funnel MERGE.
Settled(k) == \A e \in owedEvents : KeyOf(e) # k

\* A settled key has a row made of its whole session, whatever purchases of other
\* sessions it was joined with.
SessionsAreComplete ==
  \A k \in KeysOf(silver) : Settled(k) =>
    \E P \in SUBSET Event : AttachCrossSession(SessionFunnel(silver, k), P) \in funnel

FInv ==
  /\ IInv
  /\ SessionsAreComplete
  /\ FunnelFreshUnlessOwed

----------------------------------------------------------------------------
(* What does not change when events of other keys arrive *)

\* Events of other keys leave a session, hence its row before the join, as it was.
LEMMA SameSession ==
  ASSUME NEW S, NEW N, NEW k, \A e \in N : KeyOf(e) # k
  PROVE  /\ OfKey(S \cup N, k) = OfKey(S, k)
         /\ SessionFunnel(S \cup N, k) = SessionFunnel(S, k)
         /\ k \in KeysOf(S \cup N) => k \in KeysOf(S)
<1>1. OfKey(S \cup N, k) = OfKey(S, k)
  BY DEF OfKey
<1>2. QED
  BY <1>1 DEF SessionFunnel, KeysOf

\* Events that neither belong to a key nor follow its row in time leave its row alone.
LEMMA SameRow ==
  ASSUME NEW S, NEW N, NEW k,
         \A e \in N : KeyOf(e) # k,
         \A e \in N : e.type = "purchase" => ~ FollowsInWindow(SessionFunnel(S, k), e)
  PROVE  FunnelRow(S \cup N, k) = FunnelRow(S, k)
<1> DEFINE f == SessionFunnel(S, k)
<1>1. SessionFunnel(S \cup N, k) = f
  BY SameSession
<1> HIDE DEF f
<1>2. \A e \in N : e.type = "purchase" => ~ FollowsInWindow(f, e)
  BY DEF f
<1>3. LaterPurchases(f, Purchases(S \cup N)) = LaterPurchases(f, Purchases(S))
  BY <1>2 DEF LaterPurchases, Purchases, OfType
<1>4. AttachCrossSession(f, Purchases(S \cup N)) = AttachCrossSession(f, Purchases(S))
  BY <1>3 DEF AttachCrossSession
<1>5. QED
  BY <1>1, <1>4 DEF FunnelRow, f

\* New events, owed to the funnel, keep both parts of the invariant.
LEMMA ArrivalsOweTheRest ==
  ASSUME SessionsAreComplete, FunnelFreshUnlessOwed, NEW N,
         silver' = silver \cup N, owedEvents' = owedEvents \cup N, funnel' = funnel
  PROVE  SessionsAreComplete' /\ FunnelFreshUnlessOwed'
<1>1. ASSUME NEW k \in KeysOf(silver'), Settled(k)'
      PROVE  /\ k \in KeysOf(silver) /\ Settled(k)
             /\ \A e \in N : KeyOf(e) # k
             /\ OfKey(silver', k) = OfKey(silver, k)
             /\ SessionFunnel(silver', k) = SessionFunnel(silver, k)
  <2>1. Settled(k) /\ \A e \in N : KeyOf(e) # k
    BY <1>1 DEF Settled
  <2>2. QED
    BY <1>1, <2>1, SameSession
<1>2. SessionsAreComplete'
  BY <1>1 DEF SessionsAreComplete
<1>3. ASSUME NEW k \in KeysOf(silver'), WithinDay(k)', ~ Owes(k)'
      PROVE  Fresh(k)'
  <2>1. Settled(k)'
    BY <1>3 DEF Settled, Owes
  <2>2. \A e \in N : e.type = "purchase" => ~ FollowsInWindow(SessionFunnel(silver, k), e)
    BY <1>1, <1>3, <2>1 DEF Owes
  <2>3. WithinDay(k)
    BY <1>1, <1>3, <2>1 DEF WithinDay
  <2>4. ~ Owes(k)
    BY <1>1, <1>3, <2>1 DEF Owes
  <2>5. Fresh(k)
    BY <1>1, <2>1, <2>3, <2>4 DEF FunnelFreshUnlessOwed
  <2>6. FunnelRow(silver', k) = FunnelRow(silver, k)
    BY <1>1, <2>1, <2>2, SameRow
  <2>7. QED
    BY <2>5, <2>6 DEF Fresh
<1>4. QED
  BY <1>2, <1>3 DEF FunnelFreshUnlessOwed
----------------------------------------------------------------------------
(* Propagation finds the rows a purchase bears on *)

\* The row of a session whose views and carts share a day is dated like its anchor.
LEMMA DatedLikeAnchor ==
  ASSUME NEW S \in SUBSET Event, NEW k \in KeysOf(S),
         SessionFunnel(S, k).purchase = NULL,
         Anchor(SessionFunnel(S, k)) # NULL,
         \A e, f \in OfKey(S, k) :
           e.type # "purchase" /\ f.type # "purchase" => DateOf(e.at) = DateOf(f.at)
  PROVE  SessionFunnel(S, k).date = DateOf(Anchor(SessionFunnel(S, k)))
<1> DEFINE E    == OfKey(S, k)
           view == FirstTime(E, "view")
           cart == FirstTime(E, "cart")
           row  == SessionFunnel(S, k)
<1>1. E \in SUBSET Event
  BY DEF OfKey
<1>2. /\ row.view = view /\ row.cart = cart
      /\ row.date = DateOf(Coalesce(view, Coalesce(cart, row.purchase)))
  BY DEF SessionFunnel
<1>3. view # NULL => \E e \in E : e.type = "view" /\ view = e.at
  BY <1>1, FirstTimeIsFirst DEF OfType
<1>4. cart # NULL => \E e \in E : e.type = "cart" /\ cart = e.at
  BY <1>1, FirstTimeIsFirst DEF OfType
<1> HIDE DEF E, view, cart, row
<1>5. CASE view # NULL /\ cart # NULL
  <2>1. DateOf(view) = DateOf(cart)
    BY <1>3, <1>4, <1>5 DEF E
  <2>2. QED
    BY <1>2, <1>5, <2>1 DEF Anchor, Coalesce, row
<1>6. CASE view = NULL \/ cart = NULL
  BY <1>2, <1>6 DEF Anchor, Coalesce, row
<1>7. QED
  BY <1>5, <1>6

\* The candidates read by funnel_date contain it, and the join selects it.
LEMMA PropagationFindsRow ==
  ASSUME NEW S \in SUBSET Event, NEW k \in KeysOf(S), NEW P \in SUBSET Event,
         NEW T, AttachCrossSession(SessionFunnel(S, k), P) \in T,
         NEW B \in SUBSET Event, NEW e \in B, e.type = "purchase",
         SessionFunnel(S, k).purchase = NULL,
         FollowsInWindow(SessionFunnel(S, k), e),
         \A x, y \in OfKey(S, k) :
           x.type # "purchase" /\ y.type # "purchase" => DateOf(x.at) = DateOf(y.at)
  PROVE  k \in PropagatedKeys(T, B)
<1> DEFINE f == SessionFunnel(S, k)
           u == AttachCrossSession(f, P)
<1>1. f \in FunnelRowType /\ KeyOf(f) = k
  BY SessionFunnelType
<1>2. f.date = DateOf(Anchor(f))
  BY DatedLikeAnchor DEF FollowsInWindow
<1> HIDE DEF f
<1>3. /\ u.date = f.date /\ u.purchase = f.purchase /\ u.user = f.user
      /\ u.product = f.product /\ u.session = f.session
      /\ u.cart = f.cart /\ u.view = f.view
  BY <1>1 DEF AttachCrossSession, FunnelRowType
<1> HIDE DEF u
<1>4. FollowsInWindow(f, e)
  BY DEF f
<1>5. FollowsInWindow(u, e)
  BY <1>3, <1>4 DEF FollowsInWindow, Anchor
<1>6. Anchor(f) \in Nat /\ e.at \in Nat
  BY <1>1, <1>4, EventAssumption DEF FollowsInWindow, Anchor, Coalesce, FunnelRowType, Time
<1>7. u.date \in DaysBack(DateOf(e.at))
  <2>1. DateOf(e.at) \in DaysAhead(DateOf(Anchor(f)))
    BY <1>4, <1>6, WindowIsCovered DEF FollowsInWindow
  <2>2. DateOf(e.at) \in Int /\ DateOf(Anchor(f)) \in Int
    BY <1>6 DEF DateOf, SECONDS_PER_DAY
  <2>3. DateOf(Anchor(f)) \in DaysBack(DateOf(e.at))
    BY <2>1, <2>2 DEF DaysAhead, DaysBack, CROSS_SESSION_WINDOW_DAYS
  <2>4. QED
    BY <1>2, <1>3, <2>3
<1>8. e \in Purchases(B)
  BY DEF Purchases, OfType
<1>9. u.date \in PropagatedPartitions(B)
  BY <1>7, <1>8 DEF PropagatedPartitions, EventDates
<1>10. LaterPurchases(u, Purchases(B)) # {}
  BY <1>5, <1>8 DEF LaterPurchases
<1>11. u \in T /\ u.purchase = NULL /\ KeyOf(u) = k
  BY <1>1, <1>3 DEF f, u, KeyOf
<1>12. QED
  BY <1>9, <1>10, <1>11 DEF PropagatedKeys

----------------------------------------------------------------------------
(* The funnel MERGE *)

\* The funnel MERGE makes the affected keys fresh; what it leaves alone was fresh, or is
\* still owed.
LEMMA MergeFunnelFInv == FInv /\ MergeFunnel => SessionsAreComplete' /\ FunnelFreshUnlessOwed'
<1> SUFFICES ASSUME FInv, MergeFunnel PROVE SessionsAreComplete' /\ FunnelFreshUnlessOwed'
  OBVIOUS
<1> DEFINE A == AffectedKeys(funnel, batchFile)
           K == A \cap KeysOf(silver)
           R == {FunnelRow(silver, k) : k \in K}
<1>1. /\ silver \in SUBSET Event /\ funnel \in SUBSET FunnelRowType
      /\ batchFile \in SUBSET Event
  BY DEF FInv, IInv, TypeOK
<1>2. /\ silver' = silver /\ batchFile' = batchFile
      /\ owedEvents' = owedEvents \ batchFile
  BY DEF MergeFunnel
<1>3. funnel' = {t \in funnel : KeyOf(t) \notin K} \cup R
  BY MergeFunnelReplaces DEF FInv
<1> HIDE DEF A, R
<1>4. ASSUME NEW k \in KeysOf(silver), k \notin K
      PROVE  /\ \A e \in batchFile : KeyOf(e) # k
             /\ Settled(k)' => Settled(k)
  BY <1>2, <1>4 DEF A, AffectedKeys, DirectKeys, KeysOf, Settled
<1>5. SessionsAreComplete'
  <2> SUFFICES ASSUME NEW k \in KeysOf(silver), Settled(k)'
               PROVE  \E P \in SUBSET Event :
                        AttachCrossSession(SessionFunnel(silver, k), P) \in funnel'
    BY <1>2 DEF SessionsAreComplete
  <2>1. CASE k \in K
    <3>1. Purchases(silver) \in SUBSET Event
      BY <1>1 DEF Purchases, OfType
    <3>2. FunnelRow(silver, k) \in funnel'
      BY <1>3, <2>1 DEF R
    <3>3. QED
      BY <3>1, <3>2 DEF FunnelRow
  <2>2. CASE k \notin K
    <3>1. PICK P \in SUBSET Event : AttachCrossSession(SessionFunnel(silver, k), P) \in funnel
      BY <1>4, <2>2 DEF FInv, SessionsAreComplete
    <3>2. KeyOf(AttachCrossSession(SessionFunnel(silver, k), P)) = k
      BY <1>1, SessionFunnelType, AttachType
    <3>3. QED
      BY <1>3, <2>2, <3>1, <3>2
  <2>3. QED
    BY <2>1, <2>2
<1>6. FunnelFreshUnlessOwed'
  <2> SUFFICES ASSUME NEW k \in KeysOf(silver), WithinDay(k), ~ Owes(k)'
               PROVE  FunnelRow(silver, k) \in funnel'
    BY <1>2 DEF FunnelFreshUnlessOwed, WithinDay, Fresh
  <2>1. CASE k \in K
    BY <1>3, <2>1 DEF R
  <2>2. CASE k \notin K
    <3> DEFINE f == SessionFunnel(silver, k)
    <3>1. Settled(k)
      BY <1>2, <1>4, <2>2 DEF Owes, Settled
    <3>2. PICK P \in SUBSET Event : AttachCrossSession(f, P) \in funnel
      BY <3>1 DEF FInv, SessionsAreComplete
    <3>3. KeyOf(FunnelRow(silver, k)) = k
      BY <1>1, FunnelRowIsRow
    <3>4. CASE f.purchase # NULL
      <4>1. AttachCrossSession(f, P) = FunnelRow(silver, k)
        BY <3>4 DEF AttachCrossSession, FunnelRow
      <4>2. QED
        BY <1>3, <2>2, <3>2, <3>3, <4>1
    <3>5. CASE f.purchase = NULL
      <4>1. \A e \in batchFile : e.type = "purchase" => ~ FollowsInWindow(f, e)
        <5> SUFFICES ASSUME NEW e \in batchFile, e.type = "purchase", FollowsInWindow(f, e)
                     PROVE  FALSE
          OBVIOUS
        <5>1. k \in PropagatedKeys(funnel, batchFile)
          BY <1>1, <3>2, <3>5, PropagationFindsRow DEF WithinDay
        <5>2. QED
          BY <2>2, <5>1 DEF A, AffectedKeys
      <4>2. ~ Owes(k)
        BY <1>2, <3>1, <4>1 DEF Owes, Settled
      <4>3. FunnelRow(silver, k) \in funnel
        BY <4>2 DEF FInv, FunnelFreshUnlessOwed, Fresh
      <4>4. QED
        BY <1>3, <2>2, <3>3, <4>3
    <3>6. QED
      BY <3>4, <3>5
  <2>3. QED
    BY <2>1, <2>2
<1>7. QED
  BY <1>5, <1>6

\* A full rebuild makes every row fresh.
LEMMA RebuildFunnelFInv ==
  FInv /\ RebuildFunnel => SessionsAreComplete' /\ FunnelFreshUnlessOwed'
<1> SUFFICES ASSUME FInv, RebuildFunnel PROVE SessionsAreComplete' /\ FunnelFreshUnlessOwed'
  OBVIOUS
<1>1. silver' = silver /\ FullRebuild(silver) \subseteq funnel'
  <2>1. UniqueKeys(FullRebuild(silver))
    BY FullRebuildIsTable DEF FInv, IInv, TypeOK
  <2>2. QED
    BY <2>1, MergeReplacesKeys DEF RebuildFunnel
<1>2. \A k \in KeysOf(silver) : FunnelRow(silver, k) \in funnel'
  BY <1>1 DEF FullRebuild
<1>3. Purchases(silver) \in SUBSET Event
  BY DEF FInv, IInv, TypeOK, Purchases, OfType
<1>4. QED
  BY <1>1, <1>2, <1>3 DEF SessionsAreComplete, FunnelFreshUnlessOwed, Fresh, FunnelRow

----------------------------------------------------------------------------
\* The invariant is inductive.
LEMMA StepFInv == FInv /\ [Next]_vars => FInv'
<1> SUFFICES ASSUME FInv, [Next]_vars PROVE SessionsAreComplete' /\ FunnelFreshUnlessOwed'
  BY StepIInv DEF FInv
<1>1. CASE MergeSilver
  <2>1. PICK B \in SUBSET Event : EnterSilver(B)
    BY <1>1 DEF MergeSilver
  <2>2. /\ silver' = silver \cup (B \ silver)
        /\ owedEvents' = owedEvents \cup (B \ silver)
        /\ funnel' = funnel
    BY <1>1, <2>1 DEF MergeSilver, EnterSilver
  <2>3. QED
    BY <2>2, ArrivalsOweTheRest DEF FInv
<1>2. CASE MergeFunnel
  BY <1>2, MergeFunnelFInv
<1>3. CASE RebuildSilver
  <2>1. PICK B \in SUBSET Event :
          silver \subseteq B /\ silver' = B /\ owedEvents' = owedEvents \cup (B \ silver)
    BY <1>3 DEF RebuildSilver
  <2>2. silver' = silver \cup (B \ silver) /\ funnel' = funnel
    BY <1>3, <2>1 DEF RebuildSilver
  <2>3. QED
    BY <2>1, <2>2, ArrivalsOweTheRest DEF FInv
<1>4. CASE RebuildFunnel
  BY <1>4, RebuildFunnelFInv
<1>5. CASE UNCHANGED <<silver, funnel, owedEvents>>
  BY <1>5 DEF FInv, SessionsAreComplete, FunnelFreshUnlessOwed, Settled, WithinDay, Owes, Fresh
<1>6. ASSUME ~ MergeSilver, ~ MergeFunnel, ~ RebuildSilver, ~ RebuildFunnel
      PROVE  UNCHANGED <<silver, funnel, owedEvents>>
  BY <1>6
  DEF Next, RunStep, SilverTask, FunnelTask, GoldTask, Operator, StartRun, WriteBatchOutput,
      ReportSilver, SkipFunnel, PlanFunnel, ReportFunnel, OverwriteGold, SkipGoldTable,
      FinishGold, FinishRun, FailAttempt, FailRun, EndRun, RebuildGold, vars, layers, history
<1>7. QED
  BY <1>1, <1>2, <1>3, <1>4, <1>5, <1>6

\* Recomputing only the keys a batch affects gives every key the row of a full rebuild,
\* but for those an event still bears on that awaits its funnel MERGE.
THEOREM FunnelStaysFresh == Spec => []FunnelFreshUnlessOwed
<1>1. Init => FInv
  BY InitIInv DEF FInv, Init, SessionsAreComplete, FunnelFreshUnlessOwed, KeysOf
<1>2. FInv => FunnelFreshUnlessOwed
  BY DEF FInv
<1>3. QED
  BY <1>1, <1>2, StepFInv, PTL DEF Spec

----------------------------------------------------------------------------
(* Rows keep their history *)

\* Every row was built from the whole or an earlier part of its session's history.
RowsHaveHistory ==
  \A f \in funnel : \E S \in SUBSET silver, P \in SUBSET Event :
    KeyOf(f) \in KeysOf(S) /\ f = AttachCrossSession(SessionFunnel(S, KeyOf(f)), P)

\* Row g of the table T has the key of f and counts no fewer events of any type.
NoFewer(f, g) ==
  /\ KeyOf(g) = KeyOf(f)
  /\ g.views >= f.views
  /\ g.carts >= f.carts
  /\ g.purchases >= f.purchases

\* A row computed from more of a history counts no fewer events.
LEMMA CountsGrow ==
  ASSUME NEW U \in SUBSET Event, NEW S \in SUBSET U, NEW k \in KeysOf(S),
         NEW P \in SUBSET Event, NEW Q \in SUBSET Event
  PROVE  NoFewer(AttachCrossSession(SessionFunnel(S, k), P),
                 AttachCrossSession(SessionFunnel(U, k), Q))
<1> DEFINE f == SessionFunnel(S, k)
           g == SessionFunnel(U, k)
<1>1. S \in SUBSET Event /\ k \in KeysOf(U)
  BY DEF KeysOf
<1>2. /\ f \in FunnelRowType /\ KeyOf(AttachCrossSession(f, P)) = k
      /\ g \in FunnelRowType /\ KeyOf(AttachCrossSession(g, Q)) = k
  BY <1>1, SessionFunnelType, AttachType
<1>3. ASSUME NEW type
      PROVE  Cardinality(OfType(OfKey(S, k), type)) <= Cardinality(OfType(OfKey(U, k), type))
  <2>1. OfType(OfKey(S, k), type) \subseteq OfType(OfKey(U, k), type)
    BY DEF OfType, OfKey
  <2>2. IsFiniteSet(OfType(OfKey(U, k), type))
    <3>1. OfType(OfKey(U, k), type) \subseteq Event
      BY DEF OfType, OfKey
    <3>2. QED
      BY <3>1, EventAssumption, FS_Subset
  <2>3. QED
    BY <2>1, <2>2, FS_Subset
<1>4. /\ f.views = Cardinality(OfType(OfKey(S, k), "view"))
      /\ f.carts = Cardinality(OfType(OfKey(S, k), "cart"))
      /\ f.purchases = Cardinality(OfType(OfKey(S, k), "purchase"))
      /\ g.views = Cardinality(OfType(OfKey(U, k), "view"))
      /\ g.carts = Cardinality(OfType(OfKey(U, k), "cart"))
      /\ g.purchases = Cardinality(OfType(OfKey(U, k), "purchase"))
  BY DEF SessionFunnel
<1>5. /\ f.views <= g.views /\ f.carts <= g.carts /\ f.purchases <= g.purchases
  BY <1>3, <1>4
<1> HIDE DEF f, g
<1>6. /\ AttachCrossSession(f, P).views = f.views
      /\ AttachCrossSession(f, P).carts = f.carts
      /\ AttachCrossSession(f, P).purchases = f.purchases
      /\ AttachCrossSession(g, Q).views = g.views
      /\ AttachCrossSession(g, Q).carts = g.carts
      /\ AttachCrossSession(g, Q).purchases = g.purchases
  BY <1>2 DEF AttachCrossSession, FunnelRowType
<1>7. /\ f.views \in Nat /\ f.carts \in Nat /\ f.purchases \in Nat
      /\ g.views \in Nat /\ g.carts \in Nat /\ g.purchases \in Nat
  BY <1>2 DEF FunnelRowType
<1>8. NoFewer(AttachCrossSession(f, P), AttachCrossSession(g, Q))
  BY <1>2, <1>5, <1>6, <1>7 DEF NoFewer
<1>9. QED
  BY <1>8 DEF f, g

\* A MERGE of the rows a full rebuild gives some keys keeps both.
LEMMA MergeKeepsHistory ==
  ASSUME IInv, RowsHaveHistory, silver' = silver, NEW K \in SUBSET KeysOf(silver),
         funnel' = {t \in funnel : KeyOf(t) \notin K} \cup {FunnelRow(silver, k) : k \in K}
  PROVE  RowsHaveHistory' /\ \A f \in funnel : \E g \in funnel' : NoFewer(f, g)
<1> DEFINE Q == Purchases(silver)
<1>1. silver \in SUBSET Event /\ Q \in SUBSET Event /\ funnel \in SUBSET FunnelRowType
  BY DEF IInv, TypeOK, Purchases, OfType
<1>2. \A k \in K : /\ KeyOf(FunnelRow(silver, k)) = k
                   /\ FunnelRow(silver, k) = AttachCrossSession(SessionFunnel(silver, k), Q)
  BY <1>1, FunnelRowIsRow DEF FunnelRow
<1> HIDE DEF Q
<1>3. RowsHaveHistory'
  <2> SUFFICES ASSUME NEW f \in funnel'
               PROVE  \E S \in SUBSET silver, P \in SUBSET Event :
                        /\ KeyOf(f) \in KeysOf(S)
                        /\ f = AttachCrossSession(SessionFunnel(S, KeyOf(f)), P)
    BY DEF RowsHaveHistory
  <2>1. CASE f \in funnel
    BY <2>1 DEF RowsHaveHistory
  <2>2. CASE f \notin funnel
    <3>1. PICK k \in K : f = FunnelRow(silver, k)
      BY <2>2
    <3>2. KeyOf(f) \in KeysOf(silver) /\ f = AttachCrossSession(SessionFunnel(silver, KeyOf(f)), Q)
      BY <1>2, <3>1
    <3>3. QED
      BY <1>1, <3>2
  <2>3. QED
    BY <2>1, <2>2
<1>4. ASSUME NEW f \in funnel PROVE \E g \in funnel' : NoFewer(f, g)
  <2>1. CASE KeyOf(f) \in K
    <3>1. PICK S \in SUBSET silver, P \in SUBSET Event :
            KeyOf(f) \in KeysOf(S) /\ f = AttachCrossSession(SessionFunnel(S, KeyOf(f)), P)
      BY DEF RowsHaveHistory
    <3>2. NoFewer(AttachCrossSession(SessionFunnel(S, KeyOf(f)), P),
                  AttachCrossSession(SessionFunnel(silver, KeyOf(f)), Q))
      BY <1>1, <3>1, CountsGrow
    <3>3. NoFewer(f, FunnelRow(silver, KeyOf(f)))
      BY <1>2, <2>1, <3>1, <3>2
    <3>4. QED
      BY <2>1, <3>3
  <2>2. CASE KeyOf(f) \notin K
    <3>1. f.views >= f.views /\ f.carts >= f.carts /\ f.purchases >= f.purchases
      BY <1>1 DEF FunnelRowType
    <3>2. QED
      BY <2>2, <3>1 DEF NoFewer
  <2>3. QED
    BY <2>1, <2>2
<1>5. QED
  BY <1>3, <1>4

\* Only a MERGE of whole histories changes the funnel.
LEMMA StepHistory ==
  ASSUME IInv, RowsHaveHistory, [Next]_vars
  PROVE  /\ RowsHaveHistory'
         /\ funnel' = funnel \/ \A f \in funnel : \E g \in funnel' : NoFewer(f, g)
<1>1. CASE MergeFunnel
  <2> DEFINE K == AffectedKeys(funnel, batchFile) \cap KeysOf(silver)
  <2>1. /\ silver' = silver
        /\ funnel' = {t \in funnel : KeyOf(t) \notin K} \cup {FunnelRow(silver, k) : k \in K}
    BY <1>1, MergeFunnelReplaces
  <2> HIDE DEF K
  <2>2. K \subseteq KeysOf(silver)
    BY DEF K
  <2>3. QED
    BY <2>1, <2>2, MergeKeepsHistory
<1>2. CASE RebuildFunnel
  <2>1. /\ UniqueKeys(FullRebuild(silver))
        /\ KeysOf(FullRebuild(silver)) = KeysOf(silver)
    <3>1. \A k \in KeysOf(silver) : KeyOf(FunnelRow(silver, k)) = k
      BY FunnelRowIsRow DEF IInv, TypeOK
    <3>2. QED
      BY <3>1 DEF FullRebuild, UniqueKeys, KeysOf
  <2>2. /\ silver' = silver
        /\ funnel' = {t \in funnel : KeyOf(t) \notin KeysOf(silver)}
                       \cup {FunnelRow(silver, k) : k \in KeysOf(silver)}
    BY <1>2, <2>1, MergeReplacesKeys DEF RebuildFunnel, FullRebuild
  <2>3. QED
    BY <2>2, MergeKeepsHistory
<1>3. CASE silver \subseteq silver' /\ funnel' = funnel
  BY <1>3 DEF RowsHaveHistory
<1>4. ASSUME ~ MergeFunnel, ~ RebuildFunnel
      PROVE  silver \subseteq silver' /\ funnel' = funnel
  BY <1>4
  DEF Next, RunStep, SilverTask, FunnelTask, GoldTask, Operator, StartRun, MergeSilver,
      EnterSilver, WriteBatchOutput, ReportSilver, SkipFunnel, PlanFunnel, ReportFunnel,
      OverwriteGold, SkipGoldTable, FinishGold, FinishRun, FailAttempt, FailRun, EndRun,
      RebuildSilver, RebuildGold, vars, layers
<1>5. QED
  BY <1>1, <1>2, <1>3, <1>4

\* A row stays, and its counts never go down, however late and in whatever order the
\* events of its session arrive: no MERGE computes it from less than its whole history.
THEOREM HistoryIsKept == Spec => RowsKeepTheirHistory
<1>1. Init => RowsHaveHistory
  BY DEF Init, RowsHaveHistory
<1>2. IInv /\ RowsHaveHistory /\ [Next]_vars => RowsHaveHistory'
  BY StepHistory
<1>3. IInv /\ RowsHaveHistory /\ [Next]_vars =>
        [\A f \in funnel : \E g \in funnel' :
           /\ KeyOf(g) = KeyOf(f)
           /\ g.views >= f.views
           /\ g.carts >= f.carts
           /\ g.purchases >= f.purchases]_funnel
  BY StepHistory DEF NoFewer
<1>4. QED
  BY <1>1, <1>2, <1>3, Invariance, PTL DEF Spec, RowsKeepTheirHistory

=============================================================================
