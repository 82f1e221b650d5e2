------------------------- MODULE FunnelRulesProofs -------------------------
(***************************************************************************)
(* Facts about the operators of FunnelRules, for every set of events.      *)
(***************************************************************************)
EXTENDS FunnelRules, FiniteSetTheorems, WellFoundedInduction, TLAPS

LessThan == {ss \in Nat \X Nat : ss[1] < ss[2]}

\* Every non-empty set of times has a least one.
LEMMA LessThanIsWellFounded == IsWellFoundedOn(LessThan, Nat)
BY NatLessThanWellFounded, Zenon DEF OpToRel, LessThan

\* FiniteSetsExt's Min is the least element of any non-empty set of times.
LEMMA MinOfTimes ==
  ASSUME NEW S \in SUBSET Nat, S # {}
  PROVE  Min(S) \in S /\ \A x \in S : Min(S) <= x
<1>1. PICK m \in S : \A x \in S : ~ (<<x, m>> \in LessThan)
  BY LessThanIsWellFounded, WFMin
<1>2. ASSUME NEW x \in S PROVE m <= x
  <2>1. ~ (<<x, m>> \in LessThan)
    BY <1>1
  <2>2. <<x, m>> \in Nat \X Nat /\ <<x, m>>[1] = x /\ <<x, m>>[2] = m
    OBVIOUS
  <2>3. ~ (x < m)
    BY <2>1, <2>2, Zenon DEF LessThan
  <2> QED
    BY <2>3
<1>3. QED
  BY <1>2 DEF Min

\* The events of a type in a set have a first time, which one of them attains;
\* without such events it is NULL.
LEMMA FirstTimeIsFirst ==
  ASSUME NEW S \in SUBSET Event, NEW type
  PROVE  /\ FirstTime(S, type) \in Time
         /\ OfType(S, type) = {} <=> FirstTime(S, type) = NULL
         /\ FirstTime(S, type) # NULL =>
              \E e \in OfType(S, type) : FirstTime(S, type) = e.at
         /\ \A e \in OfType(S, type) : FirstTime(S, type) <= e.at
<1> DEFINE T == {e.at : e \in OfType(S, type)}
<1>1. T \in SUBSET Nat
  BY EventAssumption DEF OfType
<1>2. CASE OfType(S, type) = {}
  BY <1>2 DEF FirstTime, Time
<1>3. CASE OfType(S, type) # {}
  <2>1. T # {}
    BY <1>3
  <2>2. Min(T) \in T /\ \A x \in T : Min(T) <= x
    BY <1>1, <2>1, MinOfTimes
  <2>3. FirstTime(S, type) = Min(T)
    BY <1>3 DEF FirstTime
  <2>4. Min(T) \in Nat /\ Min(T) # NULL
    BY <1>1, <2>2, NullAssumption
  <2> QED
    BY <1>3, <2>2, <2>3, <2>4 DEF Time
<1>4. QED
  BY <1>2, <1>3

----------------------------------------------------------------------------
(* The row of a key *)

\* The earliest event of a non-empty set is one of its events.
LEMMA EarliestEventExists ==
  ASSUME NEW S \in SUBSET Event, S # {}
  PROVE  EarliestEvent(S) \in S /\ \A f \in S : EarliestEvent(S).at <= f.at
<1> DEFINE T == {e.at : e \in S}
<1>1. T \in SUBSET Nat /\ T # {}
  BY EventAssumption
<1>2. Min(T) \in T /\ \A x \in T : Min(T) <= x
  BY <1>1, MinOfTimes
<1>3. PICK e \in S : \A f \in S : e.at <= f.at
  BY <1>2
<1>4. QED
  BY <1>3, Zenon DEF EarliestEvent

\* The events of one type among finitely many can be counted.
LEMMA CountOfType ==
  ASSUME NEW S \in SUBSET Event, NEW type
  PROVE  Cardinality(OfType(S, type)) \in Nat
<1>1. OfType(S, type) \subseteq Event
  BY DEF OfType
<1>2. QED
  BY <1>1, EventAssumption, FS_Subset, FS_CardinalityType

\* build_session_funnel gives a key that occurs in the events a well-formed row of
\* that key, dated like one of them.
LEMMA SessionFunnelType ==
  ASSUME NEW S \in SUBSET Event, NEW k \in KeysOf(S)
  PROVE  /\ SessionFunnel(S, k) \in FunnelRowType
         /\ KeyOf(SessionFunnel(S, k)) = k
<1> DEFINE E        == OfKey(S, k)
           view     == FirstTime(E, "view")
           cart     == FirstTime(E, "cart")
           purchase == FirstTime(E, "purchase")
           first    == Coalesce(view, Coalesce(cart, purchase))
<1>1. PICK e \in S : KeyOf(e) = k
  BY DEF KeysOf
<1>2. E \in SUBSET Event /\ e \in E
  BY <1>1 DEF OfKey
<1>3. k = <<k[1], k[2]>> /\ k[1] \in Session /\ k[2] \in Product
  BY <1>1, EventAssumption DEF KeyOf
<1>4. EarliestEvent(E).user \in User
  BY <1>2, EarliestEventExists, EventAssumption
<1>5. view \in Time /\ cart \in Time /\ purchase \in Time
  BY <1>2, FirstTimeIsFirst
<1>6. \E f \in E : first = f.at
  <2>1. \/ OfType(E, "view") # {}
        \/ OfType(E, "cart") # {}
        \/ OfType(E, "purchase") # {}
    BY <1>2, EventAssumption DEF OfType, EventType
  <2>2. ASSUME NEW type, FirstTime(E, type) # NULL
        PROVE  \E f \in E : FirstTime(E, type) = f.at
    BY <1>2, <2>2, FirstTimeIsFirst DEF OfType
  <2>3. view # NULL \/ cart # NULL \/ purchase # NULL
    BY <1>2, <2>1, FirstTimeIsFirst
  <2>4. CASE view # NULL
    BY <2>2, <2>4 DEF Coalesce
  <2>5. CASE view = NULL /\ cart # NULL
    BY <2>2, <2>5 DEF Coalesce
  <2>6. CASE view = NULL /\ cart = NULL
    BY <2>2, <2>3, <2>6 DEF Coalesce
  <2>7. QED
    BY <2>4, <2>5, <2>6
<1>7. DateOf(first) \in Date
  BY <1>2, <1>6 DEF Date, EventDates
<1>8. /\ Cardinality(OfType(E, "view")) \in Nat
      /\ Cardinality(OfType(E, "cart")) \in Nat
      /\ Cardinality(OfType(E, "purchase")) \in Nat
  BY <1>2, CountOfType
<1>9. NULL \in Time
  BY DEF Time
<1> HIDE DEF E, view, cart, purchase, first
<1>10. QED
  BY <1>3, <1>4, <1>5, <1>7, <1>8, <1>9
  DEF SessionFunnel, FunnelRowType, KeyOf, E, view, cart, purchase, first

\* Joining purchases of other sessions changes nothing but the later purchase.
LEMMA AttachType ==
  ASSUME NEW f \in FunnelRowType, NEW P \in SUBSET Event
  PROVE  /\ AttachCrossSession(f, P) \in FunnelRowType
         /\ KeyOf(AttachCrossSession(f, P)) = KeyOf(f)
<1> DEFINE T     == {p.at : p \in LaterPurchases(f, P)}
           later == IF f.purchase = NULL /\ LaterPurchases(f, P) # {}
                    THEN Min(T) ELSE NULL
<1>1. T \in SUBSET Nat
  BY EventAssumption DEF LaterPurchases
<1>2. later \in Time
  <2>1. CASE LaterPurchases(f, P) # {}
    <3>1. T # {}
      BY <2>1
    <3>2. Min(T) \in Nat
      BY <1>1, <3>1, MinOfTimes
    <3>3. QED
      BY <3>2 DEF Time
  <2>2. CASE LaterPurchases(f, P) = {}
    BY <2>2 DEF Time
  <2>3. QED
    BY <2>1, <2>2
<1>3. AttachCrossSession(f, P) = [f EXCEPT !.later = later]
  BY DEF AttachCrossSession
<1> HIDE DEF T, later
<1>4. QED
  BY <1>2, <1>3 DEF FunnelRowType, KeyOf

\* The row a full rebuild gives a key.
LEMMA FunnelRowIsRow ==
  ASSUME NEW S \in SUBSET Event, NEW k \in KeysOf(S)
  PROVE  FunnelRow(S, k) \in FunnelRowType /\ KeyOf(FunnelRow(S, k)) = k
<1>1. Purchases(S) \in SUBSET Event
  BY DEF Purchases, OfType
<1>2. QED
  BY <1>1, SessionFunnelType, AttachType DEF FunnelRow

----------------------------------------------------------------------------
(* Sets of rows, and the MERGE *)

\* At most one row per key: the grain of silver_funnel.
UniqueKeys(T) == \A f, g \in T : KeyOf(f) = KeyOf(g) => f = g

\* A full rebuild computes one well-formed row per key.
LEMMA FullRebuildIsTable ==
  ASSUME NEW S \in SUBSET Event
  PROVE  FullRebuild(S) \subseteq FunnelRowType /\ UniqueKeys(FullRebuild(S))
BY FunnelRowIsRow DEF FullRebuild, UniqueKeys

\* So does the recomputation of some keys, and it has rows for none but those.
LEMMA RecomputeIsTable ==
  ASSUME NEW S \in SUBSET Event, NEW K
  PROVE  /\ Recompute(S, K) \subseteq FunnelRowType
         /\ UniqueKeys(Recompute(S, K))
         /\ KeysOf(Recompute(S, K)) \subseteq K
<1> DEFINE F == SessionFunnels(S, K)
           P == PurchaseEvidence(S, F)
<1>1. P \in SUBSET Event
  BY DEF PurchaseEvidence, Purchases, OfType
<1>2. ASSUME NEW r \in Recompute(S, K)
      PROVE  \E k \in K \cap KeysOf(S) :
               /\ r = AttachCrossSession(SessionFunnel(S, k), P)
               /\ r \in FunnelRowType
               /\ KeyOf(r) = k
  <2>1. PICK k \in K \cap KeysOf(S) : r = AttachCrossSession(SessionFunnel(S, k), P)
    BY DEF Recompute, SessionFunnels
  <2>2. SessionFunnel(S, k) \in FunnelRowType /\ KeyOf(SessionFunnel(S, k)) = k
    BY SessionFunnelType
  <2>3. QED
    BY <1>1, <2>1, <2>2, AttachType
<1> HIDE DEF P
<1>3. QED
  BY <1>2 DEF UniqueKeys, KeysOf

\* The dates of well-formed rows are dates.
LEMMA RowDatesAreDates ==
  ASSUME NEW T \in SUBSET FunnelRowType, NEW K, NEW R \in SUBSET FunnelRowType
  PROVE  RowDates(T) \subseteq Date /\ MergeDates(T, K, R) \subseteq Date
BY DEF RowDates, MergeDates, OldDates, FunnelRowType

\* A MERGE keeps the target well-formed, and to one row per key provided that its
\* dates cover every target row whose key it has a row for.
LEMMA MergeIsTable ==
  ASSUME NEW T \in SUBSET FunnelRowType, NEW R \in SUBSET FunnelRowType, NEW D,
         UniqueKeys(T), UniqueKeys(R),
         \A t \in T, r \in R : KeyOf(t) = KeyOf(r) => D = {} \/ t.date \in D
  PROVE  Merge(T, R, D) \subseteq FunnelRowType /\ UniqueKeys(Merge(T, R, D))
<1>1. Merge(T, R, D) \subseteq T \cup R
  BY DEF Merge, Written
<1>2. ASSUME NEW f \in Merge(T, R, D), f \notin R, NEW r \in R
      PROVE  f \in T /\ KeyOf(f) # KeyOf(r)
  <2>1. f \in T
    BY <1>1, <1>2
  <2>2. CASE r \in Written(T, R, D)
    BY <1>2, <2>1, <2>2 DEF Merge, Matched, Written
  <2>3. CASE Matched(T, r, D) = {r}
    BY <1>2, <2>1, <2>3 DEF Matched
  <2>4. QED
    BY <2>1, <2>2, <2>3 DEF Written
<1>3. QED
  BY <1>1, <1>2 DEF UniqueKeys

\* The dates run_incremental gives its MERGE do cover them, in the target it took the
\* old dates from.
LEMMA MergeDatesCover ==
  ASSUME NEW T \in SUBSET FunnelRowType, NEW K, NEW R, KeysOf(R) \subseteq K
  PROVE  \A t \in T, r \in R :
           KeyOf(t) = KeyOf(r) => t.date \in MergeDates(T, K, R)
BY DEF MergeDates, OldDates, KeysOf

----------------------------------------------------------------------------
(* Reading only some partitions is enough *)

\* Whole days cover a window counted in seconds.
LEMMA WindowIsCovered ==
  ASSUME NEW a \in Nat, NEW t \in Nat, a < t, t <= a + WindowSeconds
  PROVE  DateOf(t) \in DaysAhead(DateOf(a))
<1>1. WindowSeconds = 2592000
  BY DEF WindowSeconds, CROSS_SESSION_WINDOW_DAYS, SECONDS_PER_DAY
<1>2. /\ t \div 86400 \in Int /\ a \div 86400 \in Int
      /\ a \div 86400 <= t \div 86400
      /\ t \div 86400 <= (a \div 86400) + 30
  BY <1>1
<1>3. QED
  BY <1>2 DEF DateOf, DaysAhead, SECONDS_PER_DAY, CROSS_SESSION_WINDOW_DAYS

\* read_purchase_evidence finds every purchase that the join of a recomputed row looks
\* for, so the row is the one a full rebuild computes from all purchases.
LEMMA EvidenceSuffices ==
  ASSUME NEW S \in SUBSET Event, NEW K, NEW k \in K \cap KeysOf(S)
  PROVE  AttachCrossSession(SessionFunnel(S, k), PurchaseEvidence(S, SessionFunnels(S, K)))
           = FunnelRow(S, k)
<1> DEFINE f == SessionFunnel(S, k)
           F == SessionFunnels(S, K)
           P == PurchaseEvidence(S, F)
<1>1. f \in FunnelRowType /\ f \in F
  BY SessionFunnelType DEF SessionFunnels
<1>2. P \subseteq Purchases(S) /\ Purchases(S) \subseteq Event
  BY DEF PurchaseEvidence, Purchases, OfType
<1> HIDE DEF f
<1>3. ASSUME f.purchase = NULL, NEW p \in Purchases(S), FollowsInWindow(f, p)
      PROVE  p \in P
  <2>1. f \in Unconverted(F)
    BY <1>1, <1>3 DEF Unconverted
  <2>2. Anchor(f) \in Nat /\ p.at \in Nat
    BY <1>1, <1>2, <1>3, EventAssumption
    DEF FollowsInWindow, Anchor, Coalesce, FunnelRowType, Time
  <2>3. DateOf(p.at) \in DaysAhead(DateOf(Anchor(f)))
    BY <1>3, <2>2, WindowIsCovered DEF FollowsInWindow
  <2>4. DateOf(Anchor(f)) \in AnchorDates(F)
    BY <1>3, <2>1 DEF AnchorDates, FollowsInWindow
  <2>5. p.user = f.user /\ p.product = f.product
    BY <1>3 DEF FollowsInWindow
  <2> HIDE DEF F
  <2>6. QED
    BY <1>3, <2>1, <2>3, <2>4, <2>5 DEF PurchaseEvidence
<1>4. CASE f.purchase = NULL
  <2>1. LaterPurchases(f, P) = LaterPurchases(f, Purchases(S))
    BY <1>2, <1>3, <1>4 DEF LaterPurchases
  <2>2. QED
    BY <2>1 DEF AttachCrossSession, FunnelRow, f
<1>5. CASE f.purchase # NULL
  BY <1>5 DEF AttachCrossSession, FunnelRow, f
<1>6. QED
  BY <1>4, <1>5 DEF f

\* run_incremental computes for the keys it selects what run_full would.
LEMMA RecomputeIsFullRebuild ==
  ASSUME NEW S \in SUBSET Event, NEW K
  PROVE  Recompute(S, K) = {FunnelRow(S, k) : k \in K \cap KeysOf(S)}
<1>1. \A k \in K \cap KeysOf(S) :
        AttachCrossSession(SessionFunnel(S, k), PurchaseEvidence(S, SessionFunnels(S, K)))
          = FunnelRow(S, k)
  BY EvidenceSuffices
<1>2. QED
  BY <1>1 DEF Recompute, SessionFunnels

\* What is in a table after a MERGE.
LEMMA AfterMerge ==
  ASSUME NEW T, NEW R, NEW D, NEW x
  PROVE  x \in Merge(T, R, D) <=>
           \/ x \in Written(T, R, D)
           \/ x \in T /\ \A r \in Written(T, R, D) : x \notin Matched(T, r, D)
  BY Zenon DEF Merge

\* A MERGE of one row for each of some keys, with dates that cover the target, replaces the rows
\* of those keys and leaves the others.
LEMMA MergeReplacesKeys ==
  ASSUME NEW T, NEW R, NEW D, UniqueKeys(R),
         \A t \in T, r \in R : KeyOf(t) = KeyOf(r) => D = {} \/ t.date \in D
  PROVE  Merge(T, R, D) = {t \in T : KeyOf(t) \notin KeysOf(R)} \cup R
<1> DEFINE W == Written(T, R, D)
<1>1. \A r \in R : r \in W \/ Matched(T, r, D) = {r}
  BY DEF Written
<1>2. W \subseteq R
  BY DEF Written
<1>3. \A t \in T, r \in R : t \in Matched(T, r, D) <=> KeyOf(t) = KeyOf(r)
  BY DEF Matched
<1>4. \A x : x \in Merge(T, R, D) <=>
               x \in W \/ (x \in T /\ \A r \in W : x \notin Matched(T, r, D))
  BY AfterMerge
<1> HIDE DEF W
<1>5. \A r \in R : r \in Merge(T, R, D)
  <2> SUFFICES ASSUME NEW r \in R, r \notin W PROVE r \in Merge(T, R, D)
    BY <1>4
  <2>1. Matched(T, r, D) = {r}
    BY <1>1
  <2>2. r \in T
    BY <2>1 DEF Matched
  <2>3. \A w \in W : r \notin Matched(T, w, D)
    BY <1>2, <1>3, <2>2 DEF UniqueKeys
  <2>4. QED
    BY <1>4, <2>2, <2>3
<1>6. ASSUME NEW t \in T, KeyOf(t) \notin KeysOf(R)
      PROVE  t \in Merge(T, R, D)
  BY <1>2, <1>3, <1>4, <1>6 DEF KeysOf
<1>7. ASSUME NEW t \in Merge(T, R, D), t \notin R
      PROVE  t \in T /\ KeyOf(t) \notin KeysOf(R)
  <2>1. t \in T /\ \A r \in W : t \notin Matched(T, r, D)
    BY <1>2, <1>4, <1>7
  <2>2. ASSUME NEW r \in R, KeyOf(t) = KeyOf(r) PROVE FALSE
    <3>1. Matched(T, r, D) = {r}
      BY <1>1, <1>3, <2>1, <2>2
    <3>2. QED
      BY <1>3, <1>7, <2>1, <2>2, <3>1
  <2>3. QED
    BY <2>1, <2>2 DEF KeysOf
<1>8. QED
  BY <1>5, <1>6, <1>7

=============================================================================
