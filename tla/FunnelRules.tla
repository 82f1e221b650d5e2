---------------------------- MODULE FunnelRules ----------------------------
(***************************************************************************)
(* What code/pipelines/silver/silver_events_to_funnel.py computes from a   *)
(* set of Silver events: the funnel row of one (user_session, product_id), *)
(* the rows a batch affects, the partitions it reads to find them, and the *)
(* MERGE that stores the result.                                           *)
(*                                                                         *)
(* Times are seconds since some day 0, as bigint(event_time) gives them.   *)
(* A funnel row keeps the columns the job decides with.  Columns that only *)
(* follow from them (viewed, carted, purchased, the *_sec gaps,            *)
(* converted_later) or that are carried along (prices, category, brand)    *)
(* are left out.                                                           *)
(***************************************************************************)
EXTENDS Integers, FiniteSetsExt

CONSTANTS
  Event,     \* the valid events that may ever reach Silver; one per event_id
  Session,   \* user_session values
  Product,   \* product_id values
  User,      \* user_id values
  MaxDates,  \* most distinct dates one job accepts, 366 in the code
  NULL       \* SQL NULL

EventType == {"view", "cart", "purchase"}

\* An event carries its id because two events may agree in all that is kept here.
ASSUME EventAssumption ==
  /\ IsFiniteSet(Event)
  /\ \A e \in Event :
       /\ e.type \in EventType
       /\ e.session \in Session
       /\ e.product \in Product
       /\ e.user \in User
       /\ e.at \in Nat

\* min_by(user_id, event_time) is deterministic only if the earliest events of a
\* session agree on the user, as they do in a data set where a session has one user.
\* The prices are picked by min_by too, and a tie could change them from one computation
\* to the next; rows are modelled without prices, so that a row is equal up to such ties.
ASSUME NoUserTies ==
  \A e, f \in Event :
    e.session = f.session /\ e.product = f.product /\ e.at = f.at => e.user = f.user

ASSUME MaxDatesAssumption == MaxDates \in Nat

ASSUME NullAssumption == NULL \notin Nat

----------------------------------------------------------------------------
(* Dates and first times *)

SECONDS_PER_DAY == 86400
CROSS_SESSION_WINDOW_DAYS == 30
WindowSeconds == CROSS_SESSION_WINDOW_DAYS * SECONDS_PER_DAY

DateOf(t) == t \div SECONDS_PER_DAY
EventDates(S) == {DateOf(e.at) : e \in S}

\* Every date an event can fall on, hence every partition of the tables.
Date == EventDates(Event)

Time == Nat \cup {NULL}

\* SQL coalesce of two columns.
Coalesce(a, b) == IF a # NULL THEN a ELSE b

OfType(S, type) == {e \in S : e.type = type}
Purchases(S) == OfType(S, "purchase")

\* min(event_time) FILTER (WHERE event_type = type)
FirstTime(S, type) ==
  IF OfType(S, type) = {} THEN NULL ELSE Min({e.at : e \in OfType(S, type)})

----------------------------------------------------------------------------
(* One row per (user_session, product_id) *)

\* The logical key, of an event or of a funnel row.
KeyOf(x) == <<x.session, x.product>>
KeysOf(X) == {KeyOf(x) : x \in X}
OfKey(X, k) == {x \in X : KeyOf(x) = k}

EarliestEvent(S) == CHOOSE e \in S : \A f \in S : e.at <= f.at

\* build_session_funnel, for one group of its GROUP BY.
SessionFunnel(S, k) ==
  LET E        == OfKey(S, k)
      view     == FirstTime(E, "view")
      cart     == FirstTime(E, "cart")
      purchase == FirstTime(E, "purchase")
  IN  [session   |-> k[1],
       product   |-> k[2],
       user      |-> EarliestEvent(E).user,
       date      |-> DateOf(Coalesce(view, Coalesce(cart, purchase))),
       view      |-> view,
       cart      |-> cart,
       purchase  |-> purchase,
       views     |-> Cardinality(OfType(E, "view")),
       carts     |-> Cardinality(OfType(E, "cart")),
       purchases |-> Cardinality(OfType(E, "purchase")),
       later     |-> NULL]

FunnelRowType ==
  [session : Session, product : Product, user : User, date : Date,
   view : Time, cart : Time, purchase : Time, later : Time,
   views : Nat, carts : Nat, purchases : Nat]

\* The time a later purchase in another session is measured from.
Anchor(f) == Coalesce(f.cart, f.view)

\* The cross-session join: purchase p of another session follows row f in time.
FollowsInWindow(f, p) ==
  /\ p.user = f.user
  /\ p.product = f.product
  /\ p.session # f.session
  /\ Anchor(f) # NULL
  /\ p.at > Anchor(f)
  /\ p.at <= Anchor(f) + WindowSeconds

LaterPurchases(f, P) == {p \in P : FollowsInWindow(f, p)}

\* attach_cross_session: rows with a purchase of their own get no later one.
AttachCrossSession(f, P) ==
  LET later == LaterPurchases(f, P)
  IN  [f EXCEPT !.later = IF f.purchase = NULL /\ later # {}
                          THEN Min({p.at : p \in later})
                          ELSE NULL]

\* The row a full rebuild from the events S gives key k.
FunnelRow(S, k) == AttachCrossSession(SessionFunnel(S, k), Purchases(S))

\* run_full without date options: every key from every event.
FullRebuild(S) == {FunnelRow(S, k) : k \in KeysOf(S)}

----------------------------------------------------------------------------
(* Keys and partitions a batch affects *)

\* Mutations of the two below: windows one day short.
DaysBackShort(d) == (d - CROSS_SESSION_WINDOW_DAYS + 1) .. d
DaysAheadShort(d) == d .. (d + CROSS_SESSION_WINDOW_DAYS - 1)

DaysBack(d) == (d - CROSS_SESSION_WINDOW_DAYS) .. d
DaysAhead(d) == d .. (d + CROSS_SESSION_WINDOW_DAYS)

DirectKeys(B) == KeysOf(B)

PropagatedPartitions(B) == UNION {DaysBack(d) : d \in EventDates(Purchases(B))}

\* Rows of the target T, in the partitions above, that a purchase of the batch follows.
PropagatedKeys(T, B) ==
  {KeyOf(t) : t \in {u \in T : /\ u.date \in PropagatedPartitions(B)
                               /\ u.purchase = NULL
                               /\ LaterPurchases(u, Purchases(B)) # {}}}

AffectedKeys(T, B) == DirectKeys(B) \cup PropagatedKeys(T, B)

\* read_events_for_keys and build_session_funnel: the whole history of each key.
SessionFunnels(S, K) == {SessionFunnel(S, k) : k \in K \cap KeysOf(S)}

Unconverted(F) == {f \in F : f.purchase = NULL}
AnchorDates(F) == {DateOf(Anchor(f)) : f \in {g \in Unconverted(F) : Anchor(g) # NULL}}

\* read_purchase_evidence: purchases of those users and products, in those partitions.
PurchaseEvidence(S, F) ==
  LET partitions == UNION {DaysAhead(d) : d \in AnchorDates(F)}
  IN  {p \in Purchases(S) :
         /\ DateOf(p.at) \in partitions
         /\ \E f \in Unconverted(F) : f.user = p.user /\ f.product = p.product}

\* The rows run_incremental computes for the keys K.
Recompute(S, K) ==
  LET F == SessionFunnels(S, K)
      P == PurchaseEvidence(S, F)
  IN  {AttachCrossSession(f, P) : f \in F}

\* A job raises ValueError when a batch or its keys span more than MaxDates dates.
TooManyDates(S, T, B) ==
  \/ Cardinality(EventDates(Purchases(B))) > MaxDates
  \/ Cardinality(AnchorDates(SessionFunnels(S, AffectedKeys(T, B)))) > MaxDates

RowDates(T) == {t.date : t \in T}

\* old_dates of run_incremental: where the affected rows are before the MERGE.
OldDates(T, K) == {t.date : t \in {u \in T : KeyOf(u) \in K}}

\* Mutation of MergeDates: only the new dates.
MergeDatesNew(T, K, R) == RowDates(R)

\* The dates the MERGE looks in.
MergeDates(T, K, R) == OldDates(T, K) \cup RowDates(R)

----------------------------------------------------------------------------
(* MERGE INTO silver_funnel t USING R s ON key [AND t.funnel_date IN D] *)

\* An empty D adds no date condition.
Matched(T, r, D) ==
  {t \in T : KeyOf(t) = KeyOf(r) /\ (D = {} \/ t.date \in D)}

\* Mutation of Written: no comparison, every matched row is updated.
WrittenAlways(T, R, D) == R

\* The rows the MERGE physically writes: inserted, or matched and changed.
Written(T, R, D) == {r \in R : Matched(T, r, D) # {r}}

\* WHEN MATCHED AND changed THEN UPDATE, WHEN NOT MATCHED THEN INSERT.
Merge(T, R, D) ==
  LET W == Written(T, R, D)
  IN  (T \ UNION {Matched(T, r, D) : r \in W}) \cup W

=============================================================================
