----------------------------- MODULE GoldRules -----------------------------
(***************************************************************************)
(* The five Gold tables of code/pipelines/gold/silver_to_gold.py.  Every   *)
(* builder groups by date, so what a table holds for a date is a function  *)
(* of the Silver rows it aggregates for that date.  A partition is modelled*)
(* by those rows: it is up to date exactly when they are, and a partition  *)
(* without any is absent from the table.                                   *)
(***************************************************************************)
EXTENDS FunnelRules, Sequences

\* BUILDERS, in the order the job writes them.
BUILDERS ==
  <<"daily_gmv", "category_gmv", "pipeline_sla", "data_quality", "funnel_daily">>

GoldTable == {BUILDERS[i] : i \in DOMAIN BUILDERS}

\* The sources a builder reads.
ReadsEvents(t) == t # "funnel_daily"
ReadsFunnels(t) == t \in {"data_quality", "funnel_daily"}

Absent == [events |-> {}, rows |-> {}]

EventsOn(S, d) == {e \in S : DateOf(e.at) = d}
RowsOn(F, d) == {f \in F : f.date = d}

\* viewed = 0 AND purchased = 1
PurchasedUnviewed(F) == {f \in F : f.view = NULL /\ f.purchase # NULL}

\* The rows table t aggregates for date d, from events S and funnel F.
Contents(t, S, F, d) ==
  CASE t \in {"daily_gmv", "category_gmv"} ->
         [Absent EXCEPT !.events = Purchases(EventsOn(S, d))]
    [] t = "pipeline_sla" ->
         [Absent EXCEPT !.events = EventsOn(S, d)]
    [] t = "data_quality" ->
         IF EventsOn(S, d) = {}
         THEN Absent
         ELSE [events |-> EventsOn(S, d), rows |-> PurchasedUnviewed(RowsOn(F, d))]
    [] t = "funnel_daily" ->
         [Absent EXCEPT !.rows = RowsOn(F, d)]

\* Mutation of SelectedDates: data_quality follows the event dates only.
SelectedDatesNoUnion(t, eventDates, funnelDates) ==
  IF ReadsEvents(t) THEN eventDates ELSE funnelDates

\* Dates an incremental job selects for a table; {} makes the job skip it.
SelectedDates(t, eventDates, funnelDates) ==
  (IF ReadsEvents(t) THEN eventDates ELSE {}) \cup
  (IF ReadsFunnels(t) THEN funnelDates ELSE {})

=============================================================================
