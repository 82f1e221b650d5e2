--------------------------- MODULE DerivedLayers ---------------------------
(***************************************************************************)
(* What the Silver and Gold layers promise their readers, whatever the     *)
(* jobs, retries and crashes behind them: Silver only grows, a funnel row  *)
(* is only ever replaced by the row the Silver of that moment defines, and *)
(* a Gold partition by the re-aggregation of the Silver tables of that     *)
(* moment.  Neither depends on which batch, attempt or mode wrote it.      *)
(***************************************************************************)
EXTENDS GoldRules

VARIABLES silver, funnel, gold

layers == <<silver, funnel, gold>>

Init ==
  /\ silver = {}
  /\ funnel = {}
  /\ gold = [t \in GoldTable |-> [d \in Date |-> Absent]]

Ingest ==
  /\ \E B \in SUBSET Event : silver' = silver \cup B
  /\ UNCHANGED <<funnel, gold>>

\* Some keys get the row a full rebuild would give them; the other rows stay.
RefreshFunnel ==
  /\ \E K \in SUBSET KeysOf(silver) :
       funnel' = {f \in funnel : KeyOf(f) \notin K} \cup {FunnelRow(silver, k) : k \in K}
  /\ UNCHANGED <<silver, gold>>

\* Some dates of one table are re-aggregated at once; the others stay.
RefreshGold ==
  /\ \E t \in GoldTable, D \in SUBSET Date :
       gold' = [gold EXCEPT ![t] = [d \in Date |-> IF d \in D
                                                   THEN Contents(t, silver, funnel, d)
                                                   ELSE gold[t][d]]]
  /\ UNCHANGED <<silver, funnel>>

Next == Ingest \/ RefreshFunnel \/ RefreshGold

Spec == Init /\ [][Next]_layers
=============================================================================
