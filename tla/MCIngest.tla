------------------------------- MODULE MCIngest -------------------------------
(***************************************************************************)
(* An instance of Ingest for TLC: two events that differ in one cell, "0"  *)
(* where the other is empty, rows that the producer skips and stops at,    *)
(* and a payload of an earlier sender that is no JSON.                     *)
(***************************************************************************)
EXTENDS Ingest

MCText == {"", " ", "None", "view", "cart", "purchase", "wish", "T", "bad", "0", "9.9", "x"}
MCBlanks == {"", " "}
MCTimes == {"T"}
MCPrices == {"0", "9.9"}

Row ==
  [f \in EVENT_FIELDS |->
     CASE f = "event_time" -> "T" [] f = "event_type" -> "view" [] f = "price" -> "9.9"
       [] f \in {"category_code", "brand"} -> "" [] OTHER -> "x"]

\* Without --limit the producer stops at the fourth row, whose time does not parse.
MCRows ==
  <<[Row EXCEPT !["event_type"] = "wish"], Row, [Row EXCEPT !["brand"] = "0"],
    [Row EXCEPT !["event_time"] = "bad"]>>
MCLimits == {3, 4}

NotJson == [shape |-> "malformed", fields |-> [f \in EVENT_FIELDS |-> Null], id |-> NULL]
MCEarlier == {<<NotJson>>}
=============================================================================
