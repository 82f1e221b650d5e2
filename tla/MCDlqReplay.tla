------------------------------ MODULE MCDlqReplay ------------------------------
(***************************************************************************)
(* An instance of DlqReplay for TLC: a record without a user and with an   *)
(* array for its category, which a correction mends, one on which          *)
(* json.loads raises, and one that only earlier rules have rejected.       *)
(***************************************************************************)
EXTENDS DlqReplay

MCText == {"", "None", "view", "cart", "purchase", "T", "9.9", "x", "[1]"}
MCBlanks == {""}
MCTimes == {"T"}
MCPrices == {"9.9"}

View == "ecommerce.view"

NoUser ==
  [shape |-> "object",
   fields |-> [f \in EVENT_FIELDS |->
     CASE f = "user_id" -> Null
       [] f = "category_code" -> [kind |-> "container", text |-> "[1]"]
       [] f = "event_time" -> [kind |-> "text", text |-> "T"]
       [] f = "event_type" -> [kind |-> "text", text |-> "view"]
       [] f = "price" -> [kind |-> "number", text |-> "9.9"]
       [] OTHER -> [kind |-> "text", text |-> "x"]],
   id |-> [f \in EVENT_FIELDS |-> "x"]]

MCRejections ==
  {[payload |-> NoUser, topic |-> View, reason |-> "MISSING_REQUIRED_FIELD", offset |-> 0],
   [payload |-> [NoUser EXCEPT !.shape = "raises"], topic |-> View,
    reason |-> "VALIDATION_INTERNAL_ERROR", offset |-> 1],
   [payload |-> [NoUser EXCEPT !.fields["user_id"] = [kind |-> "text", text |-> "x"]],
    topic |-> View, reason |-> "INVALID_PRICE", offset |-> 2]}

LineFor(o) ==
  [partition |-> Partition, offset |-> o,
   correction |-> [NoCorrection EXCEPT !.fields["user_id"] = [kind |-> "text", text |-> "x"]]]

LineWithId(o, id) ==
  [LineFor(o) EXCEPT !.correction.setsId = TRUE, !.correction.id = id]
NewId == [f \in EVENT_FIELDS |-> "T"]

Run(from, to, lines) ==
  [from |-> from, to |-> to, topic |-> View, reason |-> NULL, lines |-> lines, execute |-> TRUE]

\* With and without corrections, with a new event_id and with none, a preview, a filter, a
\* topic without records, a file with a line too many, and one of another partition.
MCInvocations ==
  {Run(0, 2, <<LineFor(0)>>),
   Run(0, 1, <<LineWithId(0, NewId)>>),
   [Run(0, 2, <<LineWithId(0, NULL)>>) EXCEPT !.execute = FALSE],
   [Run(0, 2, <<LineFor(0), LineWithId(1, NewId)>>) EXCEPT !.reason = "MISSING_REQUIRED_FIELD"],
   [Run(1, 2, <<>>) EXCEPT !.topic = "ecommerce.cart"],
   Run(0, 1, <<LineFor(0), LineFor(0)>>),
   Run(0, 1, <<[LineFor(0) EXCEPT !.partition = Partition + 1]>>)}
=============================================================================
