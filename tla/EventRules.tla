------------------------------ MODULE EventRules ------------------------------
(***************************************************************************)
(* The input contract: what code/pipelines/common/event_validation.py      *)
(* accepts, what it makes of an accepted payload, and how                  *)
(* event_contract.py identifies an event.                                  *)
(*                                                                         *)
(* A payload is a JSON text.  Of its fields only the kind of the value and *)
(* the string that str() makes of it matter.                               *)
(***************************************************************************)
EXTENDS Integers, Sequences, FiniteSets

CONSTANTS
  NULL,    \* None
  Text,    \* the strings that occur
  Blanks,  \* strings that strip to nothing
  Times,   \* strings that strptime reads with EVENT_TIME_FORMAT
  Prices   \* strings that Decimal reads as a finite amount, 0 or more; not "" or "None"

ASSUME TextAssumption ==
  /\ NULL \notin Text
  /\ {"", "None", "view", "cart", "purchase"} \subseteq Text
  /\ Blanks \subseteq Text /\ Times \subseteq Text /\ Prices \subseteq Text \ {"", "None"}

TOPIC_BY_EVENT_TYPE ==
  [view |-> "ecommerce.view", cart |-> "ecommerce.cart", purchase |-> "ecommerce.purchase"]
EventType == DOMAIN TOPIC_BY_EVENT_TYPE
ALLOWED_TOPICS == {TOPIC_BY_EVENT_TYPE[e] : e \in EventType}
EVENT_TYPE_BY_TOPIC ==
  [t \in ALLOWED_TOPICS |-> CHOOSE e \in EventType : TOPIC_BY_EVENT_TYPE[e] = t]

EVENT_FIELDS ==
  {"event_time", "event_type", "product_id", "category_id", "category_code", "brand",
   "price", "user_id", "user_session"}
\* Besides event_id, which a payload has apart from its fields.
REQUIRED_FIELDS == {"event_type", "event_time", "user_id", "user_session", "product_id"}

----------------------------------------------------------------------------
(* Payloads *)

\* A JSON value: its kind (bool counts as a number) and what str() makes of it.
Null == [kind |-> "null", text |-> "None"]
Value == [kind : {"text", "number", "container"}, text : Text] \cup {Null}

Contents == [EVENT_FIELDS -> Text \cup {NULL}]

\* Mutation of EventId: `or ""` in place of the test for None drops a price of 0.
EventIdFalsy(contents) ==
  [f \in EVENT_FIELDS |-> IF contents[f] \in {NULL, "0"} THEN "" ELSE contents[f]]

\* compute_event_id: the hash stands for the nine strings that are hashed.
EventId(contents) == [f \in EVENT_FIELDS |-> IF contents[f] = NULL THEN "" ELSE contents[f]]
Id == [EVENT_FIELDS -> Text]

\* id is NULL when event_id is absent, null, blank, an array or an object.  A payload
\* may be something else than an object, no JSON at all, or JSON on which json.loads
\* raises an error of another kind, such as nesting beyond the recursion limit.
Payload ==
  [shape : {"object", "not an object", "malformed", "raises"},
   fields : [EVENT_FIELDS -> Value],
   id : Id \cup {NULL}]

\* json.dumps of strings and None.
ToJson(contents, id) ==
  [shape |-> "object",
   fields |-> [f \in EVENT_FIELDS |-> IF contents[f] = NULL THEN Null
                                      ELSE [kind |-> "text", text |-> contents[f]]],
   id |-> id]

----------------------------------------------------------------------------
(* validate_event *)

CoerceStr(v) == IF v.kind \in {"null", "container"} THEN NULL ELSE v.text

\* What validation makes of an accepted payload.  The price goes through str() alone.
Normalised(p) ==
  [f \in EVENT_FIELDS |-> IF f = "price" THEN p.fields[f].text ELSE CoerceStr(p.fields[f])]

HasRequired(p) ==
  /\ p.id # NULL
  /\ \A f \in REQUIRED_FIELDS : Normalised(p)[f] \notin Blanks \cup {NULL}

\* reason_code, NULL if the payload is valid.  The checks run in this order.
ReasonCode(p, type) ==
  IF p.shape = "raises" THEN "VALIDATION_INTERNAL_ERROR"
  ELSE IF p.shape # "object" THEN "MALFORMED_JSON"
  ELSE IF ~HasRequired(p) THEN "MISSING_REQUIRED_FIELD"
  ELSE IF Normalised(p)["event_type"] # type THEN "EVENT_TYPE_MISMATCH"
  ELSE IF Normalised(p)["event_time"] \notin Times THEN "INVALID_EVENT_TIME"
  ELSE IF Normalised(p)["price"] \notin Prices THEN "INVALID_PRICE"
  ELSE NULL

ReasonCodes ==
  {"VALIDATION_INTERNAL_ERROR", "MALFORMED_JSON", "MISSING_REQUIRED_FIELD",
   "EVENT_TYPE_MISMATCH", "INVALID_EVENT_TIME", "INVALID_PRICE"}

\* Mutation of IsValid: every field has to be filled, brand and category too.
IsValidIfFull(p, topic) ==
  /\ ReasonCode(p, EVENT_TYPE_BY_TOPIC[topic]) = NULL
  /\ \A f \in EVENT_FIELDS : Normalised(p)[f] \notin Blanks \cup {NULL}

IsValid(p, topic) == ReasonCode(p, EVENT_TYPE_BY_TOPIC[topic]) = NULL
=============================================================================
