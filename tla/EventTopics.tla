------------------------------ MODULE EventTopics ------------------------------
(***************************************************************************)
(* The Kafka topics between the programs of code/pipelines/ingestion.      *)
(***************************************************************************)
EXTENDS EventRules

VARIABLES
  log,  \* of each topic, the payloads it holds; an offset is an index less 1
  dlq   \* the records of the DLQ topic, each with the offset it came from

\* A record of the DLQ: what was rejected, and where it was in its own topic.
DlqRecord ==
  [payload : Payload, topic : ALLOWED_TOPICS, reason : ReasonCodes, offset : Nat]

DlqRecordAt(topic, o) ==
  LET p == log[topic][o + 1]
  IN  [payload |-> p, topic |-> topic, reason |-> ReasonCode(p, EVENT_TYPE_BY_TOPIC[topic]),
       offset |-> o]

TopicsTypeOK ==
  /\ log \in [ALLOWED_TOPICS -> Seq(Payload)]
  /\ dlq \in Seq(DlqRecord)
=============================================================================
