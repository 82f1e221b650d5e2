-------------------------------- MODULE Ingest --------------------------------
(***************************************************************************)
(* From the CSV file to Bronze and the DLQ: the producer, the topics, the  *)
(* Flink job of one topic.                                                 *)
(***************************************************************************)
EXTENDS Producer, RawZone

CONSTANT Earlier  \* what the topic may hold before the producer starts

ASSUME EarlierAssumption == Earlier \subseteq Seq(Payload)

vars == <<log, dlq, producer, flink>>

Init ==
  /\ \E payloads \in Earlier :
       log = [t \in ALLOWED_TOPICS |-> IF t = Topic THEN payloads ELSE <<>>]
  /\ dlq = <<>>
  /\ InitProducer
  /\ InitRawZone

Produce == (MainStep \/ ClientStep) /\ UNCHANGED <<dlq, flink>>
Consume == FlinkStep /\ UNCHANGED producer

Next == Produce \/ Consume

\* A submitted job keeps reading, writing and completing checkpoints.  Nobody has to
\* submit it.
Fairness == WF_vars(JobStep /\ UNCHANGED producer)

Spec == Init /\ [][Next]_vars /\ Fairness

----------------------------------------------------------------------------
(* Properties *)

\* The types of all variables, with the bounds that tie them to each other.
TypeOK ==
  /\ TopicsTypeOK
  /\ ProducerTypeOK
  /\ RawZoneTypeOK

\* None and the empty string of a CSV cell are the same contents.
SameContents(c, d) ==
  \A f \in EVENT_FIELDS : c[f] = d[f] \/ {c[f], d[f]} = {NULL, ""}

FromProducer(o) == \E n \in RowNumber : PayloadAt(o) = PayloadOf(Rows[n])

\* Producer and job together: two rows of Bronze have the same event_id exactly if they
\* are the same event, although the id is the hash of the cells as the file has them and
\* the contents went through JSON and the normalisation of the validator.
IdsTellEventsApart ==
  \A o, q \in {o \in DOMAIN bronze : FromProducer(o)} :
    RowAt(o).id = RowAt(q).id <=> SameContents(RowAt(o).contents, RowAt(q).contents)

\* Every record of the topic ends up in Bronze or the DLQ, or in a dropped file as above,
\* unless the job stays stopped.
RecordsArrive ==
  <>[](job = "running") => []<>(\A o \in Offsets : Routed(o) \/ o \in lost)
=============================================================================
