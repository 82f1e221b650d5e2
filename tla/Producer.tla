------------------------------- MODULE Producer -------------------------------
(***************************************************************************)
(* code/pipelines/ingestion/kafka_producer.py: rows of a CSV file are sent *)
(* to the topic of their type, one after the other, while the client's     *)
(* thread delivers them and counts the outcomes; after the last row main   *)
(* waits for the deliveries and compares the counts.                       *)
(*                                                                         *)
(* Pauses between rows, the keys and the log of failures are left out.     *)
(***************************************************************************)
EXTENDS EventTopics

CONSTANTS
  Rows,   \* the rows of the file, as csv.DictReader gives them
  Limits  \* values of --limit, Len(Rows) if there is none

ASSUME RowsAssumption == Rows \in Seq(Contents) /\ Limits \subseteq 0 .. Len(Rows)

VARIABLES
  limit,      \* --limit
  main,       \* where main is
  read,       \* rows read
  attempted, confirmed, failed,
  sent,       \* rows the client has taken and the broker has not appended
  appended,   \* rows the broker has appended and the client does not know of
  flushError,
  accounted,  \* confirmed + failed as main has read them
  exit        \* how the process ended

counts == <<attempted, confirmed, failed>>
producer == <<limit, main, read, counts, sent, appended, flushError, accounted, exit>>

RowNumber == 1 .. Len(Rows)
TypeOf(row) == row["event_type"]
TopicOf(row) == TOPIC_BY_EVENT_TYPE[TypeOf(row)]
IsKnown(row) == TypeOf(row) \in EventType

\* to_json, with the id main has computed.
PayloadOf(row) == ToJson(row, EventId(row))

InitProducer ==
  /\ limit \in Limits
  /\ main = "reading"
  /\ read = 0
  /\ attempted = 0 /\ confirmed = 0 /\ failed = 0
  /\ sent = {}
  /\ appended = {}
  /\ flushError = FALSE
  /\ accounted = 0
  /\ exit = "none"

----------------------------------------------------------------------------
(* main *)

Reading == main = "reading" /\ read < limit
ThisRow == Rows[read + 1]

SkipRow ==
  /\ Reading
  /\ ~IsKnown(ThisRow)
  /\ read' = read + 1
  /\ UNCHANGED <<log, limit, main, counts, sent, appended, flushError, accounted, exit>>

\* parse_event_time raises; nobody catches it.
StopAtRow ==
  /\ Reading
  /\ IsKnown(ThisRow) /\ ThisRow["event_time"] \notin Times
  /\ main' = "ended"
  /\ exit' = "error"
  /\ UNCHANGED <<log, limit, read, counts, sent, appended, flushError, accounted>>

CanPublish == Reading /\ IsKnown(ThisRow) /\ ThisRow["event_time"] \in Times

\* send takes the record.
Publish ==
  /\ CanPublish
  /\ read' = read + 1
  /\ attempted' = attempted + 1
  /\ sent' = sent \cup {read + 1}
  /\ UNCHANGED <<log, limit, main, confirmed, failed, appended, flushError, accounted, exit>>

\* send raises.
PublishFails ==
  /\ CanPublish
  /\ read' = read + 1
  /\ attempted' = attempted + 1
  /\ failed' = failed + 1
  /\ UNCHANGED <<log, limit, main, confirmed, sent, appended, flushError, accounted, exit>>

\* flush returns when every record is settled, or raises.
Flush ==
  /\ main = "reading" /\ read = limit
  /\ main' = "flushed"
  /\ \/ sent \cup appended = {} /\ flushError' = FALSE
     \/ flushError' = TRUE
  /\ UNCHANGED <<log, limit, read, counts, sent, appended, accounted, exit>>

\* The counts still move if flush has raised.
Account ==
  /\ main = "flushed"
  /\ main' = "accounted"
  /\ accounted' = confirmed + failed
  /\ UNCHANGED <<log, limit, read, counts, sent, appended, flushError, exit>>

\* Mutation of Failure: only what is missing counts, not what has failed.
FailureUnlessAccounted == flushError \/ accounted # attempted

Failure == failed > 0 \/ flushError \/ accounted # attempted

End ==
  /\ main = "accounted"
  /\ main' = "ended"
  /\ exit' = IF Failure THEN "error" ELSE "success"
  /\ UNCHANGED <<log, limit, read, counts, sent, appended, flushError, accounted>>

----------------------------------------------------------------------------
(* The client's thread and the broker *)

\* The broker appends a record; retries=0, so it does so at most once.
Append1(n) ==
  /\ n \in sent
  /\ sent' = sent \ {n}
  /\ appended' = appended \cup {n}
  /\ log' = [log EXCEPT ![TopicOf(Rows[n])] = Append(@, PayloadOf(Rows[n]))]
  /\ UNCHANGED <<limit, main, read, counts, flushError, accounted, exit>>

\* on_success
Confirm(n) ==
  /\ main # "ended"
  /\ n \in appended
  /\ appended' = appended \ {n}
  /\ confirmed' = confirmed + 1
  /\ UNCHANGED <<log, limit, main, read, attempted, failed, sent, flushError, accounted, exit>>

\* errback: the record has not arrived, or has and its acknowledgement was lost.
FailDelivery(n) ==
  /\ main # "ended"
  /\ n \in sent \cup appended
  /\ sent' = sent \ {n}
  /\ appended' = appended \ {n}
  /\ failed' = failed + 1
  /\ UNCHANGED <<log, limit, main, read, attempted, confirmed, flushError, accounted, exit>>

\* The record is settled before publish has added the callbacks, or between the test
\* and the registration in add_callback: neither is called.  A failure may be lost so.
LoseCallback(n) ==
  /\ main = "reading"
  /\ n \in sent \cup appended
  /\ sent' = sent \ {n}
  /\ appended' = appended \ {n}
  /\ UNCHANGED <<log, limit, main, read, counts, flushError, accounted, exit>>

MainStep == SkipRow \/ StopAtRow \/ Publish \/ PublishFails \/ Flush \/ Account \/ End
ClientStep ==
  \E n \in RowNumber : Append1(n) \/ Confirm(n) \/ FailDelivery(n) \/ LoseCallback(n)

----------------------------------------------------------------------------
(* Properties *)

ProducerTypeOK ==
  /\ main \in {"reading", "flushed", "accounted", "ended"}
  /\ limit \in Limits
  /\ read \in 0 .. limit
  /\ attempted \in 0 .. read
  /\ confirmed \in Nat /\ failed \in Nat /\ confirmed + failed <= attempted
  /\ sent \subseteq 1 .. read /\ appended \subseteq 1 .. read
  /\ sent \cap appended = {}
  /\ flushError \in BOOLEAN
  /\ accounted \in 0 .. Len(Rows)
  /\ exit \in {"none", "success", "error"}

\* A process that exits without an error has every row of a known type in its topic,
\* though failures and lost callbacks are known from another thread's counts only.
SuccessMeansDelivered ==
  exit = "success" =>
    \A n \in 1 .. limit : IsKnown(Rows[n]) =>
      \E i \in DOMAIN log[TopicOf(Rows[n])] : log[TopicOf(Rows[n])][i] = PayloadOf(Rows[n])
=============================================================================
