------------------------------ MODULE IngestProofs ------------------------------
(***************************************************************************)
(* A producer that reports success has delivered, and no record of a topic *)
(* is lost between Kafka and Bronze or the DLQ.                            *)
(***************************************************************************)
EXTENDS Ingest, FiniteSetTheorems, TLAPS

----------------------------------------------------------------------------
(* Payloads of the producer, and the topics *)

\* A cell is a text or missing.
LEMMA RowsAreContents ==
  ASSUME NEW n \in RowNumber
  PROVE  Rows[n] \in [EVENT_FIELDS -> Text \cup {NULL}]
  BY RowsAssumption DEF RowNumber, Contents

\* to_json yields a payload that has the cells of the row, and null where it has none.
LEMMA ProducerPayload ==
  ASSUME NEW row \in [EVENT_FIELDS -> Text \cup {NULL}]
  PROVE  /\ PayloadOf(row) \in Payload
         /\ PayloadOf(row).id = EventId(row)
         /\ \A f \in EVENT_FIELDS :
              PayloadOf(row).fields[f] = IF row[f] = NULL THEN Null
                                         ELSE [kind |-> "text", text |-> row[f]]
PROOF
<1> DEFINE p == PayloadOf(row)
<1>1. p = [shape |-> "object",
           fields |-> [f \in EVENT_FIELDS |-> IF row[f] = NULL THEN Null
                                              ELSE [kind |-> "text", text |-> row[f]]],
           id |-> EventId(row)]
  BY DEF PayloadOf, ToJson
<1>2. EventId(row) \in Id
  <2>1. "" \in Text
    BY TextAssumption
  <2> QED
    BY <2>1 DEF EventId, Id
<1>3. p.fields \in [EVENT_FIELDS -> Value]
  <2> SUFFICES ASSUME NEW f \in EVENT_FIELDS
               PROVE  (IF row[f] = NULL THEN Null ELSE [kind |-> "text", text |-> row[f]]) \in Value
    BY <1>1
  <2>1. CASE row[f] = NULL
    BY <2>1 DEF Value
  <2>2. CASE row[f] # NULL
    <3>1. row[f] \in Text
      BY <2>2
    <3> QED
      BY <2>2, <3>1 DEF Value
  <2> QED
    BY <2>1, <2>2
<1>4. DOMAIN p = {"shape", "fields", "id"} /\ p.shape = "object" /\ p.id = EventId(row)
  BY <1>1
<1>5. \A f \in EVENT_FIELDS :
        p.fields[f] = IF row[f] = NULL THEN Null ELSE [kind |-> "text", text |-> row[f]]
  BY <1>1
<1>6. p \in Payload
  <2> HIDE DEF p
  <2> QED
    BY <1>1, <1>2, <1>3, <1>4 DEF Payload
<1> QED
  BY <1>4, <1>5, <1>6

\* Rows of a known type go to an allowed topic.
LEMMA KnownTopics ==
  ASSUME NEW row, IsKnown(row)
  PROVE  TopicOf(row) \in ALLOWED_TOPICS
  BY DEF TopicOf, IsKnown, ALLOWED_TOPICS

----------------------------------------------------------------------------
(* The producer *)

Known(k) == {n \in 1 .. k : IsKnown(Rows[n])}

IsDelivered(n) ==
  \E i \in DOMAIN log[TopicOf(Rows[n])] : log[TopicOf(Rows[n])][i] = PayloadOf(Rows[n])

\* Each count is the size of a set of rows: C are the confirmed, F the failed ones.  A row
\* whose callback was lost is in neither.
CountsAreOf(C, F) ==
  /\ C \subseteq Known(read) /\ F \subseteq Known(read)
  /\ C \cap F = {} /\ (C \cup F) \cap (sent \cup appended) = {}
  /\ Cardinality(C) = confirmed /\ Cardinality(F) = failed
  /\ \A n \in C : IsDelivered(n)

ProducerTypes ==
  /\ main \in {"reading", "flushed", "accounted", "ended"}
  /\ limit \in Limits
  /\ read \in 0 .. limit
  /\ attempted \in Nat /\ confirmed \in Nat /\ failed \in Nat
  /\ sent \subseteq Known(read) /\ appended \subseteq Known(read)
  /\ sent \cap appended = {}
  /\ flushError \in BOOLEAN
  /\ exit \in {"none", "success", "error"}

ProducerInv ==
  /\ ProducerTypes
  /\ attempted = Cardinality(Known(read))
  /\ \A n \in appended : IsDelivered(n)
  /\ \E C, F \in SUBSET RowNumber : CountsAreOf(C, F)
  /\ accounted \in Nat /\ accounted <= confirmed + failed
  /\ main \in {"flushed", "accounted"} => read = limit
  /\ exit = "success" =>
       main = "ended" /\ read = limit /\ failed = 0 /\ accounted = attempted

TopicsInv ==
  /\ log \in [ALLOWED_TOPICS -> Seq(Payload)]
  /\ dlq \in Seq(DlqRecord)

\* The rows of known types among the first k are finitely many.
LEMMA KnownFacts ==
  ASSUME NEW k \in 0 .. Len(Rows)
  PROVE  /\ IsFiniteSet(Known(k))
         /\ Known(k) \subseteq RowNumber
         /\ Cardinality(Known(k)) \in Nat /\ Cardinality(Known(k)) <= k
PROOF
<1>1. Len(Rows) \in Nat
  BY RowsAssumption
<1>2. IsFiniteSet(1 .. k) /\ Cardinality(1 .. k) = k
  BY <1>1, FS_Interval
<1>3. Known(k) \subseteq 1 .. k
  BY DEF Known
<1>4. IsFiniteSet(Known(k)) /\ Cardinality(Known(k)) <= k
  BY <1>2, <1>3, FS_Subset
<1> QED
  BY <1>1, <1>3, <1>4, FS_CardinalityType DEF RowNumber

\* The next row, if its type is known, is one more.
LEMMA KnownGrows ==
  ASSUME NEW k \in Nat, k < Len(Rows)
  PROVE  /\ IsKnown(Rows[k + 1]) =>
              /\ Known(k + 1) = Known(k) \cup {k + 1}
              /\ k + 1 \notin Known(k)
              /\ Cardinality(Known(k + 1)) = Cardinality(Known(k)) + 1
         /\ ~IsKnown(Rows[k + 1]) => Known(k + 1) = Known(k)
PROOF
<1>1. IsKnown(Rows[k + 1]) => Known(k + 1) = Known(k) \cup {k + 1} /\ k + 1 \notin Known(k)
  BY DEF Known
<1>2. ~IsKnown(Rows[k + 1]) => Known(k + 1) = Known(k)
  BY DEF Known
<1>3. k \in 0 .. Len(Rows)
  BY RowsAssumption
<1>4. IsFiniteSet(Known(k))
  BY <1>3, KnownFacts
<1> QED
  BY <1>1, <1>2, <1>4, FS_AddElement

\* The topics only grow.
LEMMA LogGrows ==
  ASSUME TopicsInv, ProducerInv, [Next]_vars
  PROVE  /\ log' \in [ALLOWED_TOPICS -> Seq(Payload)]
         /\ \A t \in ALLOWED_TOPICS :
              /\ Len(log[t]) <= Len(log'[t])
              /\ \A i \in 1 .. Len(log[t]) : log'[t][i] = log[t][i]
PROOF
<1>1. log \in [ALLOWED_TOPICS -> Seq(Payload)]
  BY DEF TopicsInv
<1>2. CASE UNCHANGED log
  BY <1>1, <1>2
<1>3. ASSUME NEW n \in RowNumber, Append1(n)
      PROVE  /\ log' \in [ALLOWED_TOPICS -> Seq(Payload)]
             /\ \A t \in ALLOWED_TOPICS :
                  /\ Len(log[t]) <= Len(log'[t])
                  /\ \A i \in 1 .. Len(log[t]) : log'[t][i] = log[t][i]
  <2>1. n \in sent /\ IsKnown(Rows[n])
    BY <1>3 DEF Append1, ProducerInv, ProducerTypes, Known
  <2>2. TopicOf(Rows[n]) \in ALLOWED_TOPICS
    BY <2>1, KnownTopics
  <2>3. PayloadOf(Rows[n]) \in Payload
    BY RowsAreContents, ProducerPayload
  <2>4. log' = [log EXCEPT ![TopicOf(Rows[n])] = Append(@, PayloadOf(Rows[n]))]
    BY <1>3 DEF Append1
  <2> QED
    BY <1>1, <2>2, <2>3, <2>4
<1>4. UNCHANGED log \/ \E n \in RowNumber : Append1(n)
  BY DEF Next, Produce, Consume, MainStep, ClientStep, SkipRow, StopAtRow, Publish, PublishFails,
     Flush, Account, End, Confirm, FailDelivery, LoseCallback, FlinkStep, JobStep, Route,
     WriteDlq, Checkpoint, FinishFiles, CommitOffsets, Failover, Stop, Submit, vars
<1> QED
  BY <1>2, <1>3, <1>4
\* A delivered row stays delivered, since topics only grow.
LEMMA DeliveredStays ==
  ASSUME TopicsInv, ProducerInv, [Next]_vars,
         NEW n \in RowNumber, IsKnown(Rows[n]), IsDelivered(n)
  PROVE  IsDelivered(n)'
PROOF
<1> DEFINE t == TopicOf(Rows[n])
<1>1. t \in ALLOWED_TOPICS
  BY KnownTopics
<1>2. PICK i \in DOMAIN log[t] : log[t][i] = PayloadOf(Rows[n])
  BY DEF IsDelivered
<1> HIDE DEF t
<1>3. log[t] \in Seq(Payload) /\ log'[t] \in Seq(Payload)
  BY <1>1, LogGrows DEF TopicsInv
<1>4. i \in DOMAIN log'[t] /\ log'[t][i] = log[t][i]
  BY <1>1, <1>2, <1>3, LogGrows
<1> QED
  BY <1>2, <1>4 DEF IsDelivered, t

\* main changes nothing but its own state, and the client's thread only settles records.
LEMMA ProducerStep ==
  ASSUME TopicsInv, ProducerInv, [Next]_vars
  PROVE  ProducerInv'
PROOF
<1>1. PICK C, F \in SUBSET RowNumber : CountsAreOf(C, F)
  BY DEF ProducerInv
<1>2. /\ ProducerTypes
      /\ attempted = Cardinality(Known(read))
      /\ \A n \in appended : IsDelivered(n)
      /\ accounted \in Nat /\ accounted <= confirmed + failed
      /\ main \in {"flushed", "accounted"} => read = limit
      /\ exit = "success" =>
           main = "ended" /\ read = limit /\ failed = 0 /\ accounted = attempted
  BY DEF ProducerInv
<1>3. limit \in 0 .. Len(Rows) /\ Len(Rows) \in Nat /\ read \in 0 .. Len(Rows) /\ read \in Nat
  BY <1>2, RowsAssumption DEF ProducerTypes
<1>4. Known(read) \subseteq RowNumber /\ \A n \in Known(read) : IsKnown(Rows[n])
  BY <1>3, KnownFacts DEF Known
<1>5. \A n \in C \cup appended : IsDelivered(n)'
  <2>1. \A n \in C \cup appended : n \in RowNumber /\ IsKnown(Rows[n]) /\ IsDelivered(n)
    BY <1>1, <1>2, <1>4 DEF CountsAreOf, ProducerTypes
  <2> QED
    BY <2>1, DeliveredStays
<1>6. IsFiniteSet(C) /\ IsFiniteSet(F)
  <2>1. IsFiniteSet(Known(read))
    BY <1>3, KnownFacts
  <2> QED
    BY <1>1, <2>1, FS_Subset DEF CountsAreOf
<1>7. CASE UNCHANGED producer
  BY <1>1, <1>2, <1>5, <1>7 DEF producer, counts, ProducerInv, ProducerTypes, CountsAreOf, Known
<1>8. ASSUME Reading
      PROVE  read < Len(Rows) /\ read + 1 \in 0 .. limit /\ read + 1 \in RowNumber
  BY <1>3, <1>8 DEF Reading, RowNumber
<1>9. ASSUME CanPublish
      PROVE  /\ Known(read + 1) = Known(read) \cup {read + 1}
             /\ read + 1 \notin Known(read)
             /\ Cardinality(Known(read + 1)) = attempted + 1
             /\ main = "reading" /\ read + 1 \in 0 .. limit
             /\ read + 1 \in RowNumber
  BY <1>2, <1>3, <1>8, <1>9, KnownGrows DEF CanPublish, Reading, ThisRow
<1>10. CASE SkipRow
  <2>1. Known(read + 1) = Known(read)
    BY <1>3, <1>8, <1>10, KnownGrows DEF SkipRow, ThisRow
  <2>2. /\ read' = read + 1 /\ main = "reading" /\ read + 1 \in 0 .. limit
        /\ UNCHANGED <<limit, main, counts, sent, appended, flushError, accounted, exit>>
    BY <1>8, <1>10 DEF SkipRow, Reading
  <2> QED
    BY <1>1, <1>2, <1>5, <2>1, <2>2
    DEF counts, ProducerInv, ProducerTypes, CountsAreOf, Known
<1>11. CASE StopAtRow
  <2>1. /\ main = "reading" /\ main' = "ended" /\ exit' = "error"
        /\ UNCHANGED <<limit, read, counts, sent, appended, flushError, accounted>>
    BY <1>11 DEF StopAtRow, Reading
  <2> QED
    BY <1>1, <1>2, <1>5, <2>1 DEF counts, ProducerInv, ProducerTypes, CountsAreOf, Known
<1>12. CASE Publish
  <2>1. /\ read' = read + 1 /\ attempted' = attempted + 1 /\ sent' = sent \cup {read + 1}
        /\ UNCHANGED <<limit, main, confirmed, failed, appended, flushError, accounted, exit>>
        /\ CanPublish
    BY <1>12 DEF Publish
  <2>2. Known(read)' = Known(read) \cup {read + 1}
    BY <1>9, <2>1 DEF Known
  <2>3. CountsAreOf(C, F)'
    BY <1>1, <1>5, <1>9, <2>1, <2>2 DEF CountsAreOf
  <2>4. ProducerTypes'
    BY <1>2, <1>9, <2>1, <2>2 DEF ProducerTypes
  <2>5. attempted' = Cardinality(Known(read))'
    BY <1>9, <2>1, <2>2
  <2> QED
    BY <1>2, <1>5, <1>9, <2>1, <2>3, <2>4, <2>5 DEF ProducerInv
<1>13. CASE PublishFails
  <2>1. /\ read' = read + 1 /\ attempted' = attempted + 1 /\ failed' = failed + 1
        /\ UNCHANGED <<limit, main, confirmed, sent, appended, flushError, accounted, exit>>
        /\ CanPublish
    BY <1>13 DEF PublishFails
  <2>2. Known(read)' = Known(read) \cup {read + 1}
    BY <1>9, <2>1 DEF Known
  <2> PICK F2 : F2 = F \cup {read + 1}
    OBVIOUS
  <2>3. Cardinality(F2) = failed + 1
    BY <1>1, <1>6, <1>9, <2>1, FS_AddElement DEF CountsAreOf
  <2>4. CountsAreOf(C, F2)' /\ F2 \in SUBSET RowNumber
    <3>1. F2 \subseteq Known(read)' /\ C \subseteq Known(read)'
      BY <1>1, <2>2 DEF CountsAreOf
    <3>2. read + 1 \notin C \cup sent \cup appended
      BY <1>1, <1>2, <1>9, <2>1 DEF CountsAreOf, ProducerTypes
    <3>3. C \cap F2 = {} /\ (C \cup F2) \cap (sent' \cup appended') = {}
      BY <1>1, <2>1, <3>2 DEF CountsAreOf
    <3>4. Cardinality(C) = confirmed' /\ Cardinality(F2) = failed'
      BY <1>1, <2>1, <2>3 DEF CountsAreOf
    <3>5. F2 \in SUBSET RowNumber
      BY <1>1, <1>9, <2>1
    <3> QED
      BY <1>5, <3>1, <3>3, <3>4, <3>5 DEF CountsAreOf
  <2>5. ProducerTypes'
    BY <1>2, <1>9, <2>1, <2>2 DEF ProducerTypes
  <2>6. attempted' = Cardinality(Known(read))'
    BY <1>9, <2>1, <2>2
  <2>7. accounted' <= confirmed' + failed'
    BY <1>2, <2>1 DEF ProducerTypes
  <2>8. \E D, G \in SUBSET RowNumber : CountsAreOf(D, G)'
    BY <1>1, <2>4
  <2>9. main' \notin {"flushed", "accounted"} /\ exit' # "success"
    BY <1>2, <1>9, <2>1
  <2> QED
    BY <1>2, <1>5, <2>1, <2>5, <2>6, <2>7, <2>8, <2>9 DEF ProducerInv
<1>14. CASE Flush
  <2>1. /\ main = "reading" /\ read = limit /\ main' = "flushed" /\ flushError' \in BOOLEAN
        /\ UNCHANGED <<limit, read, counts, sent, appended, accounted, exit>>
    BY <1>14 DEF Flush
  <2> QED
    BY <1>1, <1>2, <1>5, <2>1 DEF counts, ProducerInv, ProducerTypes, CountsAreOf, Known
<1>15. CASE Account
  <2>1. /\ main = "flushed" /\ main' = "accounted" /\ accounted' = confirmed + failed
        /\ UNCHANGED <<limit, read, counts, sent, appended, flushError, exit>>
    BY <1>15 DEF Account
  <2>2. accounted' \in Nat /\ accounted' <= confirmed + failed
    BY <1>2, <2>1 DEF ProducerTypes
  <2> QED
    BY <1>1, <1>2, <1>5, <2>1, <2>2 DEF counts, ProducerInv, ProducerTypes, CountsAreOf, Known
<1>16. CASE End
  <2>1. /\ main = "accounted" /\ main' = "ended"
        /\ exit' = IF Failure THEN "error" ELSE "success"
        /\ UNCHANGED <<limit, read, counts, sent, appended, flushError, accounted>>
    BY <1>16 DEF End
  <2>2. exit' = "success" => failed = 0 /\ accounted = attempted
    BY <1>2, <2>1 DEF Failure, ProducerTypes
  <2> QED
    BY <1>1, <1>2, <1>5, <2>1, <2>2 DEF counts, ProducerInv, ProducerTypes, CountsAreOf, Known
<1>17. ASSUME NEW n \in RowNumber, Append1(n)
       PROVE  ProducerInv'
  <2>1. /\ n \in sent /\ sent' = sent \ {n} /\ appended' = appended \cup {n}
        /\ log' = [log EXCEPT ![TopicOf(Rows[n])] = Append(@, PayloadOf(Rows[n]))]
        /\ UNCHANGED <<limit, main, read, counts, flushError, accounted, exit>>
    BY <1>17 DEF Append1
  <2>2. TopicOf(Rows[n]) \in ALLOWED_TOPICS
    BY <1>2, <1>4, <2>1, KnownTopics DEF ProducerTypes
  <2>3. IsDelivered(n)'
    <3> DEFINE t == TopicOf(Rows[n])
    <3>1. log[t] \in Seq(Payload) /\ log'[t] = Append(log[t], PayloadOf(Rows[n]))
      BY <2>1, <2>2 DEF TopicsInv
    <3>2. PayloadOf(Rows[n]) \in Payload
      BY RowsAreContents, ProducerPayload
    <3> HIDE DEF t
    <3>3. Len(log[t]) + 1 \in DOMAIN log'[t] /\ log'[t][Len(log[t]) + 1] = PayloadOf(Rows[n])
      BY <3>1, <3>2
    <3> QED
      BY <3>3 DEF IsDelivered, t
  <2>4. Known(read)' = Known(read)
    BY <2>1 DEF Known
  <2> QED
    BY <1>1, <1>2, <1>5, <2>1, <2>3, <2>4 DEF counts, ProducerInv, ProducerTypes, CountsAreOf
<1>18. ASSUME NEW n \in RowNumber, Confirm(n)
       PROVE  ProducerInv'
  <2>1. /\ main # "ended" /\ n \in appended /\ appended' = appended \ {n}
        /\ confirmed' = confirmed + 1
        /\ UNCHANGED <<limit, main, read, attempted, failed, sent, flushError, accounted, exit>>
    BY <1>18 DEF Confirm
  <2>2. Known(read)' = Known(read)
    BY <2>1 DEF Known
  <2> DEFINE C2 == C \cup {n}
  <2>3. Cardinality(C2) = confirmed + 1
    BY <1>1, <1>6, <2>1, FS_AddElement DEF CountsAreOf
  <2>4. CountsAreOf(C2, F)' /\ C2 \in SUBSET RowNumber
    BY <1>1, <1>2, <1>5, <2>1, <2>2, <2>3 DEF CountsAreOf, ProducerTypes
  <2>5. ProducerTypes'
    BY <1>2, <2>1, <2>2 DEF ProducerTypes
  <2>6. accounted' <= confirmed' + failed'
    BY <1>2, <2>1 DEF ProducerTypes
  <2> QED
    BY <1>2, <1>5, <2>1, <2>2, <2>4, <2>5, <2>6 DEF ProducerInv
<1>19. ASSUME NEW n \in RowNumber, FailDelivery(n)
       PROVE  ProducerInv'
  <2>1. /\ main # "ended" /\ n \in sent \cup appended
        /\ sent' = sent \ {n} /\ appended' = appended \ {n}
        /\ failed' = failed + 1
        /\ UNCHANGED <<limit, main, read, attempted, confirmed, flushError, accounted, exit>>
    BY <1>19 DEF FailDelivery
  <2>2. Known(read)' = Known(read)
    BY <2>1 DEF Known
  <2> DEFINE F2 == F \cup {n}
  <2>3. Cardinality(F2) = failed + 1
    BY <1>1, <1>6, <2>1, FS_AddElement DEF CountsAreOf
  <2>4. CountsAreOf(C, F2)' /\ F2 \in SUBSET RowNumber
    BY <1>1, <1>2, <1>5, <2>1, <2>2, <2>3 DEF CountsAreOf, ProducerTypes
  <2>5. ProducerTypes'
    BY <1>2, <2>1, <2>2 DEF ProducerTypes
  <2>6. accounted' <= confirmed' + failed'
    BY <1>2, <2>1 DEF ProducerTypes
  <2> QED
    BY <1>2, <1>5, <2>1, <2>2, <2>4, <2>5, <2>6 DEF ProducerInv
<1>20. ASSUME NEW n \in RowNumber, LoseCallback(n)
       PROVE  ProducerInv'
  <2>1. /\ sent' = sent \ {n} /\ appended' = appended \ {n}
        /\ UNCHANGED <<limit, main, read, counts, flushError, accounted, exit>>
    BY <1>20 DEF LoseCallback
  <2> QED
    BY <1>1, <1>2, <1>5, <2>1 DEF counts, ProducerInv, ProducerTypes, CountsAreOf, Known
<1>21. Produce \/ UNCHANGED producer
  BY DEF Next, Consume, vars
<1> QED
  BY <1>7, <1>10, <1>11, <1>12, <1>13, <1>14, <1>15, <1>16, <1>17, <1>18, <1>19, <1>20, <1>21
  DEF Produce, MainStep, ClientStep

\* An exit without an error means that the confirmed rows are all the known ones.
LEMMA SuccessFollows ==
  ASSUME ProducerInv
  PROVE  SuccessMeansDelivered
PROOF
<1> SUFFICES ASSUME exit = "success", NEW n \in 1 .. limit, IsKnown(Rows[n])
             PROVE  IsDelivered(n)
  BY DEF SuccessMeansDelivered, IsDelivered
<1>1. PICK C, F \in SUBSET RowNumber : CountsAreOf(C, F)
  BY DEF ProducerInv
<1>2. read = limit /\ read \in 0 .. Len(Rows)
  BY RowsAssumption DEF ProducerInv, ProducerTypes
<1>3. confirmed >= Cardinality(Known(read))
  BY DEF ProducerInv, ProducerTypes
<1>4. IsFiniteSet(Known(read)) /\ C \subseteq Known(read) /\ Cardinality(C) = confirmed
  BY <1>1, <1>2, KnownFacts DEF CountsAreOf
<1>5. C = Known(read)
  <2>1. IsFiniteSet(C) /\ Cardinality(C) <= Cardinality(Known(read))
        /\ (Cardinality(C) = Cardinality(Known(read)) => C = Known(read))
    BY <1>4, FS_Subset
  <2>2. Cardinality(C) \in Nat /\ Cardinality(Known(read)) \in Nat
    BY <1>2, <1>4, <2>1, FS_CardinalityType, KnownFacts
  <2> QED
    BY <1>3, <1>4, <2>1, <2>2
<1>6. n \in Known(read)
  BY <1>2 DEF Known
<1> QED
  BY <1>1, <1>5, <1>6 DEF CountsAreOf
----------------------------------------------------------------------------
(* The job of the topic *)

\* The validator answers with one of its reason codes or none.
LEMMA ReasonCodeType ==
  ASSUME NEW p, NEW type
  PROVE  ReasonCode(p, type) \in ReasonCodes \cup {NULL}
  BY DEF ReasonCode, ReasonCodes

Valid(o) == IsValid(PayloadAt(o), Topic)

\* What a position the job may start from has behind it.
Kept(o) == Routed(o) \/ o \in unfinished \cup lost

\* A row of a part file is from behind the restart position once a checkpoint has closed
\* the file, and from beyond it before.
FilesInv ==
  /\ \A o \in DOMAIN bronze \cup open \cup unfinished : Valid(o)
  /\ \A o \in buffered : ~Valid(o)
  /\ \A o \in open : o >= RestartPosition /\ o < position
  /\ \A o \in unfinished : o < RestartPosition
  /\ uncommitted => checkpoint # NULL
  /\ job = "running" => RestartPosition <= position /\ submissions >= 1
  /\ job = "stopped" =>
       open = {} /\ unfinished = {} /\ buffered = {} /\ checkpoint = NULL /\ ~uncommitted

KeptInv ==
  /\ \A o \in Offsets : o < RestartPosition \/ o < StartPosition => Kept(o)
  /\ job = "running" =>
       \A o \in Offsets : o < position => Kept(o) \/ o \in open \cup buffered

\* What the job may still write it has not written since it was submitted.
WrittenInv ==
  /\ \A o \in DOMAIN bronze :
       /\ bronze[o] <= submissions
       /\ job = "running" /\ (o >= RestartPosition \/ o \in unfinished) =>
            bronze[o] < submissions
  /\ submissions = 0 \/ (submissions < 2 /\ job = "running") => lost = {}

FlinkInv == RawZoneTypeOK /\ FilesInv /\ KeptInv /\ WrittenInv

\* Finishing files adds one to the count of each of their rows.
LEMMA FinishCounts ==
  ASSUME NEW files
  PROVE  /\ DOMAIN Finish(files) = DOMAIN bronze \cup files
         /\ \A o \in DOMAIN Finish(files) :
              Finish(files)[o] = (IF o \in DOMAIN bronze THEN bronze[o] ELSE 0)
                                 + (IF o \in files THEN 1 ELSE 0)
  BY DEF Finish

\* Records that the producer adds are beyond all that the job has seen.
LEMMA FlinkDuringProduce ==
  ASSUME TopicsInv, ProducerInv, FlinkInv, [Next]_vars, UNCHANGED <<dlq, flink>>
  PROVE  FlinkInv'
PROOF
<1>1. /\ Topic \in ALLOWED_TOPICS /\ NULL \notin Nat
      /\ log[Topic] \in Seq(Payload) /\ log'[Topic] \in Seq(Payload)
      /\ Len(log[Topic]) \in Nat /\ Len(log'[Topic]) \in Nat
      /\ Len(log[Topic]) <= Len(log'[Topic])
      /\ \A i \in 1 .. Len(log[Topic]) : log'[Topic][i] = log[Topic][i]
  BY RawZoneAssumption, LogGrows DEF TopicsInv
<1>2. 0 .. Len(log[Topic]) \subseteq 0 .. Len(log'[Topic]) /\ Offsets \subseteq Offsets'
  BY <1>1 DEF Offsets
<1>3. \A o \in Offsets : PayloadAt(o)' = PayloadAt(o)
  BY <1>1 DEF Offsets, PayloadAt
<1>4. RawZoneTypeOK'
  BY <1>2 DEF FlinkInv, RawZoneTypeOK, flink
<1>5. FilesInv'
  BY <1>3 DEF FlinkInv, FilesInv, RawZoneTypeOK, Valid, RestartPosition, StartPosition, flink
<1>6. KeptInv'
  <2>1. RestartPosition \in 0 .. Len(log[Topic]) /\ StartPosition \in 0 .. Len(log[Topic])
        /\ position \in 0 .. Len(log[Topic])
    BY <1>1 DEF FlinkInv, RawZoneTypeOK, RestartPosition, StartPosition
  <2>2. \A o \in Offsets' : o < RestartPosition \/ o < StartPosition \/ o < position => o \in Offsets
    BY <1>1, <2>1 DEF Offsets
  <2> QED
    BY <2>2 DEF FlinkInv, KeptInv, Kept, Routed, InDlq, InBronze, RestartPosition,
       StartPosition, flink
<1>7. WrittenInv'
  BY DEF FlinkInv, WrittenInv, RestartPosition, StartPosition, flink
<1> QED
  BY <1>4, <1>5, <1>6, <1>7 DEF FlinkInv
\* What the job writes to the DLQ is a record of it: it was rejected for a reason.
LEMMA RejectedRecord ==
  ASSUME TopicsInv, FlinkInv, NEW b \in buffered
  PROVE  DlqRecordAt(Topic, b) \in DlqRecord
PROOF
<1>1. b \in Offsets /\ ~Valid(b)
  BY DEF FlinkInv, RawZoneTypeOK, FilesInv
<1>2. Topic \in ALLOWED_TOPICS /\ log[Topic] \in Seq(Payload)
  BY RawZoneAssumption DEF TopicsInv
<1>3. PayloadAt(b) \in Payload /\ b \in Nat
  BY <1>1, <1>2 DEF Offsets, PayloadAt
<1>4. ReasonCode(PayloadAt(b), EVENT_TYPE_BY_TOPIC[Topic]) \in ReasonCodes
  BY <1>1, ReasonCodeType DEF Valid, IsValid
<1> QED
  BY <1>2, <1>3, <1>4 DEF DlqRecordAt, DlqRecord, PayloadAt

\* A routed record stays so, as the DLQ and Bronze only grow.
LEMMA RoutedStays ==
  ASSUME TopicsInv, FlinkInv, FlinkStep, NEW o, Routed(o)
  PROVE  Routed(o)'
PROOF
<1>1. ASSUME UNCHANGED dlq \/ \E r \in DlqRecord : dlq' = Append(dlq, r)
      PROVE  InDlq(o) => InDlq(o)'
  <2>1. dlq \in Seq(DlqRecord)
    BY DEF TopicsInv
  <2>2. CASE UNCHANGED dlq
    BY <2>2 DEF InDlq
  <2>3. ASSUME NEW r \in DlqRecord, dlq' = Append(dlq, r)
        PROVE  InDlq(o) => InDlq(o)'
    <3>1. \A i \in DOMAIN dlq : i \in DOMAIN dlq' /\ dlq'[i] = dlq[i]
      BY <2>1, <2>3
    <3> QED
      BY <3>1 DEF InDlq
  <2> QED
    BY <1>1, <2>2, <2>3
<1>2. ASSUME UNCHANGED bronze \/ \E files : bronze' = Finish(files)
      PROVE  InBronze(o) => InBronze(o)'
  BY <1>2, FinishCounts DEF InBronze
<1>3. \A b \in buffered : DlqRecordAt(Topic, b) \in DlqRecord
  BY RejectedRecord
<1>4. CASE WriteDlq
  BY <1>1, <1>2, <1>3, <1>4 DEF WriteDlq, Routed
<1>5. CASE FinishFiles \/ Failover
  BY <1>1, <1>2, <1>5 DEF FinishFiles, Failover, Routed
<1>6. CASE Route \/ Checkpoint \/ CommitOffsets \/ Stop \/ Submit
  BY <1>6 DEF Route, Checkpoint, CommitOffsets, Stop, Submit, Routed, InDlq, InBronze
<1> QED
  BY <1>4, <1>5, <1>6 DEF FlinkStep, JobStep

\* The job writes DLQ records only.
LEMMA DlqStaysTyped ==
  ASSUME TopicsInv, FlinkInv, FlinkStep
  PROVE  dlq' \in Seq(DlqRecord) /\ UNCHANGED log
PROOF
<1>1. dlq \in Seq(DlqRecord)
  BY DEF TopicsInv
<1>2. CASE WriteDlq
  <2>1. PICK b \in buffered : dlq' = Append(dlq, DlqRecordAt(Topic, b))
    BY <1>2 DEF WriteDlq
  <2> QED
    BY <1>1, <1>2, <2>1, RejectedRecord DEF WriteDlq
<1>3. CASE ~WriteDlq
  BY <1>1, <1>3 DEF FlinkStep, JobStep, Route, FinishFiles, Failover, Checkpoint, CommitOffsets,
     Stop, Submit
<1> QED
  BY <1>2, <1>3 DEF WriteDlq

\* Kept records stay kept whatever is dropped, if nothing is dropped that was kept in a file.
LEMMA KeptStays ==
  ASSUME TopicsInv, FlinkInv, FlinkStep, NEW o, Kept(o),
         o \in unfinished => o \in unfinished' \/ o \in lost' \/ o \in DOMAIN bronze'
  PROVE  Kept(o)'
PROOF
<1>1. lost \subseteq lost'
  BY DEF FlinkStep, JobStep, Route, WriteDlq, Checkpoint, FinishFiles, CommitOffsets, Failover,
     Stop, Submit
<1> QED
  BY <1>1, RoutedStays DEF Kept, Routed, InBronze

\* Every step of the job preserves its invariant.
LEMMA FlinkStepKeeps ==
  ASSUME TopicsInv, FlinkInv, FlinkStep
  PROVE  FlinkInv'
PROOF
<1> DEFINE top == Len(log[Topic])
<1>1. /\ NULL \notin Nat
      /\ log[Topic] \in Seq(Payload) /\ top \in Nat
      /\ UNCHANGED log
      /\ MaxFailovers \in Nat /\ MaxSubmissions \in Nat
  BY RawZoneAssumption, DlqStaysTyped DEF TopicsInv
<1>2. RawZoneTypeOK /\ FilesInv /\ KeptInv /\ WrittenInv
  BY DEF FlinkInv
<1>3. /\ RestartPosition \in 0 .. top /\ StartPosition \in 0 .. top /\ position \in 0 .. top
      /\ submissions \in Nat
  BY <1>1, <1>2 DEF RawZoneTypeOK, RestartPosition, StartPosition
<1>4. /\ Offsets' = Offsets /\ \A o : Valid(o)' = Valid(o)
      /\ \A o \in Offsets : o \in Nat /\ o < top
  BY <1>1 DEF Offsets, Valid, PayloadAt
<1>5. /\ DOMAIN bronze \subseteq Offsets /\ open \subseteq Offsets /\ unfinished \subseteq Offsets
      /\ buffered \subseteq Offsets /\ lost \subseteq Offsets
      /\ \A o \in DOMAIN bronze : bronze[o] \in Nat
  BY <1>2 DEF RawZoneTypeOK
<1> HIDE DEF top
<1>6. CASE Route
  <2>1. /\ job = "running" /\ position \in Offsets /\ position' = position + 1
        /\ position + 1 \in 0 .. top
        /\ UNCHANGED <<log, dlq, job, unfinished, checkpoint, uncommitted, group, bronze,
                       failovers, submissions, lost>>
        /\ \/ Valid(position) /\ open' = open \cup {position} /\ UNCHANGED buffered
           \/ ~Valid(position) /\ buffered' = buffered \cup {position} /\ UNCHANGED open
    <3>1. position \in Offsets /\ position \in Nat /\ position < top
      BY <1>4, <1>6 DEF Route
    <3>2. position + 1 \in 0 .. top
      BY <1>1, <3>1
    <3>3. Valid(position) <=> IsValid(PayloadAt(position), Topic)
      BY DEF Valid
    <3> QED
      BY <1>6, <3>1, <3>2, <3>3 DEF Route
  <2>2. RestartPosition' = RestartPosition /\ StartPosition' = StartPosition
    BY <2>1 DEF RestartPosition, StartPosition
  <2>3. RawZoneTypeOK'
    BY <1>1, <1>2, <1>4, <2>1 DEF RawZoneTypeOK, top
  <2>4. FilesInv'
    <3>1. ASSUME NEW o \in open'
          PROVE  o >= RestartPosition /\ o < position + 1
      <4>1. CASE o \in open
        <5>1. o >= RestartPosition /\ o < position /\ o \in Nat
          BY <1>2, <1>4, <1>5, <4>1 DEF FilesInv
        <5> QED
          BY <1>3, <5>1
      <4>2. CASE o = position
        BY <1>2, <1>3, <2>1, <4>2 DEF FilesInv
      <4> QED
        BY <2>1, <3>1, <4>1, <4>2
    <3>2. /\ \A o \in DOMAIN bronze' \cup open' \cup unfinished' : Valid(o)
          /\ \A o \in buffered' : ~Valid(o)
      BY <1>2, <2>1 DEF FilesInv
    <3>3. RestartPosition <= position + 1 /\ submissions >= 1
      BY <1>2, <1>3, <2>1 DEF FilesInv
    <3> QED
      BY <1>2, <1>4, <2>1, <2>2, <3>1, <3>2, <3>3 DEF FilesInv
  <2>5. \A o : Kept(o)' = Kept(o)
    BY <2>1 DEF Kept, Routed, InDlq, InBronze
  <2>6. KeptInv'
    <3>1. ASSUME NEW o \in Offsets, o < position + 1
          PROVE  Kept(o) \/ o \in open' \cup buffered'
      <4>1. CASE o < position
        BY <1>2, <2>1, <3>1, <4>1 DEF KeptInv
      <4>2. CASE o = position
        BY <2>1, <4>2
      <4> QED
        BY <1>3, <1>4, <3>1, <4>1, <4>2
    <3> QED
      BY <1>2, <1>4, <2>1, <2>2, <2>5, <3>1 DEF KeptInv
  <2>7. WrittenInv'
    BY <1>2, <2>1, <2>2 DEF WrittenInv
  <2> QED
    BY <2>3, <2>4, <2>6, <2>7 DEF FlinkInv
<1>7. CASE WriteDlq
  <2>1. PICK b \in buffered : /\ dlq' = Append(dlq, DlqRecordAt(Topic, b))
                              /\ buffered' = buffered \ {b}
    BY <1>7 DEF WriteDlq
  <2>2. /\ job = "running"
        /\ UNCHANGED <<log, job, position, open, unfinished, checkpoint, uncommitted, group,
                       bronze, failovers, submissions, lost>>
    BY <1>7 DEF WriteDlq
  <2>3. RestartPosition' = RestartPosition /\ StartPosition' = StartPosition
    BY <2>2 DEF RestartPosition, StartPosition
  <2>4. RawZoneTypeOK'
    BY <1>1, <1>2, <1>4, <2>1, <2>2 DEF RawZoneTypeOK
  <2>5. FilesInv'
    BY <1>2, <1>4, <2>1, <2>2, <2>3 DEF FilesInv
  <2>6. Kept(b)'
    <3>1. dlq \in Seq(DlqRecord) /\ DlqRecordAt(Topic, b) \in DlqRecord
      BY RejectedRecord DEF TopicsInv
    <3>2. Len(dlq) + 1 \in DOMAIN dlq' /\ dlq'[Len(dlq) + 1] = DlqRecordAt(Topic, b)
      BY <2>1, <3>1
    <3>3. DlqRecordAt(Topic, b).topic = Topic /\ DlqRecordAt(Topic, b).offset = b
      BY DEF DlqRecordAt
    <3> QED
      BY <3>2, <3>3 DEF Kept, Routed, InDlq
  <2>7. \A o : Kept(o) => Kept(o)'
    BY <2>2, KeptStays
  <2>8. KeptInv'
    BY <1>2, <1>4, <2>1, <2>2, <2>3, <2>6, <2>7 DEF KeptInv
  <2>9. WrittenInv'
    BY <1>2, <2>2, <2>3 DEF WrittenInv
  <2> QED
    BY <2>4, <2>5, <2>8, <2>9 DEF FlinkInv
<1>8. CASE Checkpoint
  <2>1. /\ job = "running" /\ buffered = {} /\ checkpoint' = position /\ uncommitted' = TRUE
        /\ unfinished' = unfinished \cup open /\ open' = {}
        /\ UNCHANGED <<log, dlq, job, position, group, buffered, bronze, failovers, submissions,
                       lost>>
    BY <1>8 DEF Checkpoint, Flushed
  <2>2. RestartPosition' = position /\ StartPosition' = StartPosition /\ position \in Nat
        /\ checkpoint' # NULL
    BY <1>1, <1>3, <2>1 DEF RestartPosition, StartPosition
  <2>3. RawZoneTypeOK'
    BY <1>1, <1>2, <1>3, <1>4, <2>1 DEF RawZoneTypeOK, top
  <2>4. \A o \in unfinished : o < position
    BY <1>2, <1>3, <1>4, <1>5, <2>1 DEF FilesInv
  <2>5. FilesInv'
    BY <1>2, <1>3, <1>4, <2>1, <2>2, <2>4 DEF FilesInv
  <2>6. \A o : Kept(o) \/ o \in open \cup buffered => Kept(o)'
    BY <2>1 DEF Kept, Routed, InDlq, InBronze
  <2>7. KeptInv'
    BY <1>2, <1>4, <2>1, <2>2, <2>6 DEF KeptInv
  <2>8. WrittenInv'
    <3>1. ASSUME NEW o \in DOMAIN bronze, o >= position \/ o \in unfinished \cup open
          PROVE  bronze[o] < submissions
      <4>1. o >= RestartPosition \/ o \in unfinished
        BY <1>2, <1>3, <1>4, <1>5, <2>1, <3>1 DEF FilesInv
      <4> QED
        BY <1>2, <2>1, <4>1 DEF WrittenInv
    <3> QED
      BY <1>2, <2>1, <2>2, <3>1 DEF WrittenInv
  <2> QED
    BY <2>3, <2>5, <2>7, <2>8 DEF FlinkInv
<1>9. CASE FinishFiles
  <2>1. /\ job = "running" /\ bronze' = Finish(unfinished) /\ unfinished' = {}
        /\ UNCHANGED <<log, dlq, job, position, open, checkpoint, uncommitted, group, buffered,
                       failovers, submissions, lost>>
    BY <1>9 DEF FinishFiles
  <2>2. RestartPosition' = RestartPosition /\ StartPosition' = StartPosition
    BY <2>1 DEF RestartPosition, StartPosition
  <2>3. /\ DOMAIN bronze' = DOMAIN bronze \cup unfinished
        /\ \A o \in DOMAIN bronze' :
             bronze'[o] = (IF o \in DOMAIN bronze THEN bronze[o] ELSE 0)
                          + (IF o \in unfinished THEN 1 ELSE 0)
    BY <2>1, FinishCounts
  <2>4. RawZoneTypeOK'
    BY <1>1, <1>2, <1>4, <1>5, <2>1, <2>3 DEF RawZoneTypeOK
  <2>5. FilesInv'
    BY <1>2, <1>4, <2>1, <2>2, <2>3 DEF FilesInv
  <2>6. \A o : Kept(o) => Kept(o)'
    BY <2>3, KeptStays
  <2>7. KeptInv'
    BY <1>2, <1>4, <2>1, <2>2, <2>6 DEF KeptInv
  <2>8. WrittenInv'
    <3>1. ASSUME NEW o \in DOMAIN bronze'
          PROVE  /\ bronze'[o] <= submissions
                 /\ o >= RestartPosition => bronze'[o] < submissions
      <4>1. CASE o \in unfinished
        <5>1. ~(o >= RestartPosition)
          BY <1>2, <1>3, <1>4, <1>5, <4>1 DEF FilesInv
        <5> QED
          BY <1>2, <1>3, <1>5, <2>1, <2>3, <3>1, <4>1, <5>1 DEF WrittenInv, FilesInv
      <4>2. CASE o \notin unfinished
        BY <1>2, <1>5, <2>1, <2>3, <3>1, <4>2 DEF WrittenInv
      <4> QED
        BY <4>1, <4>2
    <3> QED
      BY <1>2, <2>1, <2>2, <3>1 DEF WrittenInv
  <2> QED
    BY <2>4, <2>5, <2>7, <2>8 DEF FlinkInv
<1>10. CASE CommitOffsets
  <2>1. /\ job = "running" /\ uncommitted /\ group' = checkpoint /\ uncommitted' = FALSE
        /\ UNCHANGED <<log, dlq, job, position, open, unfinished, checkpoint, buffered, bronze,
                       failovers, submissions, lost>>
    BY <1>10 DEF CommitOffsets
  <2>2. checkpoint # NULL
    BY <1>2, <2>1 DEF FilesInv
  <2>3. RestartPosition' = RestartPosition /\ StartPosition' = RestartPosition
    BY <2>1, <2>2 DEF RestartPosition, StartPosition
  <2>4. RawZoneTypeOK'
    BY <1>1, <1>2, <1>4, <2>1 DEF RawZoneTypeOK
  <2>5. FilesInv'
    BY <1>2, <1>4, <2>1, <2>3 DEF FilesInv
  <2>6. \A o : Kept(o)' = Kept(o)
    BY <2>1 DEF Kept, Routed, InDlq, InBronze
  <2>7. KeptInv'
    BY <1>2, <1>4, <2>1, <2>3, <2>6 DEF KeptInv
  <2>8. WrittenInv'
    BY <1>2, <2>1, <2>3 DEF WrittenInv
  <2> QED
    BY <2>4, <2>5, <2>7, <2>8 DEF FlinkInv
<1>11. CASE Failover
  <2>1. /\ job = "running" /\ failovers < MaxFailovers /\ failovers' = failovers + 1
        /\ position' = RestartPosition
        /\ bronze' = Finish(unfinished) /\ unfinished' = {} /\ open' = {} /\ buffered' = {}
        /\ uncommitted' = FALSE
        /\ UNCHANGED <<log, dlq, job, checkpoint, group, submissions, lost>>
    BY <1>11 DEF Failover
  <2>2. RestartPosition' = RestartPosition /\ StartPosition' = StartPosition
    BY <2>1 DEF RestartPosition, StartPosition
  <2>3. /\ DOMAIN bronze' = DOMAIN bronze \cup unfinished
        /\ \A o \in DOMAIN bronze' :
             bronze'[o] = (IF o \in DOMAIN bronze THEN bronze[o] ELSE 0)
                          + (IF o \in unfinished THEN 1 ELSE 0)
    BY <2>1, FinishCounts
  <2>4. RawZoneTypeOK'
    <3>1. failovers + 1 \in 0 .. MaxFailovers
      BY <1>1, <1>2, <2>1 DEF RawZoneTypeOK
    <3>2. /\ DOMAIN bronze' \subseteq Offsets
          /\ \A o \in DOMAIN bronze' : bronze'[o] \in Nat \ {0}
      BY <1>2, <1>5, <2>3 DEF RawZoneTypeOK
    <3>3. position' \in 0 .. top
      BY <1>3, <2>1
    <3> QED
      BY <1>1, <1>2, <1>4, <2>1, <3>1, <3>2, <3>3 DEF RawZoneTypeOK, top
  <2>5. FilesInv'
    BY <1>2, <1>3, <1>4, <2>1, <2>2, <2>3 DEF FilesInv
  <2>6. \A o : Kept(o) => Kept(o)'
    BY <2>3, KeptStays
  <2>7. KeptInv'
    BY <1>2, <1>4, <2>1, <2>2, <2>6 DEF KeptInv
  <2>8. WrittenInv'
    <3>1. ASSUME NEW o \in DOMAIN bronze'
          PROVE  /\ bronze'[o] <= submissions
                 /\ o >= RestartPosition => bronze'[o] < submissions
      <4>1. CASE o \in unfinished
        <5>1. ~(o >= RestartPosition)
          BY <1>2, <1>3, <1>4, <1>5, <4>1 DEF FilesInv
        <5> QED
          BY <1>2, <1>3, <1>5, <2>1, <2>3, <3>1, <4>1, <5>1 DEF WrittenInv, FilesInv
      <4>2. CASE o \notin unfinished
        BY <1>2, <1>5, <2>1, <2>3, <3>1, <4>2 DEF WrittenInv
      <4> QED
        BY <4>1, <4>2
    <3> QED
      BY <1>2, <2>1, <2>2, <3>1 DEF WrittenInv
  <2> QED
    BY <2>4, <2>5, <2>7, <2>8 DEF FlinkInv
<1>12. CASE Stop
  <2>1. /\ job = "running" /\ job' = "stopped"
        /\ lost' = lost \cup {o \in unfinished : o < StartPosition}
        /\ open' = {} /\ unfinished' = {} /\ buffered' = {}
        /\ checkpoint' = NULL /\ uncommitted' = FALSE
        /\ UNCHANGED <<log, dlq, position, group, bronze, failovers, submissions>>
    BY <1>12 DEF Stop
  <2>2. RestartPosition' = StartPosition /\ StartPosition' = StartPosition
    BY <2>1 DEF RestartPosition, StartPosition
  <2>3. RawZoneTypeOK'
    BY <1>1, <1>2, <1>4, <2>1 DEF RawZoneTypeOK
  <2>4. FilesInv'
    BY <1>2, <1>4, <2>1 DEF FilesInv
  <2>5. \A o \in Offsets : o < StartPosition => Kept(o)'
    <3> SUFFICES ASSUME NEW o \in Offsets, o < StartPosition
                 PROVE  Kept(o)'
      OBVIOUS
    <3>1. Kept(o)
      BY <1>2 DEF KeptInv
    <3>2. o \in unfinished => o \in lost'
      BY <2>1
    <3> QED
      BY <3>1, <3>2, KeptStays
  <2>6. KeptInv'
    BY <1>4, <2>1, <2>2, <2>5 DEF KeptInv
  <2>7. WrittenInv'
    BY <1>2, <1>3, <2>1 DEF WrittenInv, FilesInv
  <2> QED
    BY <2>3, <2>4, <2>6, <2>7 DEF FlinkInv
<1>13. CASE Submit
  <2>1. /\ job = "stopped" /\ job' = "running" /\ submissions < MaxSubmissions
        /\ submissions' = submissions + 1 /\ position' = StartPosition
        /\ UNCHANGED <<log, dlq, open, unfinished, checkpoint, uncommitted, group, buffered,
                       bronze, failovers, lost>>
    BY <1>13 DEF Submit
  <2>2. /\ open = {} /\ unfinished = {} /\ buffered = {} /\ checkpoint = NULL /\ ~uncommitted
    BY <1>2, <2>1 DEF FilesInv
  <2>3. RestartPosition' = StartPosition /\ StartPosition' = StartPosition
    BY <2>1, <2>2 DEF RestartPosition, StartPosition
  <2>4. RawZoneTypeOK'
    <3>1. submissions + 1 \in 0 .. MaxSubmissions
      BY <1>1, <1>3, <2>1
    <3>2. position' \in 0 .. top
      BY <1>3, <2>1
    <3> QED
      BY <1>1, <1>2, <1>4, <2>1, <3>1, <3>2 DEF RawZoneTypeOK, top
  <2>5. FilesInv'
    BY <1>2, <1>3, <1>4, <2>1, <2>2, <2>3 DEF FilesInv
  <2>6. \A o : Kept(o)' = Kept(o)
    BY <2>1 DEF Kept, Routed, InDlq, InBronze
  <2>7. KeptInv'
    BY <1>2, <1>4, <2>1, <2>3, <2>6 DEF KeptInv
  <2>8. WrittenInv'
    <3>1. \A o \in DOMAIN bronze : bronze[o] <= submissions /\ bronze[o] < submissions + 1
      BY <1>2, <1>3, <1>5 DEF WrittenInv
    <3> QED
      BY <1>2, <1>3, <1>5, <2>1, <3>1 DEF WrittenInv
  <2> QED
    BY <2>4, <2>5, <2>7, <2>8 DEF FlinkInv
<1> QED
  BY <1>6, <1>7, <1>8, <1>9, <1>10, <1>11, <1>12, <1>13 DEF FlinkStep, JobStep
----------------------------------------------------------------------------
(* Producer, topics and job together *)

IngestInv == TopicsInv /\ ProducerInv /\ FlinkInv

\* The invariant holds before anything was sent.
LEMMA IngestInit ==
  ASSUME Init
  PROVE  IngestInv
PROOF
<1>1. TopicsInv
  <2>1. PICK payloads \in Earlier :
          log = [t \in ALLOWED_TOPICS |-> IF t = Topic THEN payloads ELSE <<>>]
    BY DEF Init
  <2>2. payloads \in Seq(Payload) /\ <<>> \in Seq(Payload)
    BY EarlierAssumption
  <2> QED
    BY <2>1, <2>2 DEF Init, TopicsInv
<1>2. ProducerInv
  <2>1. read = 0 /\ Known(0) = {}
    BY DEF Init, InitProducer, Known
  <2>2. Cardinality({}) = 0
    BY FS_EmptySet
  <2>3. CountsAreOf({}, {})
    BY <2>1, <2>2 DEF Init, InitProducer, CountsAreOf
  <2>4. limit \in 0 .. Len(Rows) /\ Len(Rows) \in Nat
    BY RowsAssumption DEF Init, InitProducer
  <2>5. ProducerTypes
    <3>1. limit \in Limits /\ 0 \in 0 .. limit
      BY <2>4 DEF Init, InitProducer
    <3> QED
      BY <2>1, <3>1 DEF Init, InitProducer, ProducerTypes
  <2>6. \E C, F \in SUBSET RowNumber : CountsAreOf(C, F)
    BY <2>3
  <2>7. /\ attempted = 0 /\ appended = {} /\ accounted = 0 /\ confirmed = 0 /\ failed = 0
        /\ main = "reading" /\ exit = "none"
    BY DEF Init, InitProducer
  <2> QED
    BY <2>1, <2>2, <2>5, <2>6, <2>7 DEF ProducerInv
<1>3. FlinkInv
  <2>1. /\ job = "stopped" /\ position = 0 /\ open = {} /\ unfinished = {} /\ checkpoint = NULL
        /\ uncommitted = FALSE /\ group = NULL /\ buffered = {} /\ bronze = <<>>
        /\ failovers = 0 /\ submissions = 0 /\ lost = {}
    BY DEF Init, InitRawZone
  <2>2. DOMAIN bronze = {}
    BY <2>1
  <2>3. Len(log[Topic]) \in Nat /\ MaxFailovers \in Nat /\ MaxSubmissions \in Nat
    BY <1>1, RawZoneAssumption DEF TopicsInv
  <2>4. RestartPosition = 0 /\ StartPosition = 0
    BY <2>1 DEF RestartPosition, StartPosition
  <2>5. RawZoneTypeOK
    <3>1. 0 \in 0 .. Len(log[Topic]) /\ 0 \in 0 .. MaxFailovers /\ 0 \in 0 .. MaxSubmissions
      BY <2>3
    <3> QED
      BY <2>1, <2>2, <3>1 DEF RawZoneTypeOK
  <2>6. FilesInv
    BY <2>1, <2>2 DEF FilesInv
  <2>7. KeptInv
    BY <2>1, <2>3, <2>4 DEF KeptInv, Offsets
  <2>8. WrittenInv
    BY <2>1, <2>2 DEF WrittenInv
  <2> QED
    BY <2>5, <2>6, <2>7, <2>8 DEF FlinkInv
<1> QED
  BY <1>1, <1>2, <1>3 DEF IngestInv

\* The invariant is preserved by producer, client and job.
LEMMA IngestStep ==
  ASSUME IngestInv, [Next]_vars
  PROVE  IngestInv'
PROOF
<1>1. TopicsInv /\ ProducerInv /\ FlinkInv
  BY DEF IngestInv
<1>2. ProducerInv'
  BY <1>1, ProducerStep
<1>3. CASE FlinkStep
  <2>1. TopicsInv'
    BY <1>1, <1>3, DlqStaysTyped DEF TopicsInv
  <2> QED
    BY <1>1, <1>2, <1>3, <2>1, FlinkStepKeeps DEF IngestInv
<1>4. CASE UNCHANGED <<dlq, flink>>
  <2>1. TopicsInv'
    BY <1>1, <1>4, LogGrows DEF TopicsInv
  <2> QED
    BY <1>1, <1>2, <1>4, <2>1, FlinkDuringProduce DEF IngestInv
<1>5. FlinkStep \/ UNCHANGED <<dlq, flink>>
  BY DEF Next, Produce, Consume, vars
<1> QED
  BY <1>3, <1>4, <1>5

\* The invariant of the whole module, from which the properties follow.
THEOREM IngestInvariant == Spec => []IngestInv
PROOF
<1>1. Init => IngestInv
  BY IngestInit
<1>2. IngestInv /\ [Next]_vars => IngestInv'
  BY IngestStep
<1> QED
  BY <1>1, <1>2, PTL DEF Spec

\* TypeOK: the types of all variables, with the bounds that tie the producer's counts and
\* the job's positions to each other.
THEOREM IngestTypes == Spec => []TypeOK
PROOF
<1>1. IngestInv => TypeOK
  <2> SUFFICES ASSUME IngestInv
               PROVE  TypeOK
    OBVIOUS
  <2>1. TopicsInv /\ ProducerInv /\ RawZoneTypeOK
    BY DEF IngestInv, FlinkInv
  <2>2. PICK C, F \in SUBSET RowNumber : CountsAreOf(C, F)
    BY <2>1 DEF ProducerInv
  <2>3. read \in 0 .. Len(Rows) /\ read \in 0 .. limit /\ limit \in 0 .. Len(Rows)
        /\ Len(Rows) \in Nat
    BY <2>1, RowsAssumption DEF ProducerInv, ProducerTypes
  <2>4. /\ IsFiniteSet(Known(read)) /\ attempted = Cardinality(Known(read))
        /\ attempted \in 0 .. read
    BY <2>1, <2>3, KnownFacts DEF ProducerInv
  <2>5. confirmed + failed <= attempted
    <3>1. IsFiniteSet(C) /\ IsFiniteSet(F) /\ C \cap F = {} /\ C \cup F \in SUBSET Known(read)
      BY <2>2, <2>4, FS_Subset DEF CountsAreOf
    <3>2. Cardinality(C \cup F) = Cardinality(C) + Cardinality(F) - Cardinality(C \cap F)
      BY <3>1, FS_Union
    <3>3. Cardinality(C \cap F) = 0
      BY <3>1, FS_EmptySet
    <3>4. Cardinality(C \cup F) <= attempted
      BY <2>4, <3>1, FS_Subset
    <3>5. confirmed \in Nat /\ failed \in Nat
      BY <2>1 DEF ProducerInv, ProducerTypes
    <3> QED
      BY <2>2, <3>2, <3>3, <3>4, <3>5 DEF CountsAreOf
  <2>6. sent \subseteq 1 .. read /\ appended \subseteq 1 .. read
    BY <2>1 DEF ProducerInv, ProducerTypes, Known
  <2>7. accounted \in 0 .. Len(Rows)
    BY <2>1, <2>3, <2>4, <2>5 DEF ProducerInv, ProducerTypes
  <2>8. ProducerTypeOK
    BY <2>1, <2>3, <2>4, <2>5, <2>6, <2>7 DEF ProducerInv, ProducerTypes, ProducerTypeOK
  <2> QED
    BY <2>1, <2>8 DEF TypeOK, TopicsInv, TopicsTypeOK
<1> QED
  BY <1>1, IngestInvariant, PTL

\* SuccessMeansDelivered: a producer that exits without an error has every row of a known
\* type in its topic, whichever callbacks came late or were never called.
THEOREM SuccessIsDelivery == Spec => []SuccessMeansDelivered
PROOF
<1>1. IngestInv => SuccessMeansDelivered
  BY SuccessFollows DEF IngestInv
<1> QED
  BY <1>1, IngestInvariant, PTL

\* RecordsAreKept: the job never starts again beyond a record that is neither in Bronze
\* nor in the DLQ, but for the files a stopped job has dropped.
THEOREM RecordsStayKept == Spec => []RecordsAreKept
PROOF
<1>1. IngestInv => RecordsAreKept
  <2> SUFFICES ASSUME IngestInv, NEW o \in Offsets, ~(o >= RestartPosition)
               PROVE  Kept(o)
    BY DEF RecordsAreKept, Kept
  <2>1. RestartPosition \in Nat /\ o \in Nat
    BY RawZoneAssumption
    DEF IngestInv, FlinkInv, RawZoneTypeOK, RestartPosition, StartPosition, Offsets, TopicsInv
  <2>2. o < RestartPosition
    BY <2>1
  <2> QED
    BY <2>2 DEF IngestInv, FlinkInv, KeptInv
<1> QED
  BY <1>1, IngestInvariant, PTL

\* RestartsWriteOnce: a task restart writes no row twice and loses none; a row is in Bronze
\* at most once for each submission of the job.
THEOREM RestartsAlwaysWriteOnce == Spec => []RestartsWriteOnce
PROOF
<1>1. IngestInv => RestartsWriteOnce
  BY DEF IngestInv, FlinkInv, WrittenInv, RestartsWriteOnce
<1> QED
  BY <1>1, IngestInvariant, PTL

\* The contents that Bronze has of a row of the file are the cells of that row.
LEMMA BronzeHasTheCells ==
  ASSUME IngestInv, NEW o \in DOMAIN bronze, NEW n \in RowNumber,
         PayloadAt(o) = PayloadOf(Rows[n])
  PROVE  RowAt(o).contents = Rows[n] /\ RowAt(o).id = EventId(Rows[n])
PROOF
<1> DEFINE row == Rows[n]
           p == PayloadOf(row)
<1>1. row \in [EVENT_FIELDS -> Text \cup {NULL}]
  BY RowsAreContents
<1> HIDE DEF row
<1>2. /\ p.id = EventId(row)
      /\ \A f \in EVENT_FIELDS :
           p.fields[f] = IF row[f] = NULL THEN Null ELSE [kind |-> "text", text |-> row[f]]
  BY <1>1, ProducerPayload
<1>3. IsValid(PayloadAt(o), Topic)
  BY DEF IngestInv, FlinkInv, FilesInv, Valid
<1> HIDE DEF p
<1>4. Normalised(p)["price"] \in Prices
  <2>1. PayloadAt(o) = p
    BY DEF p, row
  <2>2. ReasonCode(p, EVENT_TYPE_BY_TOPIC[Topic]) = NULL /\ NULL \notin ReasonCodes
    BY <1>3, <2>1, RawZoneAssumption DEF IsValid
  <2> QED
    BY <2>2 DEF ReasonCode, ReasonCodes
<1>5. "price" \in EVENT_FIELDS /\ "None" \notin Prices
  BY TextAssumption DEF EVENT_FIELDS
<1>6. \A f \in EVENT_FIELDS :
        /\ row[f] = NULL => p.fields[f] = Null
        /\ row[f] # NULL => p.fields[f] = [kind |-> "text", text |-> row[f]]
  BY <1>2
<1>7. Null.kind = "null" /\ Null.text = "None"
  BY DEF Null
<1>8. row["price"] # NULL
  <2>1. Normalised(p)["price"] = p.fields["price"].text
    BY <1>5 DEF Normalised
  <2> QED
    BY <1>4, <1>5, <1>6, <1>7, <2>1
<1>9. \A f \in EVENT_FIELDS : Normalised(p)[f] = row[f]
  <2> SUFFICES ASSUME NEW f \in EVENT_FIELDS
               PROVE  Normalised(p)[f] = row[f]
    OBVIOUS
  <2>1. CASE row[f] = NULL
    <3>1. CoerceStr(p.fields[f]) = NULL /\ f # "price"
      BY <1>6, <1>7, <1>8, <2>1 DEF CoerceStr
    <3> QED
      BY <2>1, <3>1 DEF Normalised
  <2>2. CASE row[f] # NULL
    <3>1. p.fields[f] = [kind |-> "text", text |-> row[f]]
      BY <1>6, <2>2
    <3>2. p.fields[f].kind = "text" /\ p.fields[f].text = row[f]
      BY <3>1
    <3>3. CoerceStr(p.fields[f]) = row[f]
      BY <3>2 DEF CoerceStr
    <3> QED
      BY <3>2, <3>3 DEF Normalised
  <2> QED
    BY <2>1, <2>2
<1>10. Normalised(p) = row
  BY <1>1, <1>9 DEF Normalised
<1> QED
  BY <1>2, <1>10 DEF RowAt, p, row

\* IdsTellEventsApart: rows of Bronze that come from the producer have the same event_id
\* exactly if they are the same event.
THEOREM IdsAlwaysTellEventsApart == Spec => []IdsTellEventsApart
PROOF
<1>1. IngestInv => IdsTellEventsApart
  <2> SUFFICES ASSUME IngestInv,
                      NEW o \in DOMAIN bronze, NEW q \in DOMAIN bronze,
                      FromProducer(o), FromProducer(q)
               PROVE  RowAt(o).id = RowAt(q).id
                        <=> SameContents(RowAt(o).contents, RowAt(q).contents)
    BY DEF IdsTellEventsApart
  <2>1. PICK m \in RowNumber : PayloadAt(o) = PayloadOf(Rows[m])
    BY DEF FromProducer
  <2>2. PICK n \in RowNumber : PayloadAt(q) = PayloadOf(Rows[n])
    BY DEF FromProducer
  <2>3. RowAt(o).contents = Rows[m] /\ RowAt(o).id = EventId(Rows[m])
    BY <2>1, BronzeHasTheCells
  <2>4. RowAt(q).contents = Rows[n] /\ RowAt(q).id = EventId(Rows[n])
    BY <2>2, BronzeHasTheCells
  <2>5. EventId(Rows[m]) = EventId(Rows[n]) <=> SameContents(Rows[m], Rows[n])
    BY RowsAreContents DEF EventId, SameContents
  <2> QED
    BY <2>3, <2>4, <2>5
<1> QED
  BY <1>1, IngestInvariant, PTL
=============================================================================
