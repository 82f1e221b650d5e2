---------------------------- MODULE DlqReplayProofs ----------------------------
(***************************************************************************)
(* What the DLQ replayer puts into a topic is accepted, corrected by its   *)
(* own line if there is one, the same in every run, and in the report.     *)
(***************************************************************************)
EXTENDS DlqReplay, TLAPS

----------------------------------------------------------------------------
(* The operators *)

\* build_candidate_fields yields a payload.
LEMMA CorrectedIsPayload ==
  ASSUME NEW p \in Payload, NEW c \in Correction
  PROVE  Corrected(p, c) \in Payload
  BY DEF Corrected, Payload, Correction

\* The values of an accepted payload are texts, NULL where Bronze has null.
LEMMA NormalisedTypes ==
  ASSUME NEW p \in Payload
  PROVE  /\ Normalised(p) \in Contents
         /\ Normalised(p)["price"] \in Text
PROOF
<1>1. \A f \in EVENT_FIELDS : p.fields[f] \in Value
  BY DEF Payload
<1>2. ASSUME NEW v \in Value
      PROVE  v.text \in Text
  <2>1. CASE v = Null
    <3>1. "None" \in Text
      BY TextAssumption
    <3> QED
      BY <2>1, <3>1 DEF Null
  <2>2. CASE v \in [kind : {"text", "number", "container"}, text : Text]
    BY <2>2
  <2> QED
    BY <2>1, <2>2 DEF Value
<1>3. \A v \in Value : CoerceStr(v) \in Text \cup {NULL}
  BY <1>2 DEF CoerceStr
<1>4. "price" \in EVENT_FIELDS
  BY DEF EVENT_FIELDS
<1> QED
  BY <1>1, <1>2, <1>3, <1>4 DEF Normalised, Contents

\* The replayer's payload says the same as the payload it was made of.
LEMMA RepublishedSaysTheSame ==
  ASSUME NEW p \in Payload
  PROVE  /\ Republished(p) \in Payload
         /\ Normalised(Republished(p)) = Normalised(p)
         /\ Republished(p).shape = "object"
         /\ Republished(p).id = EventId(Normalised(p))
PROOF
<1> DEFINE c == Normalised(p)
           q == Republished(p)
<1>1. c \in [EVENT_FIELDS -> Text \cup {NULL}] /\ c["price"] \in Text
  BY NormalisedTypes DEF Contents
<1>2. q = [shape |-> "object",
           fields |-> [f \in EVENT_FIELDS |-> IF c[f] = NULL THEN Null
                                              ELSE [kind |-> "text", text |-> c[f]]],
           id |-> EventId(c)]
  BY DEF Republished, ToJson
<1>3. EventId(c) \in Id
  <2>1. "" \in Text
    BY TextAssumption
  <2> QED
    BY <1>1, <2>1 DEF EventId, Id
<1>4. \A f \in EVENT_FIELDS : q.fields[f] \in Value
  <2> SUFFICES ASSUME NEW f \in EVENT_FIELDS
               PROVE  q.fields[f] \in Value
    OBVIOUS
  <2>1. CASE c[f] = NULL
    BY <1>2, <2>1 DEF Value
  <2>2. CASE c[f] # NULL
    <3>1. c[f] \in Text
      BY <1>1, <2>2
    <3> QED
      BY <1>2, <2>2, <3>1 DEF Value
  <2> QED
    BY <2>1, <2>2
<1>5. q \in Payload
  <2>1. q.fields \in [EVENT_FIELDS -> Value]
    BY <1>2, <1>4
  <2>2. DOMAIN q = {"shape", "fields", "id"} /\ q.shape = "object" /\ q.id = EventId(c)
    BY <1>2
  <2> HIDE DEF c, q
  <2> QED
    BY <1>2, <1>3, <2>1, <2>2 DEF Payload
<1>6. NULL \notin Text
  BY TextAssumption
<1>7. ASSUME NEW f \in EVENT_FIELDS
      PROVE  Normalised(q)[f] = c[f]
  <2>1. CASE f = "price"
    <3>1. c[f] # NULL
      BY <1>1, <1>6, <2>1
    <3>2. q.fields[f] = [kind |-> "text", text |-> c[f]]
      BY <1>2, <3>1
    <3> QED
      BY <2>1, <3>2 DEF Normalised
  <2>2. CASE f # "price" /\ c[f] = NULL
    <3>1. q.fields[f] = Null
      BY <1>2, <2>2
    <3>2. CoerceStr(Null) = NULL
      BY DEF CoerceStr, Null
    <3> QED
      BY <2>2, <3>1, <3>2 DEF Normalised
  <2>3. CASE f # "price" /\ c[f] # NULL
    <3>1. q.fields[f] = [kind |-> "text", text |-> c[f]]
      BY <1>2, <2>3
    <3>2. CoerceStr([kind |-> "text", text |-> c[f]]) = c[f]
      BY DEF CoerceStr
    <3> QED
      BY <2>3, <3>1, <3>2 DEF Normalised
  <2> QED
    BY <2>1, <2>2, <2>3
<1>8. Normalised(q) = c
  BY <1>1, <1>5, <1>7, NormalisedTypes DEF Contents
<1> HIDE DEF c, q
<1> QED
  BY <1>2, <1>5, <1>8 DEF c, q

\* process_record: a payload that is valid is republished as one that is valid again, and
\* whose event_id is the hash of its contents.
THEOREM RepublishedIsAccepted ==
  ASSUME NEW p \in Payload, NEW topic \in ALLOWED_TOPICS, IsValid(p, topic)
  PROVE  /\ Republished(p) \in Payload
         /\ IsValid(Republished(p), topic)
         /\ Republished(p).id = EventId(Normalised(Republished(p)))
PROOF
<1> DEFINE q == Republished(p)
<1>1. /\ q \in Payload
      /\ Normalised(q) = Normalised(p)
      /\ q.shape = "object"
      /\ q.id = EventId(Normalised(p))
  BY RepublishedSaysTheSame
<1>2. q.id \in Id /\ NULL \notin Id
  <2>1. "" \in Text
    BY TextAssumption
  <2>2. Normalised(p) \in Contents
    BY NormalisedTypes
  <2>3. EventId(Normalised(p)) \in Id
    BY <2>1, <2>2 DEF EventId, Id, Contents
  <2> QED
    BY <1>1, <2>3, ReplayAssumption
<1>3. ReasonCode(p, EVENT_TYPE_BY_TOPIC[topic]) = NULL
  BY DEF IsValid
<1>4. NULL \notin ReasonCodes
  BY ReplayAssumption
<1> HIDE DEF q
<1>5. ReasonCode(q, EVENT_TYPE_BY_TOPIC[topic]) = NULL
  BY <1>1, <1>2, <1>3, <1>4 DEF ReasonCode, ReasonCodes, HasRequired
<1> QED
  BY <1>1, <1>5 DEF IsValid, q
\* A line of the corrections file gives a correction, and a record without one none.
LEMMA CorrectionIsOne ==
  ASSUME NEW a \in Invocations, NEW o \in Nat
  PROVE  CorrectionFor(a, o) \in Correction
PROOF
<1>1. a.lines \in Seq(Line)
  BY ReplayAssumption
<1>2. CASE \E i \in DOMAIN a.lines : a.lines[i].offset = o
  <2> DEFINE i == CHOOSE i \in DOMAIN a.lines : a.lines[i].offset = o
  <2>1. i \in DOMAIN a.lines
    BY <1>2
  <2> HIDE DEF i
  <2>2. a.lines[i] \in Line
    BY <1>1, <2>1
  <2>3. CorrectionFor(a, o) = a.lines[i].correction
    BY <1>2 DEF CorrectionFor, CorrectionOf, i
  <2> QED
    BY <2>2, <2>3 DEF Line
<1>3. CASE ~ \E i \in DOMAIN a.lines : a.lines[i].offset = o
  BY <1>3 DEF CorrectionFor, CorrectionOf, NoCorrection, Correction
<1> QED
  BY <1>2, <1>3

\* Without a line of its own a record is what it was.
LEMMA UncorrectedIsTheSame ==
  ASSUME NEW p \in Payload
  PROVE  Corrected(p, NoCorrection) = p
  BY DEF Corrected, NoCorrection, Payload

\* load_corrections lets no two lines have one offset, and CorrectionFor is the one's.
LEMMA OneLine ==
  ASSUME NEW a \in Invocations, CorrectionsLoad(a), NEW o \in Nat
  PROVE  \/ /\ LinesFor(a, o) = {}
            /\ CorrectionFor(a, o) = NoCorrection
         \/ \E i \in LinesFor(a, o) :
              /\ LinesFor(a, o) = {i}
              /\ a.lines[i].partition = Partition
              /\ CorrectionFor(a, o) = a.lines[i].correction
PROOF
<1>1. CASE \E i \in DOMAIN a.lines : a.lines[i].offset = o
  <2> DEFINE i == CHOOSE k \in DOMAIN a.lines : a.lines[k].offset = o
  <2>1. i \in DOMAIN a.lines /\ a.lines[i].offset = o
    BY <1>1
  <2>2. CorrectionFor(a, o) = a.lines[i].correction
    BY <1>1 DEF CorrectionFor, CorrectionOf
  <2> HIDE DEF i
  <2>3. LinesFor(a, o) = {i} /\ a.lines[i].partition = Partition
    BY <2>1 DEF LinesFor, CorrectionsLoad
  <2> QED
    BY <2>2, <2>3
<1>2. CASE ~ \E i \in DOMAIN a.lines : a.lines[i].offset = o
  BY <1>2 DEF CorrectionFor, CorrectionOf, LinesFor
<1> QED
  BY <1>1, <1>2

\* What is sent for a record that is not rejected is accepted by the record's topic.
LEMMA SentPayload ==
  ASSUME NEW r \in DlqRecord, NEW c \in Correction, ~Rejects(r, c),
         NEW q, q = Republished(Corrected(r.payload, c))
  PROVE  /\ q \in Payload
         /\ IsValid(q, r.topic)
         /\ q.id = EventId(Normalised(q))
PROOF
<1>1. r.payload \in Payload /\ r.topic \in ALLOWED_TOPICS
  BY DEF DlqRecord
<1>2. Corrected(r.payload, c) \in Payload
  BY <1>1, CorrectedIsPayload
<1>3. IsValid(Corrected(r.payload, c), r.topic)
  BY DEF Rejects
<1> QED
  BY <1>1, <1>2, <1>3, RepublishedIsAccepted

----------------------------------------------------------------------------
(* The inductive invariant *)

Status == {"replayed", "rejected", "failed", "dry_run"}
Outcomes == UNION {[D -> Status] : D \in SUBSET Nat}
Report == [outcomes : Outcomes, exit : {"error", "success"}]

\* The topics hold what is accepted.
TopicsSound ==
  /\ TopicsTypeOK
  /\ first \in 0 .. Len(dlq)
  /\ SentIsAccepted

RunsSound ==
  /\ ran \in Seq(Invocations)
  /\ reports \in Seq(Report \cup {NULL})
  /\ Len(reports) = run

\* Where the replayer is, and what it has established by then.
ReaderSound ==
  /\ main \in {"idle", "corrections", "beginning", "end", "reading", "read", "replaying",
               "waiting"}
  /\ position \in 0 .. Len(dlq)
  /\ records \in Seq(0 .. Len(dlq) - 1)
  /\ outcomes \in Outcomes
  /\ DOMAIN outcomes \subseteq 0 .. Len(dlq) - 1
  /\ main = "waiting" => records # <<>>
  /\ main # "idle" =>
       /\ run > 0
       /\ main # "corrections" => CorrectionsLoad(args)
       /\ main = "reading" => position >= args.from
       /\ \A i \in DOMAIN records : records[i] \in args.from .. args.to - 1

\* What held of a message when it was sent, and holds ever after.
Sound(m) ==
  /\ m.run \in 1 .. run
  /\ m.offset \in 0 .. Len(dlq) - 1
  /\ CorrectionsLoad(ran[m.run])
  /\ m.offset \in ran[m.run].from .. ran[m.run].to - 1
  /\ ran[m.run].execute
  /\ Wanted(ran[m.run], RecordAt(m.offset))
  /\ ~Rejects(RecordAt(m.offset), CorrectionFor(ran[m.run], m.offset))
  /\ m.payload = Republished(Corrected(RecordAt(m.offset).payload,
                                       CorrectionFor(ran[m.run], m.offset)))

Sent == inFlight \cup arrived

MessagesSound == \A m \in Sent : m \in Message /\ Sound(m)

\* A message still under way can arrive, so a report has to speak of it too; and the
\* outcomes of the present run have to, for the report that will be made of them.
Told(m, status) == m.offset \in DOMAIN status /\ status[m.offset] \in {"replayed", "failed"}

OutcomesTell ==
  main # "idle" =>
    /\ reports[run] = NULL
    /\ \A o \in DOMAIN outcomes : outcomes[o] = "replayed" => Arrived(run, o)
    /\ \A m \in Sent : m.run = run =>
         \/ Told(m, outcomes)
         \/ main = "waiting" /\ m.offset = o1

ReportsTell ==
  \A n \in DOMAIN reports : reports[n] # NULL =>
    /\ \A o \in DOMAIN reports[n].outcomes :
         reports[n].outcomes[o] = "replayed" => Arrived(n, o)
    /\ \A m \in Sent : m.run = n =>
         /\ Told(m, reports[n].outcomes)
         /\ reports[n].outcomes[m.offset] = "failed" => reports[n].exit = "error"

IInv == TopicsSound /\ RunsSound /\ ReaderSound /\ MessagesSound /\ OutcomesTell /\ ReportsTell

----------------------------------------------------------------------------
(* It holds initially, and every step keeps it *)

\* The invariant holds before the first run.
LEMMA NothingHasHappened ==
  ASSUME Init
  PROVE  IInv
PROOF
<1>1. TopicsSound
  <2>1. log \in [ALLOWED_TOPICS -> Seq(Payload)] /\ dlq \in Seq(DlqRecord)
    BY DEF Init
  <2>2. \A t \in ALLOWED_TOPICS : DOMAIN log[t] = {}
    BY DEF Init
  <2> QED
    BY <2>1, <2>2 DEF Init, TopicsSound, TopicsTypeOK, SentIsAccepted
<1>2. RunsSound
  BY DEF Init, RunsSound, run
<1>3. ReaderSound
  <2>1. outcomes \in [{} -> Status]
    BY DEF Init
  <2>2. outcomes \in Outcomes
    BY <2>1 DEF Outcomes
  <2> QED
    BY <2>2 DEF Init, ReaderSound
<1>4. MessagesSound
  BY DEF Init, MessagesSound, Sent
<1>5. OutcomesTell /\ ReportsTell
  BY DEF Init, OutcomesTell, ReportsTell
<1> QED
  BY <1>1, <1>2, <1>3, <1>4, <1>5 DEF IInv

\* Which actions change what.
LEMMA Frame ==
  ASSUME [Next]_vars
  PROVE  /\ UNCHANGED dlq \/ RejectedAgain
         /\ UNCHANGED first \/ Expire
         /\ UNCHANGED log \/ Arrive
         /\ UNCHANGED ran \/ Start
         /\ UNCHANGED reports \/ Start \/ WriteReport
         /\ UNCHANGED <<inFlight, arrived>> \/ Send \/ Arrive
PROOF
<1>1. CASE ReplayStep
  BY <1>1 DEF ReplayStep, LoadCorrections, CheckBeginning, CheckEnd, ReadMessage, ResetPosition,
     ReadTimesOut, CheckPosition, Skip, Raise, Reject, DryRun, SendRaises, Replayed,
     NotAcknowledged, WriteReport, Send, Abort, Settle
<1>2. CASE Die
  BY <1>2 DEF Die, Abort
<1>3. CASE Start
  BY <1>3 DEF Start
<1>4. CASE Arrive
  BY <1>4 DEF Arrive
<1>5. CASE RejectedAgain
  BY <1>5 DEF RejectedAgain
<1>6. CASE Expire
  BY <1>6 DEF Expire
<1>7. CASE UNCHANGED vars
  BY <1>7 DEF vars
<1> QED
  BY <1>1, <1>2, <1>3, <1>4, <1>5, <1>6, <1>7 DEF Next

\* The DLQ and the history of the runs only grow.
LEMMA DlqGrows ==
  ASSUME IInv, [Next]_vars
  PROVE  /\ dlq' \in Seq(DlqRecord)
         /\ Len(dlq) \in Nat /\ Len(dlq') \in Nat /\ Len(dlq) <= Len(dlq')
         /\ \A i \in 1 .. Len(dlq) : dlq'[i] = dlq[i]
PROOF
<1>1. dlq \in Seq(DlqRecord)
  BY DEF IInv, TopicsSound, TopicsTypeOK
<1>2. CASE RejectedAgain
  <2>1. PICK r \in Rejections : dlq' = Append(dlq, r)
    BY <1>2 DEF RejectedAgain
  <2>2. r \in DlqRecord
    BY ReplayAssumption
  <2> QED
    BY <1>1, <2>1, <2>2
<1>3. CASE UNCHANGED dlq
  BY <1>1, <1>3
<1> QED
  BY <1>2, <1>3, Frame

\* Past runs are never changed.
LEMMA RunsGrow ==
  ASSUME IInv, [Next]_vars
  PROVE  /\ ran' \in Seq(Invocations)
         /\ run \in Nat /\ run' \in Nat /\ run <= run'
         /\ \A n \in 1 .. run : ran'[n] = ran[n]
PROOF
<1>1. ran \in Seq(Invocations)
  BY DEF IInv, RunsSound
<1>2. CASE Start
  <2>1. PICK a \in Invocations : ran' = Append(ran, a)
    BY <1>2 DEF Start
  <2> QED
    BY <1>1, <2>1 DEF run
<1>3. CASE UNCHANGED ran
  BY <1>1, <1>3 DEF run
<1> QED
  BY <1>2, <1>3, Frame

\* What was established of a message stays true.
LEMMA SoundStays ==
  ASSUME IInv, [Next]_vars, NEW m, Sound(m)
  PROVE  Sound(m)'
PROOF
<1>1. m.run \in 1 .. run' /\ ran'[m.run] = ran[m.run]
  BY RunsGrow DEF Sound
<1>2. m.offset \in 0 .. Len(dlq') - 1 /\ RecordAt(m.offset)' = RecordAt(m.offset)
  <2>1. m.offset \in 0 .. Len(dlq) - 1
    BY DEF Sound
  <2>2. m.offset + 1 \in 1 .. Len(dlq)
    BY <2>1, DlqGrows
  <2> QED
    BY <2>1, <2>2, DlqGrows DEF RecordAt
<1> QED
  BY <1>1, <1>2 DEF Sound

\* A record of the DLQ that a sound message was made of.
LEMMA SoundRecord ==
  ASSUME IInv, NEW m, Sound(m)
  PROVE  /\ ran[m.run] \in Invocations
         /\ RecordAt(m.offset) \in DlqRecord
         /\ m.payload \in Payload
         /\ IsValid(m.payload, RecordAt(m.offset).topic)
         /\ m.payload.id = EventId(Normalised(m.payload))
PROOF
<1>1. ran[m.run] \in Invocations
  BY DEF IInv, RunsSound, run, Sound
<1>2. RecordAt(m.offset) \in DlqRecord
  <2>1. dlq \in Seq(DlqRecord)
    BY DEF IInv, TopicsSound, TopicsTypeOK
  <2>2. m.offset + 1 \in 1 .. Len(dlq)
    BY <2>1 DEF Sound
  <2> QED
    BY <2>1, <2>2 DEF RecordAt
<1>3. CorrectionFor(ran[m.run], m.offset) \in Correction
  BY <1>1, CorrectionIsOne DEF Sound
<1> QED
  BY <1>1, <1>2, <1>3, SentPayload DEF Sound

\* Topics and DLQ stay well-formed, and the DLQ's beginning within it.
LEMMA TopicsStep ==
  ASSUME IInv, [Next]_vars
  PROVE  TopicsSound'
PROOF
<1>1. /\ log \in [ALLOWED_TOPICS -> Seq(Payload)]
      /\ first \in 0 .. Len(dlq)
      /\ SentIsAccepted
  BY DEF IInv, TopicsSound, TopicsTypeOK
<1>2. log' \in [ALLOWED_TOPICS -> Seq(Payload)] /\ SentIsAccepted'
  <2>1. CASE UNCHANGED log
    BY <1>1, <2>1 DEF SentIsAccepted
  <2>2. CASE Arrive
    <3>1. PICK m \in inFlight :
            log' = [log EXCEPT ![RecordAt(m.offset).topic] = Append(@, m.payload)]
      BY <2>2 DEF Arrive
    <3> DEFINE t == RecordAt(m.offset).topic
    <3>2. Sound(m)
      BY DEF IInv, MessagesSound, Sent
    <3>3. /\ t \in ALLOWED_TOPICS
          /\ m.payload \in Payload
          /\ IsValid(m.payload, t)
          /\ m.payload.id = EventId(Normalised(m.payload))
      BY <3>2, SoundRecord DEF DlqRecord
    <3> HIDE DEF t
    <3>4. log' = [log EXCEPT ![t] = Append(@, m.payload)]
      BY <3>1 DEF t
    <3>5. log' \in [ALLOWED_TOPICS -> Seq(Payload)]
      BY <1>1, <3>3, <3>4
    <3>6. ASSUME NEW u \in ALLOWED_TOPICS, NEW i \in DOMAIN log'[u]
          PROVE  /\ IsValid(log'[u][i], u)
                 /\ log'[u][i].id = EventId(Normalised(log'[u][i]))
      <4>1. CASE u = t /\ i = Len(log[t]) + 1
        <5>1. log'[u][i] = m.payload
          BY <1>1, <3>3, <3>4, <4>1
        <5> QED
          BY <3>3, <4>1, <5>1
      <4>2. CASE ~(u = t /\ i = Len(log[t]) + 1)
        <5>1. i \in DOMAIN log[u] /\ log'[u][i] = log[u][i]
          BY <1>1, <3>3, <3>4, <3>6, <4>2
        <5> QED
          BY <1>1, <5>1 DEF SentIsAccepted
      <4> QED
        BY <4>1, <4>2
    <3> QED
      BY <3>5, <3>6 DEF SentIsAccepted
  <2> QED
    BY <2>1, <2>2, Frame
<1>3. first' \in 0 .. Len(dlq')
  <2>1. CASE Expire
    BY <1>1, <2>1, DlqGrows DEF Expire
  <2>2. CASE UNCHANGED first
    BY <1>1, <2>2, DlqGrows
  <2> QED
    BY <2>1, <2>2, Frame
<1> QED
  BY <1>2, <1>3, DlqGrows DEF TopicsSound, TopicsTypeOK

\* Runs and their reports stay well-formed.
LEMMA RunsStep ==
  ASSUME IInv, [Next]_vars
  PROVE  RunsSound'
PROOF
<1>1. /\ ran \in Seq(Invocations)
      /\ reports \in Seq(Report \cup {NULL})
      /\ Len(reports) = run
  BY DEF IInv, RunsSound
<1>2. CASE Start
  <2>1. PICK a \in Invocations : ran' = Append(ran, a)
    BY <1>2 DEF Start
  <2>2. reports' = Append(reports, NULL)
    BY <1>2 DEF Start
  <2> QED
    BY <1>1, <2>1, <2>2 DEF RunsSound, run
<1>3. CASE WriteReport
  <2> DEFINE r == [outcomes |-> outcomes,
                   exit |-> IF \E o \in DOMAIN outcomes : outcomes[o] = "failed" THEN "error"
                            ELSE "success"]
  <2>1. r \in Report
    BY DEF Report, IInv, ReaderSound
  <2>2. UNCHANGED ran /\ reports' = [reports EXCEPT ![run] = r]
    BY <1>3 DEF WriteReport
  <2> HIDE DEF r
  <2>3. run \in Nat /\ reports \in [1 .. run -> Report \cup {NULL}]
    BY <1>1 DEF run
  <2>4. reports' \in [1 .. run -> Report \cup {NULL}]
    BY <2>1, <2>2, <2>3
  <2>5. reports' \in Seq(Report \cup {NULL}) /\ Len(reports') = run
    BY <2>3, <2>4
  <2> QED
    BY <1>1, <2>2, <2>5 DEF RunsSound, run
<1>4. CASE UNCHANGED <<ran, reports>>
  BY <1>1, <1>4 DEF RunsSound, run
<1>5. Start \/ UNCHANGED ran
  BY Frame
<1> QED
  BY <1>2, <1>3, <1>4, <1>5, Frame

\* What is under way or has arrived stays sound.
LEMMA MessagesStep ==
  ASSUME IInv, [Next]_vars
  PROVE  MessagesSound'
PROOF
<1>1. \A m \in Sent : m \in Message /\ Sound(m)'
  BY SoundStays DEF IInv, MessagesSound
<1>2. CASE UNCHANGED <<inFlight, arrived>>
  BY <1>1, <1>2 DEF MessagesSound, Sent
<1>3. CASE Arrive
  <2>1. Sent' \subseteq Sent
    BY <1>3 DEF Arrive, Sent
  <2> QED
    BY <1>1, <2>1 DEF MessagesSound
<1>4. CASE Send
  <2>1. /\ main = "replaying" /\ records # <<>>
        /\ Wanted(args, RecordAt(o1))
        /\ ~Rejects(RecordAt(o1), CorrectionFor(args, o1))
        /\ args.execute
        /\ inFlight' = inFlight \cup {ThisMessage} /\ UNCHANGED arrived
    BY <1>4 DEF Send, CanSend, Attempt, Replaying
  <2>2. /\ run > 0
        /\ CorrectionsLoad(args)
        /\ o1 \in args.from .. args.to - 1
        /\ o1 \in 0 .. Len(dlq) - 1
    <3>1. records \in Seq(0 .. Len(dlq) - 1) /\ 1 \in DOMAIN records /\ o1 = records[1]
      BY <2>1 DEF IInv, ReaderSound, o1
    <3> QED
      BY <2>1, <3>1 DEF IInv, ReaderSound
  <2>3. run \in Nat
    BY RunsGrow
  <2>4. Sound(ThisMessage)
    BY <2>1, <2>2, <2>3 DEF Sound, ThisMessage, args
  <2>5. ThisMessage \in Message
    <3>1. ThisMessage.payload \in Payload
      BY <2>4, SoundRecord
    <3> QED
      BY <2>2, <2>3, <3>1 DEF ThisMessage, Message
  <2> PICK m : m = ThisMessage
    OBVIOUS
  <2>6. Sound(m)'
    BY <2>4, SoundStays
  <2>7. Sent' = Sent \cup {m}
    BY <2>1 DEF Sent
  <2> QED
    BY <1>1, <2>5, <2>6, <2>7 DEF MessagesSound
<1> QED
  BY <1>2, <1>3, <1>4, Frame

\* The steps of the replayer other than Send, and its death, concern itself alone.
Inside ==
  \/ LoadCorrections \/ CheckBeginning \/ CheckEnd
  \/ ReadMessage \/ ResetPosition \/ ReadTimesOut \/ CheckPosition
  \/ Skip \/ Raise \/ Reject \/ DryRun \/ SendRaises \/ Replayed \/ NotAcknowledged
  \/ WriteReport \/ Die

\* The steps by what they touch.
LEMMA Cases ==
  ASSUME [Next]_vars
  PROVE  \/ Inside /\ UNCHANGED <<log, dlq, first, inFlight, arrived, ran>>
         \/ Start
         \/ Send
         \/ /\ Arrive \/ RejectedAgain \/ Expire \/ UNCHANGED vars
            /\ UNCHANGED <<main, position, records, outcomes, ran, reports>>
PROOF
<1>1. CASE ReplayStep
  BY <1>1 DEF ReplayStep, Inside, LoadCorrections, CheckBeginning, CheckEnd, ReadMessage,
     ResetPosition, ReadTimesOut, CheckPosition, Skip, Raise, Reject, DryRun, SendRaises,
     Replayed, NotAcknowledged, WriteReport
<1>2. CASE Die
  BY <1>2 DEF Die, Inside
<1>3. CASE Start
  BY <1>3
<1>4. CASE Arrive
  BY <1>4 DEF Arrive
<1>5. CASE RejectedAgain
  BY <1>5 DEF RejectedAgain
<1>6. CASE Expire
  BY <1>6 DEF Expire
<1>7. CASE UNCHANGED vars
  BY <1>7 DEF vars
<1> QED
  BY <1>1, <1>2, <1>3, <1>4, <1>5, <1>6, <1>7 DEF Next

\* Settling the record in hand: its offset is one of the DLQ.
LEMMA SettleTypes ==
  ASSUME IInv, main # "idle", records # <<>>, NEW s \in Status, Settle(s)
  PROVE  /\ o1 \in 0 .. Len(dlq) - 1
         /\ outcomes' \in Outcomes
         /\ DOMAIN outcomes' = DOMAIN outcomes \cup {o1}
         /\ \A o \in DOMAIN outcomes' : outcomes'[o] = IF o = o1 THEN s ELSE outcomes[o]
         /\ records' \in Seq(0 .. Len(dlq) - 1)
         /\ \A i \in DOMAIN records' : i + 1 \in DOMAIN records /\ records'[i] = records[i + 1]
PROOF
<1>1. records \in Seq(0 .. Len(dlq) - 1) /\ records' = Tail(records) /\ Len(dlq) \in Nat
  BY DEF Settle, IInv, ReaderSound, TopicsSound, TopicsTypeOK
<1>2. o1 \in 0 .. Len(dlq) - 1
  BY <1>1 DEF o1
<1>3. PICK D \in SUBSET Nat : outcomes \in [D -> Status]
  BY DEF IInv, ReaderSound, Outcomes
<1> DEFINE E == DOMAIN outcomes \cup {o1}
<1>4. outcomes' = [o \in E |-> IF o = o1 THEN s ELSE outcomes[o]]
  BY DEF Settle
<1>5. E \in SUBSET Nat
  BY <1>1, <1>2, <1>3
<1>6. outcomes' \in [E -> Status]
  BY <1>3, <1>4
<1>7. outcomes' \in Outcomes
  BY <1>5, <1>6 DEF Outcomes
<1> QED
  BY <1>1, <1>2, <1>4, <1>7

\* The reader's position and records stay within its range.
LEMMA ReaderStep ==
  ASSUME IInv, [Next]_vars
  PROVE  ReaderSound'
PROOF
<1> USE DEF args, run
<1>1. /\ ReaderSound
      /\ dlq \in Seq(DlqRecord) /\ Len(dlq) \in Nat
      /\ first \in 0 .. Len(dlq)
      /\ ran \in Seq(Invocations)
  BY DEF IInv, RunsSound, TopicsSound, TopicsTypeOK
<1>2. \A a \in Invocations : a.from \in Nat /\ a.to \in Nat /\ a.from < a.to
  BY ReplayAssumption
<1>3. main # "idle" => args \in Invocations
  BY <1>1 DEF ReaderSound
<1>4. CASE Inside /\ UNCHANGED <<log, dlq, first, inFlight, arrived, ran>>
  <2>1. CASE main' = "idle" /\ UNCHANGED <<position, records, outcomes>>
    BY <1>1, <1>4, <2>1 DEF ReaderSound
  <2>2. CASE LoadCorrections
    BY <1>1, <1>4, <2>1, <2>2 DEF LoadCorrections, Abort, ReaderSound
  <2>3. CASE CheckBeginning
    BY <1>1, <1>4, <2>1, <2>3 DEF CheckBeginning, Abort, ReaderSound
  <2>4. CASE CheckEnd
    <3>1. CASE RangeHasArrived
      <4>1. main = "end" /\ main' = "reading" /\ position' = args.from
            /\ UNCHANGED <<records, outcomes>>
        BY <2>4, <3>1 DEF CheckEnd
      <4>2. args.from \in 0 .. Len(dlq)
        BY <1>1, <1>2, <1>3, <3>1, <4>1 DEF RangeHasArrived
      <4> QED
        BY <1>1, <1>2, <1>3, <1>4, <4>1, <4>2 DEF ReaderSound
    <3>2. CASE ~RangeHasArrived
      BY <2>1, <2>4, <3>2 DEF CheckEnd, Abort
    <3> QED
      BY <3>1, <3>2
  <2>5. CASE ReadMessage
    <3>1. /\ main = "reading" /\ position < Len(dlq) /\ position >= args.from
          /\ position \in Nat /\ position' = position + 1
          /\ UNCHANGED outcomes
      BY <1>1, <2>5 DEF ReadMessage, ReaderSound
    <3>2. CASE position >= args.to
      <4>1. main' = "read" /\ UNCHANGED records
        BY <2>5, <3>2 DEF ReadMessage
      <4> QED
        BY <1>1, <1>4, <3>1, <4>1 DEF ReaderSound
    <3>3. CASE ~(position >= args.to)
      <4>1. main' = main /\ records' = Append(records, position)
        BY <2>5, <3>3 DEF ReadMessage
      <4>2. position \in 0 .. Len(dlq) - 1 /\ position \in args.from .. args.to - 1
        BY <1>1, <1>2, <1>3, <3>1, <3>3
      <4>3. records' \in Seq(0 .. Len(dlq) - 1)
        BY <1>1, <4>1, <4>2 DEF ReaderSound
      <4>4. \A i \in DOMAIN records' : records'[i] \in args.from .. args.to - 1
        <5>1. \A i \in DOMAIN records : records[i] \in args.from .. args.to - 1
          BY <1>1, <3>1 DEF ReaderSound
        <5>2. records \in Seq(0 .. Len(dlq) - 1)
          BY <1>1 DEF ReaderSound
        <5>3. \A i \in DOMAIN records' : \/ i \in DOMAIN records /\ records'[i] = records[i]
                                         \/ records'[i] = position
          BY <4>1, <4>2, <5>2
        <5> QED
          BY <4>2, <5>1, <5>3
      <4> QED
        BY <1>1, <1>2, <1>3, <1>4, <3>1, <4>1, <4>3, <4>4 DEF ReaderSound
    <3> QED
      BY <3>2, <3>3
  <2>6. CASE ResetPosition
    <3>1. /\ main = "reading" /\ position < first /\ position' = Len(dlq)
          /\ UNCHANGED <<main, records, outcomes>>
      BY <2>6 DEF ResetPosition
    <3>2. position \in Nat /\ position >= args.from /\ args.from \in Nat
      BY <1>1, <1>2, <1>3, <3>1 DEF ReaderSound
    <3>3. Len(dlq) >= args.from
      BY <1>1, <3>1, <3>2
    <3> QED
      BY <1>1, <1>4, <3>1, <3>3 DEF ReaderSound
  <2>7. CASE ReadTimesOut
    BY <1>1, <1>4, <2>7 DEF ReadTimesOut, ReaderSound
  <2>8. CASE CheckPosition
    BY <1>1, <1>4, <2>1, <2>8 DEF CheckPosition, Abort, ReaderSound
  <2>9. ASSUME main \in {"replaying", "waiting"}, records # <<>>, main' = "replaying",
               UNCHANGED position,
               \E s \in Status : Settle(s)
        PROVE  ReaderSound'
    <3>1. PICK s \in Status : Settle(s)
      BY <2>9
    <3>2. main # "idle"
      BY <2>9
    <3>3. /\ o1 \in 0 .. Len(dlq) - 1
          /\ outcomes' \in Outcomes
          /\ DOMAIN outcomes' = DOMAIN outcomes \cup {o1}
          /\ records' \in Seq(0 .. Len(dlq) - 1)
          /\ \A i \in DOMAIN records' : i + 1 \in DOMAIN records /\ records'[i] = records[i + 1]
      BY <2>9, <3>1, <3>2, SettleTypes
    <3> QED
      BY <1>1, <1>4, <2>9, <3>2, <3>3 DEF ReaderSound
  <2>10. CASE Skip
    <3>1. /\ main = "replaying" /\ records # <<>> /\ records' = Tail(records)
          /\ UNCHANGED <<main, position, outcomes>>
      BY <2>10 DEF Skip, Replaying
    <3>2. records \in Seq(0 .. Len(dlq) - 1)
      BY <1>1 DEF ReaderSound
    <3>3. /\ records' \in Seq(0 .. Len(dlq) - 1)
          /\ \A i \in DOMAIN records' : i + 1 \in DOMAIN records /\ records'[i] = records[i + 1]
      BY <3>1, <3>2
    <3> QED
      BY <1>1, <1>4, <3>1, <3>3 DEF ReaderSound
  <2>11. CASE Raise
    BY <2>1, <2>11 DEF Raise, Abort
  <2>12. CASE Reject
    BY <2>9, <2>12 DEF Reject, Attempt, Replaying, Settle, Status
  <2>13. CASE DryRun \/ SendRaises
    BY <2>9, <2>13 DEF DryRun, SendRaises, CanSend, Attempt, Replaying, Settle, Status
  <2>14. CASE Replayed \/ NotAcknowledged
    <3>1. records # <<>>
      BY <1>1, <2>14 DEF ReaderSound, Replayed, NotAcknowledged
    <3> QED
      BY <2>9, <2>14, <3>1 DEF Replayed, NotAcknowledged, Settle, Status
  <2>15. CASE WriteReport
    BY <2>1, <2>15 DEF WriteReport
  <2>16. CASE Die
    BY <2>1, <2>16 DEF Die, Abort
  <2> QED
    BY <1>4, <2>2, <2>3, <2>4, <2>5, <2>6, <2>7, <2>8, <2>10, <2>11, <2>12, <2>13, <2>14,
       <2>15, <2>16 DEF Inside
<1>5. CASE Start
  <2>1. /\ main' = "corrections" /\ position' = 0 /\ records' = <<>> /\ outcomes' = <<>>
        /\ UNCHANGED dlq
    BY <1>5 DEF Start
  <2>2. run' > 0
    <3>1. PICK a \in Invocations : ran' = Append(ran, a)
      BY <1>5 DEF Start
    <3> QED
      BY <1>1, <3>1
  <2>3. outcomes' \in [{} -> Status]
    BY <2>1
  <2>4. outcomes' \in Outcomes /\ DOMAIN outcomes' = {}
    BY <2>3 DEF Outcomes
  <2> QED
    BY <1>1, <2>1, <2>2, <2>4 DEF ReaderSound
<1>6. CASE Send
  BY <1>1, <1>6 DEF Send, CanSend, Attempt, Replaying, ReaderSound
<1>7. CASE UNCHANGED <<main, position, records, outcomes, ran, reports>>
  <2>1. 0 .. Len(dlq) \subseteq 0 .. Len(dlq')
    BY DlqGrows
  <2>2. 0 .. Len(dlq) - 1 \subseteq 0 .. Len(dlq') - 1
    BY DlqGrows
  <2>3. records' \in Seq(0 .. Len(dlq') - 1)
    <3>1. records \in Seq(0 .. Len(dlq) - 1) /\ records' = records
      BY <1>1, <1>7 DEF ReaderSound
    <3>2. \A S, T : S \subseteq T => Seq(S) \subseteq Seq(T)
      OBVIOUS
    <3> QED
      BY <2>2, <3>1, <3>2
  <2> QED
    BY <1>1, <1>7, <2>1, <2>2, <2>3 DEF ReaderSound
<1> QED
  BY <1>4, <1>5, <1>6, <1>7, Cases

\* A message of a run that is going on stands for the record in hand, or is in outcomes.
LEMMA OutcomesStep ==
  ASSUME IInv, [Next]_vars
  PROVE  OutcomesTell'
PROOF
<1> USE DEF args, run
<1>1. ReaderSound /\ OutcomesTell /\ RunsSound /\ MessagesSound
  BY DEF IInv
<1>2. run \in Nat /\ Len(reports) = run /\ reports \in Seq(Report \cup {NULL})
  BY <1>1 DEF RunsSound
<1>3. CASE Inside /\ UNCHANGED <<log, dlq, first, inFlight, arrived, ran>>
  <2>1. CASE main' = "idle"
    BY <2>1 DEF OutcomesTell
  <2>2. CASE main # "idle" /\ main # "waiting" /\ UNCHANGED <<outcomes, reports>>
    BY <1>1, <1>3, <2>2 DEF OutcomesTell, Arrived, Sent, Told
  <2>3. CASE LoadCorrections \/ CheckBeginning \/ CheckEnd \/ CheckPosition
    BY <2>1, <2>2, <2>3 DEF LoadCorrections, CheckBeginning, CheckEnd, CheckPosition, Abort
  <2>4. CASE ReadMessage \/ ResetPosition \/ ReadTimesOut \/ Skip
    BY <2>2, <2>4 DEF ReadMessage, ResetPosition, ReadTimesOut, Skip, Replaying
  <2>5. CASE Raise \/ Die \/ WriteReport
    BY <2>1, <2>5 DEF Raise, Die, WriteReport, Abort
  <2>6. ASSUME NEW s \in Status, Settle(s), main # "idle", records # <<>>,
               s = "replayed" => Arrived(run, o1),
               s \notin {"replayed", "failed"} =>
                 \A m \in Sent : ~(m.run = run /\ m.offset = o1)
        PROVE  OutcomesTell'
    <3>1. /\ DOMAIN outcomes' = DOMAIN outcomes \cup {o1}
          /\ \A o \in DOMAIN outcomes' : outcomes'[o] = IF o = o1 THEN s ELSE outcomes[o]
      BY <2>6, SettleTypes
    <3>2. reports'[run'] = NULL
      BY <1>1, <1>3, <2>6 DEF OutcomesTell, Settle
    <3>3. \A o \in DOMAIN outcomes' : outcomes'[o] = "replayed" => Arrived(run, o)'
      BY <1>1, <1>3, <2>6, <3>1 DEF OutcomesTell, Arrived
    <3>4. ASSUME NEW m \in Sent, m.run = run
          PROVE  Told(m, outcomes')
      <4>1. CASE m.offset = o1
        BY <2>6, <3>1, <3>4, <4>1 DEF Told
      <4>2. CASE m.offset # o1
        BY <1>1, <2>6, <3>1, <3>4, <4>2 DEF Told, OutcomesTell
      <4> QED
        BY <4>1, <4>2
    <3> QED
      BY <1>3, <3>2, <3>3, <3>4 DEF OutcomesTell, Sent
  <2>7. CASE Reject
    <3>1. /\ Settle("rejected") /\ main # "idle" /\ records # <<>>
          /\ Rejects(RecordAt(o1), CorrectionFor(args, o1))
      BY <2>7 DEF Reject, Attempt, Replaying
    <3>2. \A m \in Sent : ~(m.run = run /\ m.offset = o1)
      BY <1>1, <3>1 DEF MessagesSound, Sound
    <3> QED
      BY <2>6, <3>1, <3>2 DEF Status
  <2>8. CASE DryRun
    <3>1. Settle("dry_run") /\ main # "idle" /\ records # <<>> /\ ~args.execute
      BY <2>8 DEF DryRun, CanSend, Attempt, Replaying
    <3>2. \A m \in Sent : ~(m.run = run /\ m.offset = o1)
      BY <1>1, <3>1 DEF MessagesSound, Sound
    <3> QED
      BY <2>6, <3>1, <3>2 DEF Status
  <2>9. CASE SendRaises
    BY <2>6, <2>9 DEF SendRaises, CanSend, Attempt, Replaying, Status
  <2>10. CASE Replayed
    <3>1. /\ Settle("replayed") /\ main # "idle" /\ records # <<>>
          /\ ThisMessage \in arrived
      BY <1>1, <2>10 DEF Replayed, ReaderSound, Acknowledged
    <3>2. Arrived(run, o1)
      BY <3>1 DEF Arrived, ThisMessage
    <3> QED
      BY <2>6, <3>1, <3>2 DEF Status
  <2>11. CASE NotAcknowledged
    BY <1>1, <2>6, <2>11 DEF NotAcknowledged, ReaderSound, Status
  <2> QED
    BY <1>3, <2>3, <2>4, <2>5, <2>7, <2>8, <2>9, <2>10, <2>11 DEF Inside
<1>4. CASE Start
  <2>1. PICK a \in Invocations : ran' = Append(ran, a)
    BY <1>4 DEF Start
  <2>2. /\ reports' = Append(reports, NULL) /\ outcomes' = <<>>
        /\ UNCHANGED <<inFlight, arrived>>
    BY <1>4 DEF Start
  <2>3. run' = run + 1 /\ reports'[run'] = NULL
    BY <1>1, <1>2, <2>1, <2>2 DEF RunsSound
  <2>4. \A m \in Sent : m.run # run'
    BY <1>1, <1>2, <2>3 DEF MessagesSound, Sound
  <2> QED
    BY <2>2, <2>3, <2>4 DEF OutcomesTell, Sent
<1>5. CASE Send
  <2>1. /\ main = "replaying" /\ main' = "waiting"
        /\ inFlight' = inFlight \cup {ThisMessage}
        /\ UNCHANGED <<records, outcomes, arrived, ran, reports>>
    BY <1>5 DEF Send, CanSend, Attempt, Replaying
  <2>2. Sent' = Sent \cup {ThisMessage} /\ ThisMessage.offset = o1 /\ o1' = o1
    BY <2>1 DEF Sent, ThisMessage, o1
  <2> QED
    BY <1>1, <2>1, <2>2 DEF OutcomesTell, Arrived, Told
<1>6. CASE /\ Arrive \/ RejectedAgain \/ Expire \/ UNCHANGED vars
           /\ UNCHANGED <<main, position, records, outcomes, ran, reports>>
  <2>1. Sent' \subseteq Sent /\ arrived \subseteq arrived'
    BY <1>6 DEF Arrive, RejectedAgain, Expire, vars, Sent
  <2> QED
    BY <1>1, <1>6, <2>1 DEF OutcomesTell, Arrived, Told, o1
<1> QED
  BY <1>3, <1>4, <1>5, <1>6, Cases

\* Reports stay true.
LEMMA ReportsStep ==
  ASSUME IInv, [Next]_vars
  PROVE  ReportsTell'
PROOF
<1> USE DEF run
<1>1. ReportsTell /\ OutcomesTell /\ ReaderSound /\ RunsSound /\ MessagesSound
  BY DEF IInv
<1>2. run \in Nat /\ Len(reports) = run /\ reports \in Seq(Report \cup {NULL})
  BY <1>1 DEF RunsSound
<1>3. CASE UNCHANGED reports /\ Sent' \subseteq Sent /\ arrived \subseteq arrived'
  BY <1>1, <1>3 DEF ReportsTell, Arrived, Told
<1>4. CASE Inside /\ UNCHANGED <<log, dlq, first, inFlight, arrived, ran>>
  <2>1. CASE WriteReport
    <3> DEFINE r == [outcomes |-> outcomes,
                     exit |-> IF \E o \in DOMAIN outcomes : outcomes[o] = "failed" THEN "error"
                              ELSE "success"]
    <3>1. main = "replaying" /\ reports' = [reports EXCEPT ![run] = r]
      BY <2>1 DEF WriteReport
    <3>2. /\ \A o \in DOMAIN outcomes : outcomes[o] = "replayed" => Arrived(run, o)
          /\ \A m \in Sent : m.run = run => Told(m, outcomes)
      BY <1>1, <3>1 DEF OutcomesTell
    <3>3. run \in DOMAIN reports
      BY <1>1, <1>2, <3>1 DEF ReaderSound
    <3>4. r.outcomes = outcomes
      OBVIOUS
    <3>5. \A o \in DOMAIN outcomes : outcomes[o] = "failed" => r.exit = "error"
      OBVIOUS
    <3> HIDE DEF r
    <3>6. DOMAIN reports' = DOMAIN reports /\ reports'[run] = r
          /\ \A n \in DOMAIN reports : n # run => reports'[n] = reports[n]
      BY <1>2, <3>1, <3>3
    <3>7. ASSUME NEW n \in DOMAIN reports', reports'[n] # NULL
          PROVE  /\ \A o \in DOMAIN reports'[n].outcomes :
                      reports'[n].outcomes[o] = "replayed" => Arrived(n, o)
                 /\ \A m \in Sent : m.run = n =>
                      /\ Told(m, reports'[n].outcomes)
                      /\ reports'[n].outcomes[m.offset] = "failed" => reports'[n].exit = "error"
      <4>1. CASE n = run
        BY <3>2, <3>4, <3>5, <3>6, <4>1 DEF Told
      <4>2. CASE n # run
        BY <1>1, <3>6, <3>7, <4>2 DEF ReportsTell
      <4> QED
        BY <4>1, <4>2
    <3>8. Sent' = Sent /\ \A n, o : Arrived(n, o)' = Arrived(n, o)
      BY <1>4 DEF Sent, Arrived
    <3> QED
      BY <3>7, <3>8 DEF ReportsTell, Told
  <2>2. CASE UNCHANGED reports
    BY <1>3, <1>4, <2>2 DEF Sent
  <2>3. Inside => WriteReport \/ UNCHANGED reports
    BY DEF Inside, LoadCorrections, CheckBeginning, CheckEnd, ReadMessage, ResetPosition,
       ReadTimesOut, CheckPosition, Skip, Raise, Reject, DryRun, SendRaises, Replayed,
       NotAcknowledged, Die, Abort, Settle
  <2> QED
    BY <1>4, <2>1, <2>2, <2>3
<1>5. CASE Start
  <2>1. reports' = Append(reports, NULL) /\ UNCHANGED <<inFlight, arrived>>
    BY <1>5 DEF Start
  <2>2. \A n \in DOMAIN reports' : reports'[n] # NULL =>
          n \in DOMAIN reports /\ reports'[n] = reports[n]
    BY <1>2, <2>1
  <2> QED
    BY <1>1, <2>1, <2>2 DEF ReportsTell, Arrived, Told, Sent
<1>6. CASE Send
  <2>1. /\ main = "replaying"
        /\ inFlight' = inFlight \cup {ThisMessage}
        /\ UNCHANGED <<arrived, reports>>
    BY <1>6 DEF Send, CanSend, Attempt, Replaying
  <2>2. Sent' = Sent \cup {ThisMessage} /\ ThisMessage.run = run
    BY <2>1 DEF Sent, ThisMessage
  <2>3. reports[run] = NULL
    BY <1>1, <2>1 DEF OutcomesTell
  <2> QED
    BY <1>1, <2>1, <2>2, <2>3 DEF ReportsTell, Arrived, Told
<1>7. CASE /\ Arrive \/ RejectedAgain \/ Expire \/ UNCHANGED vars
           /\ UNCHANGED <<main, position, records, outcomes, ran, reports>>
  <2>1. Sent' \subseteq Sent /\ arrived \subseteq arrived'
    BY <1>7 DEF Arrive, RejectedAgain, Expire, vars, Sent
  <2> QED
    BY <1>3, <1>7, <2>1
<1> QED
  BY <1>4, <1>5, <1>6, <1>7, Cases

\* The invariant of the whole module, from which the properties follow.
THEOREM ReplayInvariant == Spec => []IInv
PROOF
<1>1. Init => IInv
  BY NothingHasHappened
<1>2. IInv /\ [Next]_vars => IInv'
  BY TopicsStep, RunsStep, ReaderStep, MessagesStep, OutcomesStep, ReportsStep DEF IInv
<1> QED
  BY <1>1, <1>2, PTL DEF Spec

----------------------------------------------------------------------------
(* What follows from it *)

\* TypeOK: the types of the variables; the consumer of the replayer stays within the DLQ.
THEOREM ReplayTypes == Spec => []TypeOK
PROOF
<1>1. IInv => TypeOK
  <2> SUFFICES ASSUME IInv
               PROVE  TypeOK
    OBVIOUS
  <2>1. inFlight \subseteq Message /\ arrived \subseteq Message
    BY DEF IInv, MessagesSound, Sent
  <2>2. \A o \in DOMAIN outcomes : outcomes[o] \in Status
    <3>1. PICK D \in SUBSET Nat : outcomes \in [D -> Status]
      BY DEF IInv, ReaderSound, Outcomes
    <3> QED
      BY <3>1
  <2> QED
    BY <2>1, <2>2 DEF IInv, TypeOK, TopicsSound, RunsSound, ReaderSound, Status
<1> QED
  BY <1>1, ReplayInvariant, PTL

\* SentIsAccepted: whatever the replayer has put into a topic, in however many runs, passes
\* the validation of raw_zone_consumer, and its event_id is the hash of its contents.
THEOREM SentIsAlwaysAccepted == Spec => []SentIsAccepted
PROOF
<1>1. IInv => SentIsAccepted
  BY DEF IInv, TopicsSound
<1> QED
  BY <1>1, ReplayInvariant, PTL

\* SentAsItsLineSays: nothing reaches a topic but what is valid today as the single line
\* for its offset corrects it, or as it is without a line, in a run that was to execute
\* over a range that has it.
THEOREM SentAlwaysAsItsLineSays == Spec => []SentAsItsLineSays
PROOF
<1>1. IInv => SentAsItsLineSays
  <2> SUFFICES ASSUME IInv, NEW m \in arrived
               PROVE  LET a == ran[m.run]
                          r == RecordAt(m.offset)
                          Sends(p) == IsValid(p, r.topic) /\ m.payload = Republished(p)
                      IN  /\ a.execute
                          /\ m.offset \in a.from .. a.to - 1
                          /\ Wanted(a, r)
                          /\ \/ LinesFor(a, m.offset) = {} /\ Sends(r.payload)
                             \/ \E i \in LinesFor(a, m.offset) :
                                  /\ LinesFor(a, m.offset) = {i}
                                  /\ a.lines[i].partition = Partition
                                  /\ Sends(Corrected(r.payload, a.lines[i].correction))
    BY DEF SentAsItsLineSays
  <2> DEFINE a == ran[m.run]
             r == RecordAt(m.offset)
             c == CorrectionFor(a, m.offset)
  <2>1. Sound(m) /\ m.offset \in Nat
    BY DEF IInv, MessagesSound, Sent, Message
  <2>2. /\ IsValid(Corrected(r.payload, c), r.topic)
        /\ m.payload = Republished(Corrected(r.payload, c))
    BY <2>1 DEF Sound, Rejects
  <2>3. a \in Invocations /\ r.payload \in Payload /\ CorrectionsLoad(a)
    BY <2>1, SoundRecord DEF Sound, DlqRecord
  <2>4. a.execute /\ m.offset \in a.from .. a.to - 1 /\ Wanted(a, r)
    BY <2>1 DEF Sound
  <2> HIDE DEF a, r, c
  <2>5. CASE LinesFor(a, m.offset) = {} /\ c = NoCorrection
    BY <2>2, <2>3, <2>4, <2>5, UncorrectedIsTheSame DEF a, r
  <2>6. CASE \E i \in LinesFor(a, m.offset) :
               /\ LinesFor(a, m.offset) = {i}
               /\ a.lines[i].partition = Partition
               /\ c = a.lines[i].correction
    BY <2>2, <2>4, <2>6 DEF a, r
  <2> QED
    BY <2>1, <2>3, <2>5, <2>6, OneLine DEF c
<1> QED
  BY <1>1, ReplayInvariant, PTL

\* Payloads with the same fields, corrected in the same fields, are republished as one,
\* whatever their event_ids.
LEMMA SameFieldsSameMessage ==
  ASSUME NEW p \in Payload, NEW q \in Payload, p.fields = q.fields,
         NEW c \in Correction, NEW d \in Correction, c.fields = d.fields
  PROVE  Republished(Corrected(p, c)) = Republished(Corrected(q, d))
PROOF
<1>1. Corrected(p, c).fields = Corrected(q, d).fields
  BY DEF Corrected, Payload
<1>2. Normalised(Corrected(p, c)) = Normalised(Corrected(q, d))
  BY <1>1 DEF Normalised
<1> QED
  BY <1>2 DEF Republished

\* RepeatsSendTheSame: equal records under equal corrections are sent as one message with
\* one event_id, in whatever runs and as often as they are sent.
THEOREM RepeatsAlwaysSendTheSame == Spec => []RepeatsSendTheSame
PROOF
<1>1. IInv => RepeatsSendTheSame
  <2> SUFFICES ASSUME IInv, NEW m \in arrived, NEW n \in arrived,
                      RecordAt(m.offset).payload.fields = RecordAt(n.offset).payload.fields,
                      Given(m) = Given(n)
               PROVE  m.payload = n.payload
    BY DEF RepeatsSendTheSame
  <2> DEFINE C(k) == CorrectionFor(ran[k.run], k.offset)
  <2>1. ASSUME NEW k \in arrived
        PROVE  /\ RecordAt(k.offset).payload \in Payload
               /\ C(k) \in Correction
               /\ k.payload = Republished(Corrected(RecordAt(k.offset).payload, C(k)))
               /\ \/ Given(k) = {} /\ C(k) = NoCorrection
                  \/ Given(k) = {C(k).fields}
    <3>1. Sound(k) /\ k.offset \in Nat
      BY <2>1 DEF IInv, MessagesSound, Sent, Message
    <3>2. ran[k.run] \in Invocations /\ RecordAt(k.offset).payload \in Payload
      BY <3>1, SoundRecord DEF DlqRecord
    <3>3. C(k) \in Correction
      BY <3>1, <3>2, CorrectionIsOne
    <3>4. (Given(k) = {} /\ C(k) = NoCorrection) \/ Given(k) = {C(k).fields}
      <4>1. CorrectionsLoad(ran[k.run])
        BY <3>1 DEF Sound
      <4>2. CASE LinesFor(ran[k.run], k.offset) = {} /\ C(k) = NoCorrection
        BY <4>2 DEF Given
      <4>3. CASE \E i \in LinesFor(ran[k.run], k.offset) :
                   /\ LinesFor(ran[k.run], k.offset) = {i}
                   /\ C(k) = ran[k.run].lines[i].correction
        <5>1. PICK i : /\ LinesFor(ran[k.run], k.offset) = {i}
                       /\ C(k) = ran[k.run].lines[i].correction
          BY <4>3
        <5> HIDE DEF C
        <5> QED
          BY <5>1 DEF Given
      <4> QED
        BY <3>1, <3>2, <4>1, <4>2, <4>3, OneLine
    <3> QED
      BY <3>1, <3>2, <3>3, <3>4 DEF Sound
  <2> HIDE DEF C
  <2>2. C(m).fields = C(n).fields
    BY <2>1
  <2> QED
    BY <2>1, <2>2, SameFieldsSameMessage
<1> QED
  BY <1>1, ReplayInvariant, PTL

\* ReportTells: what a report says is what happened, however late a message arrives and in
\* however many runs the same record was sent.
THEOREM ReportsAlwaysTell == Spec => []ReportTells
PROOF
<1>1. IInv => ReportTells
  BY DEF IInv, ReportsTell, ReportTells, Told, Sent
<1> QED
  BY <1>1, ReplayInvariant, PTL
----------------------------------------------------------------------------
(* Nothing of the range is passed over, unless retention reaches it *)

Fetched(o) == \E i \in DOMAIN records : records[i] = o
Range == args.from .. args.to - 1

RangeSound ==
  /\ main \in {"reading", "read", "replaying", "waiting"} => args.to <= Len(dlq)
  /\ main \in {"reading", "read"} /\ first <= args.from =>
       \A o \in Range : o < position => Fetched(o)
  /\ main \in {"replaying", "waiting"} /\ first <= args.from =>
       \A o \in Range : Wanted(args, RecordAt(o)) => o \in DOMAIN outcomes \/ Fetched(o)

ReportedSound ==
  \A n \in DOMAIN reports : reports[n] # NULL =>
    /\ ran[n].to <= Len(dlq)
    /\ first <= ran[n].from => Complete(n)

\* A step of the replayer keeps what it has fetched, or makes an outcome of it.
LEMMA RangeInside ==
  ASSUME IInv, RangeSound, Inside, UNCHANGED <<log, dlq, first, inFlight, arrived, ran>>
  PROVE  RangeSound'
PROOF
<1> USE DEF args, run
<1>1. ReaderSound /\ dlq \in Seq(DlqRecord) /\ first \in Nat /\ ran \in Seq(Invocations)
  BY DEF IInv, TopicsSound, TopicsTypeOK, RunsSound
<1>2. \A a \in Invocations : a.from \in Nat /\ a.to \in Nat
  BY ReplayAssumption
<1>3. main # "idle" => args \in Invocations
  BY <1>1 DEF ReaderSound
<1>4. position \in Nat /\ Len(dlq) \in Nat
  BY <1>1 DEF ReaderSound
<1>5. records \in Seq(0 .. Len(dlq) - 1)
  BY <1>1 DEF ReaderSound
<1>6. CASE main' \in {"idle", "beginning", "end"}
  BY <1>6 DEF RangeSound
<1>7. CASE LoadCorrections \/ CheckBeginning \/ Raise \/ Die \/ WriteReport
  BY <1>6, <1>7 DEF LoadCorrections, CheckBeginning, Raise, Die, WriteReport, Abort
<1>8. CASE CheckEnd
  <2>1. CASE RangeHasArrived
    BY <1>2, <1>3, <1>8, <2>1 DEF CheckEnd, RangeSound, RangeHasArrived, Range
  <2>2. CASE ~RangeHasArrived
    BY <1>6, <1>8, <2>2 DEF CheckEnd, Abort
  <2> QED
    BY <2>1, <2>2
<1>9. CASE ReadMessage
  <2>1. main = "reading" /\ position' = position + 1
    BY <1>9 DEF ReadMessage
  <2>2. CASE position >= args.to
    BY <1>2, <1>3, <1>4, <1>9, <2>1, <2>2 DEF ReadMessage, RangeSound, Range, Fetched
  <2>3. CASE ~(position >= args.to)
    <3>1. main' = main /\ records' = Append(records, position)
      BY <1>9, <2>3 DEF ReadMessage
    <3>2. position \in 0 .. Len(dlq) - 1
      BY <1>4, <1>9 DEF ReadMessage
    <3>3. \A i \in DOMAIN records : i \in DOMAIN records' /\ records'[i] = records[i]
      BY <1>5, <3>1, <3>2
    <3>4. Len(records) + 1 \in DOMAIN records' /\ records'[Len(records) + 1] = position
      BY <1>5, <3>1, <3>2
    <3>5. \A o : Fetched(o) => Fetched(o)'
      BY <3>3 DEF Fetched
    <3>6. \A o : o = position => Fetched(o)'
      BY <3>4 DEF Fetched
    <3>7. ASSUME first <= args.from, NEW o \in Range, o < position + 1
          PROVE  Fetched(o)'
      <4>1. o \in Int
        BY <1>2, <1>3, <2>1 DEF Range
      <4>2. CASE o < position
        BY <2>1, <3>5, <3>7, <4>2 DEF RangeSound
      <4>3. CASE o = position
        BY <3>6, <4>3
      <4> QED
        BY <1>4, <3>7, <4>1, <4>2, <4>3
    <3> QED
      BY <2>1, <3>1, <3>7 DEF RangeSound, Range
  <2> QED
    BY <2>2, <2>3
<1>10. CASE ResetPosition
  <2>1. main = "reading" /\ position < first /\ UNCHANGED main
    BY <1>10 DEF ResetPosition
  <2>2. ~(first <= args.from)
    BY <1>1, <1>2, <1>3, <1>4, <2>1 DEF ReaderSound
  <2> QED
    BY <2>1, <2>2 DEF RangeSound
<1>11. CASE ReadTimesOut
  BY <1>11 DEF ReadTimesOut, RangeSound, Range, Fetched
<1>12. CASE CheckPosition
  <2>1. CASE RangeWasRead
    <3>1. /\ main = "read" /\ main' = "replaying" /\ UNCHANGED <<position, records, outcomes>>
          /\ position >= args.to
      BY <1>12, <2>1 DEF CheckPosition, RangeWasRead
    <3>2. \A o \in Range : o < position
      BY <1>2, <1>3, <1>4, <3>1 DEF Range
    <3> QED
      BY <3>1, <3>2 DEF RangeSound, Range, Fetched
  <2>2. CASE ~RangeWasRead
    BY <1>6, <1>12, <2>2 DEF CheckPosition, Abort
  <2> QED
    BY <2>1, <2>2
<1>13. ASSUME main \in {"replaying", "waiting"}, main' = "replaying", records # <<>>,
              records' = Tail(records),
              DOMAIN outcomes \subseteq DOMAIN outcomes',
              o1 \in DOMAIN outcomes' \/ ~Wanted(args, RecordAt(o1))
       PROVE  RangeSound'
  <2>1. \A i \in DOMAIN records : i = 1 \/ (i - 1 \in DOMAIN records' /\ records'[i - 1] = records[i])
    BY <1>5, <1>13
  <2>2. ASSUME NEW o, Fetched(o), o # o1
        PROVE  Fetched(o)'
    <3>1. PICK i \in DOMAIN records : records[i] = o
      BY <2>2 DEF Fetched
    <3>2. i # 1
      BY <2>2, <3>1 DEF o1
    <3> QED
      BY <2>1, <3>1, <3>2 DEF Fetched
  <2> QED
    BY <1>13, <2>2 DEF RangeSound, Range, RecordAt
<1>14. CASE Skip
  BY <1>13, <1>14 DEF Skip, Replaying
<1>15. ASSUME main \in {"replaying", "waiting"}, records # <<>>, \E s \in Status : Settle(s)
       PROVE  RangeSound'
  <2>1. PICK s \in Status : Settle(s)
    BY <1>15
  <2>2. DOMAIN outcomes' = DOMAIN outcomes \cup {o1}
    BY <1>15, <2>1, SettleTypes
  <2> QED
    BY <1>13, <1>15, <2>1, <2>2 DEF Settle
<1>16. CASE Reject \/ DryRun \/ SendRaises
  BY <1>15, <1>16 DEF Reject, DryRun, SendRaises, CanSend, Attempt, Replaying, Status
<1>17. CASE Replayed \/ NotAcknowledged
  BY <1>1, <1>15, <1>17 DEF Replayed, NotAcknowledged, ReaderSound, Status
<1> QED
  BY <1>7, <1>8, <1>9, <1>10, <1>11, <1>12, <1>14, <1>16, <1>17 DEF Inside

\* The fetched records stay those of the range, unless retention has passed its start.
LEMMA RangeStep ==
  ASSUME IInv, RangeSound, [Next]_vars
  PROVE  RangeSound'
PROOF
<1> USE DEF args, run
<1>1. CASE Inside /\ UNCHANGED <<log, dlq, first, inFlight, arrived, ran>>
  BY <1>1, RangeInside
<1>2. CASE Start
  BY <1>2 DEF Start, RangeSound
<1>3. CASE Send
  BY <1>3 DEF Send, CanSend, Attempt, Replaying, RangeSound, Range, Fetched, RecordAt
<1>4. CASE UNCHANGED <<main, position, records, outcomes, ran, reports>>
  <2>1. /\ first \in Nat /\ first' \in Nat /\ first <= first'
    <3>1. first \in Nat
      BY DEF IInv, TopicsSound
    <3>2. UNCHANGED first \/ Expire
      BY Frame
    <3> QED
      BY <3>1, <3>2 DEF Expire
  <2>2. main # "idle" => args.from \in Nat /\ args.to \in Nat
    BY ReplayAssumption DEF IInv, ReaderSound, RunsSound
  <2>3. ASSUME main # "idle", args.to <= Len(dlq), NEW o \in Range
        PROVE  RecordAt(o)' = RecordAt(o)
    <3>1. o + 1 \in 1 .. Len(dlq)
      BY <2>2, <2>3, DlqGrows DEF Range
    <3> QED
      BY <3>1, DlqGrows DEF RecordAt
  <2>4. main \in {"reading", "read", "replaying", "waiting"} => args.to <= Len(dlq')
    BY <2>2, DlqGrows DEF RangeSound
  <2>5. first' <= args.from /\ main # "idle" => first <= args.from
    BY <2>1, <2>2
  <2>6. CASE main \in {"replaying", "waiting"} /\ first' <= args.from
    <3>1. \A o \in Range : RecordAt(o)' = RecordAt(o)
      BY <2>3, <2>6 DEF RangeSound
    <3> QED
      BY <1>4, <2>4, <2>5, <2>6, <3>1 DEF RangeSound, Range, Fetched
  <2> QED
    BY <1>4, <2>4, <2>5, <2>6 DEF RangeSound, Range, Fetched
<1> QED
  BY <1>1, <1>2, <1>3, <1>4, Cases

\* A report speaks of every record of its range, unless retention has passed its start.
LEMMA ReportedStep ==
  ASSUME IInv, RangeSound, ReportedSound, [Next]_vars
  PROVE  ReportedSound'
PROOF
<1>1. RunsSound /\ ReaderSound
  BY DEF IInv
<1>2. run \in Nat /\ DOMAIN reports = 1 .. run /\ reports \in Seq(Report \cup {NULL})
  BY <1>1 DEF RunsSound, run
<1>3. \A n \in 1 .. run : ran[n].from \in Nat /\ ran[n].to \in Nat
  BY <1>1, ReplayAssumption DEF RunsSound, run
<1>4. first \in Nat /\ first' \in Nat /\ first <= first'
  <2>1. first \in Nat
    BY DEF IInv, TopicsSound
  <2>2. UNCHANGED first \/ Expire
    BY Frame
  <2> QED
    BY <2>1, <2>2 DEF Expire
<1>5. ASSUME NEW n \in 1 .. run, reports'[n] = reports[n], reports[n] # NULL
      PROVE  /\ ran'[n].to <= Len(dlq')
             /\ first' <= ran'[n].from => Complete(n)'
  <2>1. ran[n].to <= Len(dlq) /\ (first <= ran[n].from => Complete(n)) /\ ran'[n] = ran[n]
    BY <1>2, <1>5, RunsGrow DEF ReportedSound
  <2>2. ran[n].to <= Len(dlq')
    BY <1>3, <2>1, DlqGrows
  <2>3. first' <= ran[n].from => first <= ran[n].from
    BY <1>3, <1>4
  <2>4. ASSUME NEW o \in ran[n].from .. ran[n].to - 1
        PROVE  RecordAt(o)' = RecordAt(o)
    <3>1. o + 1 \in 1 .. Len(dlq)
      BY <1>3, <2>1, DlqGrows
    <3> QED
      BY <3>1, DlqGrows DEF RecordAt
  <2>5. Complete(n) => Complete(n)'
    BY <1>5, <2>1, <2>4 DEF Complete
  <2> QED
    BY <2>1, <2>2, <2>3, <2>5
<1>6. CASE WriteReport
  <2>1. /\ main = "replaying" /\ records = <<>>
        /\ reports' = [reports EXCEPT ![run] =
             [outcomes |-> outcomes,
              exit |-> IF \E o \in DOMAIN outcomes : outcomes[o] = "failed" THEN "error"
                       ELSE "success"]]
        /\ UNCHANGED <<dlq, first, ran>>
    BY <1>6 DEF WriteReport
  <2>2. run \in 1 .. run
    BY <1>1, <1>2, <2>1 DEF ReaderSound
  <2>3. reports'[run].outcomes = outcomes
    BY <1>2, <2>1, <2>2
  <2>4. args.to <= Len(dlq)
        /\ (first <= args.from => \A o \in Range :
                                    Wanted(args, RecordAt(o)) => o \in DOMAIN outcomes)
    BY <2>1 DEF RangeSound, Fetched
  <2> PICK k : k = run
    OBVIOUS
  <2>5. first <= args.from => Complete(k)'
    <3>1. reports'[k].outcomes = outcomes /\ ran'[k] = args
      BY <2>1, <2>3 DEF args
    <3>2. \A o : RecordAt(o)' = RecordAt(o)
      BY <2>1 DEF RecordAt
    <3> QED
      BY <2>4, <3>1, <3>2 DEF Complete, Range
  <2>6. ASSUME NEW n \in DOMAIN reports', reports'[n] # NULL
        PROVE  ran'[n].to <= Len(dlq') /\ (first' <= ran'[n].from => Complete(n)')
    <3>1. CASE n = run
      BY <2>1, <2>4, <2>5, <3>1 DEF args
    <3>2. CASE n # run
      <4>1. n \in 1 .. run /\ reports'[n] = reports[n]
        BY <1>2, <2>1, <2>6, <3>2
      <4> QED
        BY <1>5, <2>6, <4>1
    <3> QED
      BY <3>1, <3>2
  <2> QED
    BY <2>6 DEF ReportedSound
<1>7. CASE Start \/ UNCHANGED reports
  <2>1. \A n \in DOMAIN reports' : reports'[n] # NULL =>
          n \in 1 .. run /\ reports'[n] = reports[n]
    BY <1>2, <1>7 DEF Start
  <2> QED
    BY <1>5, <2>1 DEF ReportedSound
<1> QED
  BY <1>6, <1>7, Frame

\* RangeIsCompleteUnlessExpired: a run that leaves a report has an outcome for every record
\* of its range that its filters want, unless retention has passed the start of the range.
THEOREM RangesAreCompleteUnlessExpired == Spec => []RangeIsCompleteUnlessExpired
PROOF
<1>1. Init => RangeSound /\ ReportedSound
  BY DEF Init, RangeSound, ReportedSound
<1>2. IInv /\ RangeSound /\ ReportedSound /\ [Next]_vars => (RangeSound /\ ReportedSound)'
  BY RangeStep, ReportedStep
<1>3. ReportedSound => RangeIsCompleteUnlessExpired
  BY DEF ReportedSound, RangeIsCompleteUnlessExpired
<1> QED
  BY <1>1, <1>2, <1>3, ReplayInvariant, PTL DEF Spec
=============================================================================
