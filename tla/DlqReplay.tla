------------------------------- MODULE DlqReplay -------------------------------
(***************************************************************************)
(* code/pipelines/ingestion/dlq_replayer.py: rejected records of a range   *)
(* of the DLQ are corrected, validated again and sent to their topic.      *)
(*                                                                         *)
(* An operator runs it again and again, one run at a time, while rejected  *)
(* records arrive in the DLQ, retention removes its oldest ones, and a     *)
(* record may reach its topic after the replayer has stopped waiting.  One *)
(* partition of the DLQ.  A record counts as fetched when it is returned.  *)
(***************************************************************************)
EXTENDS EventTopics

CONSTANTS
  Partition,    \* --dlq-partition
  Invocations,  \* the argument lists with which the replayer is run
  Rejections,   \* the records that raw_zone_consumer may write to the DLQ
  MaxDlq,       \* bound: records of the DLQ
  MaxRuns       \* bound: runs of the replayer

\* What a line of the corrections file gives: NULL for a field it leaves alone, and the
\* event_id, which may be null or blank, if it gives one.
Correction ==
  [fields : [EVENT_FIELDS -> Value \cup {NULL}], setsId : BOOLEAN, id : Id \cup {NULL}]
NoCorrection == [fields |-> [f \in EVENT_FIELDS |-> NULL], setsId |-> FALSE, id |-> NULL]

\* A line that is no JSON, or lacks dlq_offset or dlq_partition, has the partition NULL.
Line == [partition : Nat \cup {NULL}, offset : Nat, correction : Correction]

\* A rejected record may be valid by now: it may have been rejected under earlier rules
\* (docs/domain/data-contracts.md:79-80), so nothing ties its reason to its payload.
ASSUME ReplayAssumption ==
  /\ NULL \notin Id /\ NULL \notin Nat /\ NULL \notin ReasonCodes
  /\ Partition \in Nat
  /\ \A a \in Invocations :
       /\ a.from \in Nat /\ a.to \in Nat /\ a.from < a.to
       /\ a.topic \in ALLOWED_TOPICS
       /\ a.reason \in ReasonCodes \cup {NULL}
       /\ a.lines \in Seq(Line)
       /\ a.execute \in BOOLEAN
  /\ Rejections \subseteq DlqRecord
  /\ MaxDlq \in Nat /\ MaxRuns \in Nat

VARIABLES
  first,     \* the DLQ's first offset that retention has left
  main,      \* where the replayer is; "idle" if none runs
  position,  \* the consumer's position
  records,   \* offsets of the fetched records that are still to be replayed
  outcomes,  \* the status of each attempted record, by its offset
  inFlight,  \* messages sent and not arrived; some never will
  arrived,   \* history: messages the broker has appended
  ran,       \* history: the arguments of each run; the last is the present one
  reports    \* the report that each run has left, or NULL

vars == <<log, dlq, first, main, position, records, outcomes, inFlight, arrived, ran, reports>>

Message == [run : Nat, offset : Nat, payload : Payload]

run == Len(ran)
args == ran[run]
RecordAt(o) == dlq[o + 1]

----------------------------------------------------------------------------
(* build_candidate_fields and process_record *)

\* Only for a payload that is an object.
Corrected(p, c) ==
  [p EXCEPT !.fields = [f \in EVENT_FIELDS |-> IF c.fields[f] = NULL THEN p.fields[f]
                                               ELSE c.fields[f]],
            !.id = IF c.setsId THEN c.id ELSE p.id]

\* Mutation of Republished: the contents as they came are hashed.
RepublishedFromRaw(p) ==
  ToJson(Normalised(p), EventId([f \in EVENT_FIELDS |-> p.fields[f].text]))

\* Mutation of Republished: the event_id that came or was given is kept.
RepublishedKeepsId(p) == ToJson(Normalised(p), p.id)

\* candidate_json, for a corrected payload that is valid.
Republished(p) == ToJson(Normalised(p), EventId(Normalised(p)))

\* json.loads raises an error that build_candidate_fields does not catch.
ProcessRaises(r) == r.payload.shape = "raises"

Rejects(r, c) == r.payload.shape # "object" \/ ~IsValid(Corrected(r.payload, c), r.topic)

----------------------------------------------------------------------------
(* load_corrections *)

CorrectionsLoad(a) ==
  /\ \A i \in DOMAIN a.lines : a.lines[i].partition = Partition
  /\ \A i, j \in DOMAIN a.lines : a.lines[i].offset = a.lines[j].offset => i = j

CorrectionOf(a, o) ==
  IF \E i \in DOMAIN a.lines : a.lines[i].offset = o
  THEN a.lines[CHOOSE i \in DOMAIN a.lines : a.lines[i].offset = o].correction
  ELSE NoCorrection

\* Mutation of CorrectionFor: kafka_offset of the record for its dlq_offset.
CorrectionBySource(a, o) == CorrectionOf(a, RecordAt(o).offset)

CorrectionFor(a, o) == CorrectionOf(a, o)

----------------------------------------------------------------------------

Init ==
  /\ log = [t \in ALLOWED_TOPICS |-> <<>>]
  /\ dlq = <<>>
  /\ first = 0
  /\ main = "idle"
  /\ position = 0
  /\ records = <<>>
  /\ outcomes = <<>>
  /\ inFlight = {} /\ arrived = {}
  /\ ran = <<>> /\ reports = <<>>

\* The process is gone and leaves no report.
Abort ==
  /\ main' = "idle"
  /\ UNCHANGED <<position, records, outcomes, reports>>

Start ==
  /\ main = "idle"
  /\ run < MaxRuns
  /\ \E a \in Invocations : ran' = Append(ran, a)
  /\ reports' = Append(reports, NULL)
  /\ main' = "corrections"
  /\ position' = 0
  /\ records' = <<>>
  /\ outcomes' = <<>>
  /\ UNCHANGED <<log, dlq, first, inFlight, arrived>>

LoadCorrections ==
  /\ main = "corrections"
  /\ IF CorrectionsLoad(args)
     THEN main' = "beginning" /\ UNCHANGED <<position, records, outcomes, reports>>
     ELSE Abort
  /\ UNCHANGED <<log, dlq, first, inFlight, arrived, ran>>

(* fetch_dlq_records *)

CheckBeginning ==
  /\ main = "beginning"
  /\ IF args.from >= first
     THEN main' = "end" /\ UNCHANGED <<position, records, outcomes, reports>>
     ELSE Abort
  /\ UNCHANGED <<log, dlq, first, inFlight, arrived, ran>>

\* Mutation of RangeHasArrived: no check of the end offset.
RangeUnchecked == TRUE

RangeHasArrived == args.to <= Len(dlq)

CheckEnd ==
  /\ main = "end"
  /\ IF RangeHasArrived
     THEN main' = "reading" /\ position' = args.from /\ UNCHANGED <<records, outcomes, reports>>
     ELSE Abort
  /\ UNCHANGED <<log, dlq, first, inFlight, arrived, ran>>

ReadMessage ==
  /\ main = "reading"
  /\ position >= first /\ position < Len(dlq)
  /\ position' = position + 1
  /\ IF position >= args.to
     THEN main' = "read" /\ UNCHANGED records
     ELSE records' = Append(records, position) /\ UNCHANGED main
  /\ UNCHANGED <<log, dlq, first, outcomes, inFlight, arrived, ran, reports>>

\* The position is out of range: auto_offset_reset is left at latest.
ResetPosition ==
  /\ main = "reading"
  /\ position < first
  /\ position' = Len(dlq)
  /\ UNCHANGED <<log, dlq, first, main, records, outcomes, inFlight, arrived, ran, reports>>

\* Mutation of MayTimeOut: without consumer_timeout_ms the loop waits for a message.
NeverTimesOut == FALSE

\* No message for CONSUMER_TIMEOUT_MS: there is none, or the broker is slow.
MayTimeOut == TRUE

ReadTimesOut ==
  /\ main = "reading"
  /\ MayTimeOut
  /\ main' = "read"
  /\ UNCHANGED <<log, dlq, first, position, records, outcomes, inFlight, arrived, ran, reports>>

\* Mutation of RangeWasRead: no check after the loop.
RangeNotVerified == TRUE

RangeWasRead == position >= args.to

CheckPosition ==
  /\ main = "read"
  /\ IF RangeWasRead
     THEN main' = "replaying" /\ UNCHANGED <<position, records, outcomes, reports>>
     ELSE Abort
  /\ UNCHANGED <<log, dlq, first, inFlight, arrived, ran>>

----------------------------------------------------------------------------
(* replay: each record in turn *)

Replaying == main = "replaying" /\ records # <<>>
o1 == Head(records)

\* The filters --original-topic and --reason-code.
Wanted(a, r) == r.topic = a.topic /\ (a.reason = NULL \/ r.reason = a.reason)

Settle(status) ==
  /\ outcomes' = [o \in DOMAIN outcomes \cup {o1} |-> IF o = o1 THEN status ELSE outcomes[o]]
  /\ records' = Tail(records)
  /\ main' = "replaying"
  /\ UNCHANGED <<position, reports>>

Skip ==
  /\ Replaying
  /\ ~Wanted(args, RecordAt(o1))
  /\ records' = Tail(records)
  /\ UNCHANGED <<log, dlq, first, main, position, outcomes, inFlight, arrived, ran, reports>>

Attempt == Replaying /\ Wanted(args, RecordAt(o1))

\* What was sent before is in the topic, and in no report.
Raise ==
  /\ Attempt
  /\ ProcessRaises(RecordAt(o1))
  /\ Abort
  /\ UNCHANGED <<log, dlq, first, inFlight, arrived, ran>>

Reject ==
  /\ Attempt
  /\ ~ProcessRaises(RecordAt(o1))
  /\ Rejects(RecordAt(o1), CorrectionFor(args, o1))
  /\ Settle("rejected")
  /\ UNCHANGED <<log, dlq, first, inFlight, arrived, ran>>

CanSend ==
  /\ Attempt
  /\ ~ProcessRaises(RecordAt(o1))
  /\ ~Rejects(RecordAt(o1), CorrectionFor(args, o1))

DryRun ==
  /\ CanSend
  /\ ~args.execute
  /\ Settle("dry_run")
  /\ UNCHANGED <<log, dlq, first, inFlight, arrived, ran>>

ThisMessage ==
  [run |-> run, offset |-> o1,
   payload |-> Republished(Corrected(RecordAt(o1).payload, CorrectionFor(args, o1)))]

Send ==
  /\ CanSend
  /\ args.execute
  /\ inFlight' = inFlight \cup {ThisMessage}
  /\ main' = "waiting"
  /\ UNCHANGED <<log, dlq, first, position, records, outcomes, arrived, ran, reports>>

SendRaises ==
  /\ CanSend
  /\ args.execute
  /\ Settle("failed")
  /\ UNCHANGED <<log, dlq, first, inFlight, arrived, ran>>

\* Mutation of Acknowledged: the result of send is not waited for.
TakenBySend == TRUE

Acknowledged == ThisMessage \in arrived

Replayed ==
  /\ main = "waiting"
  /\ Acknowledged
  /\ Settle("replayed")
  /\ UNCHANGED <<log, dlq, first, inFlight, arrived, ran>>

\* future.get raises: after 30 seconds, or because the client has given the record up.
\* It may have arrived, or still arrive.
NotAcknowledged ==
  /\ main = "waiting"
  /\ Settle("failed")
  /\ UNCHANGED <<log, dlq, first, inFlight, arrived, ran>>

\* flush (its errors are only noted), write_report, and the end of main.
WriteReport ==
  /\ main = "replaying" /\ records = <<>>
  /\ reports' = [reports EXCEPT ![run] =
       [outcomes |-> outcomes,
        exit |-> IF \E o \in DOMAIN outcomes : outcomes[o] = "failed" THEN "error" ELSE "success"]]
  /\ main' = "idle"
  /\ UNCHANGED <<log, dlq, first, position, records, outcomes, inFlight, arrived, ran>>

ReplayStep ==
  \/ LoadCorrections \/ CheckBeginning \/ CheckEnd
  \/ ReadMessage \/ ResetPosition \/ ReadTimesOut \/ CheckPosition
  \/ Skip \/ Raise \/ Reject \/ DryRun \/ Send \/ SendRaises \/ Replayed \/ NotAcknowledged
  \/ WriteReport

----------------------------------------------------------------------------
(* Around the replayer *)

\* The process is killed.
Die ==
  /\ main # "idle"
  /\ Abort
  /\ UNCHANGED <<log, dlq, first, inFlight, arrived, ran>>

\* The broker appends a record; retries is 0, so once.
Arrive ==
  \E m \in inFlight :
    /\ log' = [log EXCEPT ![RecordAt(m.offset).topic] = Append(@, m.payload)]
    /\ arrived' = arrived \cup {m}
    /\ inFlight' = inFlight \ {m}
    /\ UNCHANGED <<dlq, first, main, position, records, outcomes, ran, reports>>

\* raw_zone_consumer writes a rejected record, possibly one it has written before.
RejectedAgain ==
  /\ Len(dlq) < MaxDlq
  /\ \E r \in Rejections : dlq' = Append(dlq, r)
  /\ UNCHANGED <<log, first, main, position, records, outcomes, inFlight, arrived, ran, reports>>

\* retention.ms of the DLQ topic.
Expire ==
  /\ first < Len(dlq)
  /\ first' = first + 1
  /\ UNCHANGED <<log, dlq, main, position, records, outcomes, inFlight, arrived, ran, reports>>

Next == Start \/ ReplayStep \/ Die \/ Arrive \/ RejectedAgain \/ Expire

\* A running replayer goes on: none of its calls waits without a limit.
Spec == Init /\ [][Next]_vars /\ WF_vars(ReplayStep)

----------------------------------------------------------------------------
(* Properties *)

\* The types of the variables; the consumer stays within the DLQ.
TypeOK ==
  /\ TopicsTypeOK
  /\ first \in 0 .. Len(dlq)
  /\ main \in {"idle", "corrections", "beginning", "end", "reading", "read", "replaying",
               "waiting"}
  /\ main # "idle" => run > 0
  /\ main = "waiting" => records # <<>>
  /\ position \in 0 .. Len(dlq)
  /\ records \in Seq(0 .. Len(dlq) - 1)
  /\ DOMAIN outcomes \subseteq 0 .. Len(dlq) - 1
  /\ \A o \in DOMAIN outcomes : outcomes[o] \in {"replayed", "rejected", "failed", "dry_run"}
  /\ inFlight \subseteq Message /\ arrived \subseteq Message
  /\ ran \in Seq(Invocations)
  /\ Len(reports) = run

Arrived(n, o) == \E m \in arrived : m.run = n /\ m.offset = o

\* What a report says is what happened: a record it calls replayed is in its topic, one
\* that is in the topic is called replayed or failed, however late it came; and if the
\* run ended without an error, the replayed ones are exactly those in the topic.
ReportTells ==
  \A n \in DOMAIN reports : reports[n] # NULL =>
    LET status == reports[n].outcomes IN
    /\ \A o \in DOMAIN status : status[o] = "replayed" => Arrived(n, o)
    /\ \A m \in arrived : m.run = n =>
         /\ m.offset \in DOMAIN status
         /\ \/ status[m.offset] = "replayed"
            \/ status[m.offset] = "failed" /\ reports[n].exit = "error"

LinesFor(a, o) == {i \in DOMAIN a.lines : a.lines[i].offset = o}

\* A record reaches its topic only if the run was to execute, its range and filters have
\* it, and it is valid today: as the one line for its offset of this partition corrects
\* it, or as it came if there is none.  So a second copy that the DLQ has of the record
\* gets no correction, and stays out unless it is valid without.
SentAsItsLineSays ==
  \A m \in arrived :
    LET a == ran[m.run]
        r == RecordAt(m.offset)
        Sends(p) == IsValid(p, r.topic) /\ m.payload = Republished(p)
    IN  /\ a.execute
        /\ m.offset \in a.from .. a.to - 1
        /\ Wanted(a, r)
        /\ \/ LinesFor(a, m.offset) = {} /\ Sends(r.payload)
           \/ \E i \in LinesFor(a, m.offset) :
                /\ LinesFor(a, m.offset) = {i}
                /\ a.lines[i].partition = Partition
                /\ Sends(Corrected(r.payload, a.lines[i].correction))

Given(m) ==
  {ran[m.run].lines[i].correction.fields : i \in LinesFor(ran[m.run], m.offset)}

\* A run that is repeated, after an error half-way, a time-out or a death, sends what it
\* sent before exactly as before, and copies of a record are sent alike: equal fields
\* under equal corrections give one message with one event_id, whatever event_ids came
\* with the records or were given for them.  So Silver takes them for one event.
RepeatsSendTheSame ==
  \A m, n \in arrived :
    /\ RecordAt(m.offset).payload.fields = RecordAt(n.offset).payload.fields
    /\ Given(m) = Given(n)
    => m.payload = n.payload

\* What the replayer has put in a topic passes today's validation, and its event_id
\* is the hash of the contents that Bronze will have.
SentIsAccepted ==
  \A t \in ALLOWED_TOPICS : \A i \in DOMAIN log[t] :
    /\ IsValid(log[t][i], t)
    /\ log[t][i].id = EventId(Normalised(log[t][i]))

Complete(n) ==
  \A o \in ran[n].from .. ran[n].to - 1 :
    Wanted(ran[n], RecordAt(o)) => o \in DOMAIN reports[n].outcomes

\* The docstring of fetch_dlq_records (dlq_replayer.py:121): a run gets past it only if
\* it has read all of its range, so that a report speaks of every record of it.
RangeIsComplete == \A n \in DOMAIN reports : reports[n] # NULL => Complete(n)

\* It does if retention has not reached the range.
RangeIsCompleteUnlessExpired ==
  \A n \in DOMAIN reports : reports[n] # NULL /\ first <= ran[n].from => Complete(n)

\* A replayer that is started ends.
ReplayEnds == main # "idle" ~> main = "idle"
=============================================================================
