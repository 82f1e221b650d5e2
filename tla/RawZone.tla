-------------------------------- MODULE RawZone --------------------------------
(***************************************************************************)
(* code/pipelines/ingestion/raw_zone_consumer.py: the Flink job of one     *)
(* topic.  Each record is validated and goes to Bronze or to the DLQ.      *)
(*                                                                         *)
(* What the job's settings make Flink do: rows go to part files that a     *)
(* checkpoint closes and that are finished after it has completed; the DLQ *)
(* sink (at-least-once) is flushed before a checkpoint; offsets of the     *)
(* consumer group are committed after it.  A failing task restarts from    *)
(* the last checkpoint.  A job submitted anew, after it was cancelled or   *)
(* the cluster died, starts at the group's offsets (earliest without any)  *)
(* and knows nothing of the checkpoints before.  Metrics are left out.     *)
(***************************************************************************)
EXTENDS EventTopics

CONSTANTS
  Topic,          \* --topic
  MaxFailovers,   \* bound: restarts from a checkpoint
  MaxSubmissions  \* bound: submissions of the job

ASSUME RawZoneAssumption ==
  /\ NULL \notin Nat /\ NULL \notin ReasonCodes
  /\ Topic \in ALLOWED_TOPICS
  /\ MaxFailovers \in Nat /\ MaxSubmissions \in Nat

VARIABLES
  job,          \* "running" or "stopped"
  position,     \* next offset the source reads
  open,         \* offsets of the rows in part files of no checkpoint yet
  unfinished,   \* offsets of the rows in part files closed by a completed checkpoint
  checkpoint,   \* the source's position in the last checkpoint of this job, or NULL
  uncommitted,  \* that position is still to be committed to the group
  group,        \* committed offset of the consumer group, or NULL
  buffered,     \* offsets of the rejected records in the DLQ sink's buffer
  bronze,       \* finished rows by their offset, kafka_offset of raw_zone_sink: how often
  failovers, submissions,
  lost          \* history: offsets passed over by the group whose files were dropped

flink == <<job, position, open, unfinished, checkpoint, uncommitted, group, buffered,
           bronze, failovers, submissions, lost>>

Offsets == 0 .. Len(log[Topic]) - 1
PayloadAt(o) == log[Topic][o + 1]
InDlq(o) == \E i \in DOMAIN dlq : dlq[i].topic = Topic /\ dlq[i].offset = o
InBronze(o) == o \in DOMAIN bronze

\* The row of raw_zone_sink.
RowAt(o) == [contents |-> Normalised(PayloadAt(o)), id |-> PayloadAt(o).id]

Finish(files) ==
  [o \in DOMAIN bronze \cup files |->
     (IF o \in DOMAIN bronze THEN bronze[o] ELSE 0) + (IF o \in files THEN 1 ELSE 0)]

InitRawZone ==
  /\ job = "stopped"
  /\ position = 0
  /\ open = {} /\ unfinished = {}
  /\ checkpoint = NULL
  /\ uncommitted = FALSE
  /\ group = NULL
  /\ buffered = {}
  /\ bronze = <<>>
  /\ failovers = 0 /\ submissions = 0
  /\ lost = {}

\* Mutation of StartPosition: scan.startup.mode latest-offset.
StartPositionLatest == Len(log[Topic])

\* scan.startup.mode group-offsets, auto.offset.reset earliest.
StartPosition == IF group = NULL THEN 0 ELSE group

Submit ==
  /\ job = "stopped"
  /\ submissions < MaxSubmissions
  /\ job' = "running"
  /\ submissions' = submissions + 1
  /\ position' = StartPosition
  /\ UNCHANGED <<log, dlq, open, unfinished, checkpoint, uncommitted, group, buffered,
                 bronze, failovers, lost>>

\* parse_and_validate, and the two inserts: v.is_valid to Bronze, the rest to the DLQ.
Route ==
  /\ job = "running"
  /\ position \in Offsets
  /\ position' = position + 1
  /\ IF IsValid(PayloadAt(position), Topic)
     THEN open' = open \cup {position} /\ UNCHANGED buffered
     ELSE buffered' = buffered \cup {position} /\ UNCHANGED open
  /\ UNCHANGED <<log, dlq, job, unfinished, checkpoint, uncommitted, group, bronze,
                 failovers, submissions, lost>>

WriteDlq ==
  /\ job = "running"
  /\ \E o \in buffered :
       /\ dlq' = Append(dlq, DlqRecordAt(Topic, o))
       /\ buffered' = buffered \ {o}
  /\ UNCHANGED <<log, job, position, open, unfinished, checkpoint, uncommitted, group,
                 bronze, failovers, submissions, lost>>

\* Mutation of Flushed: sink.delivery-guarantee none.
NeedNotFlush == TRUE

\* sink.delivery-guarantee at-least-once
Flushed == buffered = {}

\* A checkpoint completes at the present position.
Checkpoint ==
  /\ job = "running"
  /\ Flushed
  /\ position # checkpoint \/ (position # group /\ ~uncommitted)
  /\ checkpoint' = position
  /\ uncommitted' = TRUE
  /\ unfinished' = unfinished \cup open
  /\ open' = {}
  /\ UNCHANGED <<log, dlq, job, position, group, buffered, bronze, failovers, submissions,
                 lost>>

\* Sinks and source learn of the completed checkpoint one after the other.
FinishFiles ==
  /\ job = "running"
  /\ unfinished # {}
  /\ bronze' = Finish(unfinished)
  /\ unfinished' = {}
  /\ UNCHANGED <<log, dlq, job, position, open, checkpoint, uncommitted, group, buffered,
                 failovers, submissions, lost>>

CommitOffsets ==
  /\ job = "running"
  /\ uncommitted
  /\ group' = checkpoint
  /\ uncommitted' = FALSE
  /\ UNCHANGED <<log, dlq, job, position, open, unfinished, checkpoint, buffered, bronze,
                 failovers, submissions, lost>>

\* Mutation of RestartPosition: the group's offset, as without checkpointing.
RestartFromGroup == StartPosition

RestartPosition == IF checkpoint = NULL THEN StartPosition ELSE checkpoint

\* A task fails and restarts.  The files of the checkpoint are finished, open ones dropped.
Failover ==
  /\ job = "running"
  /\ failovers < MaxFailovers
  /\ failovers' = failovers + 1
  /\ position' = RestartPosition
  /\ bronze' = Finish(unfinished)
  /\ unfinished' = {}
  /\ open' = {}
  /\ buffered' = {}
  /\ uncommitted' = FALSE
  /\ UNCHANGED <<log, dlq, job, checkpoint, group, submissions, lost>>

\* The job is cancelled, or goes down with the cluster.
Stop ==
  /\ job = "running"
  /\ job' = "stopped"
  /\ lost' = lost \cup {o \in unfinished : o < StartPosition}
  /\ open' = {} /\ unfinished' = {} /\ buffered' = {}
  /\ checkpoint' = NULL
  /\ uncommitted' = FALSE
  /\ UNCHANGED <<log, dlq, position, group, bronze, failovers, submissions>>

JobStep == Route \/ WriteDlq \/ Checkpoint \/ FinishFiles \/ CommitOffsets
FlinkStep == JobStep \/ Failover \/ Stop \/ Submit

----------------------------------------------------------------------------
(* Properties *)

RawZoneTypeOK ==
  /\ job \in {"running", "stopped"}
  /\ position \in 0 .. Len(log[Topic])
  /\ open \subseteq Offsets /\ unfinished \subseteq Offsets /\ buffered \subseteq Offsets
  /\ checkpoint \in 0 .. Len(log[Topic]) \cup {NULL}
  /\ group \in 0 .. Len(log[Topic]) \cup {NULL}
  /\ uncommitted \in BOOLEAN
  /\ DOMAIN bronze \subseteq Offsets
  /\ \A o \in DOMAIN bronze : bronze[o] \in Nat \ {0}
  /\ failovers \in 0 .. MaxFailovers
  /\ submissions \in 0 .. MaxSubmissions
  /\ lost \subseteq Offsets

Routed(o) == InDlq(o) \/ InBronze(o)

\* No offset from which the job may start again lies beyond a record that is neither in
\* the DLQ nor in Bronze nor in a file that a completed checkpoint will finish; except
\* for files dropped because the job stopped between committing offsets and finishing.
RecordsAreKept ==
  \A o \in Offsets :
    \/ Routed(o)
    \/ o \in unfinished \cup lost
    \/ o >= RestartPosition

\* Task restarts alone neither lose a record nor write a row twice: Bronze has a row at
\* most once for each submission of the job, and loses one only if the job was stopped.
RestartsWriteOnce ==
  /\ \A o \in DOMAIN bronze : bronze[o] <= submissions
  /\ submissions < 2 /\ job = "running" => lost = {}
=============================================================================
