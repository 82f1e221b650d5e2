--------------------------- MODULE MCSilverEvents ---------------------------
(* Small instances of SilverEvents: a data interval of three units, an overlap of one. *)
EXTENDS SilverEvents

CONSTANTS resent, single

\* An event that was sent twice, to different partitions, and one sent once.
MCId == {resent, single}
MCRecord ==
  {[id |-> resent, partition |-> 0, offset |-> 0],
   [id |-> resent, partition |-> 1, offset |-> 0],
   [id |-> single, partition |-> 0, offset |-> 1]}

\* The first interval again, and the end of the first day with the start of the second.
MCWindows == {[from |-> 0, to |-> 3], [from |-> 2, to |-> 5]}

\* Event dates lie outside the days of ingestion.
MCEventDate == [i \in MCId |-> 100]

\* The second event's time does not parse.
MCOneUndated == [i \in MCId |-> IF i = resent THEN 100 ELSE NULL]
=============================================================================
