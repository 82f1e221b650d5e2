----------------------------- MODULE TableVersions -----------------------------
(***************************************************************************)
(* What the tables of the lakehouse promise while jobs write them and      *)
(* maintenance rewrites and removes their files: only a job's commit       *)
(* changes what a table contains, and every version that was current can   *)
(* be read until it is older than the retention.                           *)
(*                                                                         *)
(* A commit sets the row of a table's one key to a new value.              *)
(***************************************************************************)
EXTENDS Integers

CONSTANTS
  Table,
  Values,    \* the values a row can have
  Retention  \* a version at most this old is kept

VARIABLES
  now,
  contents,  \* the current rows of each table
  versions   \* the versions of each table that can be read

vars == <<now, contents, versions>>

Version == [time : Nat, rows : SUBSET Values]

Init ==
  /\ now = 0
  /\ contents = [t \in Table |-> {0}]
  /\ versions = [t \in Table |-> {[time |-> 0, rows |-> {0}]}]

Wait ==
  /\ now' = now + 1
  /\ UNCHANGED <<contents, versions>>

Current(t) == [time |-> now, rows |-> contents[t]]

\* A job commits a value that the table has not had.
Commit(t) ==
  /\ \E x \in Values :
       /\ \A v \in versions[t] : x \notin v.rows
       /\ contents' = [contents EXCEPT ![t] = {x}]
  /\ versions' = [versions EXCEPT ![t] = @ \cup {Current(t)'}]
  /\ UNCHANGED now

\* The same rows in other files.
Rewrite(t) ==
  /\ versions' = [versions EXCEPT ![t] = @ \cup {Current(t)}]
  /\ UNCHANGED <<now, contents>>

\* Old versions are removed, the current one stays.
Forget(t) ==
  /\ \E removed \in SUBSET {v \in versions[t] : v.time < now - Retention} :
       versions' = [versions EXCEPT ![t] = @ \ removed]
  /\ \E v \in versions'[t] : v.rows = contents[t]
  /\ UNCHANGED <<now, contents>>

Next == Wait \/ \E t \in Table : Commit(t) \/ Rewrite(t) \/ Forget(t)

Spec == Init /\ [][Next]_vars
=============================================================================
