----------------------------- MODULE MCMaintenance -----------------------------
(***************************************************************************)
(* An instance of Maintenance for TLC: the weekly DAGs with their          *)
(* defaults, and all steps by hand, with options for the delete files.     *)
(***************************************************************************)
EXTENDS Maintenance

CONSTANTS silver, gold

MCTable == {silver, gold}
MCMOR == {silver}

\* A retry of the compaction is what another run of it is, as nothing in it depends on the
\* time it was due; so it has none here.
Compaction ==
  [tables |-> <<silver>>, steps |-> REWRITE_FILES,
   retention |-> NULL, all |-> {}, retries |-> 0]
Cleanup ==
  [tables |-> <<silver, gold>>, steps |-> CLEANUP_STEPS, retention |-> 1, all |-> {},
   retries |-> 1]
ByHand ==
  [tables |-> <<silver>>, steps |-> ToSet(STEP_ORDER), retention |-> 1,
   all |-> {"rewrite_position_delete_files"}, retries |-> 0]

MCInvocations == {Compaction, Cleanup, ByHand}
=============================================================================
