----------------------------- MODULE MCEventLog -----------------------------
(* Symmetry of the processes and the message ids, for the safety runs.      *)
EXTENDS EventLog, TLC

ProcsAndIds == Permutations(Procs) \union Permutations(Ids)
=============================================================================
