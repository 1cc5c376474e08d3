---------------------------- MODULE MCRunSummary ----------------------------
(* The services are alike.                                                  *)
EXTENDS RunSummary, TLC

Symmetry == Permutations(Runners)
=============================================================================
