---------------------------- MODULE MCCleanupJob ----------------------------
(***************************************************************************)
(* Small instances of CleanupJob for TLC.                                  *)
(***************************************************************************)
EXTENDS CleanupJob, TLC

Symmetry == Permutations(Processes) \cup Permutations(Credentials)

=============================================================================
