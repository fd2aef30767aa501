-------------------------- MODULE MCAttemptJournal --------------------------
(* Instances of AttemptJournal for TLC. *)
EXTENDS AttemptJournal, TLC

RunnerSymmetry == Permutations(Runners)
=============================================================================
