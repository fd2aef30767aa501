---------------------------- MODULE MCPhaseOwner ----------------------------
(* Instance of PhaseOwner for TLC. *)
EXTENDS PhaseOwner, TLC

PhaseSymmetry == Permutations(Procs)
MCExpectedIds ==
    {[failure |-> "lifecycle", gate |-> "OPEN", tail |-> 0],
     [failure |-> "cap", gate |-> "ACKNOWLEDGED", tail |-> 1]}
=============================================================================
