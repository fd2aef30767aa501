--------------------------- MODULE MCAtomicAttempt ---------------------------
(* The instances of AtomicAttempt that TLC checks. *)
EXTENDS AtomicAttempt
==============================================================================
