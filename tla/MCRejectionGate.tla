-------------------------- MODULE MCRejectionGate --------------------------
(* The instance of RejectionGate for TLC; no symmetry, since it checks a    *)
(* liveness property too.                                                  *)
EXTENDS RejectionGate
=============================================================================
