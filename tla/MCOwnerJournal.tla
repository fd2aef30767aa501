--------------------------- MODULE MCOwnerJournal ---------------------------
(* The instance of OwnerJournal for TLC; no symmetry, since it checks a     *)
(* liveness property too.                                                  *)
EXTENDS OwnerJournal
=============================================================================
