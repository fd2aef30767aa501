---------------------------- MODULE MCMathCache ----------------------------
(* The instance of MathCache for TLC: an epoch, the access inside it and    *)
(* the facade its body enters need three frames.  No symmetry, since it     *)
(* checks a liveness property too.                                          *)
EXTENDS MathCache
=============================================================================
