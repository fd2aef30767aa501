----------------------------- MODULE MCCapOwner -----------------------------
(* The instance of CapOwner for TLC. *)
EXTENDS CapOwner, TLC

CapSymmetry == Permutations(Procs)

Req(o, path, upper) == [op |-> o, path |-> path, upper |-> upper]
Value(basis, value) == [basis |-> basis, value |-> value]

\* A SUM path shared by two operations that together exceed its cap, and a MAX
\* path; the second operation is asked for on either, and may overrun.
MCCap == [x \in {"sum", "peak"} |-> 2]
MCRequests == {Req("o1", "sum", 1), Req("o2", "sum", 2), Req("o2", "peak", 1)}
MCSettlements ==
    {Value("EXACT", 1), Value("KNOWN_NOT_STARTED_ZERO", 0),
     Value("CONSERVATIVE_RESERVATION_UPPER", 0), Value("OBSERVED_OVERRUN", 3)}
=============================================================================
