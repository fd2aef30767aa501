------------------------------ MODULE OwnerLog ------------------------------
(***************************************************************************)
(* What the files of the shared cap owner amount to, and what CapOwner     *)
(* takes for granted: a log that only grows, by one announced record at a  *)
(* time, and a switch to the payload WAL that is never taken back.         *)
(***************************************************************************)
EXTENDS Sequences

CONSTANTS
    Records,   \* the records a log may hold
    None       \* no announced record

VARIABLES
    log,       \* the published records
    pend,      \* the record that is announced and not yet published, or None
    bound      \* whether the runtime requires its payload WAL

logVars == <<log, pend, bound>>

LogInit == log = <<>> /\ pend = None /\ bound = FALSE

Announce(d) ==
    /\ pend = None
    /\ pend' = d
    /\ UNCHANGED <<log, bound>>

Publish ==
    /\ pend # None
    /\ log' = Append(log, pend)
    /\ pend' = None
    /\ UNCHANGED bound

\* The switch is made between two records.
Bind ==
    /\ pend = None
    /\ bound' = TRUE
    /\ UNCHANGED <<log, pend>>

LogNext == (\E d \in Records : Announce(d)) \/ Publish \/ Bind

LogSpec == LogInit /\ [][LogNext]_logVars
=============================================================================
