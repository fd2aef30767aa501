------------------------------ MODULE CapLedger ------------------------------
(***************************************************************************)
(* What the shared cap owner promises, without journal, locks or crashes:  *)
(* every operation is admitted at most once and only under the hard cap,   *)
(* starts its native effect at most once, is charged at most once, and     *)
(* nothing is admitted or started once the attempt is closed.              *)
(***************************************************************************)
EXTENDS Integers, FiniteSets, FiniteSetsExt

CONSTANTS
    Ops,        \* the operations
    Paths,      \* the shared resource paths
    MaxPaths,   \* those of them reduced by MAX; the others by SUM
    Cap,        \* the hard cap of each path
    Requests,   \* the reservation requests: [op, path, upper]
    Charges,    \* the values an operation may be charged
    None        \* no request, no charge

VARIABLES
    admitted,   \* the request each operation was admitted with, or None
    started,    \* the operations whose native effect may have begun
    spent,      \* what each operation was charged, or None
    closed      \* whether the attempt has been rejected

ledgerVars == <<admitted, started, spent, closed>>

On(path) == {o \in Ops : admitted[o] # None /\ admitted[o].path = path}
Unspent(path) == {o \in On(path) : spent[o] = None}
Spent(path) == On(path) \ Unspent(path)

Outstanding(path) == MapThenSumSet(LAMBDA o : admitted[o].upper, Unspent(path))
Charged(path) ==
    IF path \in MaxPaths
      THEN Max({0} \cup {spent[o] : o \in Spent(path)})
      ELSE MapThenSumSet(LAMBDA o : spent[o], Spent(path))

\* An operation was charged more than it had reserved.
Overrun == \E o \in Ops : spent[o] # None /\ spent[o] > admitted[o].upper

LedgerInit ==
    /\ admitted = [o \in Ops |-> None]
    /\ started = {}
    /\ spent = [o \in Ops |-> None]
    /\ closed = FALSE

Fits(r) ==
    IF r.path \in MaxPaths
      THEN Outstanding(r.path) = 0 /\ Max({Charged(r.path), r.upper}) <= Cap[r.path]
      ELSE Charged(r.path) + Outstanding(r.path) + r.upper <= Cap[r.path]

Admit(r) ==
    /\ admitted[r.op] = None
    /\ admitted' = [admitted EXCEPT ![r.op] = r]
    /\ ~closed /\ ~Overrun /\ Fits(r)
    /\ UNCHANGED <<started, spent, closed>>

Start(o) ==
    /\ admitted[o] # None /\ spent[o] = None /\ o \notin started
    /\ started' = started \cup {o}
    /\ ~closed /\ ~Overrun
    /\ UNCHANGED <<admitted, spent, closed>>

\* What never started costs nothing.
Spend(o, charge) ==
    /\ admitted[o] # None /\ spent[o] = None
    /\ o \notin started => charge = 0
    /\ spent' = [spent EXCEPT ![o] = charge]
    /\ UNCHANGED <<admitted, started, closed>>

Close ==
    /\ ~closed
    /\ closed' = TRUE
    /\ UNCHANGED <<admitted, started, spent>>

LedgerNext ==
    \/ \E r \in Requests : Admit(r)
    \/ \E o \in Ops : Start(o) \/ \E charge \in Charges : Spend(o, charge)
    \/ Close

LedgerSpec == LedgerInit /\ [][LedgerNext]_ledgerVars
=============================================================================
