---------------------------- MODULE RejectionSlot ----------------------------
(***************************************************************************)
(* What the attempt-wide rejection gate promises, without files, locks or  *)
(* crashes: one write-once rejection slot per route attempt, native side   *)
(* effects only while it is empty, and one acknowledgement of the          *)
(* rejection that owns it.                                                 *)
(***************************************************************************)
CONSTANTS
    Procs,        \* the cooperating processes
    Rejections,   \* the commit identities a broker may ask for
    Receipts,     \* the owner receipts an acknowledgement may bind
    None          \* an absent record

VARIABLES
    rejection,    \* the rejection that owns the slot, or None
    receipt,      \* the receipt that acknowledges it, or None
    active        \* the processes inside a guarded side effect

slotVars == <<rejection, receipt, active>>

SlotInit == rejection = None /\ receipt = None /\ active = {}

\* A side effect begins while the slot is empty ...
BeginEffect(p) ==
    /\ rejection = None
    /\ active' = active \cup {p}
    /\ UNCHANGED <<rejection, receipt>>

\* ... and ends, by returning or with its process.
EndEffect(p) ==
    /\ active' = active \ {p}
    /\ UNCHANGED <<rejection, receipt>>

\* A rejection takes the slot once and for all, while no side effect runs.
Reject(r) ==
    /\ rejection = None /\ active = {}
    /\ rejection' = r
    /\ UNCHANGED <<receipt, active>>

\* The owner acknowledges the rejection once.
Acknowledge(a) ==
    /\ rejection # None /\ receipt = None
    /\ receipt' = a
    /\ UNCHANGED <<rejection, active>>

SlotNext ==
    \/ \E p \in Procs : BeginEffect(p) \/ EndEffect(p)
    \/ \E r \in Rejections : Reject(r)
    \/ \E a \in Receipts : Acknowledge(a)

SlotSpec == SlotInit /\ [][SlotNext]_slotVars
=============================================================================
