----------------------------- MODULE PhaseSwitch -----------------------------
(***************************************************************************)
(* What the attempt execution phase owner promises, without files, locks,  *)
(* crashes or forks: one attempt has normal work first and cleanup work    *)
(* afterwards, it switches once, on one transition, and the two kinds of   *)
(* work never overlap, neither with each other nor with the switch.        *)
(***************************************************************************)
CONSTANTS
    Procs,         \* the cooperating processes
    Transitions,   \* the cleanup transitions a failed attempt may ask for
    None           \* no transition

VARIABLES
    transition,    \* the transition that ended the normal phase, or None
    working,       \* the processes inside usable normal work
    cleaning       \* the processes inside cleanup work

switchVars == <<transition, working, cleaning>>

SwitchInit == transition = None /\ working = {} /\ cleaning = {}

BeginWork(p) ==
    /\ transition = None /\ working = {}
    /\ working' = {p}
    /\ UNCHANGED <<transition, cleaning>>

EndWork(p) ==
    /\ working' = working \ {p}
    /\ UNCHANGED <<transition, cleaning>>

\* Normal work has to be over before the transition becomes durable.
Switch(t) ==
    /\ transition = None /\ working = {}
    /\ transition' = t
    /\ UNCHANGED <<working, cleaning>>

BeginCleaning(p) ==
    /\ transition # None /\ cleaning = {}
    /\ cleaning' = {p}
    /\ UNCHANGED <<transition, working>>

EndCleaning(p) ==
    /\ cleaning' = cleaning \ {p}
    /\ UNCHANGED <<transition, working>>

SwitchNext ==
    \/ \E p \in Procs : \/ BeginWork(p) \/ EndWork(p)
                        \/ BeginCleaning(p) \/ EndCleaning(p)
    \/ \E t \in Transitions : Switch(t)

SwitchSpec == SwitchInit /\ [][SwitchNext]_switchVars
=============================================================================
