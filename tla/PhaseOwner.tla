------------------------------ MODULE PhaseOwner ------------------------------
(***************************************************************************)
(* The attempt execution phase owner,                                      *)
(* construction_k7_h1_attempt_execution_phase_owner_v1.py: the one-way     *)
(* change of an attempt from normal work to cleanup.  Its durable state is *)
(* the specification, the allocation record, the transition intent in the  *)
(* attempt directory, its hard links in the root (the seal) and beside it  *)
(* (the commit), and the cursor.  Its calls take three locks in one order, *)
(* PHASE, then GATE, then OWNER; an initialization takes the allocation    *)
(* lock before PHASE.                                                      *)
(*                                                                         *)
(* The rejection gate is the write-once slot of RejectionSlot, which       *)
(* RejectionGate implements; the shared cap owner is the length of its     *)
(* journal.  Their own calls run here beside the phase owner's.            *)
(*                                                                         *)
(* Every durable write is a step of its own.  A process may be killed at   *)
(* any step, and an OSError may end the call there; both may leave a torn  *)
(* cursor frame or a temporary file.  Hard links of one inode are equal    *)
(* values here.                                                            *)
(***************************************************************************)
EXTENDS Integers, Sequences, FiniteSets

CONSTANTS
    Procs,         \* the cooperating processes, one thread each
    Specs,         \* the phase specifications an attempt may be given
    Failures,      \* the primary failures a dispatch trace may end in
    CapFailures,   \* those of them that are cap rejections
    Rejections,    \* the rejections of the gate
    Receipts,      \* the owner receipts that acknowledge them
    None,          \* an absent file, record or lock holder
    ExpectedIds,   \* the transitions a caller may ask a cleanup lease for
    MaxTail,       \* bound: records the owner journal grows to
    MaxFaults      \* bound: kills, failed writes, forks and rollbacks

GateStates == {"OPEN", "COMMITTED_UNACKNOWLEDGED", "ACKNOWLEDGED"}

\* A cleanup transition: the failure, and the gate state and owner tail its
\* evidence was attested under.
Transitions == [failure : Failures, gate : GateStates, tail : 0..MaxTail]

ASSUME NoneIsNothing ==
    /\ None \notin Procs /\ None \notin Specs /\ None \notin Transitions
    /\ None \notin Rejections /\ None \notin Receipts
ASSUME BoundsNat == MaxTail \in Nat /\ MaxFaults \in Nat
ASSUME ExpectedAreTransitions == ExpectedIds \subseteq Transitions

VARIABLES
    spec,        \* phase.spec.json, or None
    alloc,       \* the allocation record in the root, or None
    intent,      \* cleanup-intent.json, or None
    seal,        \* the transition seal in the root, or None
    commit,      \* cleanup-commit.json, or None
    cursor,      \* the records of the phase cursor; << >> is no cursor
    torn,        \* the record whose proper prefix ends the cursor, or None
    temps,       \* the processes whose temporary file was left behind
    rejection,   \* the rejection that owns the gate's slot, or None
    receipt,     \* its acknowledgement, or None
    tail,        \* how many records the owner journal has
    allocLock,   \* the holder of each lock, or None
    phaseLock,
    gateLock,
    ownerLock,
    pc,          \* where each process is
    op,          \* the call each process is in
    lease,       \* the lease each process is inside
    child,       \* processes with a forked child that inherited their lease
    out,         \* how the last call of each process ended
    faults       \* how many faults there have been

disk == <<spec, alloc, intent, seal, commit, cursor, torn, temps>>
gate == <<rejection, receipt, tail>>
locks == <<allocLock, phaseLock, gateLock, ownerLock>>
procs == <<pc, op, lease, child, out>>
phaseVars == <<disk, gate, locks, procs, faults>>

Slot == INSTANCE RejectionSlot WITH active <- {}

-----------------------------------------------------------------------------
(* Records                                                                 *)

CursorStates == <<"NORMAL", "CLEANUP_INTENT_DURABLE", "CLEANUP_ONLY">>

\* _cursor_record: the record of sequence n.
CursorRecord(n, t) ==
    [state |-> CursorStates[n + 1], transition |-> IF n = 0 THEN None ELSE t]
CursorRecords == {CursorRecord(0, None)}
                 \cup {CursorRecord(n, t) : n \in 1..2, t \in Transitions}

GateState == IF rejection = None THEN "OPEN"
             ELSE IF receipt = None THEN "COMMITTED_UNACKNOWLEDGED"
             ELSE "ACKNOWLEDGED"

\* The transition that recovery will find, in either directory.
Durable == IF intent # None THEN intent ELSE seal

\* _validate_transition_for_handle
WellClassified(t) == t.failure \in CapFailures => t.gate # "OPEN"

\* The attestations a caller may bring: of any earlier moment.  A trace that
\* ends in a cap rejection is attested only under the acknowledged gate.
Attestations ==
    {e \in Transitions :
        /\ e.tail <= tail
        /\ e.gate = "OPEN" \/ rejection # None
        /\ e.gate = "ACKNOWLEDGED" => receipt # None
        /\ e.failure \in CapFailures => e.gate = "ACKNOWLEDGED"}

-----------------------------------------------------------------------------
(* Calls                                                                   *)

LeaseKinds == {"normal", "transit", "cleanup"}
PhaseCalls ==
    [kind : {"init"}, arg : Specs]
    \cup [kind : {"replay", "normal", "transit"}, arg : {None}]
    \cup [kind : {"cleanup"}, arg : ExpectedIds]
GateCalls ==
    [kind : {"reject"}, arg : Rejections] \cup [kind : {"ack"}, arg : Receipts]
    \cup [kind : {"append"}, arg : {None}]
NoCall == [kind |-> "none", arg |-> None]
NoLease == [kind |-> "none", spent |-> FALSE, gate |-> "OPEN", transition |-> None]
Answer(what, t, g) == [what |-> what, transition |-> t, gate |-> g]
NoAnswer == Answer("none", None, "OPEN")

PhaseInit ==
    /\ spec = None /\ alloc = None
    /\ intent = None /\ seal = None /\ commit = None
    /\ cursor = << >> /\ torn = None /\ temps = {}
    /\ Slot!SlotInit /\ tail = 0
    /\ allocLock = None /\ phaseLock = None /\ gateLock = None /\ ownerLock = None
    /\ pc = [p \in Procs |-> "idle"]
    /\ op = [p \in Procs |-> NoCall]
    /\ lease = [p \in Procs |-> NoLease]
    /\ child = {}
    /\ out = [p \in Procs |-> NoAnswer]
    /\ faults = 0

Goto(p, label) == pc' = [pc EXCEPT ![p] = label]

\* The call ends with an answer; what it still holds it releases in order.
Ends(p, answer, label) ==
    /\ out' = [out EXCEPT ![p] = answer]
    /\ Goto(p, label)

\* Every call but the initialization needs a handle, so an allocation record.
StartPhaseCall(p, call) ==
    /\ pc[p] = "idle"
    /\ call.kind # "init" => alloc # None
    /\ op' = [op EXCEPT ![p] = call]
    /\ Ends(p, NoAnswer, IF call.kind = "init" THEN "alloc" ELSE "phase")
    /\ UNCHANGED <<disk, gate, locks, lease, child, faults>>

StartGateCall(p, call) ==
    /\ pc[p] = "idle"
    /\ op' = [op EXCEPT ![p] = call]
    /\ Ends(p, NoAnswer, "gate")
    /\ UNCHANGED <<disk, gate, locks, lease, child, faults>>

-----------------------------------------------------------------------------
(* Locks, all exclusive                                                    *)

AcquireAllocation(p) ==
    /\ pc[p] = "alloc" /\ allocLock = None
    /\ allocLock' = p
    /\ Goto(p, "phase")
    /\ UNCHANGED <<disk, gate, phaseLock, gateLock, ownerLock, op, lease,
                   child, out, faults>>

\* _require_handle_locked, then _cleanup_temps.
AcquirePhase(p) ==
    /\ pc[p] = "phase" /\ phaseLock = None
    /\ phaseLock' = p
    /\ Goto(p, "temps")
    /\ UNCHANGED <<disk, gate, allocLock, gateLock, ownerLock, op, lease,
                   child, out, faults>>

AcquireGate(p) ==
    /\ pc[p] = "gate" /\ gateLock = None
    /\ gateLock' = p
    /\ Goto(p, "snapshot")
    /\ UNCHANGED <<disk, gate, allocLock, phaseLock, ownerLock, op, lease,
                   child, out, faults>>

AcquireOwner(p) ==
    /\ pc[p] = "owner" /\ ownerLock = None
    /\ ownerLock' = p
    /\ Goto(p, "build")
    /\ UNCHANGED <<disk, gate, allocLock, phaseLock, gateLock, op, lease,
                   child, out, faults>>

UnlockGate(p) ==
    /\ pc[p] = "unlockGate"
    /\ gateLock' = None
    /\ Goto(p, IF phaseLock = p THEN "unlockPhase" ELSE "idle")
    /\ UNCHANGED <<disk, gate, allocLock, phaseLock, ownerLock, op, lease,
                   child, out, faults>>

UnlockPhase(p) ==
    /\ pc[p] = "unlockPhase"
    /\ phaseLock' = None
    /\ child' = child \ {p}
    /\ Goto(p, IF allocLock = p THEN "unlockAlloc" ELSE "idle")
    /\ UNCHANGED <<disk, gate, allocLock, gateLock, ownerLock, op, lease,
                   out, faults>>

\* A successful initialization goes on to replay through the new handle.
UnlockAllocation(p) ==
    /\ pc[p] = "unlockAlloc"
    /\ allocLock' = None
    /\ IF out[p].what = "none"
         THEN op' = [op EXCEPT ![p] = [kind |-> "replay", arg |-> None]]
              /\ Goto(p, "phase")
         ELSE UNCHANGED op /\ Goto(p, "idle")
    /\ UNCHANGED <<disk, gate, phaseLock, gateLock, ownerLock, lease, child,
                   out, faults>>

-----------------------------------------------------------------------------
(* Initialization                                                          *)

CleanTemps(p) ==
    /\ pc[p] = "temps"
    /\ temps' = {}
    /\ Goto(p, IF op[p].kind = "init" THEN "spec" ELSE "seal")
    /\ UNCHANGED <<spec, alloc, intent, seal, commit, cursor, torn, gate,
                   locks, op, lease, child, out, faults>>

InitSpec(p) ==
    /\ pc[p] = "spec"
    /\ \/ /\ spec \in {None, op[p].arg}
          /\ spec' = op[p].arg
          /\ Goto(p, "genesis") /\ UNCHANGED out
       \/ /\ spec \notin {None, op[p].arg}
          /\ Ends(p, Answer("crossed", None, "OPEN"), "unlockPhase")
          /\ UNCHANGED spec
    /\ UNCHANGED <<alloc, intent, seal, commit, cursor, torn, temps, gate,
                   locks, op, lease, child, faults>>

\* A retried initialization parses the cursor and does not repair it.
InitCursor(p) ==
    /\ pc[p] = "genesis"
    /\ \/ /\ cursor = << >>
          /\ cursor' = <<CursorRecord(0, None)>>
          /\ Goto(p, "allocate") /\ UNCHANGED out
       \/ /\ cursor # << >> /\ torn = None
          /\ Goto(p, "allocate") /\ UNCHANGED <<cursor, out>>
       \/ /\ cursor # << >> /\ torn # None
          /\ Ends(p, Answer("damaged", None, "OPEN"), "unlockPhase")
          /\ UNCHANGED cursor
    /\ UNCHANGED <<spec, alloc, intent, seal, commit, torn, temps, gate, locks,
                   op, lease, child, faults>>

InitAllocation(p) ==
    /\ pc[p] = "allocate"
    /\ alloc' = IF alloc = None THEN op[p].arg ELSE alloc
    /\ Goto(p, "unlockPhase")
    /\ UNCHANGED <<spec, intent, seal, commit, cursor, torn, temps, gate,
                   locks, op, lease, child, out, faults>>

-----------------------------------------------------------------------------
(* Recovery and transition: from the intent to CLEANUP_ONLY                *)
(*                                                                         *)
(* _recover_locked and the transition walk through the same durable steps, *)
(* the first at the start of every call, the second inside a lease.        *)

Transiting(p) == ownerLock = p

\* A failed check: a transition raises into the body of its lease, a recovery
\* ends its call.
Refuses(p) ==
    \/ /\ Transiting(p)
       /\ ownerLock' = None
       /\ Goto(p, "held") /\ UNCHANGED out
    \/ /\ ~Transiting(p)
       /\ Ends(p, Answer("damaged", None, "OPEN"), "unlockPhase")
       /\ UNCHANGED ownerLock

\* Mutant: a missing intent is not restored from the seal.
Reconcile_IgnoresSeal(p) ==
    /\ pc[p] = "seal"
    /\ seal' = IF intent # None THEN intent ELSE seal
    /\ Goto(p, "cursor")
    /\ UNCHANGED <<spec, alloc, intent, commit, cursor, torn, temps, gate,
                   locks, op, lease, child, out, faults>>

\* _reconcile_root_transition_seal_locked: either link restores the other.
Reconcile(p) ==
    /\ pc[p] = "seal"
    /\ \/ /\ intent = None \/ seal = None \/ intent = seal
          /\ intent' = Durable /\ seal' = Durable
          /\ Goto(p, "cursor") /\ UNCHANGED <<out, ownerLock>>
       \/ /\ intent # None /\ seal # None /\ intent # seal
          /\ Refuses(p) /\ UNCHANGED <<intent, seal>>
    /\ UNCHANGED <<spec, alloc, commit, cursor, torn, temps, gate, allocLock,
                   phaseLock, gateLock, op, lease, child, faults>>

\* _read_repairable_cursor_locked: a torn tail is cut off only if it begins
\* the next record of the durable transition.
TailRepairable ==
    torn # None => /\ intent # None /\ Len(cursor) < 3
                   /\ torn = CursorRecord(Len(cursor), intent)

\* What _recover_locked checks around it: the commit, the classification of
\* the transition, and that the cursor is about it.
RecordsAgree ==
    /\ commit # None => commit = intent
    /\ intent # None => WellClassified(intent)
    /\ Len(cursor) > 1 => cursor[Len(cursor)].transition = intent
    /\ Len(cursor) = 3 => commit # None

ReadCursor(p) ==
    /\ pc[p] = "cursor"
    /\ \/ /\ TailRepairable /\ (Transiting(p) \/ RecordsAgree)
          /\ torn' = None
          /\ Goto(p, IF intent = None \/ Len(cursor) = 3 THEN "converged"
                     ELSE IF Len(cursor) = 1 THEN "append1" ELSE "link")
          /\ UNCHANGED <<out, ownerLock>>
       \/ /\ ~(TailRepairable /\ (Transiting(p) \/ RecordsAgree))
          /\ Refuses(p) /\ UNCHANGED torn
    /\ UNCHANGED <<spec, alloc, intent, seal, commit, cursor, temps, gate,
                   allocLock, phaseLock, gateLock, op, lease, child, faults>>

\* _append_cursor
AppendRecord(p, label, next) ==
    /\ pc[p] = label
    /\ cursor' = Append(cursor, CursorRecord(Len(cursor), intent))
    /\ Goto(p, next)
    /\ UNCHANGED <<spec, alloc, intent, seal, commit, torn, temps, gate, locks,
                   op, lease, child, out, faults>>

\* Mutant: CLEANUP_ONLY is recorded before the commit is linked.
AppendIntentRecord_SkipsCommit(p) == AppendRecord(p, "append1", "append2")

AppendIntentRecord(p) == AppendRecord(p, "append1", "link")

AppendCleanupRecord(p) == AppendRecord(p, "append2", "converged")

\* _link_intent_to_commit, if the commit is not there.
LinkCommit(p) ==
    /\ pc[p] = "link"
    /\ commit' = IF commit = None THEN intent ELSE commit
    /\ Goto(p, "append2")
    /\ UNCHANGED <<spec, alloc, intent, seal, cursor, torn, temps, gate, locks,
                   op, lease, child, out, faults>>

\* The recovered state decides whether the call goes on to the gate.
Admitted(p) ==
    CASE op[p].kind \in {"normal", "transit"} -> intent = None
      [] op[p].kind = "cleanup" -> intent = op[p].arg
      [] OTHER -> TRUE

Recovered(p) ==
    /\ pc[p] = "converged" /\ ~Transiting(p)
    /\ \/ Admitted(p) /\ Goto(p, "gate") /\ UNCHANGED out
       \/ ~Admitted(p) /\ Ends(p, Answer("refused", intent, "OPEN"), "unlockPhase")
    /\ UNCHANGED <<disk, gate, locks, op, lease, child, faults>>

-----------------------------------------------------------------------------
(* Leases                                                                  *)

\* hold_h1_attempt_rejection_gate_for_replay_v1 has been entered: the lease
\* retains the snapshot, the replay answers with it.
Snapshot(p) ==
    /\ pc[p] = "snapshot" /\ phaseLock = p
    /\ \/ /\ op[p].kind = "replay"
          /\ Ends(p, Answer("replayed", intent, GateState), "unlockGate")
          /\ UNCHANGED lease
       \/ /\ op[p].kind = "normal" /\ GateState # "OPEN"
          /\ Ends(p, Answer("rejected", None, GateState), "unlockGate")
          /\ UNCHANGED lease
       \/ /\ op[p].kind \in LeaseKinds
          /\ op[p].kind = "normal" => GateState = "OPEN"
          /\ lease' = [lease EXCEPT ![p] =
                [kind |-> op[p].kind, spent |-> FALSE, gate |-> GateState,
                 transition |-> intent]]
          /\ Goto(p, "held") /\ UNCHANGED out
    /\ UNCHANGED <<disk, gate, locks, op, child, faults>>

\* The body of the lease returns or raises: _finish_phase_lease_context.
EndBody(p) ==
    /\ pc[p] = "held"
    /\ lease' = [lease EXCEPT ![p] = NoLease]
    /\ Ends(p, Answer("done", lease[p].transition, lease[p].gate), "unlockGate")
    /\ UNCHANGED <<disk, gate, locks, op, child, faults>>

\* The body asks for the transition; _require_live_lease wants a lease that
\* is not spent.
BeginTransition(p, e) ==
    /\ pc[p] = "held"
    /\ lease[p].kind \in {"normal", "transit"} /\ ~lease[p].spent
    /\ op' = [op EXCEPT ![p].arg = e]
    /\ Goto(p, "owner")
    /\ UNCHANGED <<disk, gate, locks, lease, child, out, faults>>

\* Mutant: the owner tail of the evidence is not compared.
Current_IgnoresTail(p, e) == /\ e.gate = lease[p].gate
                             /\ e.gate # "COMMITTED_UNACKNOWLEDGED"

\* _build_transition: the evidence has to be about the present owner tail and
\* the retained gate snapshot, with no recovery outstanding.
Current(p, e) == /\ e.tail = tail /\ e.gate = lease[p].gate
                 /\ e.gate # "COMMITTED_UNACKNOWLEDGED"

\* Mutant: the lease stays usable until the transition returns.
BuildTransition_NotSpent(p) ==
    /\ pc[p] = "build" /\ op[p].kind \in LeaseKinds
    /\ \/ /\ Current(p, op[p].arg)
          /\ Goto(p, "publish") /\ UNCHANGED ownerLock
       \/ /\ ~Current(p, op[p].arg)
          /\ ownerLock' = None
          /\ Goto(p, "held")
    /\ UNCHANGED <<disk, gate, allocLock, phaseLock, gateLock, op, lease,
                   child, out, faults>>

BuildTransition(p) ==
    /\ pc[p] = "build" /\ op[p].kind \in LeaseKinds
    /\ \/ /\ Current(p, op[p].arg)
          /\ lease' = [lease EXCEPT ![p].spent = TRUE]
          /\ Goto(p, "publish") /\ UNCHANGED ownerLock
       \/ /\ ~Current(p, op[p].arg)
          /\ ownerLock' = None
          /\ Goto(p, "held") /\ UNCHANGED lease
    /\ UNCHANGED <<disk, gate, allocLock, phaseLock, gateLock, op, child, out,
                   faults>>

\* _publish_new of the intent: its temporary file is created exclusively.
PublishIntent(p) ==
    /\ pc[p] = "publish"
    /\ \/ /\ p \notin temps /\ intent \in {None, op[p].arg}
          /\ intent' = op[p].arg
          /\ Goto(p, "seal") /\ UNCHANGED <<out, ownerLock>>
       \/ /\ p \in temps \/ intent \notin {None, op[p].arg}
          /\ Refuses(p) /\ UNCHANGED intent
    /\ UNCHANGED <<spec, alloc, seal, commit, cursor, torn, temps, gate,
                   allocLock, phaseLock, gateLock, op, lease, child, faults>>

\* The transition returns into the body of its lease.
TransitionReturns(p) ==
    /\ pc[p] = "converged" /\ Transiting(p)
    /\ ownerLock' = None
    /\ lease' = [lease EXCEPT ![p].transition = intent]
    /\ Goto(p, "held")
    /\ UNCHANGED <<disk, gate, allocLock, phaseLock, gateLock, op, child, out,
                   faults>>

-----------------------------------------------------------------------------
(* The gate's and the owner's own calls, under GATE, then OWNER            *)

GateRejects(p) ==
    /\ pc[p] = "snapshot" /\ op[p].kind = "reject"
    /\ Slot!Reject(op[p].arg) \/ (rejection # None /\ UNCHANGED <<rejection, receipt>>)
    /\ Goto(p, "unlockGate")
    /\ UNCHANGED <<disk, tail, locks, op, lease, child, out, faults>>

GateAcknowledges(p) ==
    /\ pc[p] = "snapshot" /\ op[p].kind = "ack"
    /\ \/ Slot!Acknowledge(op[p].arg)
       \/ (rejection = None \/ receipt # None) /\ UNCHANGED <<rejection, receipt>>
    /\ Goto(p, "unlockGate")
    /\ UNCHANGED <<disk, tail, locks, op, lease, child, out, faults>>

OwnerCall(p) ==
    /\ pc[p] = "snapshot" /\ op[p].kind = "append"
    /\ Goto(p, "owner")
    /\ UNCHANGED <<disk, gate, locks, op, lease, child, out, faults>>

OwnerAppends(p) ==
    /\ pc[p] = "build" /\ op[p].kind = "append"
    /\ tail' = IF tail < MaxTail THEN tail + 1 ELSE tail
    /\ ownerLock' = None
    /\ Goto(p, "unlockGate")
    /\ UNCHANGED <<disk, rejection, receipt, allocLock, phaseLock, gateLock,
                   op, lease, child, out, faults>>

-----------------------------------------------------------------------------
(* Faults                                                                  *)

Fault == faults < MaxFaults /\ faults' = faults + 1

\* What a call that stops at its present step may leave behind.
TornTail(p) ==
    IF pc[p] \in {"append1", "append2"}
      THEN torn' \in {None, CursorRecord(Len(cursor), intent)}
      ELSE torn' = torn
LeftTemp(p) ==
    IF Transiting(p) /\ pc[p] \in {"publish", "seal"}
      THEN temps' \in {temps, temps \cup {p}}
      ELSE temps' = temps

\* A failed system call: the transition raises into the body, any other phase
\* call ends.
WriteFails(p) ==
    /\ Fault
    /\ pc[p] \in {"spec", "genesis", "allocate", "seal", "cursor", "append1",
                  "link", "append2", "publish"}
    /\ TornTail(p) /\ LeftTemp(p)
    /\ \/ /\ Transiting(p)
          /\ ownerLock' = None
          /\ Goto(p, "held") /\ UNCHANGED out
       \/ /\ ~Transiting(p)
          /\ Ends(p, Answer("error", None, "OPEN"), "unlockPhase")
          /\ UNCHANGED ownerLock
    /\ UNCHANGED <<spec, alloc, intent, seal, commit, cursor, gate, allocLock,
                   phaseLock, gateLock, op, lease, child>>

\* The kernel closes a dead process's descriptors, except those a forked
\* child still has.
Freed(p, holder) == IF holder = p THEN None ELSE holder
Crash(p) ==
    /\ Fault
    /\ pc[p] \notin {"idle", "orphan"}
    /\ TornTail(p) /\ LeftTemp(p)
    /\ allocLock' = Freed(p, allocLock)
    /\ ownerLock' = Freed(p, ownerLock)
    /\ IF p \in child THEN UNCHANGED <<phaseLock, gateLock>>
       ELSE phaseLock' = Freed(p, phaseLock) /\ gateLock' = Freed(p, gateLock)
    /\ Goto(p, IF p \in child THEN "orphan" ELSE "idle")
    /\ op' = [op EXCEPT ![p] = NoCall]
    /\ lease' = [lease EXCEPT ![p] = NoLease]
    /\ out' = [out EXCEPT ![p] = NoAnswer]
    /\ UNCHANGED <<spec, alloc, intent, seal, commit, cursor, gate, child>>

Fork(p) ==
    /\ Fault
    /\ pc[p] = "held" /\ p \notin child
    /\ child' = child \cup {p}
    /\ UNCHANGED <<disk, gate, locks, pc, op, lease, out>>

\* Mutant: the child unlocks what it inherited.
ChildExits_Unlocks(p) ==
    /\ p \in child
    /\ child' = child \ {p}
    /\ phaseLock' = Freed(p, phaseLock)
    /\ gateLock' = Freed(p, gateLock)
    /\ pc' = IF pc[p] = "orphan" THEN [pc EXCEPT ![p] = "idle"] ELSE pc
    /\ UNCHANGED <<disk, gate, allocLock, ownerLock, op, lease, out, faults>>

\* The child leaves its copy of the context: it closes its descriptors and
\* unlocks nothing.  If its parent is dead, that was the last copy.
ChildExits(p) ==
    /\ p \in child
    /\ child' = child \ {p}
    /\ IF pc[p] = "orphan"
         THEN /\ phaseLock' = Freed(p, phaseLock)
              /\ gateLock' = Freed(p, gateLock)
              /\ Goto(p, "idle")
         ELSE UNCHANGED <<phaseLock, gateLock, pc>>
    /\ UNCHANGED <<disk, gate, allocLock, ownerLock, op, lease, out, faults>>

\* The attempt directory is rolled back to an earlier state of its own while
\* no call runs and the root, with its seal, stays.
Rollback ==
    /\ Fault
    /\ phaseLock = None /\ seal # None
    /\ \E n \in 1..Len(cursor) :
         /\ cursor' = SubSeq(cursor, 1, n)
         /\ intent' \in IF n = 1 THEN {None, intent} ELSE {intent}
         /\ commit' \in IF n = 1 THEN {None}
                        ELSE IF n = 2 THEN {None, commit} ELSE {commit}
    /\ torn' = None
    /\ UNCHANGED <<spec, alloc, seal, temps, gate, locks, procs>>

-----------------------------------------------------------------------------
(* Specification                                                           *)

\* A process waits for one lock at a time.
Acquires(p) ==
    AcquireAllocation(p) \/ AcquirePhase(p) \/ AcquireGate(p) \/ AcquireOwner(p)

\* The steps a running call takes by itself.
Runs(p) ==
    \/ Acquires(p)
    \/ UnlockGate(p) \/ UnlockPhase(p) \/ UnlockAllocation(p)
    \/ CleanTemps(p) \/ InitSpec(p) \/ InitCursor(p) \/ InitAllocation(p)
    \/ Reconcile(p) \/ ReadCursor(p)
    \/ AppendIntentRecord(p) \/ LinkCommit(p) \/ AppendCleanupRecord(p)
    \/ Recovered(p) \/ Snapshot(p) \/ EndBody(p)
    \/ BuildTransition(p) \/ PublishIntent(p) \/ TransitionReturns(p)
    \/ GateRejects(p) \/ GateAcknowledges(p) \/ OwnerCall(p) \/ OwnerAppends(p)
    \/ ChildExits(p)

Faulty(p) == WriteFails(p) \/ Crash(p) \/ Fork(p)

PhaseNext ==
    \/ \E p \in Procs :
        \/ Runs(p) \/ Faulty(p)
        \/ \E call \in PhaseCalls : StartPhaseCall(p, call)
        \/ \E call \in GateCalls : StartGateCall(p, call)
        \/ \E e \in Attestations : BeginTransition(p, e)
    \/ Rollback

PhaseSpec == PhaseInit /\ [][PhaseNext]_phaseVars

-----------------------------------------------------------------------------
(* Properties                                                              *)

\* A usable normal lease: _require_live_lease accepts it.
Working(p) == lease[p].kind = "normal" /\ ~lease[p].spent
Cleaning(p) == lease[p].kind = "cleanup"

\* While a normal lease is usable no transition is durable in either
\* directory and the gate is open.
NormalBeforeCleanup ==
    \A p \in Procs :
        Working(p) => intent = None /\ seal = None /\ rejection = None

\* A cleanup lease holds the one transition that everything durable names:
\* intent, seal, commit and a cursor that has come to its end.
CleanupConverged ==
    \A p \in Procs : Cleaning(p) =>
        /\ op[p].arg = intent /\ intent = seal /\ intent = commit
        /\ Len(cursor) = 3 /\ torn = None
        /\ \A n \in 2..3 : cursor[n].transition = intent

\* The gate snapshot a lease retains is exact as long as it is held.
SnapshotExact ==
    \A p \in Procs : lease[p].kind # "none" => lease[p].gate = GateState

\* What a lease stands for is true as long as it is held: a usable normal lease
\* excludes every durable transition and every rejection, a cleanup
\* lease means a converged transition, and the retained gate snapshot is exact.
\* It stays so after a crash, after a fork whose parent died, after a rollback
\* of the attempt directory and while others reject and acknowledge the gate.
LeasesTruthful == NormalBeforeCleanup /\ CleanupConverged /\ SnapshotExact

\* Whenever the phase lock is free, whatever was killed or rolled back before,
\* the next recovery accepts the directory; and a temporary file somebody left
\* never stands in the way of an intent.
AlwaysRecoverable ==
    /\ phaseLock = None =>
         /\ intent # None /\ seal # None => intent = seal
         /\ torn # None => /\ Durable # None /\ Len(cursor) < 3
                           /\ torn = CursorRecord(Len(cursor), Durable)
         /\ commit # None => commit = Durable
         /\ Durable # None => WellClassified(Durable)
         /\ Len(cursor) > 1 => cursor[Len(cursor)].transition = Durable
         /\ Len(cursor) = 3 => commit # None
    /\ \A p \in Procs : pc[p] = "publish" => temps = {}

\* What a replay or a finished lease reported about a transition stays true
\* for good.
AnswersDurable ==
    \A p \in Procs : out[p].transition # None => Durable = out[p].transition

\* An intent is published about the present: the owner tail and gate state it
\* binds are those of the very moment, although they were attested earlier.
IntentBindsPresent ==
    [][intent = None /\ seal = None /\ intent' # None
         => intent'.tail = tail /\ intent'.gate = GateState]_phaseVars

\* The phase owner implements the one-way switch.
Switch == INSTANCE PhaseSwitch WITH
    transition <- Durable,
    working <- {p \in Procs : Working(p)},
    cleaning <- {p \in Procs : Cleaning(p)}
ImplementsSwitch == Switch!SwitchSpec
=============================================================================
