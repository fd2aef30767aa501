---------------------------- MODULE RejectionGate ----------------------------
(***************************************************************************)
(* The attempt-wide rejection gate,                                        *)
(* construction_k7_h1_attempt_rejection_gate_v1.py: the durable records    *)
(* intent.json, commit.json and ack.json of one allocated gate, its        *)
(* append-only high-water cursor, the flock every call takes, and the      *)
(* calls of several processes, any of which may be killed between two      *)
(* durable writes, or inside the cursor append.                            *)
(*                                                                         *)
(* Every durable write is a step of its own.  What a call reads between    *)
(* two writes it reads under the lock, and is part of the next step.       *)
(***************************************************************************)
EXTENDS Integers, Sequences, FiniteSets

CONSTANTS
    Procs,        \* the cooperating processes, one thread each
    Rejections,   \* the commit identities a broker may ask for
    Receipts,     \* the owner receipts an acknowledgement may bind
    None,         \* an absent record or value
    CallKinds,    \* the calls the processes make
    MaxCrashes    \* bound: how many processes are killed inside a call

ASSUME NoneIsNoRecord == None \notin Rejections \cup Receipts
ASSUME MaxCrashesNat == MaxCrashes \in Nat

VARIABLES
    intent,   \* intent.json: the rejection it holds, or None
    commit,   \* commit.json, the hard link to intent.json, or None
    ack,      \* ack.json: the commit and the receipt it binds, or None
    cursor,   \* the records of the high-water cursor, OPEN first
    torn,     \* the cursor ends in a torn record
    temps,    \* the processes whose temporary file is in the directory
    lock,     \* the flock each process holds: "none", "sh" or "ex"
    pc,       \* where each process is in its call
    op,       \* the call each process is in
    lease,    \* the processes inside an admission lease
    snap,     \* the snapshot each dependent replay was given
    out,      \* how the last call of each process ended
    crashes   \* how many processes have been killed

disk == <<intent, commit, ack, cursor, torn, temps>>
procVars == <<lock, pc, op, lease, snap, out>>
gateVars == <<disk, procVars, crashes>>

-----------------------------------------------------------------------------
(* Records                                                                 *)

CursorStates == <<"OPEN", "INTENT_DURABLE", "COMMITTED_UNACKNOWLEDGED",
                  "ACKNOWLEDGED">>

AckRecords == [commit : Rejections, receipt : Receipts]
ASSUME NoneIsNoAck == None \notin AckRecords

\* The cursor record of sequence n for a given commit and acknowledgement.
CursorRecord(n, commit_id, ack_id) ==
    [state |-> CursorStates[n + 1],
     commit |-> IF n = 0 THEN None ELSE commit_id,
     ack |-> IF n = 3 THEN ack_id ELSE None]

\* observed_sequence: how far the durable records have come.
Observed == CASE intent = None -> 0
              [] intent # None /\ commit = None -> 1
              [] intent # None /\ commit # None /\ ack = None -> 2
              [] OTHER -> 3

CursorSequence == Len(cursor) - 1

\* What _observe_gate_locked accepts: a cursor that parses, records that
\* follow each other, and a cursor that is behind or level and bound to them.
Replayable ==
    /\ ~torn
    /\ intent = None => commit = None /\ ack = None
    /\ commit # None => commit = intent
    /\ ack # None => commit # None /\ ack.commit = commit
    /\ CursorSequence <= Observed
    /\ CursorSequence >= 1 => cursor[2].commit = intent
    /\ CursorSequence >= 2 => cursor[3].commit = commit
    /\ CursorSequence >= 3 => cursor[4].ack = ack

CaughtUp == Replayable /\ CursorSequence = Observed

-----------------------------------------------------------------------------
(* Calls                                                                   *)

SharedKinds == {"effect", "read"}
AllKinds == {"effect", "read", "recover", "admit", "hold", "commit", "ack"}
Calls ==
    [kind : {"effect", "read", "recover", "admit", "hold"},
     rejection : {None}, receipt : {None}]
    \cup [kind : {"commit"}, rejection : Rejections, receipt : {None}]
    \cup [kind : {"ack"}, rejection : Rejections, receipt : Receipts]

ASSUME CallKindsKnown == CallKinds \subseteq AllKinds

NoCall == [kind |-> "none", rejection |-> None, receipt |-> None]
Answer(what, value) == [what |-> what, value |-> value]
NoAnswer == Answer("none", None)

GateInit ==
    /\ intent = None /\ commit = None /\ ack = None
    /\ cursor = <<CursorRecord(0, None, None)>>
    /\ torn = FALSE
    /\ temps = {}
    /\ lock = [p \in Procs |-> "none"]
    /\ pc = [p \in Procs |-> "idle"]
    /\ op = [p \in Procs |-> NoCall]
    /\ lease = {}
    /\ snap = [p \in Procs |-> None]
    /\ out = [p \in Procs |-> NoAnswer]
    /\ crashes = 0

Goto(p, label) == pc' = [pc EXCEPT ![p] = label]

\* The call ends with an answer: its finally block releases the lock, except
\* that a commit through an admission lease returns into the lease.
Ends(p, answer) ==
    /\ out' = [out EXCEPT ![p] = answer]
    /\ Goto(p, IF p \in lease THEN "held" ELSE "release")

\* _reject_same_gate_context_reentry: no call from inside a retained context.
MayCall(p) == pc[p] = "idle"

Start(p, call) ==
    /\ MayCall(p)
    /\ op' = [op EXCEPT ![p] = call]
    /\ out' = [out EXCEPT ![p] = NoAnswer]
    /\ Goto(p, "locking")
    /\ UNCHANGED <<disk, lock, lease, snap, crashes>>

\* Mutant: an exclusive lock does not wait for shared holders.
Compatible_IgnoresShared(p) == \A q \in Procs : lock[q] # "ex"

\* flock: locks of other open file descriptions conflict, also those of the
\* same process.
Mode(p) == IF op[p].kind \in SharedKinds THEN "sh" ELSE "ex"
Compatible(p) ==
    \A q \in Procs : lock[q] = "none" \/ (lock[q] = "sh" /\ Mode(p) = "sh")

Acquire(p) ==
    /\ pc[p] = "locking"
    /\ Compatible(p)
    /\ lock' = [lock EXCEPT ![p] = Mode(p)]
    /\ Goto(p, "require")
    /\ UNCHANGED <<disk, op, lease, snap, out, crashes>>

\* _require_handle under the lock: orphan temporary files are removed under
\* the exclusive lock only.
RequireHandle(p) ==
    /\ pc[p] = "require"
    /\ temps' = IF Mode(p) = "ex" THEN {} ELSE temps
    /\ Goto(p, IF Mode(p) = "ex" THEN "replay" ELSE "look")
    /\ UNCHANGED <<intent, commit, ack, cursor, torn, lock, op, lease, snap,
                   out, crashes>>

\* _require_handle cannot parse the cursor, or _observe_gate_locked refuses
\* the records: the call fails closed.
ObserveFails(p) ==
    /\ pc[p] \in {"replay", "look"}
    /\ ~Replayable
    /\ Ends(p, Answer("damaged", None))
    /\ UNCHANGED <<disk, lock, op, lease, snap, crashes>>

-----------------------------------------------------------------------------
(* Shared-lock calls: observe without advancing the cursor                 *)

\* Mutant: only a committed rejection closes the guard.
LookForEffect_IgnoresIntent(p) ==
    /\ pc[p] = "look" /\ op[p].kind = "effect" /\ Replayable
    /\ \/ Observed < 2 /\ Goto(p, "held") /\ UNCHANGED out
       \/ Observed >= 2 /\ Ends(p, Answer("rejected", None))
    /\ UNCHANGED <<disk, lock, op, lease, snap, crashes>>

LookForEffect(p) ==
    /\ pc[p] = "look" /\ op[p].kind = "effect" /\ Replayable
    /\ \/ Observed = 0 /\ Goto(p, "held") /\ UNCHANGED out
       \/ Observed # 0 /\ Ends(p, Answer("rejected", None))
    /\ UNCHANGED <<disk, lock, op, lease, snap, crashes>>

LookForCommit(p) ==
    /\ pc[p] = "look" /\ op[p].kind = "read" /\ Replayable
    /\ Ends(p, Answer("read", IF Observed >= 2 THEN commit ELSE None))
    /\ UNCHANGED <<disk, lock, op, lease, snap, crashes>>

-----------------------------------------------------------------------------
(* Exclusive replay                                                        *)

\* The cursor is behind the durable records: append the next record.
AdvanceCursor(p) ==
    /\ pc[p] = "replay"
    /\ Replayable /\ CursorSequence < Observed
    /\ cursor' = Append(cursor, CursorRecord(CursorSequence + 1, intent, ack))
    /\ UNCHANGED <<intent, commit, ack, torn, temps, procVars, crashes>>

\* _replay_gate_locked finishes a durable intent and observes again.
FinishIntent(p) ==
    /\ pc[p] = "replay" /\ op[p].kind # "commit"
    /\ CaughtUp /\ Observed = 1
    /\ commit' = intent
    /\ UNCHANGED <<intent, ack, cursor, torn, temps, procVars, crashes>>

Replayed(p, kind) ==
    /\ pc[p] = "replay" /\ op[p].kind = kind
    /\ CaughtUp
    /\ kind # "commit" => Observed # 1

\* Mutant: recovery returns before it has finished a durable intent.
RecoverReturns_Early(p) ==
    /\ pc[p] = "replay" /\ op[p].kind = "recover" /\ CaughtUp
    /\ Ends(p, Answer("state", CursorStates[Observed + 1]))
    /\ UNCHANGED <<disk, lock, op, lease, snap, crashes>>

\* Mutant: recovery is retried until the gate is open.
RecoverReturns_Retries(p) ==
    /\ Replayed(p, "recover")
    /\ IF Observed = 0
       THEN Ends(p, Answer("state", "OPEN")) /\ UNCHANGED lock
       ELSE /\ Goto(p, "locking")
            /\ lock' = [lock EXCEPT ![p] = "none"]
            /\ UNCHANGED out
    /\ UNCHANGED <<disk, op, lease, snap, crashes>>

\* recover and snapshot
RecoverReturns(p) ==
    /\ Replayed(p, "recover")
    /\ Ends(p, Answer("state", CursorStates[Observed + 1]))
    /\ UNCHANGED <<disk, lock, op, lease, snap, crashes>>

\* hold_h1_attempt_gate_open_for_admission_v1
AdmissionDecides(p) ==
    /\ Replayed(p, "admit")
    /\ \/ /\ Observed = 0
          /\ lease' = lease \cup {p}
          /\ Goto(p, "held")
          /\ UNCHANGED out
       \/ /\ Observed # 0
          /\ Ends(p, Answer("rejected", None))
          /\ UNCHANGED lease
    /\ UNCHANGED <<disk, lock, op, snap, crashes>>

\* hold_h1_attempt_rejection_gate_for_replay_v1
HoldForReplay(p) ==
    /\ Replayed(p, "hold")
    /\ snap' = [snap EXCEPT ![p] = [state |-> CursorStates[Observed + 1],
                                    commit |-> commit, ack |-> ack]]
    /\ Goto(p, "held")
    /\ UNCHANGED <<disk, lock, op, lease, out, crashes>>

\* acknowledge_h1_attempt_rejection_v1: the durable commit must be the one
\* the caller acknowledges.
AckChecksCommit(p) ==
    /\ Replayed(p, "ack")
    /\ \/ commit # op[p].rejection /\ Ends(p, Answer("stale", None))
       \/ commit = op[p].rejection /\ Goto(p, "publish") /\ UNCHANGED out
    /\ UNCHANGED <<disk, lock, op, lease, snap, crashes>>

\* Mutant: the cursor is advanced before the intent is published.
CommitReadsIntent_CursorFirst(p) ==
    /\ Replayed(p, "commit")
    /\ Goto(p, IF intent = None THEN "cursor" ELSE "compare")
    /\ UNCHANGED <<disk, lock, op, lease, snap, out, crashes>>

\* _commit_rejection_locked: publish only where there is no intent.
CommitReadsIntent(p) ==
    /\ Replayed(p, "commit")
    /\ Goto(p, IF intent = None THEN "publish" ELSE "compare")
    /\ UNCHANGED <<disk, lock, op, lease, snap, out, crashes>>

-----------------------------------------------------------------------------
(* Publication: temporary file, hard link unless the name exists, unlink   *)

WantedAck(p) == [commit |-> op[p].rejection, receipt |-> op[p].receipt]

WriteTemp(p) ==
    /\ pc[p] = "publish"
    /\ temps' = temps \cup {p}
    /\ Goto(p, "link")
    /\ UNCHANGED <<intent, commit, ack, cursor, torn, lock, op, lease, snap,
                   out, crashes>>

LinkTemp(p) ==
    /\ pc[p] = "link"
    /\ intent' = IF op[p].kind = "commit" /\ intent = None
                 THEN op[p].rejection ELSE intent
    /\ ack' = IF op[p].kind = "ack" /\ ack = None THEN WantedAck(p) ELSE ack
    /\ Goto(p, "unlink")
    /\ UNCHANGED <<commit, cursor, torn, temps, lock, op, lease, snap, out,
                   crashes>>

UnlinkTemp(p) ==
    /\ pc[p] = "unlink"
    /\ temps' = temps \ {p}
    /\ Goto(p, "compare")
    /\ UNCHANGED <<intent, commit, ack, cursor, torn, lock, op, lease, snap,
                   out, crashes>>

\* The record that is there must be the one this call wants.
Compare(p) ==
    /\ pc[p] = "compare"
    /\ \/ /\ op[p].kind = "commit" /\ intent # op[p].rejection
          /\ Ends(p, Answer("second", None))
       \/ /\ op[p].kind = "ack" /\ ack # WantedAck(p)
          /\ Ends(p, Answer("other_ack", None))
       \/ /\ IF op[p].kind = "commit" THEN intent = op[p].rejection
                                      ELSE ack = WantedAck(p)
          /\ Goto(p, "cursor")
          /\ UNCHANGED out
    /\ UNCHANGED <<disk, lock, op, lease, snap, crashes>>

-----------------------------------------------------------------------------
(* The cursor record of a transition this call has made durable            *)

\* _append_cursor_state_locked: a different or a skipped record is refused, an
\* equal one is kept, the next one is appended.
CursorRefuses(n, record) ==
    \/ torn
    \/ Len(cursor) > n /\ cursor[n + 1] # record
    \/ Len(cursor) < n
CursorTakes(n, record) ==
    cursor' = IF Len(cursor) = n THEN Append(cursor, record) ELSE cursor

\* The cursor step a call is at: the sequence number it appends.
CursorTarget(p) == IF pc[p] = "commit_cursor" THEN 2
                   ELSE IF op[p].kind = "commit" THEN 1 ELSE 3
CursorWanted(p) ==
    CursorRecord(CursorTarget(p), op[p].rejection,
                 IF op[p].kind = "ack" THEN WantedAck(p) ELSE None)

\* The answer of the call, or the next step of a commit.
AfterCursor(p) ==
    \/ /\ pc[p] = "cursor" /\ op[p].kind = "commit"
       /\ Goto(p, "commit_link")
       /\ UNCHANGED out
    \/ /\ pc[p] = "cursor" /\ op[p].kind = "ack"
       /\ Ends(p, Answer("acknowledged", op[p].receipt))
    \/ /\ pc[p] = "commit_cursor"
       /\ Ends(p, Answer("committed", op[p].rejection))

AppendCursor(p) ==
    /\ pc[p] \in {"cursor", "commit_cursor"}
    /\ IF CursorRefuses(CursorTarget(p), CursorWanted(p))
       THEN Ends(p, Answer("damaged", None)) /\ UNCHANGED cursor
       ELSE CursorTakes(CursorTarget(p), CursorWanted(p)) /\ AfterCursor(p)
    /\ UNCHANGED <<intent, commit, ack, torn, temps, lock, op, lease, snap,
                   crashes>>

\* The commit is the hard link of the intent; an existing one must equal it.
LinkCommit(p) ==
    /\ pc[p] = "commit_link"
    /\ commit' = IF commit = None THEN intent ELSE commit
    /\ IF commit' # intent
       THEN Ends(p, Answer("damaged", None))
       ELSE Goto(p, "commit_cursor") /\ UNCHANGED out
    /\ UNCHANGED <<intent, ack, cursor, torn, temps, lock, op, lease, snap,
                   crashes>>

-----------------------------------------------------------------------------
(* Inside a retained context, its end, and crashes                         *)

\* commit_h1_attempt_rejection_with_admission_lease_v1
LeaseCommit(p, r) ==
    /\ pc[p] = "held" /\ p \in lease
    /\ op' = [op EXCEPT ![p] = [kind |-> "commit", rejection |-> r,
                                receipt |-> None]]
    /\ Goto(p, "replay")
    /\ UNCHANGED <<disk, lock, lease, snap, out, crashes>>

\* The body of the with statement ends.
LeaveContext(p) ==
    /\ pc[p] = "held"
    /\ Goto(p, "release")
    /\ UNCHANGED <<disk, lock, op, lease, snap, out, crashes>>

\* The process is gone from the gate: flock ends with its descriptors.
Gone(p) ==
    /\ lock' = [lock EXCEPT ![p] = "none"]
    /\ op' = [op EXCEPT ![p] = NoCall]
    /\ lease' = lease \ {p}
    /\ snap' = [snap EXCEPT ![p] = None]
    /\ Goto(p, "idle")

Release(p) ==
    /\ pc[p] = "release"
    /\ Gone(p)
    /\ UNCHANGED <<disk, out, crashes>>

\* The process is killed between two durable writes.
Crash(p) ==
    /\ pc[p] # "idle" /\ crashes < MaxCrashes
    /\ Gone(p)
    /\ out' = [out EXCEPT ![p] = NoAnswer]
    /\ crashes' = crashes + 1
    /\ UNCHANGED disk

\* The process is killed while it appends to the cursor.
CrashTearing(p) ==
    /\ \/ pc[p] = "replay" /\ Replayable /\ CursorSequence < Observed
       \/ /\ pc[p] \in {"cursor", "commit_cursor"}
          /\ ~torn /\ Len(cursor) = CursorTarget(p)
    /\ crashes < MaxCrashes
    /\ Gone(p)
    /\ out' = [out EXCEPT ![p] = NoAnswer]
    /\ crashes' = crashes + 1
    /\ torn' = TRUE
    /\ UNCHANGED <<intent, commit, ack, cursor, temps>>

-----------------------------------------------------------------------------
CallStep(p) ==
    \/ RequireHandle(p) \/ ObserveFails(p)
    \/ LookForEffect(p) \/ LookForCommit(p)
    \/ AdvanceCursor(p) \/ FinishIntent(p)
    \/ RecoverReturns(p) \/ AdmissionDecides(p) \/ HoldForReplay(p)
    \/ AckChecksCommit(p) \/ CommitReadsIntent(p)
    \/ WriteTemp(p) \/ LinkTemp(p) \/ UnlinkTemp(p) \/ Compare(p)
    \/ AppendCursor(p) \/ LinkCommit(p)
    \/ LeaveContext(p) \/ Release(p)

GateNext ==
    \E p \in Procs :
        \/ \E call \in {c \in Calls : c.kind \in CallKinds} : Start(p, call)
        \/ \E r \in Rejections : LeaseCommit(p, r)
        \/ Acquire(p)
        \/ CallStep(p)
        \/ Crash(p)
        \/ CrashTearing(p)

GateSpec == GateInit /\ [][GateNext]_gateVars

\* A process in a call keeps running, the body of a context ends, and a
\* process that waits for the lock gets it if it is free again and again.
GateFairness ==
    \A p \in Procs :
        /\ WF_gateVars(CallStep(p))
        /\ SF_gateVars(Acquire(p))
        /\ SF_gateVars(LeaveContext(p))

FairGateSpec == GateSpec /\ GateFairness

-----------------------------------------------------------------------------
(* Properties                                                              *)

ProgramPoints == {"idle", "locking", "require", "look", "replay", "publish",
                  "link", "unlink", "compare", "cursor", "commit_link",
                  "commit_cursor", "held", "release"}
AnswerKinds == {"none", "damaged", "rejected", "read", "state", "stale",
                "other_ack", "second", "acknowledged", "committed"}
CursorRecords == [state : {CursorStates[n] : n \in 1..4},
                  commit : Rejections \cup {None},
                  ack : AckRecords \cup {None}]
StateNames == {CursorStates[n] : n \in 1..4}

\* Types: at most four cursor records, whatever the calls of the processes are.
GateTypeOK ==
    /\ intent \in Rejections \cup {None}
    /\ commit \in Rejections \cup {None}
    /\ ack \in AckRecords \cup {None}
    /\ cursor \in Seq(CursorRecords) /\ Len(cursor) \in 1..4
    /\ torn \in BOOLEAN
    /\ temps \in SUBSET Procs
    /\ lock \in [Procs -> {"none", "sh", "ex"}]
    /\ pc \in [Procs -> ProgramPoints]
    /\ op \in [Procs -> Calls \cup {NoCall}]
    /\ lease \in SUBSET Procs
    /\ snap \in [Procs -> {None} \cup [state : StateNames,
                                       commit : Rejections \cup {None},
                                       ack : AckRecords \cup {None}]]
    /\ out \in [Procs -> [what : AnswerKinds,
                          value : {None} \cup Rejections \cup Receipts
                                    \cup StateNames]]
    /\ crashes \in 0..MaxCrashes

InEffect(p) == pc[p] = "held" /\ op[p].kind = "effect"

\* Side effects and the rejection are serialized: while any process runs a
\* native action inside the side-effect guard no rejection is durable, not even
\* as an intent, so nothing is done after the attempt was rejected.
EffectsPrecedeRejection ==
    \A p \in Procs : InEffect(p) => intent = None

\* An admission lease decides alone: while it is held no other process is
\* inside a side effect, a replay or a publication, and the slot is empty
\* unless the holder of the lease itself has filled it.
AdmissionDecidesAlone ==
    \A p \in lease :
        /\ \A q \in Procs \ {p} : pc[q] \in {"idle", "locking"}
        /\ pc[p] = "held" /\ op[p].kind = "admit" => intent = None

\* A crash at any point leaves records that exclusive replay accepts: only a
\* torn cursor record closes the gate for good, and no call ever reports damage
\* that the gate's own crashes have not caused.
CrashLeavesReplayable ==
    /\ ~torn => Replayable
    /\ \A p \in Procs : out[p].what = "damaged" => torn

\* What a caller was told stays true: a returned commit is the durable one and
\* below the cursor's high-water mark, a returned acknowledgement too, and
\* replay never returns a rejection that is only an intent.
AnswersDurable ==
    \A p \in Procs :
        /\ out[p].what = "committed" =>
             /\ commit = out[p].value /\ (torn \/ CursorSequence >= 2)
        /\ out[p].what = "acknowledged" =>
             ack # None /\ ack.receipt = out[p].value
        /\ out[p].what = "read" /\ out[p].value # None => commit = out[p].value
        /\ out[p].what \in {"rejected", "second"} => intent # None
        /\ out[p] # Answer("state", "INTENT_DURABLE")

\* The snapshot of a dependent replay stays exact until the context ends.
SnapshotStaysExact ==
    \A p \in Procs : snap[p] # None =>
        snap[p] = [state |-> CursorStates[Observed + 1],
                   commit |-> commit, ack |-> ack]

\* Removing orphan temporary files never removes the file that a live process
\* is about to link.
CleanupSparesLiveTemps ==
    \A p \in Procs : pc[p] \in {"link", "unlink"} => p \in temps

\* The slot is write-once, crashes and retries included: no step changes or
\* removes a durable rejection, its commit, its acknowledgement or a record of
\* the cursor.
RecordsWriteOnce ==
    [][/\ intent # None => intent' = intent
       /\ commit # None => commit' = commit
       /\ ack # None => ack' = ack
       /\ Len(cursor') >= Len(cursor)
       /\ \A i \in 1..Len(cursor) : cursor'[i] = cursor[i]]_gateVars

\* The gate implements the one-shot rejection slot.
Slot == INSTANCE RejectionSlot WITH
            rejection <- intent,
            receipt <- IF ack = None THEN None ELSE ack.receipt,
            active <- {p \in Procs : InEffect(p)}
ImplementsSlot == Slot!SlotSpec

\* Every call ends if there is always again a moment without shared holders: no
\* call waits forever for a lock of its own process or for a dead one.  The
\* condition is needed, because flock admits shared holders past an exclusive
\* waiter, so side effects that always overlap keep a rejection waiting.
CallsEnd ==
    []<>(\A q \in Procs : lock[q] # "sh") =>
        \A p \in Procs : pc[p] # "idle" ~> pc[p] = "idle"
=============================================================================
