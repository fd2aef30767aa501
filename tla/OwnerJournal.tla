----------------------------- MODULE OwnerJournal -----------------------------
(***************************************************************************)
(* The files under the shared cap owner of one runtime,                    *)
(* construction_k7_h1_shared_cap_owner_v3.py: the record files, the        *)
(* committed and pending links of the high-water cursor, and the payload   *)
(* WAL with its directory, its binding marker and its activation.          *)
(*                                                                         *)
(* A record is identified by a hash that covers its predecessor, so the    *)
(* identity of a record is the sequence of records it closes: record       *)
(* files, cursor links and WAL rows are sets of such sequences.  A WAL     *)
(* directory is known by its inode, a number here; 0 is none.  Every       *)
(* link, unlink, mkdir and rmdir is a step, and a process may be killed    *)
(* before each and inside each publication.                                *)
(***************************************************************************)
EXTENDS Integers, Sequences, SequencesExt, FiniteSets

CONSTANTS
    Procs,           \* the cooperating processes
    Payloads,        \* what ordinary calls append
    UnitLength,      \* the records that settle the activation intent
    None,            \* no process, no record
    MaxRecords,      \* bound: ordinary records
    MaxFaults        \* bound: kills and failed writes

ASSUME JournalBounds == {UnitLength, MaxRecords, MaxFaults} \subseteq Nat

VARIABLES
    files,       \* the record files
    committed,   \* the C links of the cursor
    pending,     \* the P links of the cursor
    walDir,      \* the inode of the WAL directory, or 0
    rows,        \* the payload rows in it
    binding,     \* the WAL inode the binding marker names, or 0
    temps,       \* the directories with an abandoned temporary
    inodes,      \* how many WAL directories have been made
    gateOpen,    \* whether the attempt gate is open
    lease,       \* the holder of the gate's admission lease, or None
    ownerLock,   \* the holder of the owner lock, or None
    pc,          \* where each process is
    call,        \* the call each process is in
    handle,      \* the WAL inode its handle carries; 0 for none, -1 unopened
    faults       \* how many faults there have been

cursor == <<committed, pending>>
walFiles == <<walDir, rows, binding, inodes>>
disk == <<files, cursor, walFiles, temps>>
gateVars == <<gateOpen, lease>>
control == <<pc, call, handle>>
journalVars == <<disk, gateVars, ownerLock, control, faults>>

-----------------------------------------------------------------------------
(* Records, journal and cursor                                             *)

Payload(x) == [kind |-> "PAYLOAD", of |-> x]
Intent(inode) == [kind |-> "INTENT", of |-> inode]
Unit(i) == [kind |-> "UNIT", of |-> i]
Records == {Payload(x) : x \in Payloads}
           \cup {Intent(i) : i \in 1..(MaxFaults + 1)} \cup {Unit(i) : i \in 1..UnitLength}

ASSUME NoneIsNothing == None \notin Procs /\ None \notin Records

\* _replay_records_fd: one record for each sequence number, each closing the
\* one before.
Replays(fs) == \A s \in fs : Len(s) > 1 => Front(s) \in fs
Tail0(fs) == IF fs = {} THEN <<>> ELSE CHOOSE s \in fs : \A t \in fs : Len(t) <= Len(s)
Log == Tail0(files)
Linear(fs) == \A s, t \in fs : Len(s) = Len(t) => s = t

\* state.pending_cursor once the cursor has been recovered
Announced == pending \ files

\* _v4_wal_binding_intent
IntentOf(s) ==
    LET is == {i \in DOMAIN s : s[i].kind = "INTENT"}
    IN  IF is = {} THEN 0 ELSE s[CHOOSE i \in is : TRUE].of
UnitsDone(s) == Cardinality({i \in DOMAIN s : s[i].kind = "UNIT"})

\* The transition shapes _recover_owner_cursor accepts.
CursorReadable ==
    \/ \E old, new \in committed :
         /\ committed = {old, new} /\ Len(new) = Len(old) + 1
         /\ pending \subseteq {new} /\ Log = new
    \/ \E current \in committed :
         /\ committed = {current}
         /\ \/ pending = {} /\ Log = current
            \/ \E next \in pending :
                 /\ pending = {next} /\ Len(next) = Len(current) + 1
                 /\ Log \in {current, next}

\* What _reconcile_v4_wal_payload accepts of the rows.
RowsReadable ==
    IF Announced # {}
      THEN rows = Announced
      ELSE \A r \in rows : r = Log \/ Front(r) = Log

-----------------------------------------------------------------------------
(* Calls                                                                   *)

NoCall == [kind |-> "none", rec |-> None, stage |-> "none", done |-> FALSE]
Call(kind, rec, stage) == [kind |-> kind, rec |-> rec, stage |-> stage, done |-> FALSE]

JournalInit ==
    /\ files = {} /\ committed = {<<>>} /\ pending = {}
    /\ walDir = 0 /\ rows = {} /\ binding = 0 /\ temps = {} /\ inodes = 0
    /\ gateOpen = TRUE /\ lease = None /\ ownerLock = None
    /\ pc = [p \in Procs |-> "idle"]
    /\ call = [p \in Procs |-> NoCall]
    /\ handle = [p \in Procs |-> 0]
    /\ faults = 0

Goto(p, label) == pc' = [pc EXCEPT ![p] = label]
Stage(p, stage) == call' = [call EXCEPT ![p].stage = stage]
Freed(p, holder) == IF holder = p THEN None ELSE holder
Ends(p) ==
    /\ ownerLock' = Freed(p, ownerLock) /\ lease' = Freed(p, lease)
    /\ call' = [call EXCEPT ![p] = NoCall]
    /\ Goto(p, "idle")
    /\ UNCHANGED <<gateOpen, handle>>
Refuses(p) == Ends(p) /\ UNCHANGED <<disk, faults>>

\* open_h1_shared_cap_owner_v3: the handle learns the binding there is.
Open(p) ==
    /\ pc[p] = "idle" /\ ownerLock = None
    /\ handle' = [handle EXCEPT ![p] = binding]
    /\ UNCHANGED <<disk, gateVars, ownerLock, pc, call, faults>>

Begin(p, c) ==
    /\ pc[p] = "idle" /\ handle[p] >= 0
    /\ call' = [call EXCEPT ![p] = c]
    /\ Goto(p, "owner")
    /\ UNCHANGED <<disk, gateVars, ownerLock, handle, faults>>

BeginAppend(p, x) ==
    /\ Cardinality({i \in DOMAIN Log : Log[i].kind = "PAYLOAD"}) < MaxRecords
    /\ Begin(p, Call("append", Payload(x), "call"))
BeginReplay(p) == Begin(p, Call("replay", None, "call"))

\* _enable_h1_shared_cap_owner_v4_pending_payload_wal: a handle that has its
\* WAL is verified, another one first refreshed.
BeginEnable(p) ==
    Begin(p, Call("enable", None, IF handle[p] = 0 THEN "open" ELSE "verify"))

\* The refresh and, under the admission lease, the hydration: a binding made
\* meanwhile is adopted.
Refresh(p) ==
    /\ pc[p] = "owner" /\ call[p].stage \in {"open", "hydrate"} /\ ownerLock = None
    /\ handle' = [handle EXCEPT ![p] = binding]
    /\ temps' = IF call[p].stage = "hydrate" THEN temps \ {"binding"} ELSE temps
    /\ Stage(p, IF binding # 0 THEN "verify"
                ELSE IF call[p].stage = "open" THEN "recovery" ELSE "admission")
    /\ UNCHANGED <<files, cursor, walFiles, gateVars, ownerLock, pc, faults>>

\* The activation itself needs the gate open and keeps it so.
AdmissionLease(p) ==
    /\ pc[p] = "gate"
    /\ \/ /\ gateOpen /\ lease = None
          /\ lease' = p
          /\ Stage(p, "hydrate") /\ Goto(p, "owner")
          /\ UNCHANGED <<disk, gateOpen, ownerLock, handle, faults>>
       \/ ~gateOpen /\ Refuses(p)

\* Mutant: a handle without WAL is accepted although the runtime requires one.
HandleAccepted_Stale(p) == handle[p] \in {0, binding}

\* _require_handle_locked: the handle must carry exactly the binding; only an
\* activation may find a WAL directory without binding.
Activating(p) == call[p].stage \in {"recovery", "admission"}
HandleAccepted(p) ==
    IF binding = 0
      THEN handle[p] = 0 /\ (walDir = 0 \/ Activating(p))
      ELSE handle[p] = binding \/ (Activating(p) /\ handle[p] = 0)

AcquireOwner(p) ==
    /\ pc[p] = "owner" /\ call[p].stage \notin {"open", "hydrate"}
    /\ ownerLock = None
    /\ \/ /\ HandleAccepted(p) /\ Replays(files) /\ Linear(files)
          /\ temps' = temps \ {"binding", "owner"}
          /\ ownerLock' = p
          /\ Goto(p, "cursor")
          /\ UNCHANGED <<files, cursor, walFiles, gateVars, call, handle, faults>>
       \/ ~(HandleAccepted(p) /\ Replays(files) /\ Linear(files)) /\ Refuses(p)

\* _recover_owner_cursor, and in the same order the end of _append_record and
\* of _reconcile_v4_wal_payload: once its record is published, a pending link
\* becomes a committed one, then it is removed, then the older committed one.
AdvanceCursor(p) ==
    /\ pc[p] = "cursor"
    /\ \/ ~CursorReadable /\ Refuses(p)
       \/ /\ CursorReadable
          /\ \/ /\ Cardinality(committed) = 1 /\ pending # {} /\ pending \subseteq files
                /\ committed' = committed \cup pending
                /\ UNCHANGED <<pending, pc>>
             \/ /\ Cardinality(committed) = 2 /\ pending # {}
                /\ pending' = {}
                /\ UNCHANGED <<committed, pc>>
             \/ /\ Cardinality(committed) = 2 /\ pending = {}
                /\ committed' = {Log}
                /\ UNCHANGED <<pending, pc>>
             \/ /\ Cardinality(committed) = 1 /\ Announced = pending
                /\ Goto(p, "reconcile") /\ UNCHANGED cursor
          /\ UNCHANGED <<files, walFiles, temps, gateVars, ownerLock, call, handle,
                         faults>>

\* The WAL directory a call works with: its handle's, or the one an activation
\* finds or has made.
WalOf(p) == IF Activating(p) THEN walDir ELSE handle[p]

\* The intent in the journal and the directory name each other.
IntentAccepted(p) ==
    /\ IntentOf(Log) \in {0, walDir}
    /\ binding # 0 => IntentOf(Log) = binding
    /\ binding = 0 /\ IntentOf(Log) # 0 => Activating(p)

\* _reconcile_v4_wal_payload: an announced record is published from its row,
\* a row that was published or never announced is removed.
Reconcile(p) ==
    /\ pc[p] = "reconcile"
    /\ LET readable == IntentAccepted(p)
                       /\ (WalOf(p) # 0 => WalOf(p) = walDir /\ RowsReadable)
       IN  IF ~readable THEN Refuses(p) ELSE
           \/ /\ WalOf(p) = 0
              /\ Goto(p, "work")
              /\ UNCHANGED <<disk, gateVars, ownerLock, call, handle, faults>>
           \/ /\ WalOf(p) # 0
              /\ temps' = temps \ {"wal"}
              /\ \/ /\ Announced # {}
                    /\ files' = files \cup Announced
                    /\ Goto(p, "cursor") /\ UNCHANGED rows
                 \/ /\ Announced = {} /\ rows # {}
                    /\ rows' = {}
                    /\ UNCHANGED <<files, pc>>
                 \/ /\ Announced = {} /\ rows = {}
                    /\ Goto(p, "work") /\ UNCHANGED <<files, rows>>
              /\ UNCHANGED <<cursor, walDir, binding, inodes, gateVars, ownerLock,
                             call, handle, faults>>

-----------------------------------------------------------------------------
(* Appending a record                                                      *)

\* The record a call appends next: its own, the activation intent, or the
\* next of the records that settle the intent.
NextRecord(p) ==
    CASE call[p].kind = "append" -> call[p].rec
      [] call[p].kind = "enable" /\ IntentOf(Log) = 0 -> Intent(walDir)
      [] OTHER -> Unit(UnitsDone(Log) + 1)
Appended(p) == Append(Log, NextRecord(p))

\* The WAL row of a bound runtime comes first.
AppendRow(p) ==
    /\ pc[p] = "row"
    /\ rows' = {Appended(p)}
    /\ temps' = temps \ {"wal"}
    /\ Goto(p, "pending")
    /\ UNCHANGED <<files, cursor, walDir, binding, inodes, gateVars, ownerLock, call,
                   handle, faults>>

\* Mutant: an append that another call announced is replaced.
AppendPending_Replaces(p) ==
    /\ pc[p] = "pending"
    /\ pending' = {Appended(p)}
    /\ Goto(p, "publish")
    /\ UNCHANGED <<files, committed, walFiles, temps, gateVars, ownerLock, call, handle,
                   faults>>

\* The pending link, unless the record has been announced already.
AppendPending(p) ==
    /\ pc[p] = "pending"
    /\ \/ /\ pending \subseteq {Appended(p)}
          /\ pending' = {Appended(p)}
          /\ Goto(p, "publish")
          /\ UNCHANGED <<files, committed, walFiles, temps, gateVars, ownerLock, call,
                         handle, faults>>
       \/ ~(pending \subseteq {Appended(p)}) /\ Refuses(p)

AppendPublish(p) ==
    /\ pc[p] = "publish"
    /\ files' = files \cup {Appended(p)}
    /\ call' = [call EXCEPT ![p].done = TRUE]
    /\ Goto(p, "cursor")
    /\ UNCHANGED <<cursor, walFiles, temps, gateVars, ownerLock, handle, faults>>

StartsRecord(p) == Goto(p, IF WalOf(p) # 0 THEN "row" ELSE "pending")

\* An ordinary call appends its record and returns; a replay only looks.
AppendCall(p) ==
    /\ pc[p] = "work" /\ call[p].kind = "append"
    /\ \/ /\ ~call[p].done
          /\ StartsRecord(p)
          /\ UNCHANGED <<disk, gateVars, ownerLock, call, handle, faults>>
       \/ /\ call[p].done
          /\ Refuses(p)
ReplayCall(p) ==
    /\ pc[p] = "work" /\ call[p].stage \in {"call", "verify"} /\ call[p].kind # "append"
    /\ Refuses(p)

-----------------------------------------------------------------------------
(* Activation of the WAL                                                   *)

Settled == IntentOf(Log) # 0 /\ UnitsDone(Log) = UnitLength

\* A directory without intent is pristine, its rows are reconciled: it is
\* removed, or there was none.  Either way the activation starts anew under the admission lease.
RollBack(p) ==
    /\ pc[p] = "work" /\ call[p].stage = "recovery"
    /\ IntentOf(Log) = 0
    /\ walDir' = 0
    /\ ownerLock' = None
    /\ Goto(p, "gate")
    /\ UNCHANGED <<files, cursor, rows, binding, inodes, temps, gateVars, call, handle,
                   faults>>

\* A new directory, only on a converged journal.
MakeDirectory(p) ==
    /\ pc[p] = "work" /\ call[p].stage = "admission"
    /\ walDir = 0
    /\ \/ pending # {} /\ Refuses(p)
       \/ /\ pending = {}
          /\ walDir' = inodes + 1 /\ inodes' = inodes + 1
          /\ Goto(p, "reconcile")
          /\ UNCHANGED <<files, cursor, rows, binding, temps, gateVars, ownerLock, call,
                         handle, faults>>

\* The intent, and after it the records that settle it.
ActivationRecord(p) ==
    /\ pc[p] = "work" /\ Activating(p)
    /\ walDir # 0 /\ ~Settled
    /\ IntentOf(Log) # 0 \/ call[p].stage = "admission"
    /\ StartsRecord(p)
    /\ UNCHANGED <<disk, gateVars, ownerLock, call, handle, faults>>

\* Mutant: only an activation that made the directory publishes the marker.
PublishBinding_NotRecovered(p) ==
    /\ pc[p] = "work" /\ Activating(p) /\ Settled
    /\ \/ /\ call[p].stage = "admission"
          /\ binding' = walDir
          /\ handle' = [handle EXCEPT ![p] = walDir]
       \/ call[p].stage = "recovery" /\ UNCHANGED <<binding, handle>>
    /\ ownerLock' = None /\ lease' = Freed(p, lease)
    /\ Stage(p, "verify") /\ Goto(p, "owner")
    /\ UNCHANGED <<files, cursor, walDir, rows, inodes, temps, gateOpen, faults>>

\* The marker makes the WAL mandatory; the caller verifies with its new handle.
PublishBinding(p) ==
    /\ pc[p] = "work" /\ Activating(p) /\ Settled
    /\ binding' = walDir
    /\ handle' = [handle EXCEPT ![p] = walDir]
    /\ ownerLock' = None /\ lease' = Freed(p, lease)
    /\ Stage(p, "verify") /\ Goto(p, "owner")
    /\ UNCHANGED <<files, cursor, walDir, rows, inodes, temps, gateOpen, faults>>

-----------------------------------------------------------------------------
(* Faults, and the rest of the attempt                                     *)

CloseGate ==
    /\ gateOpen /\ lease = None
    /\ gateOpen' = FALSE
    /\ UNCHANGED <<disk, lease, ownerLock, control, faults>>

Fault == faults < MaxFaults /\ faults' = faults + 1

\* An OSError ends the call; the process keeps its handle.
CallFails(p) ==
    /\ Fault /\ pc[p] # "idle"
    /\ Ends(p)
    /\ UNCHANGED disk

Dies(p) ==
    /\ Fault /\ pc[p] # "idle"
    /\ ownerLock' = Freed(p, ownerLock) /\ lease' = Freed(p, lease)
    /\ call' = [call EXCEPT ![p] = NoCall]
    /\ Goto(p, "idle")
    /\ handle' = [handle EXCEPT ![p] = -1]
    /\ UNCHANGED gateOpen
Crash(p) == Dies(p) /\ UNCHANGED disk

\* A kill inside a publication leaves its temporary, before or after the link.
CrashInPublish(p) ==
    /\ Dies(p)
    /\ \/ /\ pc[p] = "row"
          /\ temps' = temps \cup {"wal"}
          /\ rows' \in {rows, {Appended(p)}}
          /\ UNCHANGED <<files, binding>>
       \/ /\ pc[p] = "publish"
          /\ temps' = temps \cup {"owner"}
          /\ files' \in {files, files \cup {Appended(p)}}
          /\ UNCHANGED <<rows, binding>>
       \/ /\ pc[p] = "reconcile" /\ WalOf(p) # 0 /\ Announced # {}
          /\ temps' = temps \cup {"owner"}
          /\ files' \in {files, files \cup Announced}
          /\ UNCHANGED <<rows, binding>>
       \/ /\ pc[p] = "work" /\ Activating(p) /\ Settled
          /\ temps' = temps \cup {"binding"}
          /\ binding' \in {binding, walDir}
          /\ UNCHANGED <<files, rows>>
    /\ UNCHANGED <<cursor, walDir, inodes>>

-----------------------------------------------------------------------------
(* Specification                                                           *)

Locks(p) == Refresh(p) \/ AcquireOwner(p) \/ AdmissionLease(p)
Runs(p) ==
    \/ Locks(p)
    \/ AdvanceCursor(p) \/ Reconcile(p)
    \/ AppendRow(p) \/ AppendPending(p) \/ AppendPublish(p)
    \/ AppendCall(p) \/ ReplayCall(p)
    \/ RollBack(p) \/ MakeDirectory(p) \/ ActivationRecord(p) \/ PublishBinding(p)

JournalNext ==
    \/ \E p \in Procs :
        \/ Runs(p) \/ Open(p) \/ BeginReplay(p) \/ BeginEnable(p)
        \/ \E x \in Payloads : BeginAppend(p, x)
        \/ CallFails(p) \/ Crash(p) \/ CrashInPublish(p)
    \/ CloseGate

JournalSpec == JournalInit /\ [][JournalNext]_journalVars

\* A running call gets on, and a lock that becomes free again and again is
\* granted.
FairJournalSpec ==
    JournalSpec /\ \A p \in Procs : WF_journalVars(Runs(p)) /\ SF_journalVars(Locks(p))

-----------------------------------------------------------------------------
(* Properties                                                              *)

\* Whatever step a process dies at, the files it leaves are accepted by the
\* next locked call: the records form one chain, the cursor has one of the
\* shapes its recovery knows, directory, intent and marker name each other,
\* the marker of a mandatory WAL stands on a settled intent, and an announced
\* record of a WAL runtime has its payload.
FilesRecoverable ==
    /\ Replays(files) /\ Linear(files) /\ CursorReadable
    /\ IntentOf(Log) \in {0, walDir}
    /\ binding # 0 => binding = walDir /\ IntentOf(Log) = binding /\ Settled
    /\ walDir # 0 => RowsReadable

\* The files implement the log that CapOwner keeps as its journal.
AbstractLog == INSTANCE OwnerLog WITH
    log <- Log,
    pend <- IF Announced = {} THEN None ELSE Last(CHOOSE s \in Announced : TRUE),
    bound <- (binding # 0)
ImplementsLog == AbstractLog!LogSpec

\* An activation whose intent is durable is completed by the next attempt to
\* enable the WAL, even after the gate has closed.
ActivationConverges ==
    \A p \in Procs :
        (faults = MaxFaults /\ IntentOf(Log) # 0 /\ call[p].stage = "open")
            ~> (binding # 0)
=============================================================================
