------------------------------- MODULE CapOwner -------------------------------
(***************************************************************************)
(* The shared cap owner of one transaction,                                *)
(* construction_k7_h1_shared_cap_owner_v3.py: an append-only journal of    *)
(* reservations and settlements under hard caps, joined to the             *)
(* attempt-wide rejection gate.  A call takes the gate lock, then the      *)
(* owner lock, replays the journal and appends one record at a time.       *)
(*                                                                         *)
(* The journal is append-only and its replay deterministic, so the model   *)
(* keeps what the replay yields, the book, and the one append that is      *)
(* pending: its cursor is linked, its record not yet published.  How the   *)
(* cursor files achieve this is the subject of OwnerJournal.  The gate is  *)
(* the write-once slot of RejectionSlot, which RejectionGate implements.   *)
(* A process may be killed, or an OSError end its call, at every step.     *)
(***************************************************************************)
EXTENDS Integers, FiniteSets, FiniteSetsExt

CONSTANTS
    Procs,        \* the cooperating processes
    Ops,          \* the operations
    Paths,        \* the shared resource paths
    MaxPaths,     \* those of them reduced by MAX; the others by SUM
    UnitPaths,    \* those of them that count unit events
    Cap,          \* the hard cap of each path
    Requests,     \* the reservation requests: [op, path, upper]
    Settlements,  \* what a caller may settle with: [basis, value]
    None,         \* an absent record or lock holder
    External,     \* a rejection of the gate by another transaction
    MaxFaults     \* bound: kills and failed writes

Bases == {"EXACT", "KNOWN_NOT_STARTED_ZERO", "CONSERVATIVE_RESERVATION_UPPER",
          "OBSERVED_OVERRUN"}

ASSUME PathsDeclared == MaxPaths \subseteq Paths /\ UnitPaths \subseteq Paths
ASSUME CapsNat == Cap \in [Paths -> Nat] /\ MaxFaults \in Nat
ASSUME RequestsTyped == Requests \subseteq [op : Ops, path : Paths, upper : Nat]
ASSUME SettlementsTyped == Settlements \subseteq [basis : Bases, value : Nat]
ASSUME OpsFinite == IsFiniteSet(Ops)

\* A caller may settle conservatively whatever it knows.
ASSUME ConservativeAllowed ==
    [basis |-> "CONSERVATIVE_RESERVATION_UPPER", value |-> 0] \in Settlements

VARIABLES
    book,        \* what the journal replays to
    pend,        \* the record whose pending cursor is linked, or None
    wal,         \* whether the runtime is bound to a payload WAL
    rejection,   \* the rejection that owns the gate's slot, or None
    receipt,     \* its acknowledgement, or None
    gateEx,      \* the exclusive holder of the gate lock, or None
    gateSh,      \* its shared holders
    ownerLock,   \* the holder of the owner lock, or None
    pc,          \* where each process is
    call,        \* the call each process is in
    guard,       \* the operation whose side effect a process guards, or None
    performed,   \* the operations whose guarded body has been entered
    faults       \* how many faults there have been

journal == <<book, pend, wal>>
gate == <<rejection, receipt>>
locks == <<gateEx, gateSh, ownerLock>>
capVars == <<journal, gate, locks, pc, call, guard, performed, faults>>

Slot == INSTANCE RejectionSlot WITH
    active <- gateSh, Rejections <- {External}, Receipts <- {External}

-----------------------------------------------------------------------------
(* Records and their replay                                                *)

\* The subject of the one receipt a rejection gets.
CapRejection == "CAP_REJECTION"
Subjects == Ops \cup {CapRejection}
Lifecycles == {"KNOWN_NOT_STARTED", "SIDE_EFFECT_STARTED"}
InitialBook ==
    [res |-> [o \in Ops |-> None],       \* the request each operation reserved
     cell |-> [o \in Ops |-> None],      \* its native cell
     evidence |-> [o \in Ops |-> None],  \* its native evidence
     settled |-> {}, receipts |-> {}, events |-> {}, snapshots |-> {},
     charged |-> [x \in Paths |-> 0],
     outstanding |-> [x \in Paths |-> 0],
     admission |-> None,                 \* the rejected request
     overruns |-> 0,
     head |-> <<"GENESIS", None>>,
     ok |-> TRUE]                        \* no record was refused by the replay

Reduce(path, old, new) == IF path \in MaxPaths THEN Max({old, new}) ELSE old + new

\* The candidate of a request, and whether a MAX path has an exposure.
Candidate(b, r) ==
    IF r.path \in MaxPaths THEN Max({b.charged[r.path], r.upper})
    ELSE b.charged[r.path] + b.outstanding[r.path] + r.upper
Exposed(b, r) == r.path \in MaxPaths /\ b.outstanding[r.path] # 0

\* _native_semantics and _require_value_basis_path
ValidSettlement(s, r) ==
    CASE s.basis = "EXACT" -> IF r.path \in UnitPaths
                                THEN s.value = 1 /\ s.value <= r.upper
                                ELSE s.value <= r.upper
      [] s.basis = "OBSERVED_OVERRUN" -> s.value > r.upper
      [] OTHER -> s.value = 0
Charge(s, r) ==
    IF s.basis = "CONSERVATIVE_RESERVATION_UPPER" THEN r.upper ELSE s.value
Lifecycle(s) ==
    IF s.basis = "KNOWN_NOT_STARTED_ZERO" THEN "KNOWN_NOT_STARTED"
    ELSE "SIDE_EFFECT_STARTED"

Reservation(b, r) ==
    [kind |-> IF Candidate(b, r) > Cap[r.path] THEN "ADMISSION" ELSE "RESERVATION",
     subject |-> r.op, req |-> r, candidate |-> Candidate(b, r),
     charged |-> b.charged[r.path], outstanding |-> b.outstanding[r.path]]
Cell(o, state) == [kind |-> "CELL", subject |-> o, state |-> state]
Evidence(o, s) == [kind |-> "EVIDENCE", subject |-> o, settlement |-> s]

Settlement(b, o) ==
    LET r == b.res[o]  c == Charge(b.evidence[o], r)
    IN  [kind |-> "SETTLEMENT", subject |-> o,
         charged |-> Reduce(r.path, b.charged[r.path], c),
         outstanding |-> b.outstanding[r.path] - r.upper]
Receipt(b, x) ==
    [kind |-> "RECEIPT", subject |-> x,
     rejections |-> IF x = CapRejection \/ CapRejection \in b.receipts THEN 1 ELSE 0]
Event(x) == [kind |-> "EVENT", subject |-> x]
Snapshot(b, x) ==
    [kind |-> "SNAPSHOT", subject |-> x, charged |-> b.charged,
     outstanding |-> b.outstanding, settled |-> Cardinality(b.settled),
     rejections |-> IF CapRejection \in b.receipts THEN 1 ELSE 0]

Records ==
    [kind : {"RESERVATION", "ADMISSION"}, subject : Ops, req : Requests,
     candidate : Nat, charged : Nat, outstanding : Nat]
    \cup [kind : {"CELL"}, subject : Ops, state : Lifecycles]
    \cup [kind : {"EVIDENCE"}, subject : Ops, settlement : Settlements]
    \cup [kind : {"SETTLEMENT"}, subject : Ops, charged : Nat, outstanding : Int]
    \cup [kind : {"RECEIPT"}, subject : Subjects, rejections : {0, 1}]
    \cup [kind : {"EVENT"}, subject : Subjects]
    \cup [kind : {"SNAPSHOT"}, subject : Subjects, charged : [Paths -> Nat],
           outstanding : [Paths -> Nat], settled : Nat, rejections : {0, 1}]

\* A rejection of the gate that this owner asked for.
Local(r, candidate) == [req |-> r, candidate |-> candidate]
Locals == [req : Requests, candidate : Nat]

ASSUME NothingIsNothing ==
    /\ None \notin Procs /\ None \notin Ops /\ None \notin Requests
    /\ None \notin Settlements /\ None \notin Lifecycles
    /\ None \notin Records /\ None \notin Locals /\ None # CapRejection
    /\ None \notin Nat
ASSUME ExternalIsOther == External # None /\ External \notin Locals
ASSUME RejectionIsNoOperation == CapRejection \notin Ops

\* _incomplete_pair_frontier: the subjects and stages left unfinished.
Frontier(b) ==
    {<<"CELL", o>> : o \in {x \in Ops : b.cell[x] # None /\ b.evidence[x] = None}}
    \cup {<<"EVIDENCE", o>> :
            o \in {x \in Ops : b.evidence[x] # None /\ x \notin b.settled}}
    \cup {<<"SETTLEMENT", o>> : o \in b.settled \ b.receipts}
    \cup {<<"RECEIPT", x>> : x \in b.receipts \ b.events}
    \cup {<<"EVENT", x>> : x \in b.events \ b.snapshots}
FrontierAllows(b, x) == \A f \in Frontier(b) : f[2] = x

Follower == [CELL |-> "EVIDENCE", EVIDENCE |-> "SETTLEMENT",
             SETTLEMENT |-> "RECEIPT", RECEIPT |-> "EVENT", EVENT |-> "SNAPSHOT"]

\* _require_next_pair_record: an unfinished unit is continued before anything
\* else is appended, a rejection admission by its receipt.
ContinuesUnit(b, d) ==
    /\ b.head[1] = "ADMISSION" => d.kind = "RECEIPT" /\ d.subject = CapRejection
    /\ \A f \in Frontier(b) : d.kind = Follower[f[1]] /\ d.subject = f[2]

\* The _apply_ functions, one for each kind: what the replay demands of a
\* record ...
AcceptsReservation(b, d) ==
    /\ b.admission = None /\ b.res[d.subject] = None
    /\ ~Exposed(b, d.req)
    /\ d = Reservation(b, d.req)
AcceptsCell(b, d) == b.res[d.subject] # None /\ b.cell[d.subject] = None
AcceptsEvidence(b, d) ==
    /\ b.cell[d.subject] = Lifecycle(d.settlement) /\ b.evidence[d.subject] = None
    /\ ValidSettlement(d.settlement, b.res[d.subject])
AcceptsSettlement(b, d) ==
    /\ b.evidence[d.subject] # None /\ d.subject \notin b.settled
    /\ d = Settlement(b, d.subject) /\ d.outstanding >= 0
AcceptsReceipt(b, d) ==
    /\ d.subject \notin b.receipts /\ d = Receipt(b, d.subject)
    /\ d.subject # CapRejection => d.subject \in b.settled
AcceptsEvent(b, d) == d.subject \in b.receipts \ b.events
AcceptsSnapshot(b, d) ==
    d.subject \in b.events \ b.snapshots /\ d = Snapshot(b, d.subject)

Accepts(b, d) ==
    /\ ContinuesUnit(b, d)
    /\ Frontier(b) \subseteq {b.head}
    /\ CASE d.kind \in {"RESERVATION", "ADMISSION"} -> AcceptsReservation(b, d)
         [] d.kind = "CELL" -> AcceptsCell(b, d)
         [] d.kind = "EVIDENCE" -> AcceptsEvidence(b, d)
         [] d.kind = "SETTLEMENT" -> AcceptsSettlement(b, d)
         [] d.kind = "RECEIPT" -> AcceptsReceipt(b, d)
         [] d.kind = "EVENT" -> AcceptsEvent(b, d)
         [] d.kind = "SNAPSHOT" -> AcceptsSnapshot(b, d)

\* ... and what the record adds.
Added(b, d) ==
    LET x == d.subject IN
    CASE d.kind = "RESERVATION" ->
           [b EXCEPT !.res[x] = d.req,
                     !.outstanding[d.req.path] = @ + d.req.upper]
      [] d.kind = "ADMISSION" -> [b EXCEPT !.admission = d.req]
      [] d.kind = "CELL" -> [b EXCEPT !.cell[x] = d.state]
      [] d.kind = "EVIDENCE" ->
           [b EXCEPT !.evidence[x] = d.settlement,
                     !.overruns = @ + (IF d.settlement.basis = "OBSERVED_OVERRUN"
                                       THEN 1 ELSE 0)]
      [] d.kind = "SETTLEMENT" ->
           [b EXCEPT !.settled = @ \cup {x},
                     !.charged[b.res[x].path] = d.charged,
                     !.outstanding[b.res[x].path] = d.outstanding]
      [] d.kind = "RECEIPT" -> [b EXCEPT !.receipts = @ \cup {x}]
      [] d.kind = "EVENT" -> [b EXCEPT !.events = @ \cup {x}]
      [] d.kind = "SNAPSHOT" -> [b EXCEPT !.snapshots = @ \cup {x}]
Applied(b, d) == [Added(b, d) EXCEPT !.head = <<d.kind, d.subject>>,
                                     !.ok = b.ok /\ Accepts(b, d)]

-----------------------------------------------------------------------------
(* The join of gate and owner                                              *)

IsLocal(x) == x \notin {None, External}
GateOpen == rejection = None
Poisoned(b) == b.overruns > 0

\* _require_owner_open_join
OwnerOpen(b) == b.admission = None /\ CapRejection \notin b.receipts

\* _require_rejection_gate_shape of a rejection without admission: the book
\* still is the one the candidate was computed from.
PrestateFrozen(b, x) ==
    /\ ~Poisoned(b) /\ Frontier(b) = {} /\ ~Exposed(b, x.req)
    /\ Candidate(b, x.req) = x.candidate

\* _validate_owner_gate_join, for a rejection this owner asked for ...
LocalStatus(b) ==
    CASE b.admission = None ->
           IF PrestateFrozen(b, rejection) /\ OwnerOpen(b) /\ receipt = None
           THEN "AWAITING_ADMISSION" ELSE "CONFLICT"
      [] b.admission \notin {None, rejection.req} -> "CONFLICT"
      [] b.admission = rejection.req /\ CapRejection \notin b.snapshots ->
           IF receipt = None THEN "AWAITING_PAIR" ELSE "CONFLICT"
      [] b.admission = rejection.req /\ CapRejection \in b.snapshots ->
           IF receipt = None THEN "AWAITING_ACK"
           ELSE IF receipt = CapRejection THEN "ACK_VERIFIED" ELSE "CONFLICT"

\* ... and for any state of the gate.
JoinStatus(b) ==
    CASE GateOpen -> IF OwnerOpen(b) THEN "OPEN" ELSE "CONFLICT"
      [] rejection = External -> IF OwnerOpen(b) THEN "EXTERNAL" ELSE "CONFLICT"
      [] OTHER -> LocalStatus(b)

-----------------------------------------------------------------------------
(* Calls and locks                                                         *)

JoinedCalls ==
    [kind : {"settle"}, req : {None}, op : Ops, settlement : Settlements]
    \cup [kind : {"synchronize", "replay"}, req : {None}, op : {None},
          settlement : {None}]
NoCall == [kind |-> "none", req |-> None, op |-> None, settlement |-> None]

CapInit ==
    /\ book = InitialBook /\ pend = None /\ wal \in BOOLEAN
    /\ rejection = None /\ receipt = None
    /\ gateEx = None /\ gateSh = {} /\ ownerLock = None
    /\ pc = [p \in Procs |-> "idle"]
    /\ call = [p \in Procs |-> NoCall]
    /\ guard = [p \in Procs |-> None]
    /\ performed = {}
    /\ faults = 0

Goto(p, label) == pc' = [pc EXCEPT ![p] = label]
Becomes(p, kind) == call' = [call EXCEPT ![p].kind = kind]
Freed(p, holder) == IF holder = p THEN None ELSE holder

\* A call closes its owner descriptor and leaves its gate context.  A call
\* made inside a guard returns into the guarded body and keeps the gate.
Releases(p) ==
    /\ ownerLock' = Freed(p, ownerLock)
    /\ gateEx' = Freed(p, gateEx)
    /\ gateSh' = IF guard[p] = None THEN gateSh \ {p} ELSE gateSh
Ends(p) ==
    /\ Releases(p)
    /\ call' = [call EXCEPT ![p] = NoCall]
    /\ Goto(p, IF guard[p] = None THEN "idle" ELSE "body")

GateFree == gateEx = None /\ gateSh = {}
Call(kind, r, o, s) == [kind |-> kind, req |-> r, op |-> o, settlement |-> s]
Starts(p, c, label) == call' = [call EXCEPT ![p] = c] /\ Goto(p, label)

\* A call is followed from the moment it gets the gate lock: what it does
\* before only checks its operands.  hold_h1_attempt_gate_open_for_admission_v1
\* gives a reservation the gate exclusively; a rejected gate sends it to
\* synchronize first.
AdmissionGate(p, r) ==
    /\ pc[p] = "idle" /\ GateFree
    /\ \/ /\ GateOpen
          /\ gateEx' = p
          /\ Starts(p, Call("reserve", r, None, None), "owner")
       \/ /\ ~GateOpen
          /\ Starts(p, Call("synchronize", r, None, None), "gate")
          /\ UNCHANGED gateEx
    /\ UNCHANGED <<journal, gate, gateSh, ownerLock, guard, performed, faults>>

\* Mutant: a side effect is let in whatever the state of the gate.
SideEffectGate_AnyState(p, o) ==
    /\ pc[p] = "idle" /\ gateEx = None
    /\ book.res[o] # None
    /\ gateSh' = gateSh \cup {p}
    /\ Starts(p, Call("hold", None, o, None), "owner")
    /\ UNCHANGED <<journal, gate, gateEx, ownerLock, guard, performed, faults>>

\* hold_h1_attempt_gate_open_for_side_effect_v1, shared, for a reservation the
\* caller was given; a rejected gate refuses.
SideEffectGate(p, o) ==
    /\ pc[p] = "idle" /\ gateEx = None
    /\ GateOpen /\ book.res[o] # None
    /\ gateSh' = gateSh \cup {p}
    /\ Starts(p, Call("hold", None, o, None), "owner")
    /\ UNCHANGED <<journal, gate, gateEx, ownerLock, guard, performed, faults>>

\* hold_h1_attempt_rejection_gate_for_replay_v1, exclusive, whatever the state
\* of the gate: for a new call, or for the next stage of a reservation.
ReplayGate(p) ==
    /\ GateFree
    /\ gateEx' = p
    /\ UNCHANGED <<journal, gate, gateSh, ownerLock, guard, performed, faults>>

JoinGate(p, c) ==
    /\ pc[p] = "idle" /\ ReplayGate(p)
    /\ c.op # None => book.res[c.op] # None
    /\ Starts(p, c, "owner")

NextStage(p) ==
    /\ pc[p] = "gate" /\ ReplayGate(p)
    /\ Goto(p, "owner")
    /\ UNCHANGED call

\* Inside a guard only a settlement or a replay of the same runtime is let
\* through, under the owner lock alone.
GuardedCall(p, c) ==
    /\ pc[p] = "body" /\ c.kind \in {"settle", "replay"}
    /\ c.op # None => book.res[c.op] # None
    /\ Starts(p, c, "owner")
    /\ UNCHANGED <<journal, gate, locks, guard, performed, faults>>

\* _require_handle_locked
AcquireOwner(p) ==
    /\ pc[p] = "owner" /\ ownerLock = None
    /\ ownerLock' = p
    /\ Goto(p, "recover")
    /\ UNCHANGED <<journal, gate, gateEx, gateSh, call, guard, performed,
                   faults>>

\* _reconcile_v4_wal_payload: with a WAL the pending record is published
\* whoever comes next.  Then the join is checked: in full by the calls that
\* hold the gate for replay, against the open gate by the others.
Recover(p) ==
    /\ pc[p] = "recover"
    /\ LET b == IF wal /\ pend # None THEN Applied(book, pend) ELSE book
           joined == gateEx = p /\ call[p].kind # "reserve"
       IN  /\ book' = b
           /\ pend' = IF wal THEN None ELSE pend
           /\ IF (joined /\ JoinStatus(b) = "CONFLICT") \/ (~joined /\ ~OwnerOpen(b))
                THEN Ends(p)
                ELSE Goto(p, "work") /\ UNCHANGED <<locks, call>>
    /\ UNCHANGED <<wal, gate, guard, performed, faults>>

Refuses(p) == Ends(p) /\ UNCHANGED journal

\* _append_record: link the pending cursor, or find it linked to this very
\* record; then publish the record.
Appends(p, d, next) ==
    \/ /\ pend = None /\ ContinuesUnit(book, d)
       /\ pend' = d
       /\ UNCHANGED <<book, wal, locks, pc, call>>
    \/ /\ pend = d /\ ContinuesUnit(book, d)
       /\ book' = Applied(book, d)
       /\ pend' = None
       /\ Goto(p, next)
       /\ UNCHANGED <<wal, locks, call>>
    \/ /\ pend \notin {None, d} \/ ~ContinuesUnit(book, d)
       /\ Refuses(p)

-----------------------------------------------------------------------------
(* Reservation                                                             *)

\* What reserve refuses before it looks at the cap.
NotAdmissible(b, r) == Poisoned(b) \/ Frontier(b) # {} \/ Exposed(b, r)

\* reserve_h1_shared_cap_owner_v3 under the open gate.
Reserve(p) ==
    /\ pc[p] = "work" /\ call[p].kind = "reserve"
    /\ LET r == call[p].req  d == Reservation(book, r) IN
       \/ /\ book.res[r.op] # None
          /\ Ends(p)
          /\ UNCHANGED journal
       \/ /\ book.res[r.op] = None
          /\ NotAdmissible(book, r) \/ (d.kind = "ADMISSION" /\ pend # None)
          /\ Refuses(p)
       \/ /\ book.res[r.op] = None /\ ~NotAdmissible(book, r)
          /\ d.kind = "RESERVATION"
          /\ Appends(p, d, "work")
    /\ UNCHANGED <<gate, guard, performed, faults>>

\* The cap is exceeded: the gate is rejected through the admission lease
\* before the owner has a record of it.
CommitRejection(p) ==
    /\ pc[p] = "work" /\ call[p].kind = "reserve"
    /\ LET r == call[p].req IN
       /\ book.res[r.op] = None /\ ~NotAdmissible(book, r) /\ pend = None
       /\ Candidate(book, r) > Cap[r.path]
       /\ Slot!Reject(Local(r, Candidate(book, r)))
    /\ Becomes(p, "reject")
    /\ UNCHANGED <<journal, gateEx, ownerLock, pc, guard, performed, faults>>

\* _append_rejection_pair_locked, after the admission where it is missing.
RejectionRecord(b) ==
    CASE b.admission = None -> Reservation(b, rejection.req)
      [] b.admission # None /\ CapRejection \notin b.receipts -> Receipt(b, CapRejection)
      [] CapRejection \in b.receipts \ b.events -> Event(CapRejection)
      [] OTHER -> Snapshot(b, CapRejection)
RejectionRecorded(b) == CapRejection \in b.snapshots

RecordRejection(p) ==
    /\ pc[p] = "work" /\ call[p].kind = "reject"
    /\ \/ ~FrontierAllows(book, CapRejection) /\ Refuses(p)
       \/ /\ FrontierAllows(book, CapRejection) /\ ~RejectionRecorded(book)
          /\ Appends(p, RejectionRecord(book), "work")
       \/ /\ FrontierAllows(book, CapRejection) /\ RejectionRecorded(book)
          /\ Releases(p)
          /\ Goto(p, "ack")
          /\ UNCHANGED <<journal, call>>
    /\ UNCHANGED <<gate, guard, performed, faults>>

\* _ack_rejection_pair: a call of the gate on its own, idempotent there.
Acknowledge(p) ==
    /\ pc[p] = "ack" /\ gateEx = None /\ gateSh = {}
    /\ Slot!Acknowledge(CapRejection) \/ (receipt # None /\ UNCHANGED <<gate, gateSh>>)
    /\ call' = [call EXCEPT ![p] = NoCall]
    /\ Goto(p, "idle")
    /\ UNCHANGED <<journal, gateEx, ownerLock, guard, performed, faults>>

\* synchronize_h1_shared_cap_rejection_v3, called alone or by a reservation
\* that met a rejected gate.
Synchronize(p) ==
    /\ pc[p] = "work" /\ call[p].kind = "synchronize"
    /\ \/ /\ JoinStatus(book) \in {"AWAITING_PAIR", "AWAITING_ACK", "ACK_VERIFIED"}
          /\ Becomes(p, "reject")
          /\ UNCHANGED <<journal, locks, pc>>
       \/ /\ JoinStatus(book) \in {"OPEN", "EXTERNAL", "AWAITING_ADMISSION"}
          /\ IF call[p].req = None
               THEN Ends(p)
               ELSE Releases(p) /\ Becomes(p, "lookup") /\ Goto(p, "gate")
          /\ UNCHANGED journal
    /\ UNCHANGED <<gate, guard, performed, faults>>

\* _lookup_existing_reservation_after_rejection
Lookup(p) ==
    /\ pc[p] = "work" /\ call[p].kind = "lookup"
    /\ LET r == call[p].req IN
       \/ book.res[r.op] # None /\ Ends(p)
       \/ /\ book.res[r.op] = None
          /\ Releases(p) /\ Becomes(p, "pending") /\ Goto(p, "gate")
    /\ UNCHANGED <<journal, gate, guard, performed, faults>>

\* _recover_pending_admitted_reservation_after_rejection: the pending cursor
\* proves that the append was admitted while the gate was open.
RecoverPending(p) ==
    /\ pc[p] = "work" /\ call[p].kind = "pending"
    /\ LET r == call[p].req  d == Reservation(book, r) IN
       \/ /\ pend = None \/ (~Exposed(book, r) /\ d.kind = "ADMISSION")
          /\ Releases(p) /\ Becomes(p, "exact") /\ Goto(p, "gate")
          /\ UNCHANGED journal
       \/ /\ pend # None
          /\ Exposed(book, r) \/ (d.kind = "RESERVATION" /\ pend # d)
          /\ Refuses(p)
       \/ /\ pend = d /\ ~Exposed(book, r) /\ d.kind = "RESERVATION"
          /\ Appends(p, d, "finish")
    /\ UNCHANGED <<gate, guard, performed, faults>>

FinishPending(p) ==
    /\ pc[p] = "finish"
    /\ Ends(p)
    /\ UNCHANGED <<journal, gate, guard, performed, faults>>

\* _recover_shared_owner_rejection_for_exact_request: only the request that
\* rejected the gate may supply the missing admission.
RecoverExact(p) ==
    /\ pc[p] = "work" /\ call[p].kind = "exact"
    /\ LET r == call[p].req IN
       \/ JoinStatus(book) # "AWAITING_ADMISSION" /\ Ends(p)
       \/ /\ JoinStatus(book) = "AWAITING_ADMISSION"
          /\ rejection # Local(r, Candidate(book, r)) \/ Exposed(book, r)
          /\ Ends(p)
       \/ /\ JoinStatus(book) = "AWAITING_ADMISSION"
          /\ rejection = Local(r, Candidate(book, r)) /\ ~Exposed(book, r)
          /\ Becomes(p, "reject")
          /\ UNCHANGED <<locks, pc>>
    /\ UNCHANGED <<journal, gate, guard, performed, faults>>

-----------------------------------------------------------------------------
(* Side effect and settlement                                              *)

\* Mutant: a start that is already durable is taken for a retry.
HoldSideEffect_Reenters(p) ==
    /\ pc[p] = "work" /\ call[p].kind = "hold"
    /\ LET o == call[p].op
           refused == \/ ~FrontierAllows(book, o) \/ Poisoned(book)
                      \/ o \in book.settled
       IN  \/ refused /\ Refuses(p)
           \/ /\ ~refused /\ book.cell[o] # None
              /\ Goto(p, "enter") /\ UNCHANGED <<journal, locks, call>>
           \/ /\ ~refused /\ book.cell[o] = None
              /\ Appends(p, Cell(o, "SIDE_EFFECT_STARTED"), "enter")
    /\ UNCHANGED <<gate, guard, performed, faults>>

\* hold_h1_shared_cap_owner_v3_side_effect
HoldSideEffect(p) ==
    /\ pc[p] = "work" /\ call[p].kind = "hold"
    /\ LET o == call[p].op
           refused == \/ ~FrontierAllows(book, o) \/ Poisoned(book)
                      \/ o \in book.settled \/ book.cell[o] # None
       IN  \/ refused /\ Refuses(p)
           \/ ~refused /\ Appends(p, Cell(o, "SIDE_EFFECT_STARTED"), "enter")
    /\ UNCHANGED <<gate, guard, performed, faults>>

\* The owner lock is dropped and the body entered under the shared gate.
EnterBody(p) ==
    /\ pc[p] = "enter"
    /\ ownerLock' = None
    /\ guard' = [guard EXCEPT ![p] = call[p].op]
    /\ performed' = performed \cup {call[p].op}
    /\ call' = [call EXCEPT ![p] = NoCall]
    /\ Goto(p, "body")
    /\ UNCHANGED <<journal, gate, gateEx, gateSh, faults>>

LeaveBody(p) ==
    /\ pc[p] = "body"
    /\ guard' = [guard EXCEPT ![p] = None]
    /\ gateSh' = gateSh \ {p}
    /\ Goto(p, "idle")
    /\ UNCHANGED <<journal, gate, gateEx, ownerLock, call, performed, faults>>

\* The records of a settlement, each looked up before it is appended.
SettlementRecord(b, o, s) ==
    CASE b.cell[o] = None -> Cell(o, Lifecycle(s))
      [] b.cell[o] # None /\ b.evidence[o] = None -> Evidence(o, s)
      [] b.evidence[o] # None /\ o \notin b.settled -> Settlement(b, o)
      [] o \in b.settled \ b.receipts -> Receipt(b, o)
      [] o \in b.receipts \ b.events -> Event(o)
      [] OTHER -> Snapshot(b, o)

\* Mutant: a new settlement is let in before the rejection's admission.
SettlementRefused_WhileAwaiting(p, b, o, s) ==
    \/ ~ValidSettlement(s, b.res[o])
    \/ b.cell[o] \notin {None, Lifecycle(s)}
    \/ b.evidence[o] \notin {None, s}
    \/ b.cell[o] = None /\ Lifecycle(s) = "SIDE_EFFECT_STARTED"

\* Mutant: a pending start is refused like a missing one.
SettlementRefused_PendingStart(p, b, o, s) ==
    \/ ~ValidSettlement(s, b.res[o])
    \/ b.cell[o] \notin {None, Lifecycle(s)}
    \/ b.evidence[o] \notin {None, s}
    \/ b.cell[o] = None /\ Lifecycle(s) = "SIDE_EFFECT_STARTED"
    \/ /\ gateEx = p /\ JoinStatus(b) = "AWAITING_ADMISSION"
       /\ o \notin b.settled

\* What settle refuses: a malformed value, other semantics than the durable
\* records, a start that never became durable, an ambiguous one not settled
\* conservatively, and any new settlement while a rejection lacks its admission.
SettlementRefused(p, b, o, s) ==
    LET pendingStart == b.cell[o] = None /\ pend = Cell(o, "SIDE_EFFECT_STARTED")
    IN  \/ ~ValidSettlement(s, b.res[o])
        \/ b.cell[o] \notin {None, Lifecycle(s)}
        \/ b.evidence[o] \notin {None, s}
        \/ pendingStart /\ s.basis # "CONSERVATIVE_RESERVATION_UPPER"
        \/ /\ b.cell[o] = None /\ Lifecycle(s) = "SIDE_EFFECT_STARTED"
           /\ ~pendingStart
        \/ /\ gateEx = p /\ JoinStatus(b) = "AWAITING_ADMISSION"
           /\ o \notin b.settled

\* settle_h1_shared_cap_owner_v3
Settle(p) ==
    /\ pc[p] = "work" /\ call[p].kind = "settle"
    /\ LET o == call[p].op  s == call[p].settlement IN
       \/ SettlementRefused(p, book, o, s) /\ Refuses(p)
       \/ /\ ~SettlementRefused(p, book, o, s) /\ o \notin book.snapshots
          /\ Appends(p, SettlementRecord(book, o, s), "work")
       \/ /\ ~SettlementRefused(p, book, o, s) /\ o \in book.snapshots
          /\ Ends(p)
          /\ UNCHANGED journal
    /\ UNCHANGED <<gate, guard, performed, faults>>

\* replay_h1_shared_cap_owner_v3, and the two inspections
Replay(p) ==
    /\ pc[p] = "work" /\ call[p].kind = "replay"
    /\ Ends(p)
    /\ UNCHANGED <<journal, gate, guard, performed, faults>>

-----------------------------------------------------------------------------
(* The other transactions of the attempt, and faults                       *)

ExternalRejects ==
    /\ gateEx = None /\ Slot!Reject(External)
    /\ UNCHANGED <<journal, gateEx, ownerLock, pc, call, guard, performed,
                   faults>>
ExternalAcknowledges ==
    /\ gateEx = None /\ rejection = External /\ Slot!Acknowledge(External)
    /\ UNCHANGED <<journal, gateEx, ownerLock, pc, call, guard, performed,
                   faults>>

Fault == faults < MaxFaults /\ faults' = faults + 1

\* An OSError ends the call and runs its finally clauses.
CallFails(p) ==
    /\ Fault
    /\ pc[p] \in {"recover", "work", "ack"}
    /\ Ends(p)
    /\ UNCHANGED <<journal, gate, guard, performed>>

\* The kernel closes a dead process's descriptors.
Crash(p) ==
    /\ Fault
    /\ pc[p] # "idle"
    /\ ownerLock' = Freed(p, ownerLock)
    /\ gateEx' = Freed(p, gateEx)
    /\ gateSh' = gateSh \ {p}
    /\ guard' = [guard EXCEPT ![p] = None]
    /\ call' = [call EXCEPT ![p] = NoCall]
    /\ Goto(p, "idle")
    /\ UNCHANGED <<journal, gate, performed>>

-----------------------------------------------------------------------------
(* Specification                                                           *)

\* A process waits for one lock at a time; an acknowledgement is a gate call.
Acquires(p) ==
    NextStage(p) \/ Acknowledge(p) \/ AcquireOwner(p)

Runs(p) ==
    \/ Acquires(p) \/ Recover(p)
    \/ Reserve(p) \/ CommitRejection(p) \/ RecordRejection(p)
    \/ Synchronize(p) \/ Lookup(p) \/ RecoverPending(p) \/ FinishPending(p)
    \/ RecoverExact(p)
    \/ HoldSideEffect(p) \/ EnterBody(p) \/ LeaveBody(p)
    \/ Settle(p) \/ Replay(p)

CapNext ==
    \/ \E p \in Procs :
        \/ Runs(p) \/ CallFails(p) \/ Crash(p)
        \/ \E r \in Requests : AdmissionGate(p, r)
        \/ \E o \in Ops : SideEffectGate(p, o)
        \/ \E c \in JoinedCalls : JoinGate(p, c) \/ GuardedCall(p, c)
    \/ ExternalRejects \/ ExternalAcknowledges

CapSpec == CapInit /\ [][CapNext]_capVars

-----------------------------------------------------------------------------
(* Properties                                                              *)

\* What the journal amounts to once its pending append is published.
Effective == IF pend = None THEN book ELSE Applied(book, pend)

\* No journal the calls and crashes can leave is refused by its own replay,
\* neither as it is nor with its pending record published.
JournalReplays == Effective.ok

\* An effect that was entered has its start in the journal, so no later
\* settlement can declare that it never started.
PerformedRecorded ==
    \A o \in performed : book.cell[o] = "SIDE_EFFECT_STARTED"

\* Whenever the owner lock is free, gate and journal have one of the
\* explainable joins: a crash after the gate's rejection and before the
\* owner's admission leaves the prestate frozen, an acknowledgement finds its
\* exact pair, an open gate no trace of a rejection.
JoinExplainable ==
    ownerLock = None =>
        JoinStatus(book) # "CONFLICT" /\ JoinStatus(Effective) # "CONFLICT"

\* Whatever a crash leaves unfinished, a pending append or an incomplete unit,
\* some legal call can finish: a retried reservation or rejection, or a
\* settlement that settle does not refuse.  The journal replays with and
\* without its pending record, and says of every effect that it started.
AlwaysResumable ==
    /\ JournalReplays /\ PerformedRecorded
    /\ ownerLock = None =>
        /\ pend # None =>
             \/ \E r \in Requests : pend = Reservation(book, r)
             \/ IsLocal(rejection) /\ pend = RejectionRecord(book)
             \/ \E o \in Ops, s \in Settlements :
                  /\ book.res[o] # None /\ pend = SettlementRecord(book, o, s)
                  /\ ~SettlementRefused(None, book, o, s)
        /\ \A f \in Frontier(book) :
             \/ f[2] = CapRejection
             \/ \E s \in Settlements :
                  /\ ~SettlementRefused(None, book, f[2], s)
                  /\ pend \in {None, SettlementRecord(book, f[2], s)}

\* The guarded body of an operation is entered at most once, however often
\* its call is retried after a crash.
EffectOnce ==
    [][\A p \in Procs : guard'[p] # guard[p] => guard'[p] \notin performed]_capVars

\* The owner implements the ledger: one admission, one start and one charge
\* per operation, totals under the hard caps, nothing new once it is closed.
\* A pending append already counts.
Entered == IF pend = None THEN book ELSE Added(book, pend)
Ledger == INSTANCE CapLedger WITH
    Charges <- {s.value : s \in Settlements} \cup {r.upper : r \in Requests},
    admitted <- Entered.res,
    started <- {o \in Ops : Entered.cell[o] = "SIDE_EFFECT_STARTED"},
    spent <- [o \in Ops |-> IF o \in Entered.settled
                            THEN Charge(Entered.evidence[o], Entered.res[o])
                            ELSE None],
    closed <- rejection # None
ImplementsLedger == Ledger!LedgerSpec
=============================================================================
