-------------------------- MODULE PhaseOwnerProofs --------------------------
(***************************************************************************)
(* Safety of the attempt execution phase owner for any number of           *)
(* processes, transitions and faults, and its refinement of PhaseSwitch.   *)
(***************************************************************************)
EXTENDS PhaseOwner, SequenceTheorems, TLAPS

\* Where a call recovers or carries a transition through.
Walk == {"seal", "cursor", "append1", "link", "append2", "converged"}
InPhase == {"temps", "spec", "genesis", "allocate", "unlockPhase", "held", "publish"} \cup Walk
InGate == {"snapshot", "held", "owner", "build", "publish", "unlockGate"}
Labels == {"idle", "alloc", "phase", "gate", "unlockAlloc", "orphan"} \cup InPhase \cup InGate

MaybeTransition == Transitions \cup {None}
OpKinds == {"none", "init", "replay", "reject", "ack", "append"} \cup LeaseKinds
Args == Specs \cup MaybeTransition \cup Rejections \cup Receipts
Whats == {"none", "crossed", "damaged", "refused", "replayed", "rejected", "done", "error"}

PhaseTypeOK ==
    /\ intent \in MaybeTransition /\ seal \in MaybeTransition /\ commit \in MaybeTransition
    /\ cursor \in Seq(CursorRecords) /\ torn \in CursorRecords \cup {None}
    /\ tail \in Nat
    /\ pc \in [Procs -> Labels]
    /\ op \in [Procs -> [kind : OpKinds, arg : Args]]
    /\ lease \in [Procs -> [kind : LeaseKinds \cup {"none"}, spent : BOOLEAN,
                            gate : GateStates, transition : MaybeTransition]]
    /\ out \in [Procs -> [what : Whats, transition : MaybeTransition, gate : GateStates]]

\* The files of the attempt and the seal in the root tell of one transition,
\* and the commit comes before the last record of the cursor.
DiskFits ==
    /\ intent # None /\ seal # None => intent = seal
    /\ commit # None => commit = Durable
    /\ Durable # None => WellClassified(Durable) /\ Len(cursor) > 0
    /\ Len(cursor) <= 3
    /\ \A n \in 1..Len(cursor) : cursor[n] = CursorRecord(n - 1, Durable)
    /\ Len(cursor) > 1 => Durable # None
    /\ Len(cursor) = 3 => commit # None
    /\ torn # None => /\ Durable # None /\ Len(cursor) < 3
                      /\ torn = CursorRecord(Len(cursor), Durable)
    /\ alloc # None => Len(cursor) > 0

\* The locks a call holds in each of its steps.
LocksFit(p) ==
    /\ pc[p] \in InPhase => phaseLock = p
    /\ pc[p] \in InGate => gateLock = p
    /\ pc[p] \in {"build", "publish"} => ownerLock = p
    /\ ownerLock = p => pc[p] \in {"build", "publish"} \cup Walk
    /\ ownerLock = p /\ pc[p] \in Walk => gateLock = p
    /\ pc[p] \in {"gate", "snapshot", "owner", "build"}
         /\ op[p].kind \in LeaseKinds \cup {"replay"} => phaseLock = p

Changing == {"normal", "transit"}

\* The lease a call is inside, and what it retained.
LeaseFits(p) ==
    /\ lease[p].kind # "none" =>
         /\ lease[p].kind = op[p].kind /\ lease[p].gate = GateState
         /\ phaseLock = p /\ gateLock = p
         /\ pc[p] \in {"held", "owner", "build", "publish"} \/ (pc[p] \in Walk /\ ownerLock = p)
    /\ pc[p] \in {"held", "publish"} \/ (pc[p] \in Walk /\ ownerLock = p) =>
         lease[p].kind # "none"
    /\ lease[p].kind = "cleanup" => pc[p] = "held"
    /\ lease[p].kind = "normal" => lease[p].gate = "OPEN"
    /\ pc[p] = "publish" \/ (pc[p] \in Walk /\ ownerLock = p) => lease[p].spent
    /\ pc[p] \in {"owner", "build"} =>
         op[p].kind = "append" \/ (lease[p].kind \in Changing /\ ~lease[p].spent)
    /\ lease[p].transition # None => Durable = lease[p].transition
    /\ op[p].kind \in LeaseKinds => alloc # None

\* How far a recovery or a transition has come.
WalkFits(p) ==
    /\ pc[p] \in Walk \ {"seal"} => intent = seal
    /\ pc[p] \in Walk \ {"seal", "cursor"} => torn = None
    /\ pc[p] \in {"append1", "link", "append2"} => intent # None
    /\ pc[p] = "append1" => Len(cursor) = 1
    /\ pc[p] \in {"link", "append2"} => Len(cursor) = 2
    /\ pc[p] = "append2" => commit # None
    /\ pc[p] = "converged" => intent = None \/ Len(cursor) = 3
    /\ pc[p] = "allocate" => Len(cursor) > 0
    /\ pc[p] \in Walk /\ ownerLock # p => temps = {}

\* A call that may still change the phase has nothing durable before it.
Before(p) ==
    \/ pc[p] \in {"gate", "snapshot"} /\ op[p].kind \in Changing
    \/ lease[p].kind \in Changing /\ ~lease[p].spent
    \/ pc[p] = "publish"

ChangeFits(p) ==
    /\ Before(p) => intent = None /\ seal = None
    /\ Before(p) \/ (pc[p] \in {"gate", "snapshot"} /\ op[p].kind \in LeaseKinds) => temps = {}
    /\ pc[p] \in {"owner", "build", "publish"} /\ op[p].kind # "append" =>
         op[p].arg \in Transitions /\ WellClassified(op[p].arg)
    /\ pc[p] = "publish" => op[p].arg.tail = tail /\ op[p].arg.gate = GateState

\* A cleanup call past its recovery finds the transition it named.
CleanupFits(p) ==
    /\ op[p].kind = "cleanup" => op[p].arg \in Transitions
    /\ op[p].kind = "cleanup" /\ pc[p] \in {"gate", "snapshot", "held"} =>
         intent = op[p].arg /\ seal = op[p].arg /\ Len(cursor) = 3 /\ torn = None

AnswerFits(p) == out[p].transition # None => Durable = out[p].transition

ProcFits(p) ==
    /\ LocksFit(p) /\ LeaseFits(p) /\ WalkFits(p) /\ ChangeFits(p)
    /\ CleanupFits(p) /\ AnswerFits(p)

PhaseInv ==
    /\ PhaseTypeOK
    /\ DiskFits
    /\ \A p \in Procs : ProcFits(p)
-----------------------------------------------------------------------------
(* One process at a time                                                   *)

\* What a step of process p may do to the others: the files only under the
\* phase lock, the gate only under its lock, the journal only under OWNER.
Apart(p) ==
    /\ \A q \in Procs \ {p} : /\ pc'[q] = pc[q] /\ op'[q] = op[q]
                              /\ lease'[q] = lease[q] /\ out'[q] = out[q]
    /\ \A q \in Procs \ {p} : /\ phaseLock' = q <=> phaseLock = q
                              /\ gateLock' = q <=> gateLock = q
                              /\ ownerLock' = q <=> ownerLock = q
    /\ Durable # None => Durable' = Durable
    /\ alloc # None => alloc' # None
    /\ phaseLock = p \/ UNCHANGED <<intent, seal, commit, cursor, torn, temps>>
    /\ gateLock = p \/ UNCHANGED <<rejection, receipt>>
    /\ ownerLock = p \/ UNCHANGED tail

\* The processes that do not take the step keep what they know.
LEMMA OthersFit ==
    ASSUME PhaseInv, NEW p, Apart(p), NEW q \in Procs \ {p}
    PROVE  ProcFits(q)'
  <1>1. /\ pc'[q] = pc[q] /\ op'[q] = op[q] /\ lease'[q] = lease[q] /\ out'[q] = out[q]
        /\ phaseLock' = q <=> phaseLock = q
        /\ gateLock' = q <=> gateLock = q
        /\ ownerLock' = q <=> ownerLock = q
        /\ Durable # None => Durable' = Durable
        /\ alloc # None => alloc' # None
    BY DEF Apart
  <1>2. phaseLock = q => UNCHANGED <<intent, seal, commit, cursor, torn, temps>>
    BY DEF Apart
  <1>3. gateLock = q => GateState' = GateState
    BY DEF Apart, GateState
  <1>4. ownerLock = q => tail' = tail
    BY DEF Apart
  <1>5. ProcFits(q)
    BY DEF PhaseInv
  <1>6. LocksFit(q)'
    BY <1>1, <1>5 DEF ProcFits, LocksFit
  <1>7. LeaseFits(q)'
    BY <1>1, <1>3, <1>5 DEF ProcFits, LeaseFits
  <1>8. WalkFits(q)'
    BY <1>1, <1>2, <1>5 DEF ProcFits, LocksFit, WalkFits, InPhase, Walk
  <1>9. ChangeFits(q)'
    <2>1. Before(q) => phaseLock = q
      BY <1>5 DEF ProcFits, LocksFit, LeaseFits, Before, InPhase, LeaseKinds, Changing
    <2>2. Before(q)' <=> Before(q)
      BY <1>1 DEF Before
    <2>3. pc[q] \in {"gate", "snapshot"} /\ op[q].kind \in LeaseKinds => phaseLock = q
      BY <1>5 DEF ProcFits, LocksFit
    <2>4. pc[q] = "publish" => ownerLock = q /\ gateLock = q
      BY <1>5 DEF ProcFits, LocksFit, InGate
    <2> QED BY <1>1, <1>2, <1>3, <1>4, <1>5, <2>1, <2>2, <2>3, <2>4
            DEF ProcFits, ChangeFits, WellClassified
  <1>10. CleanupFits(q)'
    BY <1>1, <1>2, <1>5 DEF ProcFits, LocksFit, CleanupFits, InPhase, LeaseKinds
  <1>11. AnswerFits(q)'
    BY <1>1, <1>5 DEF ProcFits, AnswerFits
  <1> QED BY <1>6, <1>7, <1>8, <1>9, <1>10, <1>11 DEF ProcFits

\* A step of one process is looked at for that process alone.
LEMMA Assemble ==
    ASSUME PhaseInv, NEW p \in Procs, Apart(p), PhaseTypeOK', DiskFits', ProcFits(p)'
    PROVE  PhaseInv'
  BY OthersFit DEF PhaseInv

\* The files stay as they are.
LEMMA DiskStays ==
    ASSUME DiskFits, UNCHANGED <<alloc, intent, seal, commit, cursor, torn>>
    PROVE  DiskFits' /\ Durable' = Durable
  <1>1. Durable' = Durable
    BY DEF Durable
  <1> QED BY <1>1 DEF DiskFits

\* The initial state.
LEMMA InitFits == PhaseInit => PhaseInv
  <1> SUFFICES ASSUME PhaseInit PROVE PhaseInv
    OBVIOUS
  <1> USE DEF PhaseInit
  <1>1. PhaseTypeOK
    <2>1. << >> \in Seq(CursorRecords)
      OBVIOUS
    <2>2. pc \in [Procs -> Labels]
      BY DEF Labels
    <2>3. op \in [Procs -> [kind : OpKinds, arg : Args]]
      BY DEF NoCall, OpKinds, Args, MaybeTransition
    <2>4. lease \in [Procs -> [kind : LeaseKinds \cup {"none"}, spent : BOOLEAN,
                               gate : GateStates, transition : MaybeTransition]]
      BY DEF NoLease, GateStates, MaybeTransition
    <2>5. out \in [Procs -> [what : Whats, transition : MaybeTransition, gate : GateStates]]
      BY DEF NoAnswer, Answer, GateStates, MaybeTransition, Whats
    <2> QED BY <2>1, <2>2, <2>3, <2>4, <2>5 DEF PhaseTypeOK, MaybeTransition
  <1>2. Len(cursor) = 0 /\ Durable = None
    BY DEF Durable
  <1>3. DiskFits
    BY <1>2 DEF DiskFits
  <1>4. ASSUME NEW p \in Procs PROVE ProcFits(p)
    <2>1. /\ pc[p] = "idle" /\ op[p].kind = "none" /\ lease[p].kind = "none"
          /\ lease[p].transition = None /\ out[p].transition = None /\ p # None
      BY NoneIsNothing DEF NoCall, NoLease, NoAnswer, Answer
    <2> QED BY <2>1 DEF ProcFits, LocksFit, LeaseFits, WalkFits, ChangeFits,
               CleanupFits,
                 AnswerFits, Before, InPhase, InGate, Walk, LeaseKinds, Changing
  <1> QED BY <1>1, <1>3, <1>4 DEF PhaseInv
-----------------------------------------------------------------------------
(* The steps                                                               *)

\* The calls there are.
LEMMA CallFacts ==
    /\ \A call \in PhaseCalls \cup GateCalls : call \in [kind : OpKinds, arg : Args]
    /\ \A call \in PhaseCalls \cup GateCalls : call.kind = "cleanup" => call.arg \in Transitions
    /\ NoCall \in [kind : OpKinds, arg : Args] /\ NoCall.kind = "none"
    /\ [kind |-> "replay", arg |-> None] \in [kind : OpKinds, arg : Args]
  <1>1. \A call \in PhaseCalls : call \in [kind : OpKinds, arg : Args]
    BY ExpectedAreTransitions DEF PhaseCalls, OpKinds, LeaseKinds, Args, MaybeTransition
  <1>2. \A call \in GateCalls : call \in [kind : OpKinds, arg : Args]
    BY DEF GateCalls, OpKinds, Args, MaybeTransition
  <1>3. \A call \in PhaseCalls : call.kind = "cleanup" => call.arg \in Transitions
    BY ExpectedAreTransitions DEF PhaseCalls
  <1>4. \A call \in GateCalls : call.kind # "cleanup"
    BY DEF GateCalls
  <1>5. /\ NoCall \in [kind : OpKinds, arg : Args] /\ NoCall.kind = "none"
        /\ [kind |-> "replay", arg |-> None] \in [kind : OpKinds, arg : Args]
    BY DEF NoCall, OpKinds, Args, MaybeTransition
  <1> QED BY <1>1, <1>2, <1>3, <1>4, <1>5

\* The answers there are.
LEMMA AnswerFacts ==
    /\ \A w \in Whats, t \in MaybeTransition, g \in GateStates :
         /\ Answer(w, t, g) \in [what : Whats, transition : MaybeTransition, gate : GateStates]
         /\ Answer(w, t, g).transition = t
    /\ None \in MaybeTransition /\ "OPEN" \in GateStates /\ GateState \in GateStates
    /\ NoAnswer = Answer("none", None, "OPEN") /\ "none" \in Whats
  <1>1. GateState \in GateStates
    BY DEF GateState, GateStates
  <1> QED BY <1>1 DEF Answer, NoAnswer, Whats, MaybeTransition, GateStates

\* A phase call begins.
LEMMA StartPhaseCallFits ==
    ASSUME PhaseInv, NEW p \in Procs, NEW call \in PhaseCalls, StartPhaseCall(p, call)
    PROVE  PhaseInv'
  <1> USE DEF PhaseInv
  <1>0. /\ pc[p] = "idle" /\ op' = [op EXCEPT ![p] = call] /\ call \in [kind : OpKinds, arg : Args]
        /\ call.kind = "cleanup" => call.arg \in Transitions
        /\ out' = [out EXCEPT ![p] = NoAnswer] /\ NoAnswer.transition = None
        /\ NoAnswer \in [what : Whats, transition : MaybeTransition, gate : GateStates]
    BY CallFacts, AnswerFacts DEF StartPhaseCall, Ends
  <1>1. PhaseTypeOK'
    BY <1>0, NoneIsNothing DEF StartPhaseCall, Goto, Ends, disk, gate, locks,
       PhaseTypeOK, Labels, InPhase, InGate, Walk
  <1>2. DiskFits' /\ Durable' = Durable
    BY DiskStays DEF StartPhaseCall, Goto, Ends, disk, gate, locks
  <1>3. Apart(p)
    BY <1>0, <1>2, NoneIsNothing DEF StartPhaseCall, Goto, Ends, disk, gate, locks,
       PhaseTypeOK, Apart, ProcFits, LocksFit, InPhase, InGate, Walk
  <1>4. LocksFit(p)'
    BY <1>0, <1>2, NoneIsNothing DEF StartPhaseCall, Goto, Ends, disk, gate, locks,
       PhaseTypeOK, ProcFits, LocksFit, InPhase, InGate, Walk, LeaseKinds
  <1>5. LeaseFits(p)'
    BY ZenonT(30), <1>0, <1>2, NoneIsNothing DEF StartPhaseCall, Goto, Ends, disk, gate,
       locks,
       PhaseTypeOK, ProcFits, LocksFit, LeaseFits, InPhase, InGate, Walk, LeaseKinds,
       Changing, GateState
  <1>6. WalkFits(p)'
    BY <1>0, <1>2, NoneIsNothing DEF StartPhaseCall, Goto, Ends, disk, gate, locks,
       PhaseTypeOK, ProcFits, LocksFit, WalkFits, Walk
  <1>7. ChangeFits(p)'
    BY <1>0, <1>2, NoneIsNothing DEF StartPhaseCall, Goto, Ends, disk, gate, locks,
       PhaseTypeOK, ProcFits, LocksFit, LeaseFits, WalkFits, ChangeFits, Before,
       InPhase, LeaseKinds, Changing, GateState, WellClassified
  <1>8. CleanupFits(p)'
    BY <1>0, <1>2, NoneIsNothing DEF StartPhaseCall, Goto, Ends, disk, gate, locks,
       PhaseTypeOK, ProcFits, CleanupFits
  <1>9. AnswerFits(p)'
    BY <1>0, <1>2, NoneIsNothing DEF StartPhaseCall, Goto, Ends, disk, gate, locks,
       PhaseTypeOK, ProcFits, AnswerFits
  <1> QED BY <1>1, <1>2, <1>3, <1>4, <1>5, <1>6, <1>7, <1>8, <1>9, Assemble DEF ProcFits

\* A call of the gate or of the owner begins.
LEMMA StartGateCallFits ==
    ASSUME PhaseInv, NEW p \in Procs, NEW call \in GateCalls, StartGateCall(p, call)
    PROVE  PhaseInv'
  <1> USE DEF PhaseInv
  <1>0. /\ pc[p] = "idle" /\ op' = [op EXCEPT ![p] = call] /\ call \in [kind : OpKinds, arg : Args]
        /\ call.kind = "cleanup" => call.arg \in Transitions
        /\ out' = [out EXCEPT ![p] = NoAnswer] /\ NoAnswer.transition = None
        /\ NoAnswer \in [what : Whats, transition : MaybeTransition, gate : GateStates]
        /\ call.kind \notin LeaseKinds \cup {"replay"}
    BY CallFacts, AnswerFacts DEF StartGateCall, Ends, GateCalls, LeaseKinds
  <1>1. PhaseTypeOK'
    BY <1>0, NoneIsNothing DEF StartGateCall, Goto, Ends, disk, gate, locks,
       PhaseTypeOK, Labels, InPhase, InGate, Walk
  <1>2. DiskFits' /\ Durable' = Durable
    BY DiskStays DEF StartGateCall, Goto, Ends, disk, gate, locks
  <1>3. Apart(p)
    BY <1>0, <1>2, NoneIsNothing DEF StartGateCall, Goto, Ends, disk, gate, locks,
       PhaseTypeOK, Apart, ProcFits, LocksFit, InPhase, InGate, Walk
  <1>4. LocksFit(p)'
    BY <1>0, <1>2, NoneIsNothing DEF StartGateCall, Goto, Ends, disk, gate, locks,
       PhaseTypeOK, ProcFits, LocksFit, InPhase, InGate, Walk, LeaseKinds
  <1>5. LeaseFits(p)'
    BY ZenonT(30), <1>0, <1>2, NoneIsNothing DEF StartGateCall, Goto, Ends, disk, gate,
       locks,
       PhaseTypeOK, ProcFits, LocksFit, LeaseFits, InPhase, InGate, Walk, LeaseKinds,
       Changing, GateState
  <1>6. WalkFits(p)'
    BY <1>0, <1>2, NoneIsNothing DEF StartGateCall, Goto, Ends, disk, gate, locks,
       PhaseTypeOK, ProcFits, LocksFit, WalkFits, Walk
  <1>7. ChangeFits(p)'
    BY <1>0, <1>2, NoneIsNothing DEF StartGateCall, Goto, Ends, disk, gate, locks,
       PhaseTypeOK, ProcFits, LocksFit, LeaseFits, WalkFits, ChangeFits, Before,
       InPhase, LeaseKinds, Changing, GateState, WellClassified
  <1>8. CleanupFits(p)'
    BY <1>0 DEF StartGateCall, CleanupFits, PhaseTypeOK, LeaseKinds
  <1>9. AnswerFits(p)'
    BY <1>0, <1>2, NoneIsNothing DEF StartGateCall, Goto, Ends, disk, gate, locks,
       PhaseTypeOK, ProcFits, AnswerFits
  <1> QED BY <1>1, <1>2, <1>3, <1>4, <1>5, <1>6, <1>7, <1>8, <1>9, Assemble DEF ProcFits

\* The allocation lock.
LEMMA AcquireAllocationFits ==
    ASSUME PhaseInv, NEW p \in Procs, AcquireAllocation(p)
    PROVE  PhaseInv'
  <1> USE DEF PhaseInv
  <1>1. PhaseTypeOK'
    BY NoneIsNothing DEF AcquireAllocation, Goto, disk, gate, locks, PhaseTypeOK,
       Labels, InPhase, InGate, Walk
  <1>2. DiskFits' /\ Durable' = Durable
    BY DiskStays DEF AcquireAllocation, Goto, disk, gate, locks
  <1>3. Apart(p)
    BY <1>2, NoneIsNothing DEF AcquireAllocation, Goto, disk, gate, locks, PhaseTypeOK,
       Apart, ProcFits, LocksFit, InPhase, InGate, Walk
  <1>4. LocksFit(p)'
    BY <1>2, NoneIsNothing DEF AcquireAllocation, Goto, disk, gate, locks, PhaseTypeOK,
       ProcFits, LocksFit, InPhase, InGate, Walk, LeaseKinds
  <1>5. LeaseFits(p)'
    BY <1>2, NoneIsNothing DEF AcquireAllocation, Goto, disk, gate, locks, PhaseTypeOK,
       ProcFits, LocksFit, LeaseFits, InPhase, InGate, Walk, LeaseKinds, Changing,
       GateState
  <1>6. WalkFits(p)'
    BY <1>2, NoneIsNothing DEF AcquireAllocation, Goto, disk, gate, locks, PhaseTypeOK,
       ProcFits, LocksFit, WalkFits, Walk
  <1>7. ChangeFits(p)'
    BY <1>2, NoneIsNothing DEF AcquireAllocation, Goto, disk, gate, locks, PhaseTypeOK,
       ProcFits, LocksFit, LeaseFits, WalkFits, ChangeFits, Before, InPhase, LeaseKinds,
       Changing, GateState, WellClassified
  <1>8. CleanupFits(p)'
    BY <1>2, NoneIsNothing DEF AcquireAllocation, Goto, disk, gate, locks, PhaseTypeOK,
       ProcFits, CleanupFits
  <1>9. AnswerFits(p)'
    BY <1>2, NoneIsNothing DEF AcquireAllocation, Goto, disk, gate, locks, PhaseTypeOK,
       ProcFits, AnswerFits
  <1> QED BY <1>1, <1>2, <1>3, <1>4, <1>5, <1>6, <1>7, <1>8, <1>9, Assemble DEF ProcFits

\* The phase lock.
LEMMA AcquirePhaseFits ==
    ASSUME PhaseInv, NEW p \in Procs, AcquirePhase(p)
    PROVE  PhaseInv'
  <1> USE DEF PhaseInv
  <1>1. PhaseTypeOK'
    BY NoneIsNothing DEF AcquirePhase, Goto, disk, gate, locks, PhaseTypeOK, Labels,
       InPhase, InGate, Walk
  <1>2. DiskFits' /\ Durable' = Durable
    BY DiskStays DEF AcquirePhase, Goto, disk, gate, locks
  <1>3. Apart(p)
    BY <1>2, NoneIsNothing DEF AcquirePhase, Goto, disk, gate, locks, PhaseTypeOK,
       Apart, ProcFits, LocksFit, InPhase, InGate, Walk
  <1>4. LocksFit(p)'
    BY <1>2, NoneIsNothing DEF AcquirePhase, Goto, disk, gate, locks, PhaseTypeOK,
       ProcFits, LocksFit, InPhase, InGate, Walk, LeaseKinds
  <1>5. LeaseFits(p)'
    BY <1>2, NoneIsNothing DEF AcquirePhase, Goto, disk, gate, locks, PhaseTypeOK,
       ProcFits, LocksFit, LeaseFits, InPhase, InGate, Walk, LeaseKinds, Changing,
       GateState
  <1>6. WalkFits(p)'
    BY <1>2, NoneIsNothing DEF AcquirePhase, Goto, disk, gate, locks, PhaseTypeOK,
       ProcFits, LocksFit, WalkFits, Walk
  <1>7. ChangeFits(p)'
    BY <1>2, NoneIsNothing DEF AcquirePhase, Goto, disk, gate, locks, PhaseTypeOK,
       ProcFits, LocksFit, LeaseFits, WalkFits, ChangeFits, Before, InPhase, LeaseKinds,
       Changing, GateState, WellClassified
  <1>8. CleanupFits(p)'
    BY <1>2, NoneIsNothing DEF AcquirePhase, Goto, disk, gate, locks, PhaseTypeOK,
       ProcFits, CleanupFits
  <1>9. AnswerFits(p)'
    BY <1>2, NoneIsNothing DEF AcquirePhase, Goto, disk, gate, locks, PhaseTypeOK,
       ProcFits, AnswerFits
  <1> QED BY <1>1, <1>2, <1>3, <1>4, <1>5, <1>6, <1>7, <1>8, <1>9, Assemble DEF ProcFits

\* The gate lock.
LEMMA AcquireGateFits ==
    ASSUME PhaseInv, NEW p \in Procs, AcquireGate(p)
    PROVE  PhaseInv'
  <1> USE DEF PhaseInv
  <1>1. PhaseTypeOK'
    BY NoneIsNothing DEF AcquireGate, Goto, disk, gate, locks, PhaseTypeOK, Labels,
       InPhase, InGate, Walk
  <1>2. DiskFits' /\ Durable' = Durable
    BY DiskStays DEF AcquireGate, Goto, disk, gate, locks
  <1>3. Apart(p)
    BY <1>2, NoneIsNothing DEF AcquireGate, Goto, disk, gate, locks, PhaseTypeOK, Apart,
       ProcFits, LocksFit, InPhase, InGate, Walk
  <1>4. LocksFit(p)'
    BY <1>2, NoneIsNothing DEF AcquireGate, Goto, disk, gate, locks, PhaseTypeOK,
       ProcFits, LocksFit, InPhase, InGate, Walk, LeaseKinds
  <1>5. LeaseFits(p)'
    BY <1>2, NoneIsNothing DEF AcquireGate, Goto, disk, gate, locks, PhaseTypeOK,
       ProcFits, LocksFit, LeaseFits, InPhase, InGate, Walk, LeaseKinds, Changing,
       GateState
  <1>6. WalkFits(p)'
    BY <1>2, NoneIsNothing DEF AcquireGate, Goto, disk, gate, locks, PhaseTypeOK,
       ProcFits, LocksFit, WalkFits, Walk
  <1>7. ChangeFits(p)'
    BY <1>2, NoneIsNothing DEF AcquireGate, Goto, disk, gate, locks, PhaseTypeOK,
       ProcFits, LocksFit, LeaseFits, WalkFits, ChangeFits, Before, InPhase, LeaseKinds,
       Changing, GateState, WellClassified
  <1>8. CleanupFits(p)'
    BY <1>2, NoneIsNothing DEF AcquireGate, Goto, disk, gate, locks, PhaseTypeOK,
       ProcFits, CleanupFits
  <1>9. AnswerFits(p)'
    BY <1>2, NoneIsNothing DEF AcquireGate, Goto, disk, gate, locks, PhaseTypeOK,
       ProcFits, AnswerFits
  <1> QED BY <1>1, <1>2, <1>3, <1>4, <1>5, <1>6, <1>7, <1>8, <1>9, Assemble DEF ProcFits

\* The owner lock.
LEMMA AcquireOwnerFits ==
    ASSUME PhaseInv, NEW p \in Procs, AcquireOwner(p)
    PROVE  PhaseInv'
  <1> USE DEF PhaseInv
  <1>1. PhaseTypeOK'
    BY NoneIsNothing DEF AcquireOwner, Goto, disk, gate, locks, PhaseTypeOK, Labels,
       InPhase, InGate, Walk
  <1>2. DiskFits' /\ Durable' = Durable
    BY DiskStays DEF AcquireOwner, Goto, disk, gate, locks
  <1>3. Apart(p)
    BY <1>2, NoneIsNothing DEF AcquireOwner, Goto, disk, gate, locks, PhaseTypeOK,
       Apart, ProcFits, LocksFit, InPhase, InGate, Walk
  <1>4. LocksFit(p)'
    BY <1>2, NoneIsNothing DEF AcquireOwner, Goto, disk, gate, locks, PhaseTypeOK,
       ProcFits, LocksFit, InPhase, InGate, Walk, LeaseKinds
  <1>5. LeaseFits(p)'
    BY <1>2, NoneIsNothing DEF AcquireOwner, Goto, disk, gate, locks, PhaseTypeOK,
       ProcFits, LocksFit, LeaseFits, InPhase, InGate, Walk, LeaseKinds, Changing,
       GateState
  <1>6. WalkFits(p)'
    BY <1>2, NoneIsNothing DEF AcquireOwner, Goto, disk, gate, locks, PhaseTypeOK,
       ProcFits, LocksFit, WalkFits, Walk
  <1>7. ChangeFits(p)'
    BY <1>2, NoneIsNothing DEF AcquireOwner, Goto, disk, gate, locks, PhaseTypeOK,
       ProcFits, LocksFit, LeaseFits, WalkFits, ChangeFits, Before, InPhase, LeaseKinds,
       Changing, GateState, WellClassified
  <1>8. CleanupFits(p)'
    BY <1>2, NoneIsNothing DEF AcquireOwner, Goto, disk, gate, locks, PhaseTypeOK,
       ProcFits, CleanupFits
  <1>9. AnswerFits(p)'
    BY <1>2, NoneIsNothing DEF AcquireOwner, Goto, disk, gate, locks, PhaseTypeOK,
       ProcFits, AnswerFits
  <1> QED BY <1>1, <1>2, <1>3, <1>4, <1>5, <1>6, <1>7, <1>8, <1>9, Assemble DEF ProcFits

\* The gate is left.
LEMMA UnlockGateFits ==
    ASSUME PhaseInv, NEW p \in Procs, UnlockGate(p)
    PROVE  PhaseInv'
  <1> USE DEF PhaseInv
  <1>1. PhaseTypeOK'
    BY NoneIsNothing DEF UnlockGate, Goto, disk, gate, locks, PhaseTypeOK, Labels,
       InPhase, InGate, Walk
  <1>2. DiskFits' /\ Durable' = Durable
    BY DiskStays DEF UnlockGate, Goto, disk, gate, locks
  <1>3. Apart(p)
    BY <1>2, NoneIsNothing DEF UnlockGate, Goto, disk, gate, locks, PhaseTypeOK, Apart,
       ProcFits, LocksFit, InPhase, InGate, Walk
  <1>4. LocksFit(p)'
    BY <1>2, NoneIsNothing DEF UnlockGate, Goto, disk, gate, locks, PhaseTypeOK,
       ProcFits, LocksFit, InPhase, InGate, Walk, LeaseKinds
  <1>5. LeaseFits(p)'
    BY <1>2, NoneIsNothing DEF UnlockGate, Goto, disk, gate, locks, PhaseTypeOK,
       ProcFits, LocksFit, LeaseFits, InPhase, InGate, Walk, LeaseKinds, Changing,
       GateState
  <1>6. WalkFits(p)'
    BY <1>2, NoneIsNothing DEF UnlockGate, Goto, disk, gate, locks, PhaseTypeOK,
       ProcFits, LocksFit, WalkFits, Walk
  <1>7. ChangeFits(p)'
    BY <1>2, NoneIsNothing DEF UnlockGate, Goto, disk, gate, locks, PhaseTypeOK,
       ProcFits, LocksFit, LeaseFits, WalkFits, ChangeFits, Before, InPhase, LeaseKinds,
       Changing, GateState, WellClassified
  <1>8. CleanupFits(p)'
    BY <1>2, NoneIsNothing DEF UnlockGate, Goto, disk, gate, locks, PhaseTypeOK,
       ProcFits, CleanupFits
  <1>9. AnswerFits(p)'
    BY <1>2, NoneIsNothing DEF UnlockGate, Goto, disk, gate, locks, PhaseTypeOK,
       ProcFits, AnswerFits
  <1> QED BY <1>1, <1>2, <1>3, <1>4, <1>5, <1>6, <1>7, <1>8, <1>9, Assemble DEF ProcFits

\* The phase is left.
LEMMA UnlockPhaseFits ==
    ASSUME PhaseInv, NEW p \in Procs, UnlockPhase(p)
    PROVE  PhaseInv'
  <1> USE DEF PhaseInv
  <1>1. PhaseTypeOK'
    BY NoneIsNothing DEF UnlockPhase, Goto, disk, gate, locks, PhaseTypeOK, Labels,
       InPhase, InGate, Walk
  <1>2. DiskFits' /\ Durable' = Durable
    BY DiskStays DEF UnlockPhase, Goto, disk, gate, locks
  <1>3. Apart(p)
    BY <1>2, NoneIsNothing DEF UnlockPhase, Goto, disk, gate, locks, PhaseTypeOK, Apart,
       ProcFits, LocksFit, InPhase, InGate, Walk
  <1>4. LocksFit(p)'
    BY <1>2, NoneIsNothing DEF UnlockPhase, Goto, disk, gate, locks, PhaseTypeOK,
       ProcFits, LocksFit, InPhase, InGate, Walk, LeaseKinds
  <1>5. LeaseFits(p)'
    BY <1>2, NoneIsNothing DEF UnlockPhase, Goto, disk, gate, locks, PhaseTypeOK,
       ProcFits, LocksFit, LeaseFits, InPhase, InGate, Walk, LeaseKinds, Changing,
       GateState
  <1>6. WalkFits(p)'
    BY <1>2, NoneIsNothing DEF UnlockPhase, Goto, disk, gate, locks, PhaseTypeOK,
       ProcFits, LocksFit, WalkFits, Walk
  <1>7. ChangeFits(p)'
    BY <1>2, NoneIsNothing DEF UnlockPhase, Goto, disk, gate, locks, PhaseTypeOK,
       ProcFits, LocksFit, LeaseFits, WalkFits, ChangeFits, Before, InPhase, LeaseKinds,
       Changing, GateState, WellClassified
  <1>8. CleanupFits(p)'
    BY <1>2, NoneIsNothing DEF UnlockPhase, Goto, disk, gate, locks, PhaseTypeOK,
       ProcFits, CleanupFits
  <1>9. AnswerFits(p)'
    BY <1>2, NoneIsNothing DEF UnlockPhase, Goto, disk, gate, locks, PhaseTypeOK,
       ProcFits, AnswerFits
  <1> QED BY <1>1, <1>2, <1>3, <1>4, <1>5, <1>6, <1>7, <1>8, <1>9, Assemble DEF ProcFits

\* An initialization ends, or goes on to replay.
LEMMA UnlockAllocationFits ==
    ASSUME PhaseInv, NEW p \in Procs, UnlockAllocation(p)
    PROVE  PhaseInv'
  <1> USE DEF PhaseInv
  <1>1. PhaseTypeOK'
    <2>1. op' \in [Procs -> [kind : OpKinds, arg : Args]] /\ pc' \in [Procs -> Labels]
      BY ZenonT(30), CallFacts DEF UnlockAllocation, Goto, PhaseTypeOK, Labels
    <2> QED BY <2>1 DEF UnlockAllocation, disk, gate, PhaseTypeOK
  <1>2. DiskFits' /\ Durable' = Durable
    BY DiskStays DEF UnlockAllocation, Goto, disk, gate, locks
  <1>3. Apart(p)
    BY <1>2, NoneIsNothing DEF UnlockAllocation, Goto, disk, gate, locks, PhaseTypeOK,
       Apart, ProcFits, LocksFit, InPhase, InGate, Walk
  <1>4. LocksFit(p)'
    BY <1>2, NoneIsNothing DEF UnlockAllocation, Goto, disk, gate, locks, PhaseTypeOK,
       ProcFits, LocksFit, InPhase, InGate, Walk, LeaseKinds
  <1>5. LeaseFits(p)'
    BY <1>2, NoneIsNothing DEF UnlockAllocation, Goto, disk, gate, locks, PhaseTypeOK,
       ProcFits, LocksFit, LeaseFits, InPhase, InGate, Walk, LeaseKinds, Changing,
       GateState
  <1>6. WalkFits(p)'
    BY <1>2, NoneIsNothing DEF UnlockAllocation, Goto, disk, gate, locks, PhaseTypeOK,
       ProcFits, LocksFit, WalkFits, Walk
  <1>7. ChangeFits(p)'
    BY <1>2, NoneIsNothing DEF UnlockAllocation, Goto, disk, gate, locks, PhaseTypeOK,
       ProcFits, LocksFit, LeaseFits, WalkFits, ChangeFits, Before, InPhase, LeaseKinds,
       Changing, GateState, WellClassified
  <1>8. CleanupFits(p)'
    BY <1>2, NoneIsNothing DEF UnlockAllocation, Goto, disk, gate, locks, PhaseTypeOK,
       ProcFits, CleanupFits
  <1>9. AnswerFits(p)'
    BY <1>2, NoneIsNothing DEF UnlockAllocation, Goto, disk, gate, locks, PhaseTypeOK,
       ProcFits, AnswerFits
  <1> QED BY <1>1, <1>2, <1>3, <1>4, <1>5, <1>6, <1>7, <1>8, <1>9, Assemble DEF ProcFits

\* The recovered state admits the call or not.
LEMMA RecoveredFits ==
    ASSUME PhaseInv, NEW p \in Procs, Recovered(p)
    PROVE  PhaseInv'
  <1> USE DEF PhaseInv
  <1>1. /\ pc[p] = "converged" /\ ownerLock # p
        /\ UNCHANGED <<alloc, intent, seal, commit, cursor, torn, temps, rejection, receipt, tail>>
        /\ UNCHANGED <<phaseLock, gateLock, ownerLock, op, lease>>
    BY DEF Recovered, Transiting, disk, gate, locks
  <1>2. DiskFits' /\ Durable' = Durable /\ GateState' = GateState
    BY <1>1, DiskStays DEF GateState
  <1>3. /\ phaseLock = p /\ intent = seal /\ torn = None /\ temps = {}
        /\ intent = None \/ Len(cursor) = 3
        /\ lease[p].kind = "none"
        /\ lease[p].transition # None => Durable = lease[p].transition
        /\ op[p].kind \in LeaseKinds => alloc # None
        /\ op[p].kind = "cleanup" => op[p].arg \in Transitions
        /\ out[p].transition # None => Durable = out[p].transition
    BY <1>1 DEF ProcFits, LocksFit, LeaseFits, WalkFits, CleanupFits, AnswerFits, Walk,
       InPhase
  <1>4. CASE Admitted(p) /\ Goto(p, "gate") /\ UNCHANGED out
    <2>1. pc'[p] = "gate" /\ PhaseTypeOK'
      BY <1>1, <1>4 DEF Goto, PhaseTypeOK, Labels
    <2>2. /\ op[p].kind \in Changing => intent = None
          /\ op[p].kind = "cleanup" => intent = op[p].arg
      BY <1>4 DEF Admitted, Changing
    <2>3. Apart(p)
      BY <1>1, <1>2, <1>4 DEF Goto, PhaseTypeOK, Apart
    <2>4. LocksFit(p)'
      BY <1>1, <1>3, <2>1 DEF LocksFit, InPhase, InGate, Walk
    <2>7. LeaseFits(p)'
      BY <1>1, <1>2, <1>3, <2>1 DEF LeaseFits, Walk
    <2>8. WalkFits(p)' /\ AnswerFits(p)'
      BY <1>1, <1>2, <1>3, <1>4, <2>1 DEF WalkFits, AnswerFits, Walk
    <2>5. ChangeFits(p)'
      BY <1>1, <1>3, <2>1, <2>2 DEF ChangeFits, Before, Changing
    <2>6. CleanupFits(p)'
      BY <1>1, <1>3, <2>1, <2>2, NoneIsNothing DEF CleanupFits
    <2> QED BY <1>2, <2>1, <2>3, <2>4, <2>5, <2>6, <2>7, <2>8, Assemble DEF ProcFits
  <1>5. CASE Ends(p, Answer("refused", intent, "OPEN"), "unlockPhase")
    <2>1. pc'[p] = "unlockPhase" /\ out'[p].transition = intent /\ PhaseTypeOK'
      BY <1>1, <1>5, AnswerFacts DEF Ends, Goto, PhaseTypeOK, Labels, InPhase, Whats
    <2>2. Apart(p)
      BY <1>1, <1>2, <1>5 DEF Ends, Goto, PhaseTypeOK, Apart
    <2>3. AnswerFits(p)'
      BY <1>2, <2>1 DEF AnswerFits, Durable
    <2>4. LocksFit(p)'
      BY <1>1, <1>3, <2>1 DEF LocksFit, InPhase, InGate, Walk
    <2>6. LeaseFits(p)'
      BY <1>1, <1>2, <1>3, <2>1 DEF LeaseFits, Walk
    <2>7. WalkFits(p)'
      BY <1>1, <2>1 DEF WalkFits, Walk
    <2>5. ChangeFits(p)' /\ CleanupFits(p)'
      BY <1>1, <1>3, <2>1 DEF ChangeFits, CleanupFits, Before, Changing
    <2> QED BY <1>2, <2>1, <2>2, <2>3, <2>4, <2>5, <2>6, <2>7, Assemble DEF ProcFits
  <1> QED BY <1>4, <1>5 DEF Recovered

\* Left temporary files are removed.
LEMMA CleanTempsFits ==
    ASSUME PhaseInv, NEW p \in Procs, CleanTemps(p)
    PROVE  PhaseInv'
  <1> USE DEF PhaseInv
  <1>1. PhaseTypeOK'
    BY NoneIsNothing DEF CleanTemps, Goto, disk, gate, locks, PhaseTypeOK, Labels,
       InPhase, InGate, Walk
  <1>2. DiskFits' /\ Durable' = Durable
    BY DiskStays DEF CleanTemps
  <1>3. Apart(p)
    BY <1>2, NoneIsNothing DEF CleanTemps, Goto, disk, gate, locks, PhaseTypeOK, Apart,
       ProcFits, LocksFit, InPhase, InGate, Walk
  <1>4. LocksFit(p)'
    BY <1>2, NoneIsNothing DEF CleanTemps, Goto, disk, gate, locks, PhaseTypeOK,
       ProcFits, LocksFit, InPhase, InGate, Walk, LeaseKinds
  <1>5. LeaseFits(p)'
    BY <1>2, NoneIsNothing DEF CleanTemps, Goto, disk, gate, locks, PhaseTypeOK,
       ProcFits, LocksFit, LeaseFits, InPhase, InGate, Walk, LeaseKinds, Changing,
       GateState
  <1>6. WalkFits(p)'
    BY <1>2, NoneIsNothing DEF CleanTemps, Goto, disk, gate, locks, PhaseTypeOK,
       ProcFits, LocksFit, WalkFits, Walk
  <1>7. ChangeFits(p)'
    BY <1>2, NoneIsNothing DEF CleanTemps, Goto, disk, gate, locks, PhaseTypeOK,
       ProcFits, LocksFit, LeaseFits, WalkFits, ChangeFits, Before, InPhase, LeaseKinds,
       Changing, GateState, WellClassified
  <1>8. CleanupFits(p)'
    BY <1>2, NoneIsNothing DEF CleanTemps, Goto, disk, gate, locks, PhaseTypeOK,
       ProcFits, CleanupFits
  <1>9. AnswerFits(p)'
    BY <1>2, NoneIsNothing DEF CleanTemps, Goto, disk, gate, locks, PhaseTypeOK,
       ProcFits, AnswerFits
  <1> QED BY <1>1, <1>2, <1>3, <1>4, <1>5, <1>6, <1>7, <1>8, <1>9, Assemble DEF ProcFits

\* The specification is published, or another one is there.
LEMMA InitSpecFits ==
    ASSUME PhaseInv, NEW p \in Procs, InitSpec(p)
    PROVE  PhaseInv'
  <1> USE DEF PhaseInv
  <1>0. /\ out' \in [Procs -> [what : Whats, transition : MaybeTransition, gate : GateStates]]
        /\ out'[p].transition \in {None, out[p].transition}
    BY AnswerFacts DEF InitSpec, Ends, Whats, PhaseTypeOK
  <1>1. PhaseTypeOK'
    BY <1>0, NoneIsNothing DEF InitSpec, Goto, Ends, disk, gate, locks, PhaseTypeOK,
       Labels, InPhase, InGate, Walk
  <1>2. DiskFits' /\ Durable' = Durable
    BY DiskStays DEF InitSpec
  <1>3. Apart(p)
    BY <1>0, <1>2, NoneIsNothing DEF InitSpec, Goto, Ends, disk, gate, locks,
       PhaseTypeOK, Apart, ProcFits, LocksFit, InPhase, InGate, Walk
  <1>4. LocksFit(p)'
    BY <1>0, <1>2, NoneIsNothing DEF InitSpec, Goto, Ends, disk, gate, locks,
       PhaseTypeOK, ProcFits, LocksFit, InPhase, InGate, Walk, LeaseKinds
  <1>5. LeaseFits(p)'
    BY <1>0, <1>2, NoneIsNothing DEF InitSpec, Goto, Ends, disk, gate, locks,
       PhaseTypeOK, ProcFits, LocksFit, LeaseFits, InPhase, InGate, Walk, LeaseKinds,
       Changing, GateState
  <1>6. WalkFits(p)'
    BY <1>0, <1>2, NoneIsNothing DEF InitSpec, Goto, Ends, disk, gate, locks,
       PhaseTypeOK, ProcFits, LocksFit, WalkFits, Walk
  <1>7. ChangeFits(p)'
    BY <1>0, <1>2, NoneIsNothing DEF InitSpec, Goto, Ends, disk, gate, locks,
       PhaseTypeOK, ProcFits, LocksFit, LeaseFits, WalkFits, ChangeFits, Before,
       InPhase, LeaseKinds, Changing, GateState, WellClassified
  <1>8. CleanupFits(p)'
    BY <1>0, <1>2, NoneIsNothing DEF InitSpec, Goto, Ends, disk, gate, locks,
       PhaseTypeOK, ProcFits, CleanupFits
  <1>9. AnswerFits(p)'
    BY <1>0, <1>2, NoneIsNothing DEF InitSpec, Goto, Ends, disk, gate, locks,
       PhaseTypeOK, ProcFits, AnswerFits
  <1> QED BY <1>1, <1>2, <1>3, <1>4, <1>5, <1>6, <1>7, <1>8, <1>9, Assemble DEF ProcFits

\* The body of a lease ends.
LEMMA EndBodyFits ==
    ASSUME PhaseInv, NEW p \in Procs, EndBody(p)
    PROVE  PhaseInv'
  <1> USE DEF PhaseInv
  <1>0. /\ lease' = [lease EXCEPT ![p] = NoLease] /\ NoLease.kind = "none"
        /\ NoLease.transition = None
        /\ NoLease \in [kind : LeaseKinds \cup {"none"}, spent : BOOLEAN,
                       gate : GateStates, transition : MaybeTransition]
        /\ out' \in [Procs -> [what : Whats, transition : MaybeTransition, gate : GateStates]]
        /\ out'[p].transition = lease[p].transition
    <2>1. lease[p].transition \in MaybeTransition /\ lease[p].gate \in GateStates
      BY DEF PhaseTypeOK
    <2> QED BY <2>1, AnswerFacts DEF EndBody, Ends, NoLease, Whats, PhaseTypeOK
  <1>1. PhaseTypeOK'
    BY <1>0, NoneIsNothing DEF EndBody, Goto, Ends, disk, gate, locks, PhaseTypeOK,
       Labels, InPhase, InGate, Walk
  <1>2. DiskFits' /\ Durable' = Durable
    BY DiskStays DEF EndBody, Goto, Ends, disk, gate, locks
  <1>3. Apart(p)
    BY <1>0, <1>2, NoneIsNothing DEF EndBody, Goto, Ends, disk, gate, locks,
       PhaseTypeOK, Apart, ProcFits, LocksFit, InPhase, InGate, Walk
  <1>4. LocksFit(p)'
    BY <1>0, <1>2, NoneIsNothing DEF EndBody, Goto, Ends, disk, gate, locks,
       PhaseTypeOK, ProcFits, LocksFit, InPhase, InGate, Walk, LeaseKinds
  <1>5. LeaseFits(p)'
    BY <1>0, <1>2, NoneIsNothing DEF EndBody, Goto, Ends, disk, gate, locks,
       PhaseTypeOK, ProcFits, LocksFit, LeaseFits, InPhase, InGate, Walk, LeaseKinds,
       Changing, GateState
  <1>6. WalkFits(p)'
    BY <1>0, <1>2, NoneIsNothing DEF EndBody, Goto, Ends, disk, gate, locks,
       PhaseTypeOK, ProcFits, LocksFit, WalkFits, Walk
  <1>7. ChangeFits(p)'
    BY <1>0, <1>2, NoneIsNothing DEF EndBody, Goto, Ends, disk, gate, locks,
       PhaseTypeOK, ProcFits, LocksFit, LeaseFits, WalkFits, ChangeFits, Before,
       InPhase, LeaseKinds, Changing, GateState, WellClassified
  <1>8. CleanupFits(p)'
    BY <1>0, <1>2, NoneIsNothing DEF EndBody, Goto, Ends, disk, gate, locks,
       PhaseTypeOK, ProcFits, CleanupFits
  <1>9. AnswerFits(p)'
    BY <1>0, <1>2 DEF ProcFits, LeaseFits, AnswerFits
  <1> QED BY <1>1, <1>2, <1>3, <1>4, <1>5, <1>6, <1>7, <1>8, <1>9, Assemble DEF ProcFits

\* The evidence of a transition is compared with the present.
LEMMA BuildTransitionFits ==
    ASSUME PhaseInv, NEW p \in Procs, BuildTransition(p)
    PROVE  PhaseInv'
  <1> USE DEF PhaseInv
  <1>1. PhaseTypeOK'
    <2>1. lease' \in [Procs -> [kind : LeaseKinds \cup {"none"}, spent : BOOLEAN,
                                gate : GateStates, transition : MaybeTransition]]
      <3>1. lease' \in {lease, [lease EXCEPT ![p].spent = TRUE]}
        BY DEF BuildTransition
      <3>2. [lease[p] EXCEPT !.spent = TRUE]
              \in [kind : LeaseKinds \cup {"none"}, spent : BOOLEAN,
                   gate : GateStates, transition : MaybeTransition]
        BY DEF PhaseTypeOK
      <3> QED BY <3>1, <3>2 DEF PhaseTypeOK
    <2>2. pc' \in [Procs -> Labels]
      BY DEF BuildTransition, Goto, PhaseTypeOK, Labels, InPhase
    <2> QED BY <2>1, <2>2 DEF BuildTransition, disk, gate, PhaseTypeOK
  <1>2. DiskFits' /\ Durable' = Durable
    BY DiskStays DEF BuildTransition, Goto, Current, disk, gate, locks
  <1>3. Apart(p)
    BY <1>2, NoneIsNothing DEF BuildTransition, Goto, Current, disk, gate, locks,
       PhaseTypeOK, Apart, ProcFits, LocksFit, InPhase, InGate, Walk
  <1>4. LocksFit(p)'
    BY <1>2, NoneIsNothing DEF BuildTransition, Goto, Current, disk, gate, locks,
       PhaseTypeOK, ProcFits, LocksFit, InPhase, InGate, Walk, LeaseKinds
  <1>5. LeaseFits(p)'
    BY <1>2, NoneIsNothing DEF BuildTransition, Goto, Current, disk, gate, locks,
       PhaseTypeOK, ProcFits, LocksFit, LeaseFits, InPhase, InGate, Walk, LeaseKinds,
       Changing, GateState
  <1>6. WalkFits(p)'
    BY <1>2, NoneIsNothing DEF BuildTransition, Goto, Current, disk, gate, locks,
       PhaseTypeOK, ProcFits, LocksFit, WalkFits, Walk
  <1>7. ChangeFits(p)'
    BY <1>2, NoneIsNothing DEF BuildTransition, Goto, Current, disk, gate, locks,
       PhaseTypeOK, ProcFits, LocksFit, LeaseFits, WalkFits, ChangeFits, Before,
       InPhase, LeaseKinds, Changing, GateState, WellClassified
  <1>8. CleanupFits(p)'
    <2>1. op[p].kind # "cleanup" /\ op' = op
      BY DEF BuildTransition, ProcFits, LeaseFits, Changing, LeaseKinds
    <2> QED BY <2>1 DEF CleanupFits
  <1>9. AnswerFits(p)'
    BY <1>2, NoneIsNothing DEF BuildTransition, Goto, Current, disk, gate, locks,
       PhaseTypeOK, ProcFits, AnswerFits
  <1> QED BY <1>1, <1>2, <1>3, <1>4, <1>5, <1>6, <1>7, <1>8, <1>9, Assemble DEF ProcFits

\* A transition returns into the body of its lease.
LEMMA TransitionReturnsFits ==
    ASSUME PhaseInv, NEW p \in Procs, TransitionReturns(p)
    PROVE  PhaseInv'
  <1> USE DEF PhaseInv
  <1>1. PhaseTypeOK'
    BY SMTT(30), NoneIsNothing DEF TransitionReturns, Goto, Transiting, disk, gate,
       locks,
       PhaseTypeOK, Labels, InPhase, InGate, Walk
  <1>2. DiskFits' /\ Durable' = Durable
    BY DiskStays DEF TransitionReturns, Goto, Transiting, disk, gate, locks
  <1>3. Apart(p)
    BY <1>2, NoneIsNothing DEF TransitionReturns, Goto, Transiting, disk, gate, locks,
       PhaseTypeOK, Apart, ProcFits, LocksFit, InPhase, InGate, Walk
  <1>4. LocksFit(p)'
    BY <1>2, NoneIsNothing DEF TransitionReturns, Goto, Transiting, disk, gate, locks,
       PhaseTypeOK, ProcFits, LocksFit, InPhase, InGate, Walk, LeaseKinds
  <1>5. LeaseFits(p)'
    <2>1. /\ pc[p] = "converged" /\ ownerLock = p /\ pc'[p] = "held"
          /\ lease'[p] = [lease[p] EXCEPT !.transition = intent]
          /\ UNCHANGED <<op, phaseLock, gateLock, alloc>> /\ GateState' = GateState
      BY DEF TransitionReturns, Transiting, Goto, GateState, disk, gate, PhaseTypeOK
    <2>2. /\ lease'[p].kind = lease[p].kind /\ lease'[p].gate = lease[p].gate
          /\ lease'[p].transition = intent
      BY <2>1 DEF PhaseTypeOK
    <2>3. lease'[p].transition # None => Durable' = lease'[p].transition
      BY <1>2, <2>2 DEF Durable
    <2> QED BY <2>1, <2>2, <2>3 DEF ProcFits, LeaseFits, Walk
  <1>6. WalkFits(p)'
    BY <1>2, NoneIsNothing DEF TransitionReturns, Goto, Transiting, disk, gate, locks,
       PhaseTypeOK, ProcFits, LocksFit, WalkFits, Walk
  <1>7. ChangeFits(p)'
    BY <1>2, NoneIsNothing DEF TransitionReturns, Goto, Transiting, disk, gate, locks,
       PhaseTypeOK, ProcFits, LocksFit, LeaseFits, WalkFits, ChangeFits, Before,
       InPhase, LeaseKinds, Changing, GateState, WellClassified
  <1>8. CleanupFits(p)'
    <2>1. op[p].kind # "cleanup" /\ op' = op
      BY DEF TransitionReturns, Transiting, ProcFits, LeaseFits, Walk
    <2> QED BY <2>1 DEF CleanupFits
  <1>9. AnswerFits(p)'
    BY <1>2, NoneIsNothing DEF TransitionReturns, Goto, Transiting, disk, gate, locks,
       PhaseTypeOK, ProcFits, AnswerFits
  <1> QED BY <1>1, <1>2, <1>3, <1>4, <1>5, <1>6, <1>7, <1>8, <1>9, Assemble DEF ProcFits

\* A call of the owner goes on to its lock.
LEMMA OwnerCallFits ==
    ASSUME PhaseInv, NEW p \in Procs, OwnerCall(p)
    PROVE  PhaseInv'
  <1> USE DEF PhaseInv
  <1>1. PhaseTypeOK'
    BY NoneIsNothing DEF OwnerCall, Goto, disk, gate, locks, PhaseTypeOK, Labels,
       InPhase, InGate, Walk
  <1>2. DiskFits' /\ Durable' = Durable
    BY DiskStays DEF OwnerCall, Goto, disk, gate, locks
  <1>3. Apart(p)
    BY <1>2, NoneIsNothing DEF OwnerCall, Goto, disk, gate, locks, PhaseTypeOK, Apart,
       ProcFits, LocksFit, InPhase, InGate, Walk
  <1>4. LocksFit(p)'
    BY <1>2, NoneIsNothing DEF OwnerCall, Goto, disk, gate, locks, PhaseTypeOK,
       ProcFits, LocksFit, InPhase, InGate, Walk, LeaseKinds
  <1>5. LeaseFits(p)'
    BY <1>2, NoneIsNothing DEF OwnerCall, Goto, disk, gate, locks, PhaseTypeOK,
       ProcFits, LocksFit, LeaseFits, InPhase, InGate, Walk, LeaseKinds, Changing,
       GateState
  <1>6. WalkFits(p)'
    BY <1>2, NoneIsNothing DEF OwnerCall, Goto, disk, gate, locks, PhaseTypeOK,
       ProcFits, LocksFit, WalkFits, Walk
  <1>7. ChangeFits(p)'
    BY <1>2, NoneIsNothing DEF OwnerCall, Goto, disk, gate, locks, PhaseTypeOK,
       ProcFits, LocksFit, LeaseFits, WalkFits, ChangeFits, Before, InPhase, LeaseKinds,
       Changing, GateState, WellClassified
  <1>8. CleanupFits(p)'
    BY <1>2, NoneIsNothing DEF OwnerCall, Goto, disk, gate, locks, PhaseTypeOK,
       ProcFits, CleanupFits
  <1>9. AnswerFits(p)'
    BY <1>2, NoneIsNothing DEF OwnerCall, Goto, disk, gate, locks, PhaseTypeOK,
       ProcFits, AnswerFits
  <1> QED BY <1>1, <1>2, <1>3, <1>4, <1>5, <1>6, <1>7, <1>8, <1>9, Assemble DEF ProcFits

\* The owner appends a record.
LEMMA OwnerAppendsFits ==
    ASSUME PhaseInv, NEW p \in Procs, OwnerAppends(p)
    PROVE  PhaseInv'
  <1> USE DEF PhaseInv
  <1>1. PhaseTypeOK'
    BY NoneIsNothing DEF OwnerAppends, Goto, disk, gate, locks, PhaseTypeOK, Labels,
       InPhase, InGate, Walk
  <1>2. DiskFits' /\ Durable' = Durable
    BY DiskStays DEF OwnerAppends, Goto, disk, gate, locks
  <1>3. Apart(p)
    BY <1>2, NoneIsNothing DEF OwnerAppends, Goto, disk, gate, locks, PhaseTypeOK,
       Apart, ProcFits, LocksFit, InPhase, InGate, Walk
  <1>4. LocksFit(p)'
    BY <1>2, NoneIsNothing DEF OwnerAppends, Goto, disk, gate, locks, PhaseTypeOK,
       ProcFits, LocksFit, InPhase, InGate, Walk, LeaseKinds
  <1>5. LeaseFits(p)'
    BY <1>2, NoneIsNothing DEF OwnerAppends, Goto, disk, gate, locks, PhaseTypeOK,
       ProcFits, LocksFit, LeaseFits, InPhase, InGate, Walk, LeaseKinds, Changing,
       GateState
  <1>6. WalkFits(p)'
    BY <1>2, NoneIsNothing DEF OwnerAppends, Goto, disk, gate, locks, PhaseTypeOK,
       ProcFits, LocksFit, WalkFits, Walk
  <1>7. ChangeFits(p)'
    BY <1>2, NoneIsNothing DEF OwnerAppends, Goto, disk, gate, locks, PhaseTypeOK,
       ProcFits, LocksFit, LeaseFits, WalkFits, ChangeFits, Before, InPhase, LeaseKinds,
       Changing, GateState, WellClassified
  <1>8. CleanupFits(p)'
    BY <1>2, NoneIsNothing DEF OwnerAppends, Goto, disk, gate, locks, PhaseTypeOK,
       ProcFits, CleanupFits
  <1>9. AnswerFits(p)'
    BY <1>2, NoneIsNothing DEF OwnerAppends, Goto, disk, gate, locks, PhaseTypeOK,
       ProcFits, AnswerFits
  <1> QED BY <1>1, <1>2, <1>3, <1>4, <1>5, <1>6, <1>7, <1>8, <1>9, Assemble DEF ProcFits

\* A lease is inherited by a child.
LEMMA ForkFits ==
    ASSUME PhaseInv, NEW p \in Procs, Fork(p)
    PROVE  PhaseInv'
  <1> USE DEF PhaseInv
  <1>1. PhaseTypeOK'
    BY NoneIsNothing DEF Fork, Goto, disk, gate, locks, PhaseTypeOK, Labels, InPhase,
       InGate, Walk
  <1>2. DiskFits' /\ Durable' = Durable
    BY DiskStays DEF Fork, Goto, disk, gate, locks
  <1>3. Apart(p)
    BY <1>2, NoneIsNothing DEF Fork, Goto, disk, gate, locks, PhaseTypeOK, Apart,
       ProcFits, LocksFit, InPhase, InGate, Walk
  <1>4. LocksFit(p)'
    BY <1>2, NoneIsNothing DEF Fork, Goto, disk, gate, locks, PhaseTypeOK, ProcFits,
       LocksFit, InPhase, InGate, Walk, LeaseKinds
  <1>5. LeaseFits(p)'
    BY <1>2, NoneIsNothing DEF Fork, Goto, disk, gate, locks, PhaseTypeOK, ProcFits,
       LocksFit, LeaseFits, InPhase, InGate, Walk, LeaseKinds, Changing, GateState
  <1>6. WalkFits(p)'
    BY <1>2, NoneIsNothing DEF Fork, Goto, disk, gate, locks, PhaseTypeOK, ProcFits,
       LocksFit, WalkFits, Walk
  <1>7. ChangeFits(p)'
    BY <1>2, NoneIsNothing DEF Fork, Goto, disk, gate, locks, PhaseTypeOK, ProcFits,
       LocksFit, LeaseFits, WalkFits, ChangeFits, Before, InPhase, LeaseKinds, Changing,
       GateState, WellClassified
  <1>8. CleanupFits(p)'
    BY <1>2, NoneIsNothing DEF Fork, Goto, disk, gate, locks, PhaseTypeOK, ProcFits,
       CleanupFits
  <1>9. AnswerFits(p)'
    BY <1>2, NoneIsNothing DEF Fork, Goto, disk, gate, locks, PhaseTypeOK, ProcFits,
       AnswerFits
  <1> QED BY <1>1, <1>2, <1>3, <1>4, <1>5, <1>6, <1>7, <1>8, <1>9, Assemble DEF ProcFits

\* A child leaves its copy of the lease.
LEMMA ChildExitsFits ==
    ASSUME PhaseInv, NEW p \in Procs, ChildExits(p)
    PROVE  PhaseInv'
  <1> USE DEF PhaseInv
  <1>1. PhaseTypeOK'
    BY NoneIsNothing DEF ChildExits, Goto, Freed, disk, gate, locks, PhaseTypeOK,
       Labels, InPhase, InGate, Walk
  <1>2. DiskFits' /\ Durable' = Durable
    BY DiskStays DEF ChildExits, Goto, Freed, disk, gate, locks
  <1>3. Apart(p)
    BY <1>2, NoneIsNothing DEF ChildExits, Goto, Freed, disk, gate, locks, PhaseTypeOK,
       Apart, ProcFits, LocksFit, InPhase, InGate, Walk
  <1>4. LocksFit(p)'
    BY <1>2, NoneIsNothing DEF ChildExits, Goto, Freed, disk, gate, locks, PhaseTypeOK,
       ProcFits, LocksFit, InPhase, InGate, Walk, LeaseKinds
  <1>5. LeaseFits(p)'
    BY <1>2, NoneIsNothing DEF ChildExits, Goto, Freed, disk, gate, locks, PhaseTypeOK,
       ProcFits, LocksFit, LeaseFits, InPhase, InGate, Walk, LeaseKinds, Changing,
       GateState
  <1>6. WalkFits(p)'
    BY <1>2, NoneIsNothing DEF ChildExits, Goto, Freed, disk, gate, locks, PhaseTypeOK,
       ProcFits, LocksFit, WalkFits, Walk
  <1>7. ChangeFits(p)'
    BY <1>2, NoneIsNothing DEF ChildExits, Goto, Freed, disk, gate, locks, PhaseTypeOK,
       ProcFits, LocksFit, LeaseFits, WalkFits, ChangeFits, Before, InPhase, LeaseKinds,
       Changing, GateState, WellClassified
  <1>8. CleanupFits(p)'
    BY <1>2, NoneIsNothing DEF ChildExits, Goto, Freed, disk, gate, locks, PhaseTypeOK,
       ProcFits, CleanupFits
  <1>9. AnswerFits(p)'
    BY <1>2, NoneIsNothing DEF ChildExits, Goto, Freed, disk, gate, locks, PhaseTypeOK,
       ProcFits, AnswerFits
  <1> QED BY <1>1, <1>2, <1>3, <1>4, <1>5, <1>6, <1>7, <1>8, <1>9, Assemble DEF ProcFits

\* The body of a lease asks for the transition.
LEMMA BeginTransitionFits ==
    ASSUME PhaseInv, NEW p \in Procs, NEW e \in Attestations, BeginTransition(p, e)
    PROVE  PhaseInv'
  <1> USE DEF PhaseInv
  <1>1. PhaseTypeOK'
    <2>1. e \in Args
      BY DEF Attestations, Args, MaybeTransition
    <2>2. op' \in [Procs -> [kind : OpKinds, arg : Args]]
      BY <2>1 DEF BeginTransition, PhaseTypeOK
    <2>3. pc' \in [Procs -> Labels]
      BY DEF BeginTransition, Goto, PhaseTypeOK, Labels, InGate
    <2> QED BY <2>2, <2>3 DEF BeginTransition, disk, gate, PhaseTypeOK
  <1>2. DiskFits' /\ Durable' = Durable
    BY DiskStays DEF BeginTransition, Goto, Attestations, disk, gate, locks
  <1>3. Apart(p)
    BY <1>2, NoneIsNothing DEF BeginTransition, Goto, Attestations, disk, gate, locks,
       PhaseTypeOK, Apart, ProcFits, LocksFit, InPhase, InGate, Walk
  <1>4. LocksFit(p)'
    BY <1>2, NoneIsNothing DEF BeginTransition, Goto, Attestations, disk, gate, locks,
       PhaseTypeOK, ProcFits, LocksFit, InPhase, InGate, Walk, LeaseKinds
  <1>5. LeaseFits(p)'
    BY <1>2, NoneIsNothing DEF BeginTransition, Goto, Attestations, disk, gate, locks,
       PhaseTypeOK, ProcFits, LocksFit, LeaseFits, InPhase, InGate, Walk, LeaseKinds,
       Changing, GateState
  <1>6. WalkFits(p)'
    BY <1>2, NoneIsNothing DEF BeginTransition, Goto, Attestations, disk, gate, locks,
       PhaseTypeOK, ProcFits, LocksFit, WalkFits, Walk
  <1>7. ChangeFits(p)'
    BY <1>2, NoneIsNothing DEF BeginTransition, Goto, Attestations, disk, gate, locks,
       PhaseTypeOK, ProcFits, LocksFit, LeaseFits, WalkFits, ChangeFits, Before,
       InPhase, LeaseKinds, Changing, GateState, WellClassified
  <1>8. CleanupFits(p)'
    BY <1>2, NoneIsNothing DEF BeginTransition, Goto, Attestations, disk, gate, locks,
       PhaseTypeOK, ProcFits, CleanupFits
  <1>9. AnswerFits(p)'
    BY <1>2, NoneIsNothing DEF BeginTransition, Goto, Attestations, disk, gate, locks,
       PhaseTypeOK, ProcFits, AnswerFits
  <1> QED BY <1>1, <1>2, <1>3, <1>4, <1>5, <1>6, <1>7, <1>8, <1>9, Assemble DEF ProcFits

\* The gate is rejected.
LEMMA GateRejectsFits ==
    ASSUME PhaseInv, NEW p \in Procs, GateRejects(p)
    PROVE  PhaseInv'
  <1> USE DEF PhaseInv
  <1>1. PhaseTypeOK'
    BY NoneIsNothing DEF GateRejects, Goto, disk, gate, locks, PhaseTypeOK, Labels,
       InPhase, InGate, Walk
  <1>2. DiskFits' /\ Durable' = Durable
    BY DiskStays DEF GateRejects, Goto, disk, gate, locks
  <1>3. Apart(p)
    BY <1>2, NoneIsNothing DEF GateRejects, Goto, disk, gate, locks, PhaseTypeOK, Apart,
       ProcFits, LocksFit, InPhase, InGate, Walk
  <1>4. LocksFit(p)'
    BY <1>2, NoneIsNothing DEF GateRejects, Goto, disk, gate, locks, PhaseTypeOK,
       ProcFits, LocksFit, InPhase, InGate, Walk, LeaseKinds
  <1>5. LeaseFits(p)'
    BY <1>2, NoneIsNothing DEF GateRejects, Goto, disk, gate, locks, PhaseTypeOK,
       ProcFits, LocksFit, LeaseFits, InPhase, InGate, Walk, LeaseKinds, Changing,
       GateState
  <1>6. WalkFits(p)'
    BY <1>2, NoneIsNothing DEF GateRejects, Goto, disk, gate, locks, PhaseTypeOK,
       ProcFits, LocksFit, WalkFits, Walk
  <1>7. ChangeFits(p)'
    BY <1>2, NoneIsNothing DEF GateRejects, Goto, disk, gate, locks, PhaseTypeOK,
       ProcFits, LocksFit, LeaseFits, WalkFits, ChangeFits, Before, InPhase, LeaseKinds,
       Changing, GateState, WellClassified
  <1>8. CleanupFits(p)'
    BY <1>2, NoneIsNothing DEF GateRejects, Goto, disk, gate, locks, PhaseTypeOK,
       ProcFits, CleanupFits
  <1>9. AnswerFits(p)'
    BY <1>2, NoneIsNothing DEF GateRejects, Goto, disk, gate, locks, PhaseTypeOK,
       ProcFits, AnswerFits
  <1> QED BY <1>1, <1>2, <1>3, <1>4, <1>5, <1>6, <1>7, <1>8, <1>9, Assemble DEF ProcFits

\* A rejection is acknowledged.
LEMMA GateAcknowledgesFits ==
    ASSUME PhaseInv, NEW p \in Procs, GateAcknowledges(p)
    PROVE  PhaseInv'
  <1> USE DEF PhaseInv
  <1>1. PhaseTypeOK'
    BY NoneIsNothing DEF GateAcknowledges, Goto, disk, gate, locks, PhaseTypeOK, Labels,
       InPhase, InGate, Walk
  <1>2. DiskFits' /\ Durable' = Durable
    BY DiskStays DEF GateAcknowledges, Goto, disk, gate, locks
  <1>3. Apart(p)
    BY <1>2, NoneIsNothing DEF GateAcknowledges, Goto, disk, gate, locks, PhaseTypeOK,
       Apart, ProcFits, LocksFit, InPhase, InGate, Walk
  <1>4. LocksFit(p)'
    BY <1>2, NoneIsNothing DEF GateAcknowledges, Goto, disk, gate, locks, PhaseTypeOK,
       ProcFits, LocksFit, InPhase, InGate, Walk, LeaseKinds
  <1>5. LeaseFits(p)'
    BY <1>2, NoneIsNothing DEF GateAcknowledges, Goto, disk, gate, locks, PhaseTypeOK,
       ProcFits, LocksFit, LeaseFits, InPhase, InGate, Walk, LeaseKinds, Changing,
       GateState
  <1>6. WalkFits(p)'
    BY <1>2, NoneIsNothing DEF GateAcknowledges, Goto, disk, gate, locks, PhaseTypeOK,
       ProcFits, LocksFit, WalkFits, Walk
  <1>7. ChangeFits(p)'
    BY <1>2, NoneIsNothing DEF GateAcknowledges, Goto, disk, gate, locks, PhaseTypeOK,
       ProcFits, LocksFit, LeaseFits, WalkFits, ChangeFits, Before, InPhase, LeaseKinds,
       Changing, GateState, WellClassified
  <1>8. CleanupFits(p)'
    BY <1>2, NoneIsNothing DEF GateAcknowledges, Goto, disk, gate, locks, PhaseTypeOK,
       ProcFits, CleanupFits
  <1>9. AnswerFits(p)'
    BY <1>2, NoneIsNothing DEF GateAcknowledges, Goto, disk, gate, locks, PhaseTypeOK,
       ProcFits, AnswerFits
  <1> QED BY <1>1, <1>2, <1>3, <1>4, <1>5, <1>6, <1>7, <1>8, <1>9, Assemble DEF ProcFits

\* A step of a recovery or of a transition that goes on.
LEMMA WalkMoves ==
    ASSUME PhaseInv, NEW p \in Procs, pc[p] \in Walk, NEW l \in Walk,
           pc' = [pc EXCEPT ![p] = l],
           UNCHANGED <<alloc, temps, rejection, receipt, tail, phaseLock, gateLock,
                       ownerLock, op, lease, out>>,
           intent' \in MaybeTransition, seal' \in MaybeTransition,
           commit' \in MaybeTransition, cursor' \in Seq(CursorRecords),
           torn' \in CursorRecords \cup {None},
           DiskFits', Durable' = Durable, WalkFits(p)'
    PROVE  PhaseInv'
  <1> USE DEF PhaseInv
  <1>1. PhaseTypeOK' /\ pc'[p] = l /\ phaseLock = p
    BY DEF PhaseTypeOK, Labels, InPhase, ProcFits, LocksFit
  <1>2. Apart(p)
    BY <1>1 DEF Apart, PhaseTypeOK
  <1>3. LocksFit(p)'
    BY <1>1 DEF ProcFits, LocksFit, InPhase, InGate, Walk
  <1>4. LeaseFits(p)'
    BY <1>1 DEF ProcFits, LeaseFits, GateState, Walk
  <1>5. ChangeFits(p)'
    <2>1. ~Before(p)'
      BY <1>1 DEF ProcFits, LeaseFits, Before, Walk, Changing
    <2> QED BY <1>1, <2>1 DEF ChangeFits, Walk
  <1>6. CleanupFits(p)' /\ AnswerFits(p)'
    BY <1>1 DEF ProcFits, CleanupFits, AnswerFits, Walk
  <1> QED BY <1>1, <1>2, <1>3, <1>4, <1>5, <1>6, Assemble DEF ProcFits

\* Either link of the transition restores the other.
LEMMA ReconcileFits ==
    ASSUME PhaseInv, NEW p \in Procs, Reconcile(p)
    PROVE  PhaseInv'
  <1> USE DEF PhaseInv
  <1>1. /\ pc[p] = "seal" /\ intent' = Durable /\ seal' = Durable
        /\ pc' = [pc EXCEPT ![p] = "cursor"]
        /\ UNCHANGED <<alloc, commit, cursor, torn, temps, rejection, receipt, tail,
                       phaseLock, gateLock, ownerLock, op, lease, out>>
    BY DEF Reconcile, DiskFits, Goto, gate
  <1>2. Durable \in MaybeTransition
    BY DEF Durable, PhaseTypeOK
  <1>3. Durable' = Durable
    BY <1>1 DEF Durable
  <1>4. DiskFits'
    BY <1>1, <1>3 DEF DiskFits
  <1>5. WalkFits(p)'
    BY <1>1 DEF ProcFits, WalkFits, PhaseTypeOK, Walk
  <1> QED BY <1>1, <1>2, <1>3, <1>4, <1>5, WalkMoves DEF PhaseTypeOK, Walk

\* The cursor is read and its torn tail cut off: recovery never refuses.
LEMMA ReadCursorFits ==
    ASSUME PhaseInv, NEW p \in Procs, ReadCursor(p)
    PROVE  PhaseInv'
  <1> USE DEF PhaseInv
  <1>1. pc[p] = "cursor" /\ intent = seal /\ Durable = intent
    BY DEF ReadCursor, ProcFits, WalkFits, Walk, Durable
  <1>2. TailRepairable
    BY <1>1 DEF DiskFits, TailRepairable
  <1>3. RecordsAgree
    <2>1. Len(cursor) > 1 => cursor[Len(cursor)] = CursorRecord(Len(cursor) - 1, intent)
      BY <1>1 DEF DiskFits, PhaseTypeOK
    <2>2. Len(cursor) > 1 => cursor[Len(cursor)].transition = intent
      BY <2>1 DEF CursorRecord, PhaseTypeOK
    <2> QED BY <1>1, <2>2 DEF DiskFits, RecordsAgree
  <1>4. /\ torn' = None
        /\ pc' = [pc EXCEPT ![p] = IF intent = None \/ Len(cursor) = 3 THEN "converged"
                                   ELSE IF Len(cursor) = 1 THEN "append1" ELSE "link"]
        /\ UNCHANGED <<alloc, intent, seal, commit, cursor, temps, rejection, receipt, tail,
                       phaseLock, gateLock, ownerLock, op, lease, out>>
    BY <1>2, <1>3 DEF ReadCursor, Goto, gate
  <1>5. Durable' = Durable
    BY <1>4 DEF Durable
  <1>6. DiskFits'
    BY <1>4, <1>5 DEF DiskFits
  <1>7. Len(cursor) \in Nat /\ Len(cursor) <= 3 /\ (intent # None => Len(cursor) > 0)
    <2>1. cursor \in Seq(CursorRecords) /\ Len(cursor) \in Nat
      BY DEF PhaseTypeOK
    <2>2. Len(cursor) <= 3 /\ (intent # None => Len(cursor) > 0)
      BY <1>1, Zenon DEF DiskFits
    <2> QED BY <2>1, <2>2
  <1> DEFINE l == IF intent = None \/ Len(cursor) = 3 THEN "converged"
                  ELSE IF Len(cursor) = 1 THEN "append1" ELSE "link"
  <1>8. l \in {"converged", "append1", "link"} /\ pc'[p] = l
    BY <1>4 DEF PhaseTypeOK
  <1>9. /\ l = "converged" => intent = None \/ Len(cursor) = 3
        /\ l # "converged" => intent # None
        /\ l = "append1" => Len(cursor) = 1
        /\ l = "link" => Len(cursor) = 2
    <2>1. PICK n \in Nat : n = Len(cursor)
      BY <1>7
    <2>2. n <= 3 /\ (intent # None => n > 0)
      BY <1>7, <2>1
    <2>3. n \in {0, 1, 2, 3}
      BY <2>2
    <2> QED BY <2>1, <2>2, <2>3
  <1> HIDE DEF l
  <1>10. WalkFits(p)'
    BY <1>1, <1>4, <1>8, <1>9 DEF ProcFits, WalkFits, Walk
  <1>11. pc' = [pc EXCEPT ![p] = l] /\ l \in Walk /\ pc[p] \in Walk
    BY <1>1, <1>4, <1>8 DEF l, Walk
  <1> QED BY <1>4, <1>5, <1>6, <1>10, <1>11, WalkMoves DEF PhaseTypeOK

\* The next record of the cursor.
LEMMA AppendFits ==
    ASSUME PhaseInv, NEW p \in Procs,
           \/ AppendIntentRecord(p)
           \/ AppendCleanupRecord(p)
    PROVE  PhaseInv'
  <1> USE DEF PhaseInv
  <1> DEFINE r == CursorRecord(Len(cursor), intent)
             l == IF pc[p] = "append1" THEN "link" ELSE "converged"
  <1>1. /\ pc[p] \in {"append1", "append2"} /\ pc' = [pc EXCEPT ![p] = l]
        /\ cursor' = Append(cursor, r)
        /\ UNCHANGED <<alloc, intent, seal, commit, torn, temps, rejection, receipt, tail,
                       phaseLock, gateLock, ownerLock, op, lease, out>>
    BY DEF AppendIntentRecord, AppendCleanupRecord, AppendRecord, Goto, gate, locks
  <1>2. /\ intent = seal /\ torn = None /\ intent # None /\ Durable = intent
        /\ pc[p] = "append1" => Len(cursor) = 1
        /\ pc[p] = "append2" => Len(cursor) = 2 /\ commit # None
    BY <1>1 DEF ProcFits, WalkFits, Walk, Durable
  <1>3. intent \in Transitions /\ Len(cursor) \in 1..2
    BY <1>1, <1>2 DEF PhaseTypeOK, MaybeTransition
  <1>4. r \in CursorRecords
    <2>1. \A n \in 1..2, t \in Transitions : CursorRecord(n, t) \in CursorRecords
      BY DEF CursorRecords
    <2> QED BY <1>3, <2>1
  <1> HIDE DEF r
  <1>a. Len(cursor') = Len(cursor) + 1 /\ Len(cursor) \in Nat
    BY <1>1, <1>4 DEF PhaseTypeOK
  <1>5. /\ cursor' \in Seq(CursorRecords) /\ Len(cursor') = Len(cursor) + 1
        /\ \A n \in 1..Len(cursor) : cursor'[n] = cursor[n]
        /\ cursor'[Len(cursor) + 1] = r
    BY <1>1, <1>4 DEF PhaseTypeOK
  <1>6. Durable' = Durable
    BY <1>1 DEF Durable
  <1>7. \A n \in 1..Len(cursor') : cursor'[n] = CursorRecord(n - 1, Durable)
    <2> SUFFICES ASSUME NEW n \in 1..Len(cursor') PROVE cursor'[n] = CursorRecord(n - 1, Durable)
      OBVIOUS
    <2>1. CASE n \in 1..Len(cursor)
      BY <1>5, <2>1 DEF DiskFits
    <2>2. CASE n = Len(cursor) + 1
      <3>1. n - 1 = Len(cursor)
        BY <1>3, <2>2
      <3> QED BY <1>2, <1>5, <2>2, <3>1 DEF r
    <2> QED BY <1>3, <1>5, <2>1, <2>2
  <1>8. DiskFits'
    BY <1>1, <1>2, <1>3, <1>5, <1>6, <1>7 DEF DiskFits
  <1>9. WalkFits(p)'
    <2>1. CASE pc[p] = "append1"
      <3>1. pc'[p] = "link"
        BY <1>1, <2>1 DEF PhaseTypeOK
      <3>2. Len(cursor') = 2
        <4>1. Len(cursor) = 1
          BY <1>2, <2>1
        <4>2. 1 + 1 = 2
          OBVIOUS
        <4> QED BY <1>a, <4>1, <4>2
      <3>3. ownerLock # p => temps = {}
        BY <1>1 DEF ProcFits, WalkFits, Walk
      <3> QED BY <1>1, <1>2, <3>1, <3>2, <3>3 DEF WalkFits, Walk
    <2>2. CASE pc[p] = "append2"
      <3>1. pc'[p] = "converged"
        BY <1>1, <2>2 DEF PhaseTypeOK
      <3>2. Len(cursor') = 3
        <4>1. Len(cursor) = 2
          BY <1>2, <2>2
        <4>2. 2 + 1 = 3
          OBVIOUS
        <4> QED BY <1>a, <4>1, <4>2
      <3>3. ownerLock # p => temps = {}
        BY <1>1 DEF ProcFits, WalkFits, Walk
      <3> QED BY <1>1, <1>2, <3>1, <3>2, <3>3 DEF WalkFits, Walk
    <2> QED BY <1>1, <2>1, <2>2
  <1>10. l \in Walk /\ pc[p] \in Walk
    BY <1>1 DEF Walk
  <1> QED BY <1>1, <1>5, <1>6, <1>8, <1>9, <1>10, WalkMoves DEF PhaseTypeOK

\* The commit is linked before the last record.
LEMMA LinkCommitFits ==
    ASSUME PhaseInv, NEW p \in Procs, LinkCommit(p)
    PROVE  PhaseInv'
  <1> USE DEF PhaseInv
  <1>1. /\ pc[p] = "link" /\ pc' = [pc EXCEPT ![p] = "append2"]
        /\ commit' = IF commit = None THEN intent ELSE commit
        /\ UNCHANGED <<alloc, intent, seal, cursor, torn, temps, rejection, receipt, tail,
                       phaseLock, gateLock, ownerLock, op, lease, out>>
    BY DEF LinkCommit, Goto, gate, locks
  <1>2. intent = seal /\ torn = None /\ intent # None /\ Durable = intent /\ Len(cursor) = 2
    BY <1>1 DEF ProcFits, WalkFits, Walk, Durable
  <1>3. Durable' = Durable
    BY <1>1 DEF Durable
  <1>4. DiskFits'
    BY <1>1, <1>2, <1>3 DEF DiskFits
  <1>5. WalkFits(p)'
    BY <1>1, <1>2 DEF ProcFits, WalkFits, PhaseTypeOK, Walk
  <1> QED BY <1>1, <1>3, <1>4, <1>5, WalkMoves DEF PhaseTypeOK, Walk

\* The genesis record, unless the cursor is there.
LEMMA InitCursorFits ==
    ASSUME PhaseInv, NEW p \in Procs, InitCursor(p)
    PROVE  PhaseInv'
  <1> USE DEF PhaseInv
  <1>1. /\ pc[p] = "genesis" /\ phaseLock = p
        /\ UNCHANGED <<alloc, intent, seal, commit, torn, temps, rejection, receipt, tail,
                       phaseLock, gateLock, ownerLock, op, lease>>
    BY DEF InitCursor, gate, locks, ProcFits, LocksFit, InPhase
  <1>2. /\ out' \in [Procs -> [what : Whats, transition : MaybeTransition, gate : GateStates]]
        /\ out'[p].transition \in {None, out[p].transition}
        /\ \A q \in Procs \ {p} : out'[q] = out[q]
    BY AnswerFacts DEF InitCursor, Ends, Whats, PhaseTypeOK
  <1>3. /\ pc' \in [Procs -> Labels] /\ pc'[p] \in {"allocate", "unlockPhase"}
        /\ \A q \in Procs \ {p} : pc'[q] = pc[q]
    BY DEF InitCursor, Ends, Goto, PhaseTypeOK, Labels, InPhase
  <1>4. Durable' = Durable /\ GateState' = GateState
    BY <1>1 DEF Durable, GateState
  <1>5. /\ cursor' \in Seq(CursorRecords) /\ DiskFits'
        /\ pc'[p] = "allocate" => Len(cursor') > 0
    <2>1. CASE cursor = << >>
      <3>1. cursor' = <<CursorRecord(0, None)>> /\ CursorRecord(0, None) \in CursorRecords
        BY <2>1 DEF InitCursor, CursorRecords
      <3>2. /\ cursor' \in Seq(CursorRecords) /\ Len(cursor') = 1
            /\ cursor'[1] = CursorRecord(0, None)
        BY <3>1
      <3>3. Len(cursor) = 0
        BY <2>1
      <3>4. Durable = None /\ commit = None /\ torn = None /\ alloc = None
        <4>1. ~(Len(cursor) > 0)
          BY <3>3
        <4>2. Durable = None /\ alloc = None
          BY <4>1, Zenon DEF DiskFits
        <4> QED BY <4>2, Zenon DEF DiskFits
      <3>5. CursorRecord(0, Durable) = CursorRecord(0, None)
        BY DEF CursorRecord
      <3>6. \A n \in 1..Len(cursor') : cursor'[n] = CursorRecord(n - 1, Durable)
        <4>1. \A n \in 1..1 : n = 1 /\ n - 1 = 0
          OBVIOUS
        <4> QED BY <3>2, <3>5, <4>1
      <3>7. intent = None /\ seal = None
        BY <3>4 DEF Durable
      <3> QED BY <1>1, <1>4, <3>2, <3>4, <3>6, <3>7 DEF DiskFits
    <2>2. CASE cursor # << >>
      <3>1. cursor' = cursor /\ Len(cursor) > 0
        BY <2>2 DEF InitCursor, PhaseTypeOK
      <3> QED BY <1>1, <3>1, DiskStays DEF PhaseTypeOK
    <2> QED BY <2>1, <2>2
  <1>6. PhaseTypeOK'
    BY <1>1, <1>2, <1>3, <1>5 DEF PhaseTypeOK
  <1>7. Apart(p)
    BY <1>1, <1>2, <1>3, <1>4 DEF Apart
  <1>8. LocksFit(p)'
    BY <1>1, <1>3 DEF ProcFits, LocksFit, InPhase, InGate, Walk
  <1>9. LeaseFits(p)'
    BY <1>1, <1>3, <1>4 DEF ProcFits, LeaseFits, Walk
  <1>10. WalkFits(p)'
    BY <1>3, <1>5 DEF WalkFits, Walk
  <1>11. ChangeFits(p)' /\ CleanupFits(p)' /\ AnswerFits(p)'
    <2>1. ~Before(p)'
      BY <1>1, <1>3 DEF ProcFits, LeaseFits, Before, Walk, Changing
    <2> QED BY <1>1, <1>2, <1>3, <1>4, <2>1
            DEF ProcFits, ChangeFits, CleanupFits, AnswerFits
  <1> QED BY <1>5, <1>6, <1>7, <1>8, <1>9, <1>10, <1>11, Assemble DEF ProcFits

\* The allocation record is published last.
LEMMA InitAllocationFits ==
    ASSUME PhaseInv, NEW p \in Procs, InitAllocation(p)
    PROVE  PhaseInv'
  <1> USE DEF PhaseInv
  <1>1. /\ pc[p] = "allocate" /\ phaseLock = p /\ pc' = [pc EXCEPT ![p] = "unlockPhase"]
        /\ alloc # None => alloc' = alloc
        /\ UNCHANGED <<intent, seal, commit, cursor, torn, temps, rejection, receipt, tail,
                       phaseLock, gateLock, ownerLock, op, lease, out>>
    BY DEF InitAllocation, Goto, gate, locks, ProcFits, LocksFit, InPhase
  <1>2. Durable' = Durable /\ GateState' = GateState /\ Len(cursor) > 0
    BY <1>1 DEF Durable, GateState, ProcFits, WalkFits
  <1>3. DiskFits'
    BY <1>1, <1>2 DEF DiskFits
  <1>4. PhaseTypeOK' /\ pc'[p] = "unlockPhase"
    BY <1>1 DEF PhaseTypeOK, Labels, InPhase
  <1>5. Apart(p)
    BY <1>1, <1>2 DEF Apart, PhaseTypeOK
  <1>6. LocksFit(p)'
    BY <1>1, <1>4 DEF ProcFits, LocksFit, InPhase, InGate, Walk
  <1>7. LeaseFits(p)'
    BY <1>1, <1>2, <1>4 DEF ProcFits, LeaseFits, Walk
  <1>8. WalkFits(p)'
    BY <1>4 DEF WalkFits, Walk
  <1>9. ChangeFits(p)' /\ CleanupFits(p)' /\ AnswerFits(p)'
    <2>1. ~Before(p)'
      BY <1>1, <1>4 DEF ProcFits, LeaseFits, Before, Walk, Changing
    <2> QED BY <1>1, <1>2, <1>4, <2>1 DEF ProcFits, ChangeFits, CleanupFits, AnswerFits
  <1> QED BY <1>3, <1>4, <1>5, <1>6, <1>7, <1>8, <1>9, Assemble DEF ProcFits

\* The lease retains the gate as it is, under the gate's lock.
LEMMA SnapshotFits ==
    ASSUME PhaseInv, NEW p \in Procs, Snapshot(p)
    PROVE  PhaseInv'
  <1> USE DEF PhaseInv
  <1>1. /\ pc[p] = "snapshot" /\ phaseLock = p /\ gateLock = p /\ ownerLock # p
        /\ lease[p].kind = "none"
        /\ UNCHANGED <<alloc, intent, seal, commit, cursor, torn, temps, rejection, receipt, tail,
                       phaseLock, gateLock, ownerLock, op>>
    BY DEF Snapshot, disk, gate, locks, ProcFits, LocksFit, LeaseFits, InGate, Walk
  <1>2. DiskFits' /\ Durable' = Durable /\ GateState' = GateState
    BY <1>1, DiskStays DEF GateState
  <1>3. /\ lease[p].transition # None => Durable = lease[p].transition
        /\ op[p].kind \in LeaseKinds => alloc # None
        /\ op[p].kind = "cleanup" => op[p].arg \in Transitions
        /\ out[p].transition # None => Durable = out[p].transition
        /\ intent # None => Durable = intent
        /\ intent \in MaybeTransition
    BY DEF ProcFits, LeaseFits, CleanupFits, AnswerFits, Durable, PhaseTypeOK
  <1>4. ASSUME NEW w \in Whats, NEW t \in {intent, None},
               Ends(p, Answer(w, t, GateState), "unlockGate"), UNCHANGED lease
        PROVE  PhaseInv'
    <2>1. pc'[p] = "unlockGate" /\ out'[p].transition = t /\ PhaseTypeOK'
      BY <1>1, <1>3, <1>4, AnswerFacts DEF Ends, Goto, PhaseTypeOK, Labels, InGate
    <2>2. Apart(p)
      BY <1>1, <1>2, <1>4 DEF Ends, Goto, PhaseTypeOK, Apart
    <2>3. LocksFit(p)'
      BY <1>1, <2>1 DEF LocksFit, InPhase, InGate, Walk
    <2>4. LeaseFits(p)'
      BY <1>1, <1>2, <1>3, <1>4, <2>1 DEF LeaseFits, Walk
    <2>5. WalkFits(p)' /\ AnswerFits(p)'
      BY <1>2, <1>3, <2>1 DEF WalkFits, AnswerFits, Walk
    <2>6. ChangeFits(p)' /\ CleanupFits(p)'
      BY <1>1, <1>3, <1>4, <2>1 DEF ChangeFits, CleanupFits, Before, Changing
    <2> QED BY <1>2, <2>1, <2>2, <2>3, <2>4, <2>5, <2>6, Assemble DEF ProcFits
  <1>5. ASSUME op[p].kind \in LeaseKinds, op[p].kind = "normal" => GateState = "OPEN",
               lease' = [lease EXCEPT ![p] = [kind |-> op[p].kind, spent |-> FALSE,
                                              gate |-> GateState, transition |-> intent]],
               Goto(p, "held"), UNCHANGED out
        PROVE  PhaseInv'
    <2>1. /\ pc'[p] = "held" /\ lease'[p].kind = op[p].kind /\ lease'[p].spent = FALSE
          /\ lease'[p].gate = GateState /\ lease'[p].transition = intent
      BY <1>5 DEF Goto, PhaseTypeOK
    <2>2. PhaseTypeOK'
      BY <1>1, <1>3, <1>5, AnswerFacts DEF Goto, PhaseTypeOK, Labels, InPhase
    <2>3. Apart(p)
      BY <1>1, <1>2, <1>5 DEF Goto, PhaseTypeOK, Apart
    <2>4. LocksFit(p)'
      BY <1>1, <2>1 DEF LocksFit, InPhase, InGate, Walk
    <2>5. LeaseFits(p)'
      BY <1>1, <1>2, <1>3, <1>5, <2>1 DEF LeaseFits, Walk, LeaseKinds
    <2>6. WalkFits(p)' /\ AnswerFits(p)'
      BY <1>2, <1>3, <1>5, <2>1 DEF WalkFits, AnswerFits, Walk
    <2>7. ChangeFits(p)'
      <3>1. op[p].kind \in Changing => intent = None /\ seal = None
        BY <1>1 DEF ProcFits, ChangeFits, Before
      <3>2. temps = {}
        BY <1>1, <1>5 DEF ProcFits, ChangeFits
      <3> QED BY <1>1, <2>1, <3>1, <3>2 DEF ChangeFits, Before
    <2>8. CleanupFits(p)'
      BY <1>1, <2>1 DEF ProcFits, CleanupFits
    <2> QED BY <1>2, <2>2, <2>3, <2>4, <2>5, <2>6, <2>7, <2>8, Assemble DEF ProcFits
  <1> QED BY <1>4, <1>5 DEF Snapshot, Whats

\* The intent is published: nothing was durable before it, and what it binds
\* is still so.
LEMMA PublishIntentFits ==
    ASSUME PhaseInv, NEW p \in Procs, PublishIntent(p)
    PROVE  /\ PhaseInv' /\ intent = None /\ seal = None /\ intent' \in Transitions
           /\ UNCHANGED <<lease, seal>>
           /\ intent'.tail = tail /\ intent'.gate = GateState
  <1> USE DEF PhaseInv
  <1>1. /\ pc[p] = "publish" /\ phaseLock = p /\ gateLock = p /\ ownerLock = p
        /\ lease[p].kind # "none" /\ lease[p].spent
        /\ intent = None /\ seal = None /\ temps = {}
        /\ op[p].arg.tail = tail /\ op[p].arg.gate = GateState
    BY DEF PublishIntent, ProcFits, LocksFit, LeaseFits, ChangeFits, Before, InPhase,
       InGate
  <1>2. /\ intent' = op[p].arg /\ pc' = [pc EXCEPT ![p] = "seal"]
        /\ UNCHANGED <<alloc, seal, commit, cursor, torn, temps, rejection, receipt, tail,
                       phaseLock, gateLock, ownerLock, op, lease, out>>
    BY <1>1 DEF PublishIntent, Goto, gate
  <1>3. op[p].kind # "append" /\ op[p].kind \in LeaseKinds
    BY <1>1 DEF ProcFits, LeaseFits, PhaseTypeOK, LeaseKinds
  <1>4. /\ op[p].arg \in Transitions /\ WellClassified(op[p].arg) /\ op[p].arg # None
        /\ alloc # None
    BY <1>1, <1>3, NoneIsNothing DEF ProcFits, ChangeFits, LeaseFits
  <1>5. Durable = None /\ Durable' = op[p].arg
    BY <1>1, <1>2, <1>4 DEF Durable
  <1>6. commit = None /\ torn = None /\ Len(cursor) > 0 /\ ~(Len(cursor) > 1)
    BY <1>4, <1>5, Zenon DEF DiskFits
  <1>7. DiskFits'
    <2>1. Len(cursor) = 1
      <3>1. Len(cursor) \in Nat
        BY DEF PhaseTypeOK
      <3>2. PICK n \in Nat : n = Len(cursor)
        BY <3>1
      <3>3. n > 0 /\ ~(n > 1)
        BY <1>6, <3>2
      <3> QED BY <3>2, <3>3
    <2>2. cursor[1] = CursorRecord(0, Durable')
      <3>1. 1 \in 1..Len(cursor) /\ 1 - 1 = 0
        BY <2>1
      <3>2. cursor[1] = CursorRecord(0, Durable)
        BY <3>1 DEF DiskFits
      <3> QED BY <3>2 DEF CursorRecord
    <2>3. \A n \in 1..Len(cursor) : cursor[n] = CursorRecord(n - 1, Durable')
      <3>1. \A n \in 1..1 : n = 1 /\ n - 1 = 0
        OBVIOUS
      <3> QED BY <2>1, <2>2, <3>1
    <2> QED BY <1>1, <1>2, <1>4, <1>5, <1>6, <2>1, <2>3 DEF DiskFits
  <1>8. PhaseTypeOK' /\ pc'[p] = "seal"
    BY <1>2, <1>4 DEF PhaseTypeOK, MaybeTransition, Labels, InPhase, Walk
  <1>9. Apart(p)
    BY <1>1, <1>2, <1>5 DEF Apart, PhaseTypeOK
  <1>10. LocksFit(p)'
    BY <1>1, <1>2, <1>8 DEF LocksFit, InPhase, InGate, Walk
  <1>11. LeaseFits(p)'
    <2>1. lease[p].transition = None
      BY <1>5 DEF ProcFits, LeaseFits
    <2> QED BY <1>1, <1>2, <1>8, <2>1 DEF ProcFits, LeaseFits, GateState, Walk
  <1>12. WalkFits(p)' /\ ChangeFits(p)'
    BY <1>1, <1>2, <1>8 DEF WalkFits, ChangeFits, Before, Walk
  <1>13. CleanupFits(p)' /\ AnswerFits(p)'
    <2>1. out[p].transition = None
      BY <1>5 DEF ProcFits, AnswerFits
    <2> QED BY <1>2, <1>8, <2>1 DEF ProcFits, CleanupFits, AnswerFits
  <1> QED BY <1>1, <1>2, <1>4, <1>7, <1>8, <1>9, <1>10, <1>11, <1>12, <1>13, Assemble
          DEF ProcFits

\* What a call that stops in the middle of a write leaves on the disk.
LEMMA StopsFit ==
    ASSUME PhaseInv, NEW p \in Procs, TornTail(p), LeftTemp(p),
           UNCHANGED <<alloc, intent, seal, commit, cursor>>
    PROVE  /\ DiskFits' /\ Durable' = Durable
           /\ torn' \in CursorRecords \cup {None}
           /\ phaseLock = p \/ UNCHANGED <<torn, temps>>
  <1> USE DEF PhaseInv
  <1>1. Durable' = Durable
    BY DEF Durable
  <1>2. phaseLock = p \/ UNCHANGED <<torn, temps>>
    BY DEF TornTail, LeftTemp, ProcFits, LocksFit, InPhase, Walk
  <1>3. CASE torn' \in {torn, None}
    <2>1. DiskFits'
      BY <1>1, <1>3 DEF DiskFits
    <2> QED BY <1>1, <1>2, <1>3, <2>1 DEF PhaseTypeOK
  <1>4. CASE torn' \notin {torn, None}
    <2> DEFINE r == CursorRecord(Len(cursor), intent)
    <2>1. pc[p] \in {"append1", "append2"} /\ torn' = r
      BY <1>4 DEF TornTail
    <2>2. /\ intent # None /\ Durable = intent /\ intent \in Transitions
          /\ Len(cursor) = 1 \/ Len(cursor) = 2
      BY <2>1 DEF ProcFits, WalkFits, Durable, PhaseTypeOK, MaybeTransition
    <2>3. r \in CursorRecords /\ Len(cursor) < 3
      <3>1. \A n \in 1..2, t \in Transitions : CursorRecord(n, t) \in CursorRecords
        BY DEF CursorRecords
      <3>2. CASE Len(cursor) = 1
        BY <2>2, <3>1, <3>2
      <3>3. CASE Len(cursor) = 2
        BY <2>2, <3>1, <3>3
      <3> QED BY <2>2, <3>2, <3>3
    <2> HIDE DEF r
    <2>4. DiskFits'
      BY <1>1, <2>1, <2>2, <2>3 DEF DiskFits, r
    <2> QED BY <1>1, <1>2, <2>1, <2>3, <2>4
  <1> QED BY <1>3, <1>4

\* A failed system call: a transition raises into its body, another call ends.
LEMMA WriteFailsFits ==
    ASSUME PhaseInv, NEW p \in Procs, WriteFails(p)
    PROVE  PhaseInv'
  <1> USE DEF PhaseInv
  <1>1. /\ pc[p] \in {"spec", "genesis", "allocate", "publish"} \cup (Walk \ {"converged"})
        /\ TornTail(p) /\ LeftTemp(p)
        /\ UNCHANGED <<alloc, intent, seal, commit, cursor, rejection, receipt, tail,
                       phaseLock, gateLock, op, lease>>
    BY DEF WriteFails, gate, Walk
  <1>2. /\ DiskFits' /\ Durable' = Durable /\ torn' \in CursorRecords \cup {None}
        /\ phaseLock = p \/ UNCHANGED <<torn, temps>>
    BY <1>1, StopsFit
  <1>3. GateState' = GateState /\ phaseLock = p
    BY <1>1 DEF GateState, ProcFits, LocksFit, InPhase, Walk
  <1>4. CASE ownerLock = p /\ ownerLock' = None /\ Goto(p, "held") /\ UNCHANGED out
    <2>1. pc'[p] = "held" /\ PhaseTypeOK'
      BY <1>1, <1>2, <1>4 DEF Goto, PhaseTypeOK, Labels, InPhase
    <2>2. Apart(p)
      BY <1>1, <1>2, <1>3, <1>4, NoneIsNothing DEF Goto, PhaseTypeOK, Apart
    <2>3. /\ lease[p].kind # "none" /\ lease[p].spent /\ gateLock = p
          /\ op[p].kind # "cleanup"
      BY <1>1, <1>4 DEF ProcFits, LocksFit, LeaseFits, InGate, Walk
    <2>4. LocksFit(p)'
      BY <1>1, <1>3, <1>4, <2>1, <2>3, NoneIsNothing DEF LocksFit, InPhase, InGate, Walk
    <2>5. LeaseFits(p)'
      BY <1>1, <1>2, <1>3, <2>1, <2>3 DEF ProcFits, LeaseFits, Walk
    <2>6. WalkFits(p)' /\ ChangeFits(p)'
      BY <1>1, <2>1, <2>3 DEF WalkFits, ChangeFits, Before, Walk
    <2>7. CleanupFits(p)' /\ AnswerFits(p)'
      BY <1>1, <1>2, <1>4, <2>3 DEF ProcFits, CleanupFits, AnswerFits
    <2> QED BY <1>2, <2>1, <2>2, <2>4, <2>5, <2>6, <2>7, Assemble DEF ProcFits
  <1>5. CASE /\ ownerLock # p /\ UNCHANGED ownerLock
             /\ Ends(p, Answer("error", None, "OPEN"), "unlockPhase")
    <2>1. pc'[p] = "unlockPhase" /\ out'[p].transition = None /\ PhaseTypeOK'
      BY <1>1, <1>2, <1>5, AnswerFacts DEF Ends, Goto, PhaseTypeOK, Labels, InPhase,
         Whats
    <2>2. Apart(p)
      BY <1>1, <1>2, <1>3, <1>5 DEF Ends, Goto, PhaseTypeOK, Apart
    <2>3. lease[p].kind = "none"
      BY <1>1, <1>5 DEF ProcFits, LocksFit, LeaseFits, Walk
    <2>4. LocksFit(p)'
      BY <1>1, <1>3, <1>5, <2>1 DEF LocksFit, InPhase, InGate, Walk
    <2>5. LeaseFits(p)'
      BY <1>1, <1>2, <1>3, <2>1, <2>3 DEF ProcFits, LeaseFits, Walk
    <2>6. WalkFits(p)' /\ ChangeFits(p)'
      BY <1>1, <2>1, <2>3 DEF WalkFits, ChangeFits, Before, Walk, Changing
    <2>7. CleanupFits(p)' /\ AnswerFits(p)'
      BY <1>1, <2>1 DEF ProcFits, CleanupFits, AnswerFits
    <2> QED BY <1>2, <2>1, <2>2, <2>4, <2>5, <2>6, <2>7, Assemble DEF ProcFits
  <1> QED BY <1>4, <1>5 DEF WriteFails, Transiting

\* A process is killed: the locks a child inherited stay locked.
LEMMA CrashFits ==
    ASSUME PhaseInv, NEW p \in Procs, Crash(p)
    PROVE  PhaseInv' /\ Durable' = Durable
  <1> USE DEF PhaseInv
  <1>1. /\ TornTail(p) /\ LeftTemp(p)
        /\ UNCHANGED <<alloc, intent, seal, commit, cursor, rejection, receipt, tail>>
        /\ op' = [op EXCEPT ![p] = NoCall] /\ lease' = [lease EXCEPT ![p] = NoLease]
        /\ out' = [out EXCEPT ![p] = NoAnswer]
        /\ ownerLock' = Freed(p, ownerLock)
        /\ phaseLock' \in {phaseLock, Freed(p, phaseLock)}
        /\ gateLock' \in {gateLock, Freed(p, gateLock)}
    BY DEF Crash, gate
  <1>2. /\ DiskFits' /\ Durable' = Durable /\ torn' \in CursorRecords \cup {None}
        /\ phaseLock = p \/ UNCHANGED <<torn, temps>>
    BY <1>1, StopsFit
  <1>3. /\ NoLease \in [kind : LeaseKinds \cup {"none"}, spent : BOOLEAN,
                        gate : GateStates, transition : MaybeTransition]
        /\ NoLease.kind = "none" /\ NoLease.transition = None
    BY DEF NoLease, GateStates, MaybeTransition
  <1>4. /\ pc' \in [Procs -> Labels] /\ pc'[p] \in {"idle", "orphan"}
        /\ \A q \in Procs \ {p} : pc'[q] = pc[q]
    BY DEF Crash, Goto, PhaseTypeOK, Labels
  <1>5. /\ out' \in [Procs -> [what : Whats, transition : MaybeTransition, gate : GateStates]]
        /\ out'[p].transition = None
    BY <1>1, AnswerFacts DEF PhaseTypeOK
  <1>6. op' \in [Procs -> [kind : OpKinds, arg : Args]] /\ op'[p].kind = "none"
    BY <1>1, CallFacts DEF PhaseTypeOK
  <1>7. PhaseTypeOK' /\ lease'[p] = NoLease
    BY <1>1, <1>2, <1>3, <1>4, <1>5, <1>6 DEF PhaseTypeOK
  <1>8. Apart(p)
    <2>1. \A q \in Procs \ {p} : /\ phaseLock' = q <=> phaseLock = q
                                 /\ gateLock' = q <=> gateLock = q
                                 /\ ownerLock' = q <=> ownerLock = q
      BY <1>1, NoneIsNothing DEF Freed
    <2> QED BY <1>1, <1>2, <1>4, <2>1 DEF Apart, PhaseTypeOK
  <1>9. ownerLock' # p
    BY <1>1, NoneIsNothing DEF Freed
  <1>10. LocksFit(p)' /\ LeaseFits(p)'
    BY <1>3, <1>4, <1>6, <1>7, <1>9 DEF LocksFit, LeaseFits, InPhase, InGate, Walk,
       LeaseKinds
  <1>11. WalkFits(p)' /\ ChangeFits(p)' /\ CleanupFits(p)' /\ AnswerFits(p)'
    BY <1>3, <1>4, <1>5, <1>6, <1>7 DEF WalkFits, ChangeFits, CleanupFits, AnswerFits,
       Before,
                                        Walk, Changing, LeaseKinds
  <1> QED BY <1>2, <1>7, <1>8, <1>10, <1>11, Assemble DEF ProcFits

\* A rollback of the attempt directory under a free phase lock: the seal in
\* the root keeps the transition.
LEMMA RollbackFits ==
    ASSUME PhaseInv, Rollback
    PROVE  PhaseInv' /\ Durable' = Durable /\ UNCHANGED lease
  <1> USE DEF PhaseInv
  <1>1. PICK n \in 1..Len(cursor) :
          /\ cursor' = SubSeq(cursor, 1, n)
          /\ intent' \in IF n = 1 THEN {None, intent} ELSE {intent}
          /\ commit' \in IF n = 1 THEN {None}
                         ELSE IF n = 2 THEN {None, commit} ELSE {commit}
    BY DEF Rollback
  <1>2. /\ phaseLock = None /\ seal # None /\ torn' = None
        /\ UNCHANGED <<alloc, seal, temps, rejection, receipt, tail, phaseLock, gateLock,
                       ownerLock, pc, op, lease, out>>
    BY DEF Rollback, gate, locks, procs
  <1>3. Durable' = Durable /\ Durable # None
    BY <1>1, <1>2 DEF Durable, DiskFits
  <1>4. cursor \in Seq(CursorRecords) /\ Len(cursor) \in Nat /\ n \in Nat /\ n >= 1
    BY DEF PhaseTypeOK
  <1>5. /\ cursor' \in Seq(CursorRecords) /\ Len(cursor') = n
        /\ \A k \in 1..n : cursor'[k] = cursor[k]
    BY <1>1, <1>4, SubSeqProperties
  <1>6. DiskFits'
    <2>1. n <= Len(cursor) /\ Len(cursor) <= 3
      BY <1>1, <1>4 DEF DiskFits
    <2>2. n = 3 => commit' # None
      <3>1. ASSUME n = 3 PROVE commit' = commit /\ Len(cursor) = 3
        <4>1. commit' = commit
          BY <1>1, <3>1
        <4>2. PICK m \in Nat : m = Len(cursor)
          BY <1>4
        <4>3. m = 3
          BY <2>1, <3>1, <4>2
        <4> QED BY <4>1, <4>2, <4>3
      <3> QED BY <3>1 DEF DiskFits
    <2>3. \A k \in 1..n : cursor'[k] = CursorRecord(k - 1, Durable)
      <3>1. \A k \in 1..n : k \in 1..Len(cursor)
        BY <1>4, <2>1
      <3> QED BY <1>5, <3>1 DEF DiskFits
    <2>4. n <= 3
      BY <1>4, <2>1
    <2>5. /\ commit' # None => commit' = commit
          /\ intent' # None => intent' = intent
      BY <1>1
    <2> QED BY <1>2, <1>3, <1>4, <1>5, <2>2, <2>3, <2>4, <2>5 DEF DiskFits
  <1>7. PhaseTypeOK'
    BY <1>1, <1>2, <1>5 DEF PhaseTypeOK, MaybeTransition
  <1>8. Apart(None)
    BY <1>2, <1>3, NoneIsNothing DEF Apart
  <1>9. \A q \in Procs : ProcFits(q)'
    BY <1>8, OthersFit, NoneIsNothing
  <1> QED BY <1>2, <1>3, <1>6, <1>7, <1>9

-----------------------------------------------------------------------------
(* The invariant                                                           *)

\* Every step keeps the invariant.
LEMMA StepsFit == PhaseInv /\ [PhaseNext]_phaseVars => PhaseInv'
  <1> SUFFICES ASSUME PhaseInv, [PhaseNext]_phaseVars PROVE PhaseInv'
    OBVIOUS
  <1>1. CASE UNCHANGED phaseVars
    <2>1. UNCHANGED <<alloc, intent, seal, commit, cursor, torn, temps, rejection, receipt,
                      tail, phaseLock, gateLock, ownerLock, pc, op, lease, out>>
      BY <1>1 DEF phaseVars, disk, gate, locks, procs
    <2>2. PhaseTypeOK'
      BY <2>1 DEF PhaseInv, PhaseTypeOK
    <2>3. DiskFits' /\ Durable' = Durable
      BY <2>1, DiskStays DEF PhaseInv
    <2>4. Apart(None)
      BY <2>1, <2>3 DEF Apart
    <2> QED BY <2>2, <2>3, <2>4, OthersFit, NoneIsNothing DEF PhaseInv
  <1>2. ASSUME NEW p \in Procs, Runs(p) PROVE PhaseInv'
    BY <1>2, AcquireAllocationFits, AcquirePhaseFits, AcquireGateFits, AcquireOwnerFits,
       UnlockGateFits, UnlockPhaseFits, UnlockAllocationFits, CleanTempsFits, InitSpecFits,
       InitCursorFits, InitAllocationFits, ReconcileFits, ReadCursorFits, AppendFits,
       LinkCommitFits, RecoveredFits, SnapshotFits, EndBodyFits, BuildTransitionFits,
       PublishIntentFits, TransitionReturnsFits, GateRejectsFits, GateAcknowledgesFits,
       OwnerCallFits, OwnerAppendsFits, ChildExitsFits, Zenon DEF Runs, Acquires
  <1>3. ASSUME NEW p \in Procs, Faulty(p) PROVE PhaseInv'
    BY <1>3, WriteFailsFits, CrashFits, ForkFits DEF Faulty
  <1> QED BY <1>1, <1>2, <1>3, RollbackFits, StartPhaseCallFits, StartGateCallFits,
             BeginTransitionFits, Zenon DEF PhaseNext

\* The invariant of the phase owner: the files tell of one transition, and
\* every call knows where it is, holds its locks and its lease, and has a true
\* answer, whoever is killed, forked or rolled back.
THEOREM PhaseInvariant == PhaseSpec => []PhaseInv
  BY InitFits, StepsFit, PTL DEF PhaseSpec

-----------------------------------------------------------------------------
(* What follows from it                                                    *)

\* How long the cursor is, as a number.
LEMMA CursorLength ==
    ASSUME PhaseInv
    PROVE  /\ Len(cursor) \in Nat /\ Len(cursor) <= 3
           /\ Len(cursor) > 1 => cursor[Len(cursor)].transition = Durable
           /\ Len(cursor) = 3 => \A n \in 2..3 : cursor[n].transition = Durable
  <1>1. Len(cursor) \in Nat /\ Len(cursor) <= 3
    BY DEF PhaseInv, PhaseTypeOK, DiskFits
  <1>2. \A n \in 1..Len(cursor) : cursor[n] = CursorRecord(n - 1, Durable)
    BY DEF PhaseInv, DiskFits
  <1>3. \A n \in 1..Len(cursor) : n > 1 => cursor[n].transition = Durable
    <2> SUFFICES ASSUME NEW n \in 1..Len(cursor), n > 1
                 PROVE  cursor[n].transition = Durable
      OBVIOUS
    <2>1. n - 1 # 0
      BY <1>1
    <2>2. \A m, t : m # 0 => CursorRecord(m, t).transition = t
      BY DEF CursorRecord
    <2> QED BY <1>2, <2>1, <2>2
  <1>4. Len(cursor) > 1 => Len(cursor) \in 1..Len(cursor)
    BY <1>1
  <1>5. Len(cursor) = 3 => \A n \in 2..3 : n \in 1..Len(cursor) /\ n > 1
    BY <1>1
  <1> QED BY <1>1, <1>3, <1>4, <1>5

\* What a held lease stands for.
LEMMA LeasesFit == PhaseInv => LeasesTruthful
  <1> SUFFICES ASSUME PhaseInv, NEW p \in Procs
               PROVE  /\ Working(p) => intent = None /\ seal = None /\ rejection = None
                      /\ Cleaning(p) =>
                           /\ op[p].arg = intent /\ intent = seal /\ intent = commit
                           /\ Len(cursor) = 3 /\ torn = None
                           /\ \A n \in 2..3 : cursor[n].transition = intent
                      /\ lease[p].kind # "none" => lease[p].gate = GateState
    BY Zenon DEF LeasesTruthful, NormalBeforeCleanup, CleanupConverged, SnapshotExact
  <1>0. ProcFits(p)
    BY DEF PhaseInv
  <1>1. Working(p) => intent = None /\ seal = None /\ rejection = None
    BY <1>0 DEF ProcFits, Working, LeaseFits, ChangeFits, Before, Changing, GateState
  <1>2. ASSUME Cleaning(p)
        PROVE  /\ op[p].arg = intent /\ intent = seal /\ intent = commit
               /\ Len(cursor) = 3 /\ torn = None
               /\ \A n \in 2..3 : cursor[n].transition = intent
    <2>1. op[p].kind = "cleanup" /\ pc[p] = "held"
      BY <1>0, <1>2 DEF ProcFits, Cleaning, LeaseFits
    <2>2. /\ op[p].arg \in Transitions /\ op[p].arg # None
          /\ intent = op[p].arg /\ seal = op[p].arg /\ Len(cursor) = 3 /\ torn = None
      BY <1>0, <2>1, NoneIsNothing DEF ProcFits, CleanupFits
    <2>3. Durable = intent
      BY <2>2 DEF Durable
    <2>4. commit = Durable
      BY <2>2, Zenon DEF PhaseInv, DiskFits
    <2> QED BY <2>2, <2>3, <2>4, CursorLength
  <1>3. lease[p].kind # "none" => lease[p].gate = GateState
    BY <1>0 DEF ProcFits, LeaseFits
  <1> QED BY <1>1, <1>2, <1>3

\* A usable normal lease excludes every durable transition and rejection, a
\* cleanup lease means a converged transition, and retained gate snapshots are
\* exact, in every reachable state.
THEOREM LeasesAreTruthful == PhaseSpec => []LeasesTruthful
  BY PhaseInvariant, LeasesFit, PTL

\* Whenever the phase lock is free the directory is one the next recovery
\* accepts, and no temporary file is in the way of an intent.
THEOREM DirectoryRecoverable == PhaseSpec => []AlwaysRecoverable
  <1>1. PhaseInv => AlwaysRecoverable
    <2> SUFFICES ASSUME PhaseInv PROVE AlwaysRecoverable
      OBVIOUS
    <2>1. Len(cursor) > 1 => cursor[Len(cursor)].transition = Durable
      BY CursorLength
    <2>2. /\ intent # None /\ seal # None => intent = seal
          /\ torn # None => /\ Durable # None /\ Len(cursor) < 3
                            /\ torn = CursorRecord(Len(cursor), Durable)
          /\ commit # None => commit = Durable
          /\ Durable # None => WellClassified(Durable)
          /\ Len(cursor) = 3 => commit # None
      BY Zenon DEF PhaseInv, DiskFits
    <2>3. \A p \in Procs : pc[p] = "publish" => temps = {}
      BY DEF PhaseInv, ProcFits, ChangeFits, Before
    <2> QED BY <2>1, <2>2, <2>3, Zenon DEF AlwaysRecoverable
  <1> QED BY <1>1, PhaseInvariant, PTL

\* What a replay or a finished lease said of a transition stays true, through
\* every later kill, failed write and rollback.
THEOREM AnswersStayTrue == PhaseSpec => []AnswersDurable
  <1>1. PhaseInv => AnswersDurable
    BY DEF PhaseInv, ProcFits, AnswerFits, AnswersDurable
  <1> QED BY <1>1, PhaseInvariant, PTL

-----------------------------------------------------------------------------
(* The switch                                                              *)

\* The steps that neither give nor end a lease nor publish an intent.
Quiet(p) ==
    \/ Acquires(p)
    \/ UnlockGate(p) \/ UnlockPhase(p) \/ UnlockAllocation(p)
    \/ CleanTemps(p) \/ InitSpec(p) \/ InitCursor(p) \/ InitAllocation(p)
    \/ Reconcile(p) \/ ReadCursor(p)
    \/ AppendIntentRecord(p) \/ LinkCommit(p) \/ AppendCleanupRecord(p)
    \/ Recovered(p)
    \/ GateRejects(p) \/ GateAcknowledges(p) \/ OwnerCall(p) \/ OwnerAppends(p)
    \/ ChildExits(p) \/ WriteFails(p) \/ Fork(p)
    \/ \E call \in PhaseCalls : StartPhaseCall(p, call)
    \/ \E call \in GateCalls : StartGateCall(p, call)
    \/ \E e \in Attestations : BeginTransition(p, e)

\* They leave the leases and the durable transition alone.
LEMMA QuietSteps ==
    ASSUME NEW p \in Procs, Quiet(p)
    PROVE  Durable' = Durable /\ lease' = lease
  <1>1. CASE Reconcile(p)
    BY <1>1 DEF Reconcile, Durable
  <1>2. ASSUME Quiet(p), ~Reconcile(p) PROVE UNCHANGED <<intent, seal, lease>>
    BY <1>2 DEF Quiet, Acquires, AcquireAllocation, AcquirePhase, AcquireGate,
       AcquireOwner,
         UnlockGate, UnlockPhase, UnlockAllocation, CleanTemps, InitSpec, InitCursor,
         InitAllocation, ReadCursor, AppendIntentRecord, LinkCommit, AppendCleanupRecord,
         AppendRecord, Recovered, GateRejects, GateAcknowledges, OwnerCall, OwnerAppends,
         ChildExits, WriteFails, Fork, StartPhaseCall, StartGateCall, BeginTransition, disk
  <1> QED BY <1>1, <1>2 DEF Durable

\* A step is quiet or one of seven.
LEMMA StepKinds ==
    ASSUME PhaseNext
    PROVE  \/ Rollback
           \/ \E p \in Procs : \/ Quiet(p) \/ Snapshot(p) \/ EndBody(p) \/ BuildTransition(p)
                               \/ PublishIntent(p) \/ TransitionReturns(p) \/ Crash(p)
  BY Zenon DEF PhaseNext, Runs, Faulty, Quiet

\* The owner tail and the gate state an intent binds are those of the moment
\* it is published.
THEOREM IntentIsAboutThePresent == PhaseSpec => IntentBindsPresent
  <1> DEFINE Binds == intent = None /\ seal = None /\ intent' # None
                        => intent'.tail = tail /\ intent'.gate = GateState
  <1>1. PhaseInv /\ [PhaseNext]_phaseVars => [Binds]_phaseVars
    <2> SUFFICES ASSUME PhaseInv, PhaseNext, intent = None, seal = None, intent' # None
                 PROVE  intent'.tail = tail /\ intent'.gate = GateState
      BY DEF Binds
    <2>1. Durable' # Durable
      BY DEF Durable
    <2>2. ~Rollback
      BY <2>1, RollbackFits
    <2>3. PICK p \in Procs : \/ Quiet(p) \/ Snapshot(p) \/ EndBody(p) \/ BuildTransition(p)
                             \/ PublishIntent(p) \/ TransitionReturns(p) \/ Crash(p)
      BY <2>2, StepKinds
    <2>4. ~Quiet(p) /\ ~Crash(p)
      BY <2>1, QuietSteps, CrashFits
    <2>5. Snapshot(p) \/ EndBody(p) \/ BuildTransition(p) \/ TransitionReturns(p)
            => intent' = intent
      BY DEF Snapshot, EndBody, BuildTransition, TransitionReturns, disk
    <2> QED BY <2>3, <2>4, <2>5, PublishIntentFits
  <1>2. PhaseSpec => [][Binds]_phaseVars
    BY <1>1, PhaseInvariant, PTL DEF PhaseSpec
  <1> QED BY <1>2 DEF IntentBindsPresent

\* A lease is held under the phase lock, so two processes never hold one.
LEMMA LeasesExclude ==
    ASSUME PhaseInv, NEW p \in Procs, NEW q \in Procs,
           lease[q].kind # "none", phaseLock = p
    PROVE  q = p
  BY DEF PhaseInv, ProcFits, LeaseFits

\* Nothing changes for the switch.
LEMMA SwitchStutters ==
    ASSUME Durable' = Durable,
           \A q \in Procs : (Working(q)' <=> Working(q)) /\ (Cleaning(q)' <=> Cleaning(q))
    PROVE  UNCHANGED Switch!switchVars
  BY DEF Switch!switchVars

\* A lease ends or is spent: normal or cleanup work is over, or neither was.
LEMMA WorkEnds ==
    ASSUME PhaseInv, NEW p \in Procs, Durable' = Durable,
           \A q \in Procs \ {p} : lease'[q] = lease[q],
           ~Working(p)', Cleaning(p)' => Cleaning(p)
    PROVE  [Switch!SwitchNext]_(Switch!switchVars)
  <1>1. \A q \in Procs \ {p} : (Working(q)' <=> Working(q)) /\ (Cleaning(q)' <=> Cleaning(q))
    BY DEF Working, Cleaning
  <1>2. ~(Working(p) /\ Cleaning(p))
    BY DEF Working, Cleaning
  <1>3. CASE Working(p)
    <2>1. {q \in Procs : Working(q)'} = {q \in Procs : Working(q)} \ {p}
      BY <1>1
    <2>2. {q \in Procs : Cleaning(q)'} = {q \in Procs : Cleaning(q)}
      BY <1>1, <1>2, <1>3
    <2>3. Switch!EndWork(p)
      BY <2>1, <2>2 DEF Switch!EndWork
    <2> QED BY <2>3 DEF Switch!SwitchNext
  <1>4. CASE ~Working(p) /\ Cleaning(p) /\ ~Cleaning(p)'
    <2>1. {q \in Procs : Cleaning(q)'} = {q \in Procs : Cleaning(q)} \ {p}
      BY <1>1, <1>4
    <2>2. {q \in Procs : Working(q)'} = {q \in Procs : Working(q)}
      BY <1>1, <1>4
    <2>3. Switch!EndCleaning(p)
      BY <2>1, <2>2 DEF Switch!EndCleaning
    <2> QED BY <2>3 DEF Switch!SwitchNext
  <1>5. CASE ~Working(p) /\ (Cleaning(p)' <=> Cleaning(p))
    BY <1>1, <1>5, SwitchStutters
  <1> QED BY <1>3, <1>4, <1>5

\* A lease is given: normal work begins before the switch, cleanup after it.
LEMMA WorkBegins ==
    ASSUME PhaseInv, NEW p \in Procs, Snapshot(p)
    PROVE  [Switch!SwitchNext]_(Switch!switchVars)
  <1>1. /\ pc[p] = "snapshot" /\ phaseLock = p /\ UNCHANGED <<intent, seal>>
        /\ lease[p].kind = "none" /\ ProcFits(p)
    BY DEF Snapshot, disk, PhaseInv, ProcFits, LeaseFits, Walk
  <1>2. Durable' = Durable
    BY <1>1 DEF Durable
  <1>3. \A q \in Procs : ~Working(q) /\ ~Cleaning(q)
    <2> SUFFICES ASSUME NEW q \in Procs, lease[q].kind # "none" PROVE FALSE
      BY DEF Working, Cleaning
    <2> QED BY <1>1, LeasesExclude
  <1>4. CASE UNCHANGED lease
    BY <1>2, <1>4, SwitchStutters DEF Working, Cleaning
  <1>5. ASSUME op[p].kind \in LeaseKinds,
               lease' = [lease EXCEPT ![p] =
                 [kind |-> op[p].kind, spent |-> FALSE, gate |-> GateState,
                  transition |-> intent]]
        PROVE  [Switch!SwitchNext]_(Switch!switchVars)
    <2>1. /\ lease'[p].kind = op[p].kind /\ ~lease'[p].spent
          /\ \A q \in Procs \ {p} : lease'[q] = lease[q]
      BY <1>5 DEF PhaseInv, PhaseTypeOK
    <2>2. \A q \in Procs \ {p} : ~Working(q)' /\ ~Cleaning(q)'
      BY <1>3, <2>1 DEF Working, Cleaning
    <2>3. CASE op[p].kind = "normal"
      <3>1. Durable = None
        BY <1>1, <2>3 DEF ProcFits, ChangeFits, Before, Changing, Durable
      <3>2. {q \in Procs : Working(q)'} = {p} /\ {q \in Procs : Cleaning(q)'} = {}
        BY <2>1, <2>2, <2>3 DEF Working, Cleaning
      <3>3. {q \in Procs : Working(q)} = {} /\ {q \in Procs : Cleaning(q)} = {}
        BY <1>3
      <3>4. Switch!BeginWork(p)
        BY <1>2, <3>1, <3>2, <3>3 DEF Switch!BeginWork
      <3> QED BY <3>4 DEF Switch!SwitchNext
    <2>4. CASE op[p].kind = "cleanup"
      <3>1. Durable # None
        BY <1>1, <2>4, NoneIsNothing DEF ProcFits, CleanupFits, Durable
      <3>2. {q \in Procs : Cleaning(q)'} = {p} /\ {q \in Procs : Working(q)'} = {}
        BY <2>1, <2>2, <2>4 DEF Working, Cleaning
      <3>3. {q \in Procs : Working(q)} = {} /\ {q \in Procs : Cleaning(q)} = {}
        BY <1>3
      <3>4. Switch!BeginCleaning(p)
        BY <1>2, <3>1, <3>2, <3>3 DEF Switch!BeginCleaning
      <3> QED BY <3>4 DEF Switch!SwitchNext
    <2>5. CASE op[p].kind = "transit"
      <3>1. ~Working(p)' /\ ~Cleaning(p)'
        BY <2>1, <2>5 DEF Working, Cleaning
      <3> QED BY <1>2, <1>3, <2>2, <3>1, SwitchStutters
    <2> QED BY <1>5, <2>3, <2>4, <2>5 DEF LeaseKinds
  <1> QED BY <1>4, <1>5 DEF Snapshot

\* The intent becomes durable: nothing was, and nobody works.
LEMMA Switches ==
    ASSUME PhaseInv, NEW p \in Procs, PublishIntent(p)
    PROVE  [Switch!SwitchNext]_(Switch!switchVars)
  <1>1. /\ intent = None /\ seal = None /\ intent' \in Transitions
        /\ UNCHANGED <<lease, seal>>
    BY PublishIntentFits
  <1>2. Durable = None /\ Durable' = intent'
    BY <1>1, NoneIsNothing DEF Durable
  <1>3. phaseLock = p /\ lease[p].spent
    BY DEF PublishIntent, PhaseInv, ProcFits, LocksFit, LeaseFits, InPhase
  <1>4. \A q \in Procs : ~Working(q)
    <2> SUFFICES ASSUME NEW q \in Procs, Working(q) PROVE FALSE
      OBVIOUS
    <2>1. q = p
      BY <1>3, LeasesExclude DEF Working
    <2> QED BY <1>3, <2>1 DEF Working
  <1>5. {q \in Procs : Working(q)} = {}
    BY <1>4
  <1>6. /\ {q \in Procs : Working(q)'} = {q \in Procs : Working(q)}
        /\ {q \in Procs : Cleaning(q)'} = {q \in Procs : Cleaning(q)}
    BY <1>1 DEF Working, Cleaning
  <1>7. Switch!Switch(intent')
    BY <1>2, <1>5, <1>6 DEF Switch!Switch
  <1> QED BY <1>1, <1>7 DEF Switch!SwitchNext

\* The phase owner implements the one-way switch: each of its steps, faults
\* and recoveries included, is one step of the switch or none.
THEOREM PhaseOwnerImplementsSwitch == PhaseSpec => ImplementsSwitch
  <1>1. PhaseInit => Switch!SwitchInit
    <2> SUFFICES ASSUME PhaseInit PROVE Switch!SwitchInit
      OBVIOUS
    <2>1. Durable = None
      BY DEF PhaseInit, Durable
    <2>2. {p \in Procs : Working(p)} = {} /\ {p \in Procs : Cleaning(p)} = {}
      BY DEF PhaseInit, NoLease, Working, Cleaning
    <2> QED BY <2>1, <2>2 DEF Switch!SwitchInit
  <1>2. PhaseInv /\ [PhaseNext]_phaseVars => [Switch!SwitchNext]_(Switch!switchVars)
    <2> SUFFICES ASSUME PhaseInv, [PhaseNext]_phaseVars
                 PROVE  [Switch!SwitchNext]_(Switch!switchVars)
      OBVIOUS
    <2>1. ASSUME Durable' = Durable, lease' = lease
          PROVE  [Switch!SwitchNext]_(Switch!switchVars)
      BY <2>1, SwitchStutters DEF Working, Cleaning
    <2>2. CASE UNCHANGED phaseVars
      BY <2>1, <2>2 DEF phaseVars, disk, procs, Durable
    <2>3. CASE Rollback
      BY <2>1, <2>3, RollbackFits
    <2>4. ASSUME NEW p \in Procs, Quiet(p)
          PROVE  [Switch!SwitchNext]_(Switch!switchVars)
      BY <2>1, <2>4, QuietSteps
    <2>5. ASSUME NEW p \in Procs, Crash(p)
          PROVE  [Switch!SwitchNext]_(Switch!switchVars)
      <3>1. lease' = [lease EXCEPT ![p] = NoLease] /\ Durable' = Durable
        BY <2>5, CrashFits DEF Crash
      <3>2. lease'[p].kind = "none" /\ \A q \in Procs \ {p} : lease'[q] = lease[q]
        BY <3>1 DEF PhaseInv, PhaseTypeOK, NoLease
      <3>3. ~Working(p)' /\ ~Cleaning(p)'
        BY <3>2 DEF Working, Cleaning
      <3> QED BY <3>1, <3>2, <3>3, WorkEnds
    <2>6. ASSUME NEW p \in Procs, EndBody(p)
          PROVE  [Switch!SwitchNext]_(Switch!switchVars)
      <3>1. lease' = [lease EXCEPT ![p] = NoLease] /\ Durable' = Durable
        BY <2>6 DEF EndBody, disk, Durable
      <3>2. lease'[p].kind = "none" /\ \A q \in Procs \ {p} : lease'[q] = lease[q]
        BY <3>1 DEF PhaseInv, PhaseTypeOK, NoLease
      <3>3. ~Working(p)' /\ ~Cleaning(p)'
        BY <3>2 DEF Working, Cleaning
      <3> QED BY <3>1, <3>2, <3>3, WorkEnds
    <2>7. ASSUME NEW p \in Procs, BuildTransition(p)
          PROVE  [Switch!SwitchNext]_(Switch!switchVars)
      <3>1. Durable' = Durable
        BY <2>7 DEF BuildTransition, disk, Durable
      <3>2. CASE UNCHANGED lease
        BY <2>1, <3>1, <3>2
      <3>3. ASSUME lease' = [lease EXCEPT ![p].spent = TRUE]
            PROVE  [Switch!SwitchNext]_(Switch!switchVars)
        <4>1. /\ lease'[p].spent = TRUE /\ lease'[p].kind = lease[p].kind
              /\ \A q \in Procs \ {p} : lease'[q] = lease[q]
          BY <3>3 DEF PhaseInv, PhaseTypeOK
        <4>2. ~Working(p)' /\ (Cleaning(p)' => Cleaning(p))
          BY <4>1 DEF Working, Cleaning
        <4> QED BY <3>1, <4>1, <4>2, WorkEnds
      <3> QED BY <2>7, <3>2, <3>3 DEF BuildTransition
    <2>8. ASSUME NEW p \in Procs, TransitionReturns(p)
          PROVE  [Switch!SwitchNext]_(Switch!switchVars)
      <3>1. Durable' = Durable /\ lease' = [lease EXCEPT ![p].transition = intent]
        BY <2>8 DEF TransitionReturns, disk, Durable
      <3>2. \A q \in Procs : lease'[q].kind = lease[q].kind /\ lease'[q].spent = lease[q].spent
        BY <3>1 DEF PhaseInv, PhaseTypeOK
      <3>3. \A q \in Procs : (Working(q)' <=> Working(q)) /\ (Cleaning(q)' <=> Cleaning(q))
        BY <3>2 DEF Working, Cleaning
      <3> QED BY <3>1, <3>3, SwitchStutters
    <2> QED BY <2>2, <2>3, <2>4, <2>5, <2>6, <2>7, <2>8, WorkBegins, Switches, StepKinds
  <1> QED BY <1>1, <1>2, PhaseInvariant, PTL DEF PhaseSpec, ImplementsSwitch,
             Switch!SwitchSpec
=============================================================================
