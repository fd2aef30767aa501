------------------------ MODULE RejectionGateProofs ------------------------
(***************************************************************************)
(* Safety of the rejection gate for any number of processes, rejections,   *)
(* receipts and crashes, and that it implements the one-shot slot.         *)
(***************************************************************************)
EXTENDS RejectionGate, SequenceTheorems, TLAPS

Outside == {"idle", "locking"}
WriterPoints == {"publish", "link", "unlink", "compare", "cursor",
                 "commit_link", "commit_cursor"}

\* The durable records follow each other and the cursor is bound to them,
\* whether or not its tail is torn.
RecordsFit ==
    /\ intent = None => commit = None /\ ack = None
    /\ commit # None => commit = intent
    /\ ack # None => commit # None /\ ack.commit = commit
    /\ Len(cursor) <= Observed + 1
    /\ \A i \in 1..Len(cursor) : cursor[i] = CursorRecord(i - 1, intent, ack)

\* A call inside the gate holds the lock its kind needs; only exclusive calls
\* get past the replay, and only the two writers past that.
LockFits(p) ==
    /\ pc[p] \in Outside => lock[p] = "none" /\ p \notin lease /\ snap[p] = None
    /\ pc[p] \notin Outside => lock[p] = Mode(p)
    /\ pc[p] # "idle" => op[p] \in Calls
    /\ pc[p] = "look" => op[p].kind \in SharedKinds
    /\ pc[p] = "replay" => op[p].kind \notin SharedKinds
    /\ pc[p] \in WriterPoints => op[p].kind \in {"commit", "ack"}
    /\ pc[p] \in {"commit_link", "commit_cursor"} => op[p].kind = "commit"

\* What a writer knows at each of its points.
WriterFits(p) ==
    /\ pc[p] \in WriterPoints => ~torn
    /\ pc[p] \in {"link", "unlink"} => p \in temps
    /\ op[p].kind = "commit" =>
         /\ pc[p] \in {"publish", "link"} => intent = None
         /\ pc[p] \in {"unlink", "compare"} => intent # None
         /\ pc[p] \in {"cursor", "commit_link", "commit_cursor"} =>
              intent = op[p].rejection
         /\ pc[p] \in {"commit_link", "commit_cursor"} => Len(cursor) >= 2
         /\ pc[p] = "commit_cursor" => commit = op[p].rejection
    /\ op[p].kind = "ack" =>
         /\ pc[p] \in WriterPoints =>
              commit = op[p].rejection /\ Len(cursor) >= 3
         /\ pc[p] \in {"unlink", "compare"} => ack # None
         /\ pc[p] = "cursor" => ack = WantedAck(p)

\* What the holder of a retained context knows.
ContextFits(p) ==
    /\ InEffect(p) => intent = None
    /\ p \in lease => op[p].kind \in {"admit", "commit"}
    /\ p \in lease /\ op[p].kind = "admit" => pc[p] \in {"held", "release"}
    /\ p \in lease /\ pc[p] = "held" /\ op[p].kind = "admit" => intent = None
    /\ snap[p] # None =>
         /\ op[p].kind = "hold" /\ pc[p] \in {"held", "release"}
         /\ snap[p] = [state |-> CursorStates[Observed + 1],
                       commit |-> commit, ack |-> ack]

\* What the last answer of a process still says.
AnswerFits(p) ==
    /\ out[p].what = "damaged" => torn
    /\ out[p].what = "committed" => commit = out[p].value /\ Len(cursor) >= 3
    /\ out[p].what = "acknowledged" => ack # None /\ ack.receipt = out[p].value
    /\ out[p].what = "read" /\ out[p].value # None => commit = out[p].value
    /\ out[p].what \in {"rejected", "second"} => intent # None
    /\ out[p] # Answer("state", "INTENT_DURABLE")

ProcFits(p) == LockFits(p) /\ WriterFits(p) /\ ContextFits(p) /\ AnswerFits(p)

LocksExclude ==
    \A p, q \in Procs : p # q /\ lock[p] = "ex" => lock[q] = "none"

GateInv ==
    /\ GateTypeOK
    /\ RecordsFit
    /\ LocksExclude
    /\ \A p \in Procs : ProcFits(p)
-----------------------------------------------------------------------------
(* Lemmas on the records                                                   *)

\* A cursor record has its type, and forgets what its state does not bind.
LEMMA CursorRecordFacts ==
    ASSUME NEW r \in Rejections \cup {None}, NEW a \in AckRecords \cup {None}
    PROVE  /\ \A n \in 0..3 : CursorRecord(n, r, a) \in CursorRecords
           /\ CursorRecord(0, r, a) = CursorRecord(0, None, None)
           /\ CursorRecord(1, r, a) = CursorRecord(1, r, None)
           /\ CursorRecord(2, r, a) = CursorRecord(2, r, None)
           /\ CursorRecord(1, r, a).commit = r
           /\ CursorRecord(2, r, a).commit = r
           /\ CursorRecord(3, r, a).ack = a
  BY DEF CursorRecord, CursorRecords, CursorStates

\* How far the records have come, read off the records.
LEMMA ObservedFacts ==
    ASSUME RecordsFit
    PROVE  /\ Observed \in 0..3
           /\ Observed = 0 <=> intent = None
           /\ Observed = 1 <=> intent # None /\ commit = None
           /\ Observed = 2 <=> commit # None /\ ack = None
           /\ Observed = 3 <=> ack # None
           /\ Observed >= 2 <=> commit # None
  BY DEF RecordsFit, Observed

\* The four cursor states are four names.
LEMMA StateNamesFacts ==
    ASSUME NEW n \in 0..3
    PROVE  /\ CursorStates[n + 1] \in StateNames
           /\ CursorStates[n + 1] = "INTENT_DURABLE" => n = 1
  BY DEF CursorStates, StateNames

\* Records that fit are what replay accepts, unless the cursor is torn.
LEMMA FitIsReplayable ==
    ASSUME GateInv, ~torn
    PROVE  Replayable
  <1>1. /\ intent \in Rejections \cup {None}
        /\ ack \in AckRecords \cup {None}
        /\ Len(cursor) \in 1..4
    BY DEF GateInv, GateTypeOK
  <1>2. /\ RecordsFit
        /\ Observed \in 0..3
    BY ObservedFacts DEF GateInv
  <1>3. CursorSequence <= Observed
    BY <1>1, <1>2 DEF RecordsFit, CursorSequence
  <1>4. CursorSequence >= 1 => cursor[2].commit = intent
    <2> SUFFICES ASSUME CursorSequence >= 1 PROVE cursor[2].commit = intent
      OBVIOUS
    <2>1. 2 \in 1..Len(cursor) /\ 2 - 1 = 1
      BY <1>1 DEF CursorSequence
    <2>2. cursor[2] = CursorRecord(1, intent, ack)
      BY <1>2, <2>1 DEF RecordsFit
    <2> QED BY <1>1, <2>2, CursorRecordFacts
  <1>5. CursorSequence >= 2 => cursor[3].commit = commit
    <2> SUFFICES ASSUME CursorSequence >= 2 PROVE cursor[3].commit = commit
      OBVIOUS
    <2>1. 3 \in 1..Len(cursor) /\ 3 - 1 = 2
      BY <1>1 DEF CursorSequence
    <2>2. cursor[3] = CursorRecord(2, intent, ack)
      BY <1>2, <2>1 DEF RecordsFit
    <2>3. commit = intent
      <3>1. Observed >= 2
        BY <1>1, <1>2, <1>3 DEF CursorSequence
      <3>2. commit # None
        BY <1>2, <3>1, ObservedFacts
      <3> QED BY <1>2, <3>2 DEF RecordsFit
    <2> QED BY <1>1, <2>2, <2>3, CursorRecordFacts
  <1>6. CursorSequence >= 3 => cursor[4].ack = ack
    <2> SUFFICES ASSUME CursorSequence >= 3 PROVE cursor[4].ack = ack
      OBVIOUS
    <2>1. 4 \in 1..Len(cursor) /\ 4 - 1 = 3
      BY <1>1 DEF CursorSequence
    <2>2. cursor[4] = CursorRecord(3, intent, ack)
      BY <1>2, <2>1 DEF RecordsFit
    <2> QED BY <1>1, <2>2, CursorRecordFacts
  <1> QED BY <1>2, <1>3, <1>4, <1>5, <1>6 DEF Replayable, RecordsFit

-----------------------------------------------------------------------------
(* One process steps, the others stand still                               *)

OnlyProc(p) ==
    \A q \in Procs : q # p =>
        /\ lock'[q] = lock[q] /\ pc'[q] = pc[q] /\ op'[q] = op[q]
        /\ snap'[q] = snap[q] /\ out'[q] = out[q]
        /\ q \in lease' <=> q \in lease

DiskGrows ==
    /\ intent # None => intent' = intent
    /\ commit # None => commit' = commit
    /\ ack # None => ack' = ack
    /\ Len(cursor') >= Len(cursor)
    /\ \A i \in 1..Len(cursor) : cursor'[i] = cursor[i]
    /\ torn => torn'

\* A process that another one's exclusive lock keeps out is outside.
LEMMA OthersOutside ==
    ASSUME GateInv, NEW p \in Procs, lock[p] = "ex", NEW q \in Procs, q # p
    PROVE  pc[q] \in Outside /\ lock[q] = "none"
  <1>1. lock[q] = "none"
    BY DEF GateInv, LocksExclude
  <1>2. LockFits(q)
    BY DEF GateInv, ProcFits
  <1> QED BY <1>1, <1>2 DEF LockFits, Mode

\* An answer stays true while the disk grows.
LEMMA AnswerKept ==
    ASSUME GateInv, NEW q \in Procs, DiskGrows, GateTypeOK', out'[q] = out[q]
    PROVE  AnswerFits(q)'
  <1>1. AnswerFits(q)
    BY DEF GateInv, ProcFits
  <1>2. /\ Len(cursor) \in 1..4 /\ Len(cursor)' \in 1..4
        /\ Len(cursor') >= Len(cursor)
    BY DEF GateInv, GateTypeOK, DiskGrows
  <1>3. out[q].what = "committed" => Len(cursor') >= 3
    BY <1>1, <1>2 DEF AnswerFits
  <1>4. /\ commit # None => commit' = commit
        /\ ack # None => ack' = ack
        /\ intent # None => intent' = intent
        /\ torn => torn'
    BY DEF DiskGrows
  <1>5. out[q].what = "committed" => commit # None
    <2>1. out[q].what = "committed" => commit = out[q].value /\ Len(cursor) >= 3
      BY <1>1 DEF AnswerFits
    <2>2. Len(cursor) >= 3 => Observed >= 2
      BY <1>2, ObservedFacts DEF GateInv, RecordsFit
    <2> QED BY <2>1, <2>2, ObservedFacts DEF GateInv
  <1> QED BY <1>1, <1>3, <1>4, <1>5 DEF AnswerFits

\* What a process knows survives the steps of the others.
LEMMA Frame ==
    ASSUME GateInv, NEW p \in Procs, NEW q \in Procs, q # p,
           OnlyProc(p), DiskGrows, GateTypeOK',
           UNCHANGED disk \/ lock[p] = "ex"
    PROVE  ProcFits(q)'
  <1>1. /\ lock'[q] = lock[q] /\ pc'[q] = pc[q] /\ op'[q] = op[q]
        /\ snap'[q] = snap[q] /\ out'[q] = out[q]
        /\ q \in lease' <=> q \in lease
    BY DEF OnlyProc
  <1>2. LockFits(q) /\ WriterFits(q) /\ ContextFits(q) /\ AnswerFits(q)
    BY DEF GateInv, ProcFits
  <1>3. LockFits(q)'
    BY <1>1, <1>2 DEF LockFits, Mode
  <1>4. AnswerFits(q)'
    BY <1>1, AnswerKept
  <1>5. CASE UNCHANGED disk
    BY <1>1, <1>2, <1>3, <1>4, <1>5
       DEF disk, ProcFits, WriterFits, ContextFits, InEffect, WantedAck,
           Observed
  <1>6. CASE lock[p] = "ex"
    <2>1. pc[q] \in Outside
      BY <1>6, OthersOutside
    <2>2. snap[q] = None /\ q \notin lease
      BY <1>2, <2>1 DEF LockFits
    <2>3. WriterFits(q)' /\ ContextFits(q)'
      BY <1>1, <2>1, <2>2
         DEF WriterFits, ContextFits, InEffect, Outside, WriterPoints
    <2> QED BY <1>3, <1>4, <2>3 DEF ProcFits
  <1> QED BY <1>5, <1>6

\* The invariant after a step of p: its parts that the step can disturb.
LEMMA Assemble ==
    ASSUME GateInv, NEW p \in Procs, GateTypeOK', RecordsFit', LocksExclude',
           OnlyProc(p), DiskGrows, UNCHANGED disk \/ lock[p] = "ex",
           ProcFits(p)'
    PROVE  GateInv'
  <1>1. \A q \in Procs : ProcFits(q)'
    BY Frame
  <1> QED BY <1>1 DEF GateInv

\* A step that writes nothing and takes no lock.
LEMMA QuietStep ==
    ASSUME GateInv, NEW p \in Procs, GateTypeOK', UNCHANGED disk, OnlyProc(p),
           lock'[p] \in {lock[p], "none"}, ProcFits(p)'
    PROVE  GateInv'
  <1>1. DiskGrows
    BY DEF GateInv, GateTypeOK, DiskGrows, disk
  <1>2. RecordsFit'
    BY DEF GateInv, RecordsFit, disk, Observed
  <1>3. LocksExclude'
    BY DEF GateInv, LocksExclude, OnlyProc
  <1> QED BY <1>1, <1>2, <1>3, Assemble

\* A step that writes under the exclusive lock.
LEMMA WriterStep ==
    ASSUME GateInv, NEW p \in Procs, GateTypeOK', OnlyProc(p), RecordsFit',
           DiskGrows, lock[p] = "ex", lock'[p] \in {lock[p], "none"},
           ProcFits(p)'
    PROVE  GateInv'
  <1>1. LocksExclude'
    BY DEF GateInv, LocksExclude, OnlyProc
  <1> QED BY <1>1, Assemble

\* A call that ends with an answer that is true.
LEMMA EndsFits ==
    ASSUME GateInv, NEW p \in Procs, pc[p] \notin {"idle", "locking", "held", "release"},
           NEW answer \in [what : AnswerKinds,
                           value : {None} \cup Rejections \cup Receipts
                                     \cup StateNames],
           Ends(p, answer), UNCHANGED <<lock, op, lease, snap>>,
           AnswerFits(p)'
    PROVE  /\ ProcFits(p)'
           /\ OnlyProc(p)
           /\ pc' \in [Procs -> ProgramPoints]
           /\ out' \in [Procs -> [what : AnswerKinds,
                                  value : {None} \cup Rejections \cup Receipts
                                            \cup StateNames]]
  <1>1. /\ pc \in [Procs -> ProgramPoints]
        /\ out \in [Procs -> [what : AnswerKinds,
                              value : {None} \cup Rejections \cup Receipts
                                        \cup StateNames]]
    BY DEF GateInv, GateTypeOK
  <1>2. LockFits(p) /\ ContextFits(p)
    BY DEF GateInv, ProcFits
  <1>3. /\ pc'[p] = IF p \in lease THEN "held" ELSE "release"
        /\ out'[p] = answer
        /\ pc' \in [Procs -> ProgramPoints]
        /\ OnlyProc(p)
    BY <1>1 DEF Ends, Goto, OnlyProc, ProgramPoints
  <1>4. /\ out' \in [Procs -> [what : AnswerKinds,
                               value : {None} \cup Rejections \cup Receipts
                                         \cup StateNames]]
    BY <1>1 DEF Ends
  <1>5. LockFits(p)'
    BY <1>2, <1>3 DEF LockFits, Outside, WriterPoints, Mode
  <1>6. WriterFits(p)'
    BY <1>3 DEF WriterFits, WriterPoints
  <1>7. ContextFits(p)'
    BY <1>2, <1>3 DEF ContextFits, InEffect
  <1> QED BY <1>3, <1>4, <1>5, <1>6, <1>7 DEF ProcFits

\* ... and that has written nothing.
LEMMA EndsQuietly ==
    ASSUME GateInv, NEW p \in Procs, pc[p] \notin {"idle", "locking", "held", "release"},
           NEW answer \in [what : AnswerKinds,
                           value : {None} \cup Rejections \cup Receipts
                                     \cup StateNames],
           Ends(p, answer), UNCHANGED <<disk, lock, op, lease, snap, crashes>>,
           out'[p] = answer => AnswerFits(p)'
    PROVE  GateInv'
  <1>1. out'[p] = answer
    BY DEF GateInv, GateTypeOK, Ends
  <1>2. /\ ProcFits(p)' /\ OnlyProc(p)
        /\ pc' \in [Procs -> ProgramPoints]
        /\ out' \in [Procs -> [what : AnswerKinds,
                               value : {None} \cup Rejections \cup Receipts
                                         \cup StateNames]]
    BY <1>1, EndsFits
  <1>3. GateTypeOK'
    BY <1>2 DEF GateInv, GateTypeOK, disk
  <1> QED BY <1>2, <1>3, QuietStep

\* A step that only moves p on.
LEMMA MovesQuietly ==
    ASSUME GateInv, NEW p \in Procs, NEW label \in ProgramPoints,
           Goto(p, label), UNCHANGED <<disk, lock, op, lease, snap, out, crashes>>,
           pc'[p] = label => ProcFits(p)'
    PROVE  GateInv'
  <1>1. GateTypeOK'
    BY DEF GateInv, GateTypeOK, Goto, disk
  <1>2. OnlyProc(p) /\ pc'[p] = label
    BY DEF GateInv, GateTypeOK, Goto, OnlyProc
  <1> QED BY <1>1, <1>2, QuietStep

-----------------------------------------------------------------------------
(* The invariant is kept by every action                                   *)

\* The initial state satisfies the invariant.
LEMMA InitFits == GateInit => GateInv
  <1> SUFFICES ASSUME GateInit PROVE GateInv
    OBVIOUS
  <1>1. CursorRecord(0, None, None) \in CursorRecords
    BY CursorRecordFacts
  <1>6. cursor \in Seq(CursorRecords) /\ Len(cursor) \in 1..4
    BY <1>1 DEF GateInit
  <1>7. out \in [Procs -> [what : AnswerKinds,
                          value : {None} \cup Rejections \cup Receipts
                                    \cup StateNames]]
    BY DEF GateInit, NoAnswer, Answer, AnswerKinds
  <1>8. /\ lock \in [Procs -> {"none", "sh", "ex"}]
        /\ pc \in [Procs -> ProgramPoints]
        /\ op \in [Procs -> Calls \cup {NoCall}]
    BY DEF GateInit, ProgramPoints
  <1>9. /\ snap \in [Procs -> {None} \cup [state : StateNames,
                                          commit : Rejections \cup {None},
                                          ack : AckRecords \cup {None}]]
        /\ lease \in SUBSET Procs /\ temps \in SUBSET Procs
    BY DEF GateInit
  <1>10. crashes \in 0..MaxCrashes
    BY MaxCrashesNat DEF GateInit
  <1>11. /\ intent \in Rejections \cup {None}
         /\ commit \in Rejections \cup {None}
         /\ ack \in AckRecords \cup {None}
         /\ torn \in BOOLEAN
    BY DEF GateInit
  <1>2. GateTypeOK
    BY <1>6, <1>7, <1>8, <1>9, <1>10, <1>11 DEF GateTypeOK
  <1>3. RecordsFit
    BY DEF GateInit, RecordsFit, Observed
  <1>4. LocksExclude
    BY DEF GateInit, LocksExclude
  <1>5. ASSUME NEW p \in Procs PROVE ProcFits(p)
    BY DEF GateInit, ProcFits, LockFits, WriterFits, ContextFits, AnswerFits,
           Outside, WriterPoints, InEffect, NoAnswer, Answer, NoCall
  <1> QED BY <1>2, <1>3, <1>4, <1>5 DEF GateInv

\* Start keeps the invariant of the gate.
LEMMA StartFits ==
    ASSUME GateInv, NEW p \in Procs, NEW call \in Calls, Start(p, call)
    PROVE  GateInv'
  <1>1. GateTypeOK'
    BY DEF GateInv, GateTypeOK, Start, Goto, disk, NoAnswer, Answer,
           ProgramPoints, AnswerKinds
  <1>2. OnlyProc(p) /\ pc'[p] = "locking" /\ op'[p] = call /\ out'[p] = NoAnswer
    BY DEF GateInv, GateTypeOK, Start, Goto, OnlyProc
  <1>3. LockFits(p) /\ pc[p] = "idle" /\ UNCHANGED <<disk, lock, lease, snap>>
    BY DEF GateInv, ProcFits, Start, MayCall
  <1>4. ProcFits(p)'
    BY <1>2, <1>3
       DEF ProcFits, LockFits, WriterFits, ContextFits, AnswerFits, Outside,
           WriterPoints, InEffect, NoAnswer, Answer
  <1> QED BY <1>1, <1>2, <1>3, <1>4, QuietStep

\* Acquire keeps the invariant of the gate.
LEMMA AcquireFits ==
    ASSUME GateInv, NEW p \in Procs, Acquire(p)
    PROVE  GateInv'
  <1>1. GateTypeOK'
    BY DEF GateInv, GateTypeOK, Acquire, Goto, disk, Mode, ProgramPoints
  <1>2. OnlyProc(p) /\ pc'[p] = "require" /\ lock'[p] = Mode(p)
    BY DEF GateInv, GateTypeOK, Acquire, Goto, OnlyProc
  <1>3. /\ LockFits(p) /\ ContextFits(p) /\ AnswerFits(p)
        /\ pc[p] = "locking"
        /\ UNCHANGED <<disk, op, lease, snap, out>>
    BY DEF GateInv, ProcFits, Acquire
  <1>4. ProcFits(p)'
    BY <1>2, <1>3
       DEF ProcFits, LockFits, WriterFits, ContextFits, AnswerFits, Outside,
           WriterPoints, InEffect, Mode, disk
  <1>5. DiskGrows /\ RecordsFit'
    BY <1>3 DEF GateInv, GateTypeOK, DiskGrows, disk, RecordsFit, Observed
  <1>6. LocksExclude'
    <2>1. \A q \in Procs : q # p => lock'[q] = lock[q]
      BY <1>2 DEF OnlyProc
    <2>2. \A q \in Procs : lock[q] = "none" \/ (lock[q] = "sh" /\ Mode(p) = "sh")
      BY DEF Acquire, Compatible
    <2> QED BY <1>2, <2>1, <2>2 DEF LocksExclude
  <1> QED BY <1>1, <1>2, <1>3, <1>4, <1>5, <1>6, Assemble

\* RequireHandle keeps the invariant of the gate.
LEMMA RequireHandleFits ==
    ASSUME GateInv, NEW p \in Procs, RequireHandle(p)
    PROVE  GateInv' /\ DiskGrows
  <1>1. GateTypeOK'
    BY DEF GateInv, GateTypeOK, RequireHandle, Goto, ProgramPoints
  <1>2. /\ OnlyProc(p)
        /\ pc'[p] = IF Mode(p) = "ex" THEN "replay" ELSE "look"
    BY DEF GateInv, GateTypeOK, RequireHandle, Goto, OnlyProc
  <1>3. /\ LockFits(p) /\ ContextFits(p) /\ AnswerFits(p)
        /\ pc[p] = "require"
        /\ UNCHANGED <<intent, commit, ack, cursor, torn, lock, op, lease,
                       snap, out>>
        /\ UNCHANGED temps \/ Mode(p) = "ex"
    BY DEF GateInv, ProcFits, RequireHandle
  <1>4. ProcFits(p)'
    BY <1>2, <1>3
       DEF ProcFits, LockFits, WriterFits, ContextFits, AnswerFits, Outside,
           WriterPoints, InEffect, Mode
  <1>5. DiskGrows /\ RecordsFit'
    BY <1>3 DEF GateInv, GateTypeOK, DiskGrows, RecordsFit, Observed
  <1>6. UNCHANGED disk \/ lock[p] = "ex"
    BY <1>3 DEF LockFits, Outside, disk
  <1>7. LocksExclude'
    BY <1>3 DEF GateInv, LocksExclude
  <1> QED BY <1>1, <1>2, <1>4, <1>5, <1>6, <1>7, Assemble

\* ObserveFails keeps the invariant of the gate.
LEMMA ObserveFailsFits ==
    ASSUME GateInv, NEW p \in Procs, ObserveFails(p)
    PROVE  GateInv'
  <1> DEFINE answer == Answer("damaged", None)
  <1>1. torn
    BY FitIsReplayable DEF ObserveFails
  <1>2. /\ pc[p] \notin {"idle", "locking", "held", "release"}
        /\ Ends(p, answer) /\ UNCHANGED <<disk, lock, op, lease, snap, crashes>>
        /\ answer \in [what : AnswerKinds, value : {None} \cup Rejections
                                              \cup Receipts \cup StateNames]
    BY DEF ObserveFails, Answer, AnswerKinds
  <1>3. out'[p] = answer => AnswerFits(p)'
    BY <1>1, <1>2 DEF AnswerFits, Answer, disk
  <1> HIDE DEF answer
  <1> QED BY <1>2, <1>3, EndsQuietly

\* LookForEffect keeps the invariant of the gate.
LEMMA LookForEffectFits ==
    ASSUME GateInv, NEW p \in Procs, LookForEffect(p)
    PROVE  GateInv'
  <1>1. /\ pc[p] = "look" /\ op[p].kind = "effect"
        /\ UNCHANGED <<disk, lock, op, lease, snap, crashes>>
    BY DEF LookForEffect
  <1>2. CASE Observed = 0 /\ Goto(p, "held") /\ UNCHANGED out
    <2>1. GateTypeOK'
      BY <1>1, <1>2 DEF GateInv, GateTypeOK, Goto, disk, ProgramPoints
    <2>2. OnlyProc(p) /\ pc'[p] = "held"
      BY <1>1, <1>2 DEF GateInv, GateTypeOK, Goto, OnlyProc
    <2>3. LockFits(p) /\ ContextFits(p) /\ AnswerFits(p)
      BY DEF GateInv, ProcFits
    <2>4. intent = None
      BY <1>2, ObservedFacts DEF GateInv
    <2>5. ProcFits(p)'
      BY <1>1, <1>2, <2>2, <2>3, <2>4
         DEF ProcFits, LockFits, WriterFits, ContextFits, AnswerFits, Outside,
             WriterPoints, InEffect, Mode, disk
    <2> QED BY <1>1, <2>1, <2>2, <2>5, QuietStep
  <1>3. CASE Observed # 0 /\ Ends(p, Answer("rejected", None))
    <2> DEFINE answer == Answer("rejected", None)
    <2>1. answer \in [what : AnswerKinds, value : {None} \cup Rejections
                                              \cup Receipts \cup StateNames]
      BY DEF Answer, AnswerKinds
    <2>2. intent # None
      BY <1>3, ObservedFacts DEF GateInv
    <2>3. out'[p] = answer => AnswerFits(p)'
      BY <1>1, <2>2 DEF AnswerFits, Answer, disk
    <2>4. Ends(p, answer)
      BY <1>3
    <2> HIDE DEF answer
    <2> QED BY <1>1, <2>1, <2>3, <2>4, EndsQuietly
  <1> QED BY <1>2, <1>3 DEF LookForEffect

\* LookForCommit keeps the invariant of the gate.
LEMMA LookForCommitFits ==
    ASSUME GateInv, NEW p \in Procs, LookForCommit(p)
    PROVE  GateInv'
  <1> DEFINE value == IF Observed >= 2 THEN commit ELSE None
             answer == Answer("read", value)
  <1>1. /\ pc[p] = "look" /\ Ends(p, answer)
        /\ UNCHANGED <<disk, lock, op, lease, snap, crashes>>
    BY DEF LookForCommit
  <1>2. value \in Rejections \cup {None}
    BY DEF GateInv, GateTypeOK
  <1>3. answer \in [what : AnswerKinds, value : {None} \cup Rejections
                                            \cup Receipts \cup StateNames]
    BY <1>2 DEF Answer, AnswerKinds
  <1>4. out'[p] = answer => AnswerFits(p)'
    BY <1>1 DEF AnswerFits, Answer, disk
  <1> HIDE DEF answer
  <1> QED BY <1>1, <1>3, <1>4, EndsQuietly

\* RecoverReturns keeps the invariant of the gate.
LEMMA RecoverReturnsFits ==
    ASSUME GateInv, NEW p \in Procs, RecoverReturns(p)
    PROVE  GateInv'
  <1> DEFINE answer == Answer("state", CursorStates[Observed + 1])
  <1>1. /\ pc[p] = "replay" /\ Observed # 1 /\ Ends(p, answer)
        /\ UNCHANGED <<disk, lock, op, lease, snap, crashes>>
    BY DEF RecoverReturns, Replayed
  <1>2. Observed \in 0..3
    BY ObservedFacts DEF GateInv
  <1>3. /\ CursorStates[Observed + 1] \in StateNames
        /\ CursorStates[Observed + 1] # "INTENT_DURABLE"
    BY <1>1, <1>2, StateNamesFacts
  <1>4. answer \in [what : AnswerKinds, value : {None} \cup Rejections
                                            \cup Receipts \cup StateNames]
    BY <1>3 DEF Answer, AnswerKinds
  <1>5. out'[p] = answer => AnswerFits(p)'
    BY <1>1, <1>3 DEF AnswerFits, Answer
  <1> HIDE DEF answer
  <1> QED BY <1>1, <1>4, <1>5, EndsQuietly

\* AdmissionDecides keeps the invariant of the gate.
LEMMA AdmissionDecidesFits ==
    ASSUME GateInv, NEW p \in Procs, AdmissionDecides(p)
    PROVE  GateInv'
  <1>1. /\ pc[p] = "replay" /\ op[p].kind = "admit"
        /\ UNCHANGED <<disk, lock, op, snap, crashes>>
    BY DEF AdmissionDecides, Replayed
  <1>2. CASE /\ Observed = 0
             /\ lease' = lease \cup {p}
             /\ Goto(p, "held")
             /\ UNCHANGED out
    <2>1. GateTypeOK'
      BY <1>1, <1>2 DEF GateInv, GateTypeOK, Goto, disk, ProgramPoints
    <2>2. OnlyProc(p) /\ pc'[p] = "held"
      BY <1>1, <1>2 DEF GateInv, GateTypeOK, Goto, OnlyProc
    <2>3. LockFits(p) /\ ContextFits(p) /\ AnswerFits(p)
      BY DEF GateInv, ProcFits
    <2>4. intent = None
      BY <1>2, ObservedFacts DEF GateInv
    <2>5. ProcFits(p)'
      BY <1>1, <1>2, <2>2, <2>3, <2>4
         DEF ProcFits, LockFits, WriterFits, ContextFits, AnswerFits, Outside,
             WriterPoints, InEffect, Mode, disk
    <2> QED BY <1>1, <2>1, <2>2, <2>5, QuietStep
  <1>3. CASE /\ Observed # 0
             /\ Ends(p, Answer("rejected", None))
             /\ UNCHANGED lease
    <2> DEFINE answer == Answer("rejected", None)
    <2>1. answer \in [what : AnswerKinds, value : {None} \cup Rejections
                                              \cup Receipts \cup StateNames]
      BY DEF Answer, AnswerKinds
    <2>2. intent # None
      BY <1>3, ObservedFacts DEF GateInv
    <2>3. out'[p] = answer => AnswerFits(p)'
      BY <1>1, <2>2 DEF AnswerFits, Answer, disk
    <2>4. Ends(p, answer) /\ UNCHANGED <<disk, lock, op, lease, snap, crashes>>
      BY <1>1, <1>3
    <2> HIDE DEF answer
    <2> QED BY <1>1, <2>1, <2>3, <2>4, EndsQuietly
  <1> QED BY <1>2, <1>3 DEF AdmissionDecides

\* HoldForReplay keeps the invariant of the gate.
LEMMA HoldForReplayFits ==
    ASSUME GateInv, NEW p \in Procs, HoldForReplay(p)
    PROVE  GateInv'
  <1> DEFINE now == [state |-> CursorStates[Observed + 1],
                     commit |-> commit, ack |-> ack]
  <1>1. /\ pc[p] = "replay" /\ op[p].kind = "hold"
        /\ snap' = [snap EXCEPT ![p] = now] /\ Goto(p, "held")
        /\ UNCHANGED <<disk, lock, op, lease, out, crashes>>
    BY DEF HoldForReplay, Replayed
  <1>2. CursorStates[Observed + 1] \in StateNames
    BY ObservedFacts, StateNamesFacts DEF GateInv
  <1>3. now \in [state : StateNames, commit : Rejections \cup {None},
                 ack : AckRecords \cup {None}]
    BY <1>2 DEF GateInv, GateTypeOK
  <1>4. GateTypeOK'
    <2> HIDE DEF now
    <2> QED BY <1>1, <1>3 DEF GateInv, GateTypeOK, Goto, disk, ProgramPoints
  <1>5. OnlyProc(p) /\ pc'[p] = "held" /\ snap'[p] = now
    <2> HIDE DEF now
    <2> QED BY <1>1 DEF GateInv, GateTypeOK, Goto, OnlyProc
  <1>6. LockFits(p) /\ ContextFits(p) /\ AnswerFits(p)
    BY DEF GateInv, ProcFits
  <1>7. now = [state |-> CursorStates[Observed' + 1],
               commit |-> commit', ack |-> ack']
    BY <1>1 DEF disk, Observed
  <1>8. ContextFits(p)'
    BY <1>1, <1>5, <1>6, <1>7 DEF ContextFits, InEffect
  <1>9. LockFits(p)' /\ WriterFits(p)' /\ AnswerFits(p)'
    <2> HIDE DEF now
    <2> QED BY <1>1, <1>5, <1>6
               DEF LockFits, WriterFits, AnswerFits, Outside, WriterPoints,
                   Mode, disk
  <1> QED BY <1>1, <1>4, <1>5, <1>8, <1>9, QuietStep DEF ProcFits

\* AckChecksCommit keeps the invariant of the gate.
LEMMA AckChecksCommitFits ==
    ASSUME GateInv, NEW p \in Procs, AckChecksCommit(p)
    PROVE  GateInv'
  <1>1. /\ pc[p] = "replay" /\ op[p].kind = "ack"
        /\ CaughtUp /\ Observed # 1
        /\ UNCHANGED <<disk, lock, op, lease, snap, crashes>>
    BY DEF AckChecksCommit, Replayed
  <1>2. CASE commit # op[p].rejection /\ Ends(p, Answer("stale", None))
    <2> DEFINE answer == Answer("stale", None)
    <2>1. answer \in [what : AnswerKinds, value : {None} \cup Rejections
                                              \cup Receipts \cup StateNames]
      BY DEF Answer, AnswerKinds
    <2>2. out'[p] = answer => AnswerFits(p)'
      BY DEF AnswerFits, Answer
    <2>3. Ends(p, answer)
      BY <1>2
    <2> HIDE DEF answer
    <2> QED BY <1>1, <2>1, <2>2, <2>3, EndsQuietly
  <1>3. CASE commit = op[p].rejection /\ Goto(p, "publish") /\ UNCHANGED out
    <2>1. LockFits(p) /\ ContextFits(p) /\ AnswerFits(p)
      BY DEF GateInv, ProcFits
    <2>2. op[p].rejection # None
      BY <1>1, <2>1, NoneIsNoRecord DEF LockFits, Calls
    <2>3. Len(cursor) >= 3 /\ ~torn
      <3>1. Observed >= 2
        BY <1>3, <2>2, ObservedFacts DEF GateInv
      <3>2. Len(cursor) \in 1..4 /\ Observed \in 0..3
        BY ObservedFacts DEF GateInv, GateTypeOK
      <3>3. Len(cursor) - 1 = Observed /\ ~torn
        BY <1>1 DEF CaughtUp, CursorSequence, Replayable
      <3> QED BY <3>1, <3>2, <3>3
    <2>4. pc'[p] = "publish" => ProcFits(p)'
      BY <1>1, <1>3, <2>1, <2>3
         DEF ProcFits, LockFits, WriterFits, ContextFits, AnswerFits, Outside,
             WriterPoints, InEffect, Mode, disk
    <2>5. "publish" \in ProgramPoints
      BY DEF ProgramPoints
    <2> QED BY <1>1, <1>3, <2>4, <2>5, MovesQuietly
  <1> QED BY <1>2, <1>3 DEF AckChecksCommit

\* CommitReadsIntent keeps the invariant of the gate.
LEMMA CommitReadsIntentFits ==
    ASSUME GateInv, NEW p \in Procs, CommitReadsIntent(p)
    PROVE  GateInv'
  <1> DEFINE label == IF intent = None THEN "publish" ELSE "compare"
  <1>1. /\ pc[p] = "replay" /\ op[p].kind = "commit" /\ ~torn
        /\ Goto(p, label)
        /\ UNCHANGED <<disk, lock, op, lease, snap, out, crashes>>
    BY DEF CommitReadsIntent, Replayed, CaughtUp, Replayable
  <1>2. LockFits(p) /\ ContextFits(p) /\ AnswerFits(p)
    BY DEF GateInv, ProcFits
  <1>3. pc'[p] = label => ProcFits(p)'
    BY <1>1, <1>2
       DEF ProcFits, LockFits, WriterFits, ContextFits, AnswerFits, Outside,
           WriterPoints, InEffect, Mode, disk
  <1>4. label \in ProgramPoints
    BY DEF ProgramPoints
  <1> HIDE DEF label
  <1> QED BY <1>1, <1>3, <1>4, MovesQuietly

\* A process about to write holds the exclusive lock.
LEMMA WriterHasLock ==
    ASSUME GateInv, NEW p \in Procs, pc[p] \in WriterPoints \cup {"replay"}
    PROVE  lock[p] = "ex"
  BY DEF GateInv, ProcFits, LockFits, Mode, SharedKinds, WriterPoints, Outside

\* WriteTemp keeps the invariant of the gate.
LEMMA WriteTempFits ==
    ASSUME GateInv, NEW p \in Procs, WriteTemp(p)
    PROVE  GateInv' /\ DiskGrows
  <1>1. /\ pc[p] = "publish" /\ temps' = temps \cup {p}
        /\ UNCHANGED <<intent, commit, ack, cursor, torn, lock, op, lease,
                       snap, out>>
    BY DEF WriteTemp
  <1>2. GateTypeOK'
    BY DEF GateInv, GateTypeOK, WriteTemp, Goto, ProgramPoints
  <1>3. OnlyProc(p) /\ pc'[p] = "link"
    BY DEF GateInv, GateTypeOK, WriteTemp, Goto, OnlyProc
  <1>4. LockFits(p) /\ WriterFits(p) /\ ContextFits(p) /\ AnswerFits(p)
    BY DEF GateInv, ProcFits
  <1>5. ProcFits(p)'
    BY <1>1, <1>3, <1>4
       DEF ProcFits, LockFits, WriterFits, ContextFits, AnswerFits, Outside,
           WriterPoints, InEffect, Mode
  <1>6. DiskGrows /\ RecordsFit'
    BY <1>1 DEF GateInv, GateTypeOK, DiskGrows, RecordsFit, Observed
  <1>7. lock[p] = "ex" /\ lock'[p] = lock[p]
    BY <1>1, WriterHasLock DEF WriterPoints
  <1> QED BY <1>2, <1>3, <1>5, <1>6, <1>7, WriterStep

\* UnlinkTemp keeps the invariant of the gate.
LEMMA UnlinkTempFits ==
    ASSUME GateInv, NEW p \in Procs, UnlinkTemp(p)
    PROVE  GateInv' /\ DiskGrows
  <1>1. /\ pc[p] = "unlink" /\ temps' = temps \ {p}
        /\ UNCHANGED <<intent, commit, ack, cursor, torn, lock, op, lease,
                       snap, out>>
    BY DEF UnlinkTemp
  <1>2. GateTypeOK'
    BY DEF GateInv, GateTypeOK, UnlinkTemp, Goto, ProgramPoints
  <1>3. OnlyProc(p) /\ pc'[p] = "compare"
    BY DEF GateInv, GateTypeOK, UnlinkTemp, Goto, OnlyProc
  <1>4. LockFits(p) /\ WriterFits(p) /\ ContextFits(p) /\ AnswerFits(p)
    BY DEF GateInv, ProcFits
  <1>5. ProcFits(p)'
    BY <1>1, <1>3, <1>4
       DEF ProcFits, LockFits, WriterFits, ContextFits, AnswerFits, Outside,
           WriterPoints, InEffect, Mode
  <1>6. DiskGrows /\ RecordsFit'
    BY <1>1 DEF GateInv, GateTypeOK, DiskGrows, RecordsFit, Observed
  <1>7. lock[p] = "ex" /\ lock'[p] = lock[p]
    BY <1>1, WriterHasLock DEF WriterPoints
  <1> QED BY <1>2, <1>3, <1>5, <1>6, <1>7, WriterStep

\* Compare keeps the invariant of the gate.
LEMMA CompareFits ==
    ASSUME GateInv, NEW p \in Procs, Compare(p)
    PROVE  GateInv'
  <1>1. /\ pc[p] = "compare"
        /\ UNCHANGED <<disk, lock, op, lease, snap, crashes>>
    BY DEF Compare
  <1>2. LockFits(p) /\ WriterFits(p) /\ ContextFits(p) /\ AnswerFits(p)
    BY DEF GateInv, ProcFits
  <1>3. CASE /\ op[p].kind = "commit" /\ intent # op[p].rejection
             /\ Ends(p, Answer("second", None))
    <2> DEFINE answer == Answer("second", None)
    <2>1. answer \in [what : AnswerKinds, value : {None} \cup Rejections
                                              \cup Receipts \cup StateNames]
      BY DEF Answer, AnswerKinds
    <2>2. intent # None
      BY <1>1, <1>2, <1>3 DEF WriterFits
    <2>3. out'[p] = answer => AnswerFits(p)'
      BY <1>1, <2>2 DEF AnswerFits, Answer, disk
    <2>4. Ends(p, answer)
      BY <1>3
    <2> HIDE DEF answer
    <2> QED BY <1>1, <2>1, <2>3, <2>4, EndsQuietly
  <1>4. CASE /\ op[p].kind = "ack" /\ ack # WantedAck(p)
             /\ Ends(p, Answer("other_ack", None))
    <2> DEFINE answer == Answer("other_ack", None)
    <2>1. answer \in [what : AnswerKinds, value : {None} \cup Rejections
                                              \cup Receipts \cup StateNames]
      BY DEF Answer, AnswerKinds
    <2>2. out'[p] = answer => AnswerFits(p)'
      BY DEF AnswerFits, Answer
    <2>3. Ends(p, answer)
      BY <1>4
    <2> HIDE DEF answer
    <2> QED BY <1>1, <2>1, <2>2, <2>3, EndsQuietly
  <1>5. CASE /\ IF op[p].kind = "commit" THEN intent = op[p].rejection
                                        ELSE ack = WantedAck(p)
             /\ Goto(p, "cursor")
             /\ UNCHANGED out
    <2>1. pc'[p] = "cursor" => ProcFits(p)'
      BY <1>1, <1>2, <1>5
         DEF ProcFits, LockFits, WriterFits, ContextFits, AnswerFits, Outside,
             WriterPoints, InEffect, Mode, disk, WantedAck
    <2>2. "cursor" \in ProgramPoints
      BY DEF ProgramPoints
    <2> QED BY <1>1, <1>5, <2>1, <2>2, MovesQuietly
  <1> QED BY <1>3, <1>4, <1>5 DEF Compare

\* LeaseCommit keeps the invariant of the gate.
LEMMA LeaseCommitFits ==
    ASSUME GateInv, NEW p \in Procs, NEW r \in Rejections, LeaseCommit(p, r)
    PROVE  GateInv'
  <1> DEFINE call == [kind |-> "commit", rejection |-> r, receipt |-> None]
  <1>1. /\ pc[p] = "held" /\ p \in lease
        /\ op' = [op EXCEPT ![p] = call] /\ Goto(p, "replay")
        /\ UNCHANGED <<disk, lock, lease, snap, out, crashes>>
    BY DEF LeaseCommit
  <1>2. call \in Calls /\ call.kind = "commit"
    BY DEF Calls
  <1> HIDE DEF call
  <1>3. GateTypeOK'
    BY <1>1, <1>2 DEF GateInv, GateTypeOK, Goto, disk, ProgramPoints
  <1>4. OnlyProc(p) /\ pc'[p] = "replay" /\ op'[p] = call
    BY <1>1 DEF GateInv, GateTypeOK, Goto, OnlyProc
  <1>5. LockFits(p) /\ ContextFits(p) /\ AnswerFits(p)
    BY DEF GateInv, ProcFits
  <1>6. lock[p] = "ex" /\ snap[p] = None
    BY <1>1, <1>5 DEF LockFits, ContextFits, Mode, SharedKinds, Outside
  <1>7. ProcFits(p)'
    BY <1>1, <1>2, <1>4, <1>5, <1>6
       DEF ProcFits, LockFits, WriterFits, ContextFits, AnswerFits, Outside,
           WriterPoints, InEffect, Mode, disk, SharedKinds
  <1> QED BY <1>1, <1>3, <1>4, <1>7, QuietStep

\* LeaveContext keeps the invariant of the gate.
LEMMA LeaveContextFits ==
    ASSUME GateInv, NEW p \in Procs, LeaveContext(p)
    PROVE  GateInv'
  <1>1. /\ pc[p] = "held" /\ Goto(p, "release")
        /\ UNCHANGED <<disk, lock, op, lease, snap, out, crashes>>
    BY DEF LeaveContext
  <1>2. LockFits(p) /\ ContextFits(p) /\ AnswerFits(p)
    BY DEF GateInv, ProcFits
  <1>3. pc'[p] = "release" => ProcFits(p)'
    BY <1>1, <1>2
       DEF ProcFits, LockFits, WriterFits, ContextFits, AnswerFits, Outside,
           WriterPoints, InEffect, Mode, disk, Observed
  <1>4. "release" \in ProgramPoints
    BY DEF ProgramPoints
  <1> QED BY <1>1, <1>3, <1>4, MovesQuietly

\* A process that leaves the gate knows nothing but its answer.
LEMMA GoneFits ==
    ASSUME GateInv, NEW p \in Procs, Gone(p)
    PROVE  /\ lock' \in [Procs -> {"none", "sh", "ex"}]
           /\ pc' \in [Procs -> ProgramPoints]
           /\ op' \in [Procs -> Calls \cup {NoCall}]
           /\ lease' \in SUBSET Procs
           /\ snap' \in [Procs -> {None} \cup [state : StateNames,
                                          commit : Rejections \cup {None},
                                          ack : AckRecords \cup {None}]]
           /\ LockFits(p)' /\ WriterFits(p)' /\ ContextFits(p)'
           /\ lock'[p] = "none"
           /\ \A q \in Procs : q # p =>
                /\ lock'[q] = lock[q] /\ pc'[q] = pc[q] /\ op'[q] = op[q]
                /\ snap'[q] = snap[q] /\ (q \in lease' <=> q \in lease)
  <1>1. /\ lock' \in [Procs -> {"none", "sh", "ex"}]
        /\ pc' \in [Procs -> ProgramPoints]
        /\ op' \in [Procs -> Calls \cup {NoCall}]
        /\ lease' \in SUBSET Procs
    BY DEF GateInv, GateTypeOK, Gone, Goto, ProgramPoints
  <1>2. snap' \in [Procs -> {None} \cup [state : StateNames,
                                        commit : Rejections \cup {None},
                                        ack : AckRecords \cup {None}]]
    BY DEF GateInv, GateTypeOK, Gone
  <1>3. /\ lock'[p] = "none" /\ pc'[p] = "idle" /\ op'[p] = NoCall
        /\ p \notin lease' /\ snap'[p] = None
    BY DEF GateInv, GateTypeOK, Gone, Goto
  <1>4. \A q \in Procs : q # p =>
                /\ lock'[q] = lock[q] /\ pc'[q] = pc[q] /\ op'[q] = op[q]
                /\ snap'[q] = snap[q] /\ (q \in lease' <=> q \in lease)
    BY DEF GateInv, GateTypeOK, Gone, Goto
  <1>5. LockFits(p)' /\ WriterFits(p)' /\ ContextFits(p)'
    BY <1>3 DEF LockFits, WriterFits, ContextFits, Outside, WriterPoints,
                InEffect, NoCall
  <1> QED BY <1>1, <1>2, <1>3, <1>4, <1>5

\* Release keeps the invariant of the gate.
LEMMA ReleaseFits ==
    ASSUME GateInv, NEW p \in Procs, Release(p)
    PROVE  GateInv'
  <1>1. Gone(p) /\ UNCHANGED <<disk, out, crashes>>
    BY DEF Release
  <1>2. GateTypeOK'
    BY <1>1, GoneFits DEF GateInv, GateTypeOK, disk
  <1>3. OnlyProc(p) /\ lock'[p] = "none"
    BY <1>1, GoneFits DEF OnlyProc
  <1>4. AnswerFits(p)'
    BY <1>1 DEF GateInv, ProcFits, AnswerFits, disk
  <1>5. ProcFits(p)'
    BY <1>1, <1>4, GoneFits DEF ProcFits
  <1> QED BY <1>1, <1>2, <1>3, <1>5, QuietStep

\* Crash keeps the invariant of the gate.
LEMMA CrashFits ==
    ASSUME GateInv, NEW p \in Procs, Crash(p)
    PROVE  GateInv'
  <1>1. /\ Gone(p) /\ out' = [out EXCEPT ![p] = NoAnswer]
        /\ crashes < MaxCrashes /\ crashes' = crashes + 1
        /\ UNCHANGED disk
    BY DEF Crash
  <1>2. /\ out' \in [Procs -> [what : AnswerKinds,
                               value : {None} \cup Rejections \cup Receipts
                                         \cup StateNames]]
        /\ out'[p] = NoAnswer /\ \A q \in Procs : q # p => out'[q] = out[q]
    BY <1>1 DEF GateInv, GateTypeOK, NoAnswer, Answer, AnswerKinds
  <1>3. crashes' \in 0..MaxCrashes
    BY <1>1, MaxCrashesNat DEF GateInv, GateTypeOK
  <1>4. GateTypeOK'
    BY <1>1, <1>2, <1>3, GoneFits DEF GateInv, GateTypeOK, disk
  <1>5. OnlyProc(p) /\ lock'[p] = "none"
    BY <1>1, <1>2, GoneFits DEF OnlyProc
  <1>6. AnswerFits(p)'
    BY <1>2 DEF AnswerFits, NoAnswer, Answer
  <1>7. ProcFits(p)'
    BY <1>1, <1>6, GoneFits DEF ProcFits
  <1> QED BY <1>1, <1>4, <1>5, <1>7, QuietStep

\* CrashTearing keeps the invariant of the gate.
LEMMA CrashTearingFits ==
    ASSUME GateInv, NEW p \in Procs, CrashTearing(p)
    PROVE  GateInv' /\ DiskGrows
  <1>1. /\ Gone(p) /\ out' = [out EXCEPT ![p] = NoAnswer]
        /\ crashes < MaxCrashes /\ crashes' = crashes + 1
        /\ torn' = TRUE
        /\ pc[p] \in {"replay", "cursor", "commit_cursor"}
        /\ UNCHANGED <<intent, commit, ack, cursor, temps>>
    BY DEF CrashTearing
  <1>2. /\ out' \in [Procs -> [what : AnswerKinds,
                               value : {None} \cup Rejections \cup Receipts
                                         \cup StateNames]]
        /\ out'[p] = NoAnswer /\ \A q \in Procs : q # p => out'[q] = out[q]
    BY <1>1 DEF GateInv, GateTypeOK, NoAnswer, Answer, AnswerKinds
  <1>3. crashes' \in 0..MaxCrashes
    BY <1>1, MaxCrashesNat DEF GateInv, GateTypeOK
  <1>4. GateTypeOK'
    BY <1>1, <1>2, <1>3, GoneFits DEF GateInv, GateTypeOK
  <1>5. OnlyProc(p) /\ lock'[p] = "none"
    BY <1>1, <1>2, GoneFits DEF OnlyProc
  <1>6. AnswerFits(p)'
    BY <1>2 DEF AnswerFits, NoAnswer, Answer
  <1>7. ProcFits(p)'
    BY <1>1, <1>6, GoneFits DEF ProcFits
  <1>8. DiskGrows /\ RecordsFit'
    BY <1>1 DEF GateInv, GateTypeOK, DiskGrows, RecordsFit, Observed
  <1>9. lock[p] = "ex"
    BY <1>1, WriterHasLock DEF WriterPoints
  <1> QED BY <1>4, <1>5, <1>7, <1>8, <1>9, WriterStep

\* The next record appended to a cursor that is behind.
LEMMA CursorAppends ==
    ASSUME GateInv, Len(cursor) < Observed + 1,
           cursor' = Append(cursor, CursorRecord(Len(cursor), intent, ack)),
           UNCHANGED <<intent, commit, ack, torn>>
    PROVE  /\ cursor' \in Seq(CursorRecords)
           /\ Len(cursor)' \in 1..4
           /\ Len(cursor)' = Len(cursor) + 1
           /\ RecordsFit'
           /\ DiskGrows
  <1> DEFINE n == Len(cursor)
             record == CursorRecord(n, intent, ack)
  <1>1. /\ cursor \in Seq(CursorRecords) /\ n \in 1..4 /\ Observed \in 0..3
        /\ RecordsFit
        /\ intent \in Rejections \cup {None} /\ ack \in AckRecords \cup {None}
    BY ObservedFacts DEF GateInv, GateTypeOK
  <1>2. n \in 1..3 /\ n < Observed + 1
    BY <1>1
  <1>3. record \in CursorRecords
    <2>1. \A m \in 0..3 : CursorRecord(m, intent, ack) \in CursorRecords
      BY <1>1, CursorRecordFacts
    <2>2. n \in 0..3
      BY <1>2
    <2> QED BY <2>1, <2>2
  <1>4. /\ cursor' \in Seq(CursorRecords)
        /\ Len(cursor') = n + 1
        /\ \A i \in 1..n : cursor'[i] = cursor[i]
        /\ cursor'[n + 1] = record
    <2> HIDE DEF record
    <2>1. cursor' = Append(cursor, record)
      BY DEF record
    <2> QED BY <1>1, <1>3, <2>1, AppendProperties
  <1>5. Observed' = Observed
    BY DEF Observed
  <1>6. Len(cursor') <= Observed' + 1
    <2> HIDE DEF n
    <2> QED BY <1>1, <1>2, <1>4, <1>5
  <1>7. \A i \in 1..Len(cursor') :
           cursor'[i] = CursorRecord(i - 1, intent', ack')
    <2> TAKE i \in 1..Len(cursor')
    <2>1. CASE i \in 1..n
      BY <1>1, <1>4, <2>1 DEF RecordsFit
    <2>2. CASE i = n + 1
      <3>1. i - 1 = n
        BY <1>1, <2>2
      <3> QED BY <1>4, <2>2, <3>1
    <2>3. i \in 1..n \/ i = n + 1
      BY <1>1, <1>4
    <2> QED BY <2>1, <2>2, <2>3
  <1>8. RecordsFit'
    BY <1>1, <1>6, <1>7 DEF RecordsFit
  <1>9. DiskGrows
    BY <1>1, <1>4 DEF DiskGrows
  <1> QED BY <1>2, <1>4, <1>8, <1>9

\* AdvanceCursor keeps the invariant of the gate.
LEMMA AdvanceCursorFits ==
    ASSUME GateInv, NEW p \in Procs, AdvanceCursor(p)
    PROVE  GateInv' /\ DiskGrows
  <1>1. /\ pc[p] = "replay" /\ CursorSequence < Observed
        /\ cursor' = Append(cursor, CursorRecord(CursorSequence + 1, intent, ack))
        /\ UNCHANGED <<intent, commit, ack, torn, temps, procVars, crashes>>
    BY DEF AdvanceCursor
  <1>2. /\ CursorSequence + 1 = Len(cursor) /\ Len(cursor) < Observed + 1
        /\ Len(cursor) \in 1..4
    BY <1>1, ObservedFacts DEF GateInv, GateTypeOK, CursorSequence
  <1>3. /\ cursor' \in Seq(CursorRecords) /\ Len(cursor)' \in 1..4
        /\ Len(cursor)' = Len(cursor) + 1
        /\ RecordsFit' /\ DiskGrows
    BY <1>1, <1>2, CursorAppends
  <1>4. GateTypeOK'
    BY <1>1, <1>3 DEF GateInv, GateTypeOK, procVars
  <1>5. OnlyProc(p)
    BY <1>1 DEF OnlyProc, procVars
  <1>6. LockFits(p) /\ WriterFits(p) /\ ContextFits(p) /\ AnswerFits(p)
    BY DEF GateInv, ProcFits
  <1>7. AnswerFits(p)'
    BY <1>1, <1>2, <1>3, <1>6 DEF AnswerFits, procVars
  <1>8. LockFits(p)' /\ WriterFits(p)' /\ ContextFits(p)'
    BY <1>1, <1>6
       DEF LockFits, WriterFits, ContextFits, Outside, WriterPoints, InEffect,
           Mode, procVars
  <1>9. lock[p] = "ex" /\ lock'[p] = lock[p]
    BY <1>1, WriterHasLock DEF procVars
  <1> QED BY <1>3, <1>4, <1>5, <1>7, <1>8, <1>9, WriterStep DEF ProcFits

\* A commit linked to the intent.
LEMMA CommitLinks ==
    ASSUME GateInv, intent # None, commit = None, commit' = intent,
           UNCHANGED <<intent, ack, cursor, torn>>
    PROVE  RecordsFit' /\ DiskGrows
  <1>1. RecordsFit /\ ack = None
    BY ObservedFacts DEF GateInv, RecordsFit
  <1>2. Observed = 1 /\ Observed' = 2
    BY <1>1 DEF Observed
  <1>3. Len(cursor) \in 1..4 /\ Len(cursor') = Len(cursor)
    BY DEF GateInv, GateTypeOK
  <1>4. Len(cursor') <= Observed' + 1
    BY <1>1, <1>2, <1>3 DEF RecordsFit
  <1>5. RecordsFit'
    BY <1>1, <1>4 DEF RecordsFit
  <1>6. DiskGrows
    BY <1>3 DEF DiskGrows
  <1> QED BY <1>5, <1>6

\* FinishIntent keeps the invariant of the gate.
LEMMA FinishIntentFits ==
    ASSUME GateInv, NEW p \in Procs, FinishIntent(p)
    PROVE  GateInv' /\ DiskGrows
  <1>1. /\ pc[p] = "replay" /\ Observed = 1 /\ commit' = intent
        /\ UNCHANGED <<intent, ack, cursor, torn, temps, procVars, crashes>>
    BY DEF FinishIntent
  <1>2. intent # None /\ commit = None
    BY <1>1, ObservedFacts DEF GateInv
  <1>3. RecordsFit' /\ DiskGrows
    BY <1>1, <1>2, CommitLinks
  <1>4. GateTypeOK'
    BY <1>1 DEF GateInv, GateTypeOK, procVars
  <1>5. OnlyProc(p)
    BY <1>1 DEF OnlyProc, procVars
  <1>6. LockFits(p) /\ WriterFits(p) /\ ContextFits(p) /\ AnswerFits(p)
    BY DEF GateInv, ProcFits
  <1>7. AnswerFits(p)'
    <2>1. out[p].what # "committed"
      <3>1. Len(cursor) \in 1..4 /\ Len(cursor) <= 2
        BY <1>1 DEF GateInv, GateTypeOK, RecordsFit
      <3> QED BY <1>6, <3>1 DEF AnswerFits
    <2> QED BY <1>1, <1>2, <1>6, <2>1 DEF AnswerFits, procVars
  <1>8. LockFits(p)' /\ WriterFits(p)' /\ ContextFits(p)'
    BY <1>1, <1>6
       DEF LockFits, WriterFits, ContextFits, Outside, WriterPoints, InEffect,
           Mode, procVars
  <1>9. lock[p] = "ex" /\ lock'[p] = lock[p]
    BY <1>1, WriterHasLock DEF procVars
  <1> QED BY <1>3, <1>4, <1>5, <1>7, <1>8, <1>9, WriterStep DEF ProcFits

\* LinkCommit keeps the invariant of the gate.
LEMMA LinkCommitFits ==
    ASSUME GateInv, NEW p \in Procs, LinkCommit(p)
    PROVE  GateInv' /\ DiskGrows
  <1>1. /\ pc[p] = "commit_link"
        /\ commit' = IF commit = None THEN intent ELSE commit
        /\ UNCHANGED <<intent, ack, cursor, torn, temps, lock, op, lease, snap,
                       crashes>>
    BY DEF LinkCommit
  <1>2. LockFits(p) /\ WriterFits(p) /\ ContextFits(p) /\ AnswerFits(p)
    BY DEF GateInv, ProcFits
  <1>3. /\ op[p].kind = "commit" /\ op[p] \in Calls
        /\ intent = op[p].rejection /\ Len(cursor) >= 2 /\ ~torn
    BY <1>1, <1>2 DEF LockFits, WriterFits, WriterPoints
  <1>4. intent # None
    BY <1>3, NoneIsNoRecord DEF Calls
  <1>5. commit' = intent /\ commit' = op[p].rejection
    BY <1>1, <1>3 DEF GateInv, RecordsFit
  <1>6. Goto(p, "commit_cursor") /\ UNCHANGED out
    BY <1>5 DEF LinkCommit
  <1>7. RecordsFit' /\ DiskGrows
    <2>1. CASE commit = None
      BY <1>1, <1>4, <1>5, <2>1, CommitLinks
    <2>2. CASE commit # None
      BY <1>1, <2>2 DEF GateInv, GateTypeOK, RecordsFit, DiskGrows, Observed
    <2> QED BY <2>1, <2>2
  <1>8. GateTypeOK'
    BY <1>1, <1>5, <1>6 DEF GateInv, GateTypeOK, Goto, ProgramPoints
  <1>9. OnlyProc(p) /\ pc'[p] = "commit_cursor"
    BY <1>1, <1>6 DEF GateInv, GateTypeOK, Goto, OnlyProc
  <1>10. AnswerFits(p)'
    <2>1. commit # None => commit' = commit
      BY <1>1
    <2>2. out[p].what = "committed" => commit = out[p].value /\ Len(cursor) >= 3
      BY <1>2 DEF AnswerFits
    <2>3. Len(cursor) >= 3 => commit # None
      BY ObservedFacts DEF GateInv, GateTypeOK, RecordsFit
    <2> QED BY <1>1, <1>2, <1>6, <2>1, <2>2, <2>3 DEF AnswerFits
  <1>11. LockFits(p)' /\ WriterFits(p)' /\ ContextFits(p)'
    BY <1>1, <1>2, <1>3, <1>5, <1>9
       DEF LockFits, WriterFits, ContextFits, Outside, WriterPoints, InEffect,
           Mode
  <1>12. lock[p] = "ex" /\ lock'[p] = lock[p]
    BY <1>1, WriterHasLock DEF WriterPoints
  <1> QED BY <1>7, <1>8, <1>9, <1>10, <1>11, <1>12, WriterStep DEF ProcFits

\* An intent published into an empty slot.
LEMMA IntentLinks ==
    ASSUME GateInv, intent = None, NEW r \in Rejections, intent' = r,
           UNCHANGED <<commit, ack, cursor, torn>>
    PROVE  RecordsFit' /\ DiskGrows
  <1>1. RecordsFit /\ commit = None /\ ack = None /\ r # None
    BY NoneIsNoRecord DEF GateInv, RecordsFit
  <1>2. Observed = 0 /\ Observed' = 1
    BY <1>1 DEF Observed
  <1>3. Len(cursor) = 1 /\ Len(cursor)' = 1
    <2>1. Len(cursor) \in 1..4 /\ Len(cursor) <= 1
      BY <1>1, <1>2 DEF GateInv, GateTypeOK, RecordsFit
    <2> QED BY <2>1
  <1>4. cursor[1] = CursorRecord(0, intent, ack)
    BY <1>1, <1>3 DEF RecordsFit
  <1>5. cursor'[1] = CursorRecord(0, intent', ack')
    BY <1>1, <1>4, CursorRecordFacts
  <1>6. \A i \in 1..Len(cursor') :
           cursor'[i] = CursorRecord(i - 1, intent', ack')
    BY <1>3, <1>5
  <1>7. RecordsFit'
    BY <1>1, <1>2, <1>3, <1>6 DEF RecordsFit
  <1>8. DiskGrows
    BY <1>3 DEF DiskGrows
  <1> QED BY <1>7, <1>8

\* An acknowledgement published for the commit.
LEMMA AckLinks ==
    ASSUME GateInv, commit # None, ack = None, NEW a \in AckRecords,
           a.commit = commit, ack' = a, UNCHANGED <<intent, commit, cursor, torn>>
    PROVE  RecordsFit' /\ DiskGrows /\ ack' # None
  <1>1. RecordsFit /\ intent # None /\ intent \in Rejections \cup {None}
    BY DEF GateInv, GateTypeOK, RecordsFit
  <1>2. a # None /\ Observed = 2 /\ Observed' = 3
    BY <1>1, NoneIsNoAck DEF Observed
  <1>3. Len(cursor) \in 1..3 /\ Len(cursor') = Len(cursor)
    <2>1. Len(cursor) \in 1..4
      BY DEF GateInv, GateTypeOK
    <2>2. Len(cursor) <= 3
      BY <1>1, <1>2 DEF RecordsFit
    <2>3. Len(cursor') = Len(cursor)
      OBVIOUS
    <2>4. Len(cursor) \in 1..3
      <3> DEFINE l == Len(cursor)
      <3>1. l \in 1..4 /\ l <= 3
        BY <2>1, <2>2
      <3> HIDE DEF l
      <3>2. l \in 1..3
        BY <3>1
      <3> QED BY <3>2 DEF l
    <2> QED BY <2>3, <2>4
  <1>4. \A n \in 0..2 : CursorRecord(n, intent, ack) = CursorRecord(n, intent, a)
    BY DEF CursorRecord
  <1>5. \A i \in 1..Len(cursor') :
           cursor'[i] = CursorRecord(i - 1, intent', ack')
    <2> TAKE i \in 1..Len(cursor')
    <2>1. i \in 1..Len(cursor) /\ i - 1 \in 0..2
      BY <1>3
    <2>2. cursor[i] = CursorRecord(i - 1, intent, ack)
      BY <1>1, <2>1 DEF RecordsFit
    <2> QED BY <1>4, <2>1, <2>2
  <1>6. RecordsFit'
    BY <1>1, <1>2, <1>3, <1>5 DEF RecordsFit
  <1> QED BY <1>2, <1>3, <1>6 DEF DiskGrows

\* LinkTemp keeps the invariant of the gate.
LEMMA LinkTempFits ==
    ASSUME GateInv, NEW p \in Procs, LinkTemp(p)
    PROVE  GateInv' /\ DiskGrows
  <1>1. /\ pc[p] = "link"
        /\ intent' = IF op[p].kind = "commit" /\ intent = None
                     THEN op[p].rejection ELSE intent
        /\ ack' = IF op[p].kind = "ack" /\ ack = None
                  THEN WantedAck(p) ELSE ack
        /\ Goto(p, "unlink")
        /\ UNCHANGED <<commit, cursor, torn, temps, lock, op, lease, snap, out,
                       crashes>>
    BY DEF LinkTemp
  <1>2. LockFits(p) /\ WriterFits(p) /\ ContextFits(p)
    BY DEF GateInv, ProcFits
  <1>3. /\ op[p].kind \in {"commit", "ack"} /\ op[p] \in Calls
        /\ ~torn /\ p \in temps
    BY <1>1, <1>2 DEF LockFits, WriterFits, WriterPoints
  <1>4. /\ op[p].rejection \in Rejections /\ op[p].rejection # None
        /\ op[p].kind = "ack" => WantedAck(p) \in AckRecords
    BY <1>3, NoneIsNoRecord DEF Calls, WantedAck, AckRecords
  <1>5. /\ RecordsFit' /\ DiskGrows
        /\ op[p].kind = "commit" => intent' # None
        /\ op[p].kind = "ack" => /\ ack' # None /\ commit = op[p].rejection
                                 /\ Len(cursor) >= 3
        /\ intent' \in Rejections \cup {None} /\ ack' \in AckRecords \cup {None}
    <2>1. CASE op[p].kind = "commit"
      <3>1. intent = None /\ intent' = op[p].rejection /\ ack' = ack
        BY <1>1, <1>2, <2>1 DEF WriterFits
      <3>2. RecordsFit' /\ DiskGrows
        BY <1>1, <1>4, <3>1, IntentLinks
      <3> QED BY <1>4, <2>1, <3>1, <3>2 DEF GateInv, GateTypeOK
    <2>2. CASE op[p].kind = "ack"
      <3>1. commit = op[p].rejection /\ Len(cursor) >= 3 /\ intent' = intent
        BY <1>1, <1>2, <2>2 DEF WriterFits, WriterPoints
      <3>2. CASE ack = None
        <4>1. ack' = WantedAck(p) /\ WantedAck(p) \in AckRecords
          BY <1>1, <1>4, <2>2, <3>2
        <4>2. WantedAck(p).commit = commit
          BY <3>1 DEF WantedAck
        <4>3. RecordsFit' /\ DiskGrows /\ ack' # None
          BY <1>1, <1>4, <3>1, <3>2, <4>1, <4>2, AckLinks
        <4> QED BY <2>2, <3>1, <4>1, <4>3 DEF GateInv, GateTypeOK
      <3>3. CASE ack # None
        <4>1. ack' = ack
          BY <1>1, <3>3
        <4>2. RecordsFit' /\ DiskGrows
          BY <1>1, <3>1, <4>1
             DEF GateInv, GateTypeOK, RecordsFit, DiskGrows, Observed
        <4> QED BY <2>2, <3>1, <3>3, <4>1, <4>2 DEF GateInv, GateTypeOK
      <3> QED BY <3>2, <3>3
    <2> QED BY <1>3, <2>1, <2>2
  <1>6. GateTypeOK'
    BY <1>1, <1>5 DEF GateInv, GateTypeOK, Goto, ProgramPoints
  <1>7. OnlyProc(p) /\ pc'[p] = "unlink"
    BY <1>1 DEF GateInv, GateTypeOK, Goto, OnlyProc
  <1>8. AnswerFits(p)'
    BY <1>1, <1>5, <1>6, AnswerKept
  <1>9. LockFits(p)' /\ WriterFits(p)' /\ ContextFits(p)'
    BY <1>1, <1>2, <1>3, <1>5, <1>7
       DEF LockFits, WriterFits, ContextFits, Outside, WriterPoints, InEffect,
           Mode
  <1>10. lock[p] = "ex" /\ lock'[p] = lock[p]
    BY <1>1, WriterHasLock DEF WriterPoints
  <1> QED BY <1>5, <1>6, <1>7, <1>8, <1>9, <1>10, WriterStep DEF ProcFits

\* The cursor step of a writer: the records it has made durable are what it
\* wants to append, so the cursor never refuses it.
LEMMA CursorStep ==
    ASSUME GateInv, NEW p \in Procs, pc[p] \in {"cursor", "commit_cursor"}
    PROVE  LET n == CursorTarget(p) IN
           /\ n \in 1..3 /\ Len(cursor) >= n /\ Observed >= n /\ ~torn
           /\ CursorWanted(p) = CursorRecord(n, intent, ack)
           /\ ~CursorRefuses(n, CursorWanted(p))
           /\ op[p].kind = "commit" /\ pc[p] = "cursor" => n = 1
           /\ op[p].kind = "commit" /\ pc[p] = "commit_cursor" => n = 2
           /\ op[p].kind = "ack" => n = 3 /\ pc[p] = "cursor"
  <1> DEFINE n == CursorTarget(p)
  <1>1. LockFits(p) /\ WriterFits(p) /\ RecordsFit
    BY DEF GateInv, ProcFits
  <1>2. /\ op[p].kind \in {"commit", "ack"} /\ op[p] \in Calls /\ ~torn
        /\ pc[p] = "commit_cursor" => op[p].kind = "commit"
    BY <1>1 DEF LockFits, WriterFits, WriterPoints
  <1>3. op[p].rejection \in Rejections /\ op[p].rejection # None
    BY <1>2, NoneIsNoRecord DEF Calls
  <1>4. /\ intent \in Rejections \cup {None} /\ ack \in AckRecords \cup {None}
        /\ Len(cursor) \in 1..4
    BY DEF GateInv, GateTypeOK
  <1>5. /\ n \in 1..3
        /\ op[p].kind = "commit" /\ pc[p] = "cursor" => n = 1
        /\ op[p].kind = "commit" /\ pc[p] = "commit_cursor" => n = 2
        /\ op[p].kind = "ack" => n = 3 /\ pc[p] = "cursor"
    BY <1>2 DEF CursorTarget
  <1>6. Len(cursor) >= n /\ Observed >= n
    <2>1. CASE op[p].kind = "commit" /\ pc[p] = "cursor"
      <3>1. intent # None
        BY <1>1, <1>3, <2>1 DEF WriterFits
      <3>2. Observed >= 1
        BY <1>1, <3>1, ObservedFacts
      <3> QED BY <1>4, <1>5, <2>1, <3>2
    <2>2. CASE op[p].kind = "commit" /\ pc[p] = "commit_cursor"
      <3>1. commit # None /\ Len(cursor) >= 2
        BY <1>1, <1>3, <2>2 DEF WriterFits
      <3>2. Observed >= 2
        BY <1>1, <3>1, ObservedFacts
      <3> QED BY <1>4, <1>5, <2>2, <3>1, <3>2
    <2>3. CASE op[p].kind = "ack"
      <3>1. ack = WantedAck(p) /\ Len(cursor) >= 3
        BY <1>1, <1>5, <2>3 DEF WriterFits, WriterPoints
      <3>2. WantedAck(p) \in AckRecords
        BY <1>2, <2>3 DEF Calls, WantedAck, AckRecords
      <3>3. Observed = 3
        BY <1>1, <3>1, <3>2, NoneIsNoAck, ObservedFacts
      <3> QED BY <1>4, <1>5, <2>3, <3>1, <3>3
    <2> QED BY <1>2, <2>1, <2>2, <2>3
  <1>7. CursorWanted(p) = CursorRecord(n, intent, ack)
    <2>1. CASE op[p].kind = "commit"
      <3>1. intent = op[p].rejection
        BY <1>1, <2>1 DEF WriterFits
      <3>2. CursorWanted(p) = CursorRecord(n, intent, None)
        BY <2>1, <3>1 DEF CursorWanted
      <3>3. n = 1 \/ n = 2
        BY <1>5, <2>1
      <3>4. /\ CursorRecord(1, intent, ack) = CursorRecord(1, intent, None)
            /\ CursorRecord(2, intent, ack) = CursorRecord(2, intent, None)
        BY <1>4, CursorRecordFacts
      <3> HIDE DEF n
      <3> QED BY <3>2, <3>3, <3>4
    <2>2. CASE op[p].kind = "ack"
      <3>1. ack = WantedAck(p) /\ commit = op[p].rejection
        BY <1>1, <1>5, <2>2 DEF WriterFits, WriterPoints
      <3>2. intent = op[p].rejection
        BY <1>1, <1>3, <3>1 DEF RecordsFit
      <3> QED BY <2>2, <3>1, <3>2 DEF CursorWanted
    <2> QED BY <1>2, <2>1, <2>2
  <1>8. ~CursorRefuses(n, CursorWanted(p))
    <2>1. Len(cursor) > n => cursor[n + 1] = CursorRecord(n, intent, ack)
      <3> SUFFICES ASSUME Len(cursor) > n
                   PROVE  cursor[n + 1] = CursorRecord(n, intent, ack)
        OBVIOUS
      <3> HIDE DEF n
      <3>1. n + 1 \in 1..Len(cursor) /\ (n + 1) - 1 = n
        BY <1>4, <1>5
      <3>2. cursor[n + 1] = CursorRecord((n + 1) - 1, intent, ack)
        BY <1>1, <3>1 DEF RecordsFit
      <3> QED BY <3>1, <3>2
    <2>2. ~(Len(cursor) < n)
      <3> HIDE DEF n
      <3> QED BY <1>4, <1>5, <1>6
    <2> HIDE DEF n
    <2> QED BY <1>2, <1>7, <2>1, <2>2 DEF CursorRefuses
  <1> QED BY <1>2, <1>5, <1>6, <1>7, <1>8

\* AppendCursor keeps the invariant of the gate.
LEMMA AppendCursorFits ==
    ASSUME GateInv, NEW p \in Procs, AppendCursor(p)
    PROVE  GateInv' /\ DiskGrows
  <1> DEFINE n == CursorTarget(p)
             record == CursorWanted(p)
  <1>1. /\ pc[p] \in {"cursor", "commit_cursor"}
        /\ UNCHANGED <<intent, commit, ack, torn, temps, lock, op, lease, snap,
                       crashes>>
    BY DEF AppendCursor
  <1>2. /\ n \in 1..3 /\ Len(cursor) >= n /\ Observed >= n /\ ~torn
        /\ record = CursorRecord(n, intent, ack)
        /\ ~CursorRefuses(n, record)
        /\ op[p].kind = "commit" /\ pc[p] = "cursor" => n = 1
        /\ op[p].kind = "commit" /\ pc[p] = "commit_cursor" => n = 2
        /\ op[p].kind = "ack" => n = 3 /\ pc[p] = "cursor"
    BY <1>1, CursorStep
  <1>3. CursorTakes(n, record) /\ AfterCursor(p)
    BY <1>2 DEF AppendCursor
  <1>4. Len(cursor) \in 1..4 /\ Observed \in 0..3
    BY ObservedFacts DEF GateInv, GateTypeOK
  <1> HIDE DEF n, record
  <1>5. /\ RecordsFit' /\ DiskGrows
        /\ cursor' \in Seq(CursorRecords) /\ Len(cursor)' \in 1..4
        /\ Len(cursor)' >= n + 1
    <2>1. CASE Len(cursor) = n
      <3>1. cursor' = Append(cursor, CursorRecord(Len(cursor), intent, ack))
        BY <1>2, <1>3, <2>1 DEF CursorTakes
      <3>2. Len(cursor) < Observed + 1
        BY <1>2, <1>4, <2>1
      <3>3. /\ RecordsFit' /\ DiskGrows
            /\ cursor' \in Seq(CursorRecords) /\ Len(cursor)' \in 1..4
            /\ Len(cursor)' = Len(cursor) + 1
        BY <1>1, <3>1, <3>2, CursorAppends
      <3> QED BY <1>2, <2>1, <3>3
    <2>2. CASE Len(cursor) # n
      <3>1. cursor' = cursor
        BY <1>3, <2>2 DEF CursorTakes
      <3>2. Len(cursor) >= n + 1
        BY <1>2, <1>4, <2>2
      <3>3. RecordsFit' /\ DiskGrows
        BY <1>1, <3>1
           DEF GateInv, GateTypeOK, RecordsFit, DiskGrows, Observed
      <3> QED BY <3>1, <3>2, <3>3 DEF GateInv, GateTypeOK
    <2> QED BY <2>1, <2>2
  <1>6. LockFits(p) /\ WriterFits(p) /\ ContextFits(p)
    BY DEF GateInv, ProcFits
  <1>7. op[p] \in Calls /\ op[p].kind \in {"commit", "ack"}
    BY <1>1, <1>6 DEF LockFits, WriterPoints
  <1>8. lock[p] = "ex" /\ lock'[p] = lock[p]
    BY <1>1, WriterHasLock DEF WriterPoints
  <1>9. CASE /\ pc[p] = "cursor" /\ op[p].kind = "commit"
             /\ Goto(p, "commit_link") /\ UNCHANGED out
    <2>1. GateTypeOK'
      BY <1>1, <1>5, <1>9 DEF GateInv, GateTypeOK, Goto, ProgramPoints
    <2>2. OnlyProc(p) /\ pc'[p] = "commit_link"
      BY <1>1, <1>9 DEF GateInv, GateTypeOK, Goto, OnlyProc
    <2>3. AnswerFits(p)'
      BY <1>5, <1>9, <2>1, AnswerKept
    <2>4. Len(cursor)' >= 2
      BY <1>2, <1>5, <1>9
    <2>5. LockFits(p)' /\ WriterFits(p)' /\ ContextFits(p)'
      BY <1>1, <1>2, <1>6, <1>9, <2>2, <2>4
         DEF LockFits, WriterFits, ContextFits, Outside, WriterPoints,
             InEffect, Mode
    <2> QED BY <1>5, <1>8, <2>1, <2>2, <2>3, <2>5, WriterStep DEF ProcFits
  <1>10. ASSUME NEW answer \in [what : AnswerKinds,
                                value : {None} \cup Rejections \cup Receipts
                                          \cup StateNames],
                Ends(p, answer), AnswerFits(p)'
         PROVE  GateInv'
    <2>1. /\ ProcFits(p)' /\ OnlyProc(p)
          /\ pc' \in [Procs -> ProgramPoints]
          /\ out' \in [Procs -> [what : AnswerKinds,
                                 value : {None} \cup Rejections \cup Receipts
                                           \cup StateNames]]
      BY <1>1, <1>10, EndsFits
    <2>2. GateTypeOK'
      BY <1>1, <1>5, <2>1 DEF GateInv, GateTypeOK
    <2> QED BY <1>5, <1>8, <2>1, <2>2, WriterStep
  <1>11. CASE /\ pc[p] = "cursor" /\ op[p].kind = "ack"
              /\ Ends(p, Answer("acknowledged", op[p].receipt))
    <2>1. op[p].receipt \in Receipts
      BY <1>7, <1>11 DEF Calls
    <2>2. Answer("acknowledged", op[p].receipt) \in
            [what : AnswerKinds, value : {None} \cup Rejections \cup Receipts
                                           \cup StateNames]
      BY <2>1 DEF Answer, AnswerKinds
    <2>3. out'[p] = Answer("acknowledged", op[p].receipt)
      BY <1>11 DEF GateInv, GateTypeOK, Ends
    <2>4. ack = WantedAck(p) /\ WantedAck(p) \in AckRecords
      BY <1>6, <1>7, <1>11 DEF WriterFits, WantedAck, AckRecords, Calls
    <2>5. ack' # None /\ ack'.receipt = op[p].receipt
      BY <1>1, <2>4, NoneIsNoAck DEF WantedAck
    <2>6. AnswerFits(p)'
      BY <2>3, <2>5 DEF AnswerFits, Answer
    <2> QED BY <1>5, <1>10, <1>11, <2>2, <2>6
  <1>12. CASE /\ pc[p] = "commit_cursor"
              /\ Ends(p, Answer("committed", op[p].rejection))
    <2>1. op[p].kind = "commit" /\ op[p].rejection \in Rejections
      BY <1>6, <1>7, <1>12 DEF Calls, LockFits
    <2>2. Answer("committed", op[p].rejection) \in
            [what : AnswerKinds, value : {None} \cup Rejections \cup Receipts
                                           \cup StateNames]
      BY <2>1 DEF Answer, AnswerKinds
    <2>3. out'[p] = Answer("committed", op[p].rejection)
      BY <1>12 DEF GateInv, GateTypeOK, Ends
    <2>4. commit' = op[p].rejection
      BY <1>1, <1>6, <1>12, <2>1 DEF WriterFits
    <2>5. Len(cursor)' >= 3
      BY <1>2, <1>5, <1>12, <2>1
    <2>6. AnswerFits(p)'
      BY <2>3, <2>4, <2>5 DEF AnswerFits, Answer
    <2> QED BY <1>5, <1>10, <1>12, <2>2, <2>6
  <1> QED BY <1>3, <1>5, <1>9, <1>11, <1>12 DEF AfterCursor

\* Every step, stuttering included, keeps the invariant.
LEMMA StepFits == GateInv /\ [GateNext]_gateVars => GateInv'
  <1> SUFFICES ASSUME GateInv, [GateNext]_gateVars PROVE GateInv'
    OBVIOUS
  <1>1. CASE UNCHANGED gateVars
    BY <1>1
       DEF gateVars, disk, procVars, GateInv, GateTypeOK, RecordsFit, Observed,
           LocksExclude, ProcFits, LockFits, WriterFits, ContextFits,
           AnswerFits, InEffect, Mode, WantedAck
  <1>2. ASSUME NEW p \in Procs, CallStep(p)
        PROVE  GateInv'
    BY <1>2, RequireHandleFits, ObserveFailsFits, LookForEffectFits,
       LookForCommitFits, AdvanceCursorFits, FinishIntentFits,
       RecoverReturnsFits, AdmissionDecidesFits, HoldForReplayFits,
       AckChecksCommitFits, CommitReadsIntentFits, WriteTempFits, LinkTempFits,
       UnlinkTempFits, CompareFits, AppendCursorFits, LinkCommitFits,
       LeaveContextFits, ReleaseFits
       DEF CallStep
  <1>3. ASSUME NEW p \in Procs,
               \/ \E call \in {c \in Calls : c.kind \in CallKinds} : Start(p, call)
               \/ \E r \in Rejections : LeaseCommit(p, r)
               \/ Acquire(p) \/ Crash(p) \/ CrashTearing(p)
        PROVE  GateInv'
    BY <1>3, StartFits, LeaseCommitFits, AcquireFits, CrashFits,
       CrashTearingFits
  <1> QED BY <1>1, <1>2, <1>3 DEF GateNext

-----------------------------------------------------------------------------
(* Theorems                                                                *)

\* The inductive invariant of the gate holds in every reachable state.
THEOREM GateInvariant == GateSpec => []GateInv
  BY InitFits, StepFits, PTL DEF GateSpec

\* Every variable of the gate keeps its type, in particular the cursor never
\* has more than four records.
THEOREM GateTypeCorrect == GateSpec => []GateTypeOK
  <1>1. GateInv => GateTypeOK
    BY DEF GateInv
  <1> QED BY <1>1, GateInvariant, PTL

\* hold_h1_attempt_gate_open_for_side_effect_v1 serializes side effects and
\* the rejection, for any number of processes and crashes.
THEOREM EffectsAndRejectionSerialized == GateSpec => []EffectsPrecedeRejection
  <1>1. GateInv => EffectsPrecedeRejection
    BY DEF GateInv, ProcFits, ContextFits, EffectsPrecedeRejection
  <1> QED BY <1>1, GateInvariant, PTL

\* The admission lease excludes every other call.
THEOREM AdmissionAlone == GateSpec => []AdmissionDecidesAlone
  <1>1. ASSUME GateInv PROVE AdmissionDecidesAlone
    <2> SUFFICES ASSUME NEW p \in lease
                 PROVE  /\ \A q \in Procs \ {p} : pc[q] \in {"idle", "locking"}
                        /\ pc[p] = "held" /\ op[p].kind = "admit" => intent = None
      BY DEF AdmissionDecidesAlone
    <2>1. p \in Procs
      BY <1>1 DEF GateInv, GateTypeOK
    <2>2. LockFits(p) /\ ContextFits(p)
      BY <1>1, <2>1 DEF GateInv, ProcFits
    <2>3. lock[p] = "ex"
      BY <2>2 DEF LockFits, ContextFits, Mode, SharedKinds
    <2>4. \A q \in Procs \ {p} : pc[q] \in {"idle", "locking"}
      BY <1>1, <2>1, <2>3, OthersOutside DEF Outside
    <2> QED BY <2>2, <2>4 DEF ContextFits
  <1> QED BY <1>1, GateInvariant, PTL

\* A crash between any two durable writes leaves records that replay accepts.
THEOREM CrashesReplayable == GateSpec => []CrashLeavesReplayable
  <1>1. GateInv => CrashLeavesReplayable
    BY FitIsReplayable
       DEF GateInv, ProcFits, AnswerFits, CrashLeavesReplayable
  <1> QED BY <1>1, GateInvariant, PTL

\* What a caller was told stays true, whatever crashes and retries follow.
THEOREM AnswersStayTrue == GateSpec => []AnswersDurable
  <1>1. ASSUME GateInv PROVE AnswersDurable
    <2>1. Len(cursor) \in 1..4
      BY <1>1 DEF GateInv, GateTypeOK
    <2>2. Len(cursor) >= 3 => CursorSequence >= 2
      BY <2>1 DEF CursorSequence
    <2> QED BY <1>1, <2>2 DEF GateInv, ProcFits, AnswerFits, AnswersDurable
  <1> QED BY <1>1, GateInvariant, PTL

\* The snapshot given to a dependent replay is exact while it is held, and
\* orphan cleanup spares the files of live publishers.
THEOREM ContextsExact == GateSpec => [](SnapshotStaysExact /\ CleanupSparesLiveTemps)
  <1>1. GateInv => SnapshotStaysExact /\ CleanupSparesLiveTemps
    BY DEF GateInv, ProcFits, ContextFits, WriterFits, SnapshotStaysExact,
           CleanupSparesLiveTemps
  <1> QED BY <1>1, GateInvariant, PTL

-----------------------------------------------------------------------------
(* Write-once records and refinement                                       *)

\* The variables that the slot sees, and what most steps do to them.
SameSlot == /\ UNCHANGED <<intent, ack>>
            /\ \A q \in Procs : InEffect(q)' <=> InEffect(q)

\* A step of the gate only adds to the durable records.
LEMMA StepGrows == GateInv /\ [GateNext]_gateVars => DiskGrows
  <1> SUFFICES ASSUME GateInv, [GateNext]_gateVars PROVE DiskGrows
    OBVIOUS
  <1>1. UNCHANGED disk => DiskGrows
    BY DEF GateInv, GateTypeOK, DiskGrows, disk
  <1>2. ASSUME NEW p \in Procs, CallStep(p)
        PROVE  DiskGrows
    <2>1. CASE \/ ObserveFails(p) \/ LookForEffect(p) \/ LookForCommit(p)
               \/ RecoverReturns(p) \/ AdmissionDecides(p) \/ HoldForReplay(p)
               \/ AckChecksCommit(p) \/ CommitReadsIntent(p) \/ Compare(p)
               \/ LeaveContext(p) \/ Release(p)
      BY <1>1, <2>1
         DEF ObserveFails, LookForEffect, LookForCommit, RecoverReturns,
             AdmissionDecides, HoldForReplay, AckChecksCommit,
             CommitReadsIntent, Compare, LeaveContext, Release
    <2> QED BY <1>2, <2>1, RequireHandleFits, AdvanceCursorFits,
               FinishIntentFits, WriteTempFits, LinkTempFits, UnlinkTempFits,
               AppendCursorFits, LinkCommitFits
               DEF CallStep
  <1>3. ASSUME NEW p \in Procs,
               \/ \E call \in {c \in Calls : c.kind \in CallKinds} : Start(p, call)
               \/ \E r \in Rejections : LeaseCommit(p, r)
               \/ Acquire(p) \/ Crash(p) \/ CrashTearing(p)
        PROVE  DiskGrows
    BY <1>1, <1>3, CrashTearingFits DEF Start, LeaseCommit, Acquire, Crash
  <1> QED BY <1>1, <1>2, <1>3 DEF GateNext, gateVars

\* No step changes or removes a durable record.
THEOREM RecordsAreWriteOnce == GateSpec => RecordsWriteOnce
  <1>1. GateInv /\ [GateNext]_gateVars =>
          [/\ intent # None => intent' = intent
           /\ commit # None => commit' = commit
           /\ ack # None => ack' = ack
           /\ Len(cursor') >= Len(cursor)
           /\ \A i \in 1..Len(cursor) : cursor'[i] = cursor[i]]_gateVars
    BY StepGrows DEF DiskGrows
  <1> QED BY <1>1, GateInvariant, PTL DEF GateSpec, RecordsWriteOnce

\* Steps that the slot does not see.
LEMMA HiddenSteps ==
    ASSUME GateInv, NEW p \in Procs,
           \/ RequireHandle(p) \/ ObserveFails(p) \/ LookForCommit(p)
           \/ AdvanceCursor(p) \/ FinishIntent(p) \/ RecoverReturns(p)
           \/ AdmissionDecides(p) \/ HoldForReplay(p) \/ AckChecksCommit(p)
           \/ CommitReadsIntent(p) \/ WriteTemp(p) \/ UnlinkTemp(p)
           \/ Compare(p) \/ AppendCursor(p) \/ LinkCommit(p) \/ Release(p)
           \/ Acquire(p)
           \/ \E call \in Calls : Start(p, call)
           \/ \E r \in Rejections : LeaseCommit(p, r)
    PROVE  SameSlot
  <1>1. pc \in [Procs -> ProgramPoints] /\ op \in [Procs -> Calls \cup {NoCall}]
    BY DEF GateInv, GateTypeOK
  <1>2. ContextFits(p) /\ LockFits(p)
    BY DEF GateInv, ProcFits
  <1>3. p \in lease => op[p].kind # "effect"
    BY <1>2 DEF ContextFits
  <1>4. ASSUME NEW label, Goto(p, label), UNCHANGED op, UNCHANGED <<intent, ack>>,
               pc[p] # "held", label # "held" \/ op[p].kind # "effect"
        PROVE  SameSlot
    BY <1>1, <1>4 DEF SameSlot, InEffect, Goto
  <1>5. ASSUME NEW answer, Ends(p, answer), UNCHANGED op,
               UNCHANGED <<intent, ack>>, pc[p] # "held"
        PROVE  SameSlot
    <2>1. CASE p \in lease
      <3>1. Goto(p, "held")
        BY <1>5, <2>1 DEF Ends
      <3> QED BY <1>3, <1>4, <1>5, <2>1, <3>1
    <2>2. CASE p \notin lease
      <3>1. Goto(p, "release")
        BY <1>5, <2>2 DEF Ends
      <3> QED BY <1>4, <1>5, <3>1
    <2> QED BY <2>1, <2>2
  <1>6. CASE RequireHandle(p)
    BY <1>4, <1>6 DEF RequireHandle
  <1>7. CASE ObserveFails(p)
    BY <1>5, <1>7 DEF ObserveFails, disk
  <1>8. CASE LookForCommit(p)
    BY <1>5, <1>8 DEF LookForCommit, disk
  <1>9. CASE AdvanceCursor(p) \/ FinishIntent(p)
    BY <1>9 DEF AdvanceCursor, FinishIntent, procVars, SameSlot, InEffect
  <1>10. CASE RecoverReturns(p)
    BY <1>5, <1>10 DEF RecoverReturns, Replayed, disk
  <1>11. CASE AdmissionDecides(p)
    BY <1>4, <1>5, <1>11 DEF AdmissionDecides, Replayed, disk
  <1>12. CASE HoldForReplay(p)
    BY <1>4, <1>12 DEF HoldForReplay, Replayed, disk
  <1>13. CASE AckChecksCommit(p)
    BY <1>4, <1>5, <1>13 DEF AckChecksCommit, Replayed, disk
  <1>14. CASE CommitReadsIntent(p)
    BY <1>4, <1>14 DEF CommitReadsIntent, Replayed, disk
  <1>15. CASE WriteTemp(p) \/ UnlinkTemp(p)
    BY <1>4, <1>15 DEF WriteTemp, UnlinkTemp
  <1>16. CASE Compare(p)
    BY <1>4, <1>5, <1>16 DEF Compare, disk
  <1>17. CASE AppendCursor(p)
    BY <1>4, <1>5, <1>17 DEF AppendCursor, AfterCursor
  <1>18. CASE LinkCommit(p)
    BY <1>4, <1>5, <1>18 DEF LinkCommit
  <1>19. CASE Release(p)
    <2>1. pc[p] = "release" /\ pc' = [pc EXCEPT ![p] = "idle"]
          /\ op' = [op EXCEPT ![p] = NoCall] /\ UNCHANGED <<intent, ack>>
      BY <1>19 DEF Release, Gone, Goto, disk
    <2> QED BY <1>1, <2>1 DEF SameSlot, InEffect
  <1>20. CASE Acquire(p)
    BY <1>4, <1>20 DEF Acquire, disk
  <1>21. ASSUME NEW call \in Calls, Start(p, call) PROVE SameSlot
    <2>1. pc[p] = "idle" /\ pc' = [pc EXCEPT ![p] = "locking"]
          /\ op' = [op EXCEPT ![p] = call] /\ UNCHANGED <<intent, ack>>
      BY <1>21 DEF Start, MayCall, Goto, disk
    <2> QED BY <1>1, <2>1 DEF SameSlot, InEffect
  <1>22. ASSUME NEW r \in Rejections, LeaseCommit(p, r) PROVE SameSlot
    <2> DEFINE call == [kind |-> "commit", rejection |-> r, receipt |-> None]
    <2>1. p \in lease /\ pc' = [pc EXCEPT ![p] = "replay"]
          /\ op' = [op EXCEPT ![p] = call] /\ UNCHANGED <<intent, ack>>
      BY <1>22 DEF LeaseCommit, Goto, disk
    <2> HIDE DEF call
    <2> QED BY <1>1, <1>3, <2>1 DEF SameSlot, InEffect
  <1> QED BY <1>6, <1>7, <1>8, <1>9, <1>10, <1>11, <1>12, <1>13, <1>14, <1>15,
             <1>16, <1>17, <1>18, <1>19, <1>20, <1>21, <1>22

\* Every step of the gate is a step of the slot or hidden from it.
LEMMA SlotStep == GateInv /\ [GateNext]_gateVars => [Slot!SlotNext]_(Slot!slotVars)
  <1> SUFFICES ASSUME GateInv, [GateNext]_gateVars
               PROVE  [Slot!SlotNext]_(Slot!slotVars)
    OBVIOUS
  <1> DEFINE active == {q \in Procs : InEffect(q)}
             receipt == IF ack = None THEN None ELSE ack.receipt
  <1>1. SameSlot => UNCHANGED Slot!slotVars
    BY DEF SameSlot, Slot!slotVars
  <1>2. pc \in [Procs -> ProgramPoints] /\ op \in [Procs -> Calls \cup {NoCall}]
    BY DEF GateInv, GateTypeOK
  <1>3. ASSUME NEW p \in Procs, Goto(p, "held"), UNCHANGED <<op, intent, ack>>,
               op[p].kind = "effect", intent = None
        PROVE  Slot!SlotNext
    <2>1. active' = active \cup {p}
      BY <1>2, <1>3 DEF InEffect, Goto
    <2>2. Slot!BeginEffect(p)
      BY <1>3, <2>1 DEF Slot!BeginEffect
    <2> QED BY <1>3, <2>2 DEF Slot!SlotNext
  <1>4. ASSUME NEW p \in Procs, UNCHANGED <<intent, ack>>, ~InEffect(p)',
               \A q \in Procs : q # p => (InEffect(q)' <=> InEffect(q))
        PROVE  Slot!SlotNext
    <2>1. active' = active \ {p}
      BY <1>4
    <2>2. Slot!EndEffect(p)
      BY <1>4, <2>1 DEF Slot!EndEffect
    <2> QED BY <1>4, <2>2 DEF Slot!SlotNext
  <1>5. ASSUME NEW p \in Procs, LookForEffect(p)
        PROVE  [Slot!SlotNext]_(Slot!slotVars)
    <2>1. /\ pc[p] = "look" /\ op[p].kind = "effect"
          /\ UNCHANGED <<op, intent, ack, lease>>
      BY <1>5 DEF LookForEffect, disk
    <2>2. CASE Observed = 0 /\ Goto(p, "held")
      BY <1>3, <2>1, <2>2, ObservedFacts DEF GateInv
    <2>3. CASE Ends(p, Answer("rejected", None))
      <3>1. p \notin lease
        BY <2>1 DEF GateInv, ProcFits, ContextFits
      <3>2. Goto(p, "release")
        BY <2>3, <3>1 DEF Ends
      <3>3. SameSlot
        BY <1>2, <2>1, <3>2 DEF SameSlot, InEffect, Goto
      <3> QED BY <1>1, <3>3
    <2> QED BY <1>5, <2>2, <2>3 DEF LookForEffect
  <1>6. ASSUME NEW p \in Procs, LeaveContext(p) \/ Crash(p) \/ CrashTearing(p)
        PROVE  Slot!SlotNext
    <2>1. /\ UNCHANGED <<intent, ack>>
          /\ \/ pc' = [pc EXCEPT ![p] = "release"] /\ UNCHANGED op
             \/ /\ pc' = [pc EXCEPT ![p] = "idle"]
                /\ op' = [op EXCEPT ![p] = NoCall]
      BY <1>6 DEF LeaveContext, Crash, CrashTearing, Gone, Goto, disk
    <2>2. /\ ~InEffect(p)'
          /\ \A q \in Procs : q # p => (InEffect(q)' <=> InEffect(q))
      BY <1>2, <2>1 DEF InEffect
    <2> QED BY <1>4, <2>1, <2>2
  <1>7. ASSUME NEW p \in Procs, LinkTemp(p)
        PROVE  [Slot!SlotNext]_(Slot!slotVars)
    <2>1. /\ pc[p] = "link" /\ Goto(p, "unlink") /\ UNCHANGED op
          /\ intent' = IF op[p].kind = "commit" /\ intent = None
                       THEN op[p].rejection ELSE intent
          /\ ack' = IF op[p].kind = "ack" /\ ack = None
                    THEN WantedAck(p) ELSE ack
      BY <1>7 DEF LinkTemp
    <2>2. LockFits(p) /\ WriterFits(p)
      BY DEF GateInv, ProcFits
    <2>3. op[p] \in Calls /\ op[p].kind \in {"commit", "ack"}
      BY <2>1, <2>2 DEF LockFits, WriterPoints
    <2>4. op[p].rejection \in Rejections /\ op[p].rejection # None
      BY <2>3, NoneIsNoRecord DEF Calls
    <2>5. \A q \in Procs : ~InEffect(q) /\ ~InEffect(q)'
      <3>1. lock[p] = "ex"
        BY <2>1, WriterHasLock DEF WriterPoints
      <3>2. \A q \in Procs : q # p => pc[q] \in Outside
        BY <3>1, OthersOutside
      <3> QED BY <1>2, <2>1, <3>2 DEF InEffect, Outside, Goto
    <2>6. active = {} /\ active' = {}
      BY <2>5
    <2>7. CASE op[p].kind = "commit"
      <3>1. intent = None /\ intent' = op[p].rejection /\ ack' = ack
        BY <2>1, <2>2, <2>7 DEF WriterFits
      <3>2. Slot!Reject(op[p].rejection)
        BY <2>6, <3>1 DEF Slot!Reject
      <3> QED BY <2>4, <3>2 DEF Slot!SlotNext
    <2>8. CASE op[p].kind = "ack" /\ ack = None
      <3>1. intent' = intent /\ ack' = WantedAck(p) /\ op[p].receipt \in Receipts
        BY <2>1, <2>3, <2>8 DEF Calls
      <3>2. WantedAck(p) \in AckRecords /\ WantedAck(p).receipt = op[p].receipt
        BY <2>4, <3>1 DEF WantedAck, AckRecords
      <3>3. receipt = None /\ receipt' = op[p].receipt
        BY <2>8, <3>1, <3>2, NoneIsNoAck
      <3>4. intent # None
        <4>1. commit # None
          BY <2>1, <2>2, <2>4, <2>8 DEF WriterFits, WriterPoints
        <4> QED BY <4>1 DEF GateInv, RecordsFit
      <3>5. Slot!Acknowledge(op[p].receipt)
        BY <2>6, <3>1, <3>3, <3>4 DEF Slot!Acknowledge
      <3> QED BY <3>1, <3>5 DEF Slot!SlotNext
    <2>9. CASE op[p].kind = "ack" /\ ack # None
      <3>1. SameSlot
        BY <2>1, <2>5, <2>9 DEF SameSlot
      <3> QED BY <1>1, <3>1
    <2> QED BY <2>3, <2>7, <2>8, <2>9
  <1>8. CASE UNCHANGED gateVars
    BY <1>1, <1>8 DEF gateVars, disk, procVars, SameSlot, InEffect
  <1>9. ASSUME NEW p \in Procs, CallStep(p)
        PROVE  [Slot!SlotNext]_(Slot!slotVars)
    <2> HIDE DEF active, receipt
    <2>1. \/ LookForEffect(p) \/ LeaveContext(p) \/ LinkTemp(p)
          \/ RequireHandle(p) \/ ObserveFails(p) \/ LookForCommit(p)
          \/ AdvanceCursor(p) \/ FinishIntent(p) \/ RecoverReturns(p)
          \/ AdmissionDecides(p) \/ HoldForReplay(p) \/ AckChecksCommit(p)
          \/ CommitReadsIntent(p) \/ WriteTemp(p) \/ UnlinkTemp(p)
          \/ Compare(p) \/ AppendCursor(p) \/ LinkCommit(p) \/ Release(p)
      BY <1>9 DEF CallStep
    <2> QED BY <1>1, <1>5, <1>6, <1>7, <2>1, HiddenSteps
  <1>10. ASSUME NEW p \in Procs,
                \/ \E call \in {c \in Calls : c.kind \in CallKinds} : Start(p, call)
                \/ \E r \in Rejections : LeaseCommit(p, r)
                \/ Acquire(p) \/ Crash(p) \/ CrashTearing(p)
         PROVE  [Slot!SlotNext]_(Slot!slotVars)
    <2> HIDE DEF active, receipt
    <2> QED BY <1>1, <1>6, <1>10, HiddenSteps
  <1> QED BY <1>8, <1>9, <1>10 DEF GateNext

\* The gate implements the one-shot rejection slot.
THEOREM GateImplementsSlot == GateSpec => ImplementsSlot
  <1>1. GateInit => Slot!SlotInit
    BY DEF GateInit, Slot!SlotInit, InEffect
  <1> QED BY <1>1, SlotStep, GateInvariant, PTL
             DEF GateSpec, ImplementsSlot, Slot!SlotSpec
=============================================================================
