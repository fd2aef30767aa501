--------------------------- MODULE AttemptJournal ---------------------------
(***************************************************************************)
(* The fresh-only journal of a registered campaign attempt,                *)
(* v072_registered_campaign_attempt_journal_v1.py, driven by the runner in *)
(* scripts/run_v072_registered_campaign.py: main.                          *)
(*                                                                         *)
(* A file is written to a temporary name, linked to its own and the        *)
(* temporary one unlinked; a process may die between any two of these, and *)
(* an exception may be raised there, which the runner catches and records. *)
(* Append n writes at most one object (the several objects of one event    *)
(* are treated alike) and then its event.                                  *)
(***************************************************************************)
EXTENDS Naturals, FiniteSets, Sequences, SequencesExt, Functions

CONSTANTS
    Runners,          \* processes that execute main, one after a crash included
    Count,            \* EXPECTED_OCCURRENCE_COUNT
    MaxCheckpoints    \* bound: direct checkpoints in a behaviour

ASSUME BoundsAreNumbers == Count \in Nat \ {0} /\ MaxCheckpoints \in Nat

VARIABLES
    directory,   \* the attempt's directory: "absent", "bare" or "ready"
    disk,        \* the files in it: name -> "temp", "linked" or "clean"
    content,     \* what each event file says, by append
    output,      \* the campaign output has been published
    pc,          \* what each runner is doing
    writer,      \* each runner's AttemptJournalWriterV1
    acked,       \* the appends that have returned, in order
    executed,    \* the occurrences executed
    torn,        \* a file was left half written, or an append unfinished
    checkpoints

diskVars == <<directory, disk, content, output>>
vars == <<diskVars, pc, writer, acked, executed, torn, checkpoints>>

Manifest == <<"manifest", 0>>
Object(n) == <<"object", n>>
Event(n) == <<"event", n>>

TerminalKinds == {"OUTPUT_PUBLISHED", "CAUGHT_FAILURE"}
HasObjects(kind) == kind \notin {"SOURCE_REPLAY_BOUND", "OUTPUT_PUBLISHED"}

NewWriter ==
    [seq |-> 0, previous |-> 0, active |-> FALSE, completed |-> 0,
     bound |-> FALSE, computed |-> FALSE, terminal |-> FALSE,
     append |-> 0, file |-> Manifest]

AttemptInit ==
    /\ directory = "absent" /\ disk = <<>> /\ content = <<>> /\ output = FALSE
    /\ pc = [p \in Runners |-> "idle"]
    /\ writer = [p \in Runners |-> NewWriter]
    /\ acked = <<>> /\ executed = 0 /\ torn = FALSE /\ checkpoints = 0

Goto(p, s) == pc' = [pc EXCEPT ![p] = s]

-----------------------------------------------------------------------------
(* Opening: AttemptJournalWriterV1.__init__                                *)

\* main refuses an existing output, the writer an existing attempt.
Start(p) ==
    /\ pc[p] = "idle"
    /\ Goto(p, IF output \/ directory # "absent" THEN "ended" ELSE "making")
    /\ UNCHANGED <<diskVars, writer, acked, executed, torn, checkpoints>>

\* Mutant: mkdir(exist_ok=True).
Mkdir_ExistOk(p) ==
    /\ pc[p] = "making"
    /\ directory' = IF directory = "absent" THEN "bare" ELSE directory
    /\ Goto(p, "subdirs")
    /\ UNCHANGED <<disk, content, output, writer, acked, executed, torn, checkpoints>>

\* attempt.mkdir, which fails if another runner was faster
Mkdir(p) ==
    /\ pc[p] = "making"
    /\ \/ directory = "absent" /\ directory' = "bare" /\ Goto(p, "subdirs")
       \/ directory # "absent" /\ Goto(p, "ended") /\ UNCHANGED directory
    /\ UNCHANGED <<disk, content, output, writer, acked, executed, torn, checkpoints>>

Subdirs(p) ==
    /\ pc[p] = "subdirs"
    /\ directory' = "ready"
    /\ Goto(p, "writing")
    /\ UNCHANGED <<disk, content, output, writer, acked, executed, torn, checkpoints>>

-----------------------------------------------------------------------------
(* _append                                                                 *)

\* The event of this append, as the writer's memory has it.
Body(p, kind) ==
    [kind |-> kind, seq |-> writer[p].seq, previous |-> writer[p].previous,
     count |-> writer[p].completed]

Begin(p, kind) ==
    LET n == Len(content) + 1 IN
    /\ content' = Append(content, Body(p, kind))
    /\ writer' = [writer EXCEPT ![p].append = n,
                                ![p].file = IF HasObjects(kind) THEN Object(n) ELSE Event(n)]
    /\ Goto(p, "writing")

Writing(p, state) ==
    /\ pc[p] = "writing"
    /\ IF writer[p].file \in DOMAIN disk THEN disk[writer[p].file] = state
       ELSE state = "absent"

Store(p, state) ==
    disk' = [f \in DOMAIN disk \cup {writer[p].file} |->
               IF f = writer[p].file THEN state ELSE disk[f]]

\* _atomic_write_new: the temporary file
WriteTemp(p) ==
    /\ Writing(p, "absent")
    /\ Store(p, "temp")
    /\ UNCHANGED <<directory, content, output, pc, writer, acked, executed, torn,
                   checkpoints>>

Link(p) ==
    /\ Writing(p, "temp")
    /\ Store(p, "linked")
    /\ UNCHANGED <<directory, content, output, pc, writer, acked, executed, torn,
                   checkpoints>>

\* Mutant: the chain is continued from the event before.
Recorded_StalePrevious(p, kind) ==
    [writer EXCEPT ![p].seq = @ + 1, ![p].bound = @ \/ kind = "SOURCE_REPLAY_BOUND"]

\* The writer's memory after an event of this kind.
Recorded(p, kind) ==
    [writer EXCEPT
       ![p].seq = @ + 1,
       ![p].previous = writer[p].append,
       ![p].bound = @ \/ kind = "SOURCE_REPLAY_BOUND",
       ![p].active = IF kind = "OCCURRENCE_STARTED" THEN TRUE
                     ELSE IF kind = "OCCURRENCE_COMPLETED" THEN FALSE ELSE @,
       ![p].completed = IF kind = "OCCURRENCE_COMPLETED" THEN @ + 1 ELSE @,
       ![p].computed = @ \/ kind = "CAMPAIGN_COMPUTATION_COMPLETED",
       ![p].terminal = @ \/ kind \in TerminalKinds]

\* The temporary name goes; then the next file, or the append returns.
Unlink(p) ==
    /\ Writing(p, "linked")
    /\ Store(p, "clean")
    /\ LET n == writer[p].append IN
       \/ /\ writer[p].file = Manifest
          /\ Begin(p, "ATTEMPT_OPENED")
          /\ UNCHANGED acked
       \/ /\ writer[p].file = Object(n)
          /\ writer' = [writer EXCEPT ![p].file = Event(n)]
          /\ UNCHANGED <<content, acked, pc>>
       \/ /\ writer[p].file = Event(n)
          /\ writer' = Recorded(p, content[n].kind)
          /\ acked' = Append(acked, n)
          /\ Goto(p, IF content[n].kind \in TerminalKinds THEN "ended" ELSE "open")
          /\ UNCHANGED content
    /\ UNCHANGED <<directory, output, executed, torn, checkpoints>>

-----------------------------------------------------------------------------
(* Verification: verify_attempt_journal_v1                                 *)

Published(f) == f \in DOMAIN disk /\ disk[f] \in {"linked", "clean"}
Appends == 1..Len(content)
EventsOnDisk == {n \in Appends : Published(Event(n))}

Replayed0 == [ok |-> TRUE, completed |-> 0, active |-> FALSE, bound |-> FALSE,
              computed |-> FALSE, closure |-> "UNCLOSED_ABRUPT"]

\* Whether the next event fits the state replayed so far.
Fits(s, e) ==
    CASE e.kind = "ATTEMPT_OPENED" -> e.seq = 0
      [] e.kind = "SOURCE_REPLAY_BOUND" -> e.seq = 1 /\ ~s.bound
      [] e.kind = "OCCURRENCE_STARTED" ->
           s.bound /\ ~s.active /\ e.count = s.completed /\ s.completed < Count
      [] e.kind = "DIRECT_CHECKPOINT_COMPLETED" -> s.active /\ e.count = s.completed
      [] e.kind = "OCCURRENCE_COMPLETED" -> s.active /\ e.count = s.completed
      [] e.kind = "CAMPAIGN_COMPUTATION_COMPLETED" ->
           s.completed = Count /\ ~s.active /\ ~s.computed
      [] e.kind = "OUTPUT_PUBLISHED" -> s.computed
      [] e.kind = "CAUGHT_FAILURE" -> TRUE

Replayed(s, e) ==
    [ok |-> s.ok /\ s.closure = "UNCLOSED_ABRUPT" /\ Fits(s, e),
     completed |-> IF e.kind = "OCCURRENCE_COMPLETED" THEN s.completed + 1 ELSE s.completed,
     active |-> IF e.kind = "OCCURRENCE_STARTED" THEN TRUE
                ELSE IF e.kind = "OCCURRENCE_COMPLETED" THEN FALSE ELSE s.active,
     bound |-> s.bound \/ e.kind = "SOURCE_REPLAY_BOUND",
     computed |-> s.computed \/ e.kind = "CAMPAIGN_COMPUTATION_COMPLETED",
     closure |-> IF e.kind \in TerminalKinds THEN e.kind ELSE s.closure]

\* No gap, no second file for a number, an unbroken chain from ATTEMPT_OPENED.
ChainIntact ==
    /\ EventsOnDisk # {}
    /\ {content[n].seq : n \in EventsOnDisk} = 0..(Cardinality(EventsOnDisk) - 1)
    /\ \A n \in EventsOnDisk :
          IF content[n].seq = 0 THEN content[n].kind = "ATTEMPT_OPENED" /\ content[n].previous = 0
          ELSE /\ content[n].previous \in EventsOnDisk
               /\ content[content[n].previous].seq + 1 = content[n].seq

\* No temporary or second link, and the objects are those the events name.
FilesIntact ==
    /\ directory = "ready" /\ Manifest \in DOMAIN disk
    /\ \A f \in DOMAIN disk : disk[f] = "clean"
    /\ {n \in Appends : Object(n) \in DOMAIN disk}
         = {n \in EventsOnDisk : HasObjects(content[n].kind)}

Replay ==
    LET EventAt(k) == CHOOSE n \in EventsOnDisk : content[n].seq = k
        state[k \in 0..Cardinality(EventsOnDisk)] ==
            IF k = 0 THEN Replayed0 ELSE Replayed(state[k - 1], content[EventAt(k - 1)])
    IN  state[Cardinality(EventsOnDisk)]

Verifies == FilesIntact /\ ChainIntact /\ Replay.ok
Closure == IF Verifies THEN Replay.closure ELSE "REFUSED"

-----------------------------------------------------------------------------
(* The runner                                                              *)

Open(p) == pc[p] = "open"
KeepAppend == UNCHANGED <<directory, disk, output, acked, torn>>

BindSource(p) ==
    /\ Open(p) /\ ~writer[p].bound
    /\ Begin(p, "SOURCE_REPLAY_BOUND")
    /\ KeepAppend /\ UNCHANGED <<executed, checkpoints>>

BeginOccurrence(p) ==
    /\ Open(p) /\ writer[p].bound /\ ~writer[p].active /\ writer[p].completed < Count
    /\ Begin(p, "OCCURRENCE_STARTED")
    /\ KeepAppend /\ UNCHANGED <<executed, checkpoints>>

CommitCheckpoint(p) ==
    /\ Open(p) /\ writer[p].active
    /\ checkpoints < MaxCheckpoints /\ checkpoints' = checkpoints + 1
    /\ Begin(p, "DIRECT_CHECKPOINT_COMPLETED")
    /\ KeepAppend /\ UNCHANGED executed

\* The occurrence has been executed.
CompleteOccurrence(p) ==
    /\ Open(p) /\ writer[p].active
    /\ executed' = executed + 1
    /\ Begin(p, "OCCURRENCE_COMPLETED")
    /\ KeepAppend /\ UNCHANGED checkpoints

CommitComputation(p) ==
    /\ Open(p) /\ ~writer[p].computed
    /\ writer[p].completed = Count /\ ~writer[p].active
    /\ Begin(p, "CAMPAIGN_COMPUTATION_COMPLETED")
    /\ KeepAppend /\ UNCHANGED <<executed, checkpoints>>

\* The journal is verified before the output is published.
PublishOutput(p) ==
    /\ Open(p) /\ writer[p].computed /\ ~output
    /\ IF Verifies THEN output' = TRUE /\ UNCHANGED pc
       ELSE Goto(p, "failing") /\ UNCHANGED output
    /\ UNCHANGED <<directory, disk, content, writer, acked, executed, torn, checkpoints>>

\* Mutant: the event does not wait for the output file.
CommitPublished_Early(p) ==
    /\ Open(p) /\ writer[p].computed
    /\ Begin(p, "OUTPUT_PUBLISHED")
    /\ KeepAppend /\ UNCHANGED <<executed, checkpoints>>

CommitPublished(p) ==
    /\ Open(p) /\ writer[p].computed /\ output
    /\ Begin(p, "OUTPUT_PUBLISHED")
    /\ KeepAppend /\ UNCHANGED <<executed, checkpoints>>

\* except BaseException: the failure is recorded.
CommitFailure(p) ==
    /\ pc[p] = "failing"
    /\ Begin(p, "CAUGHT_FAILURE")
    /\ KeepAppend /\ UNCHANGED <<executed, checkpoints>>

\* The computation raises between two appends.
ComputationRaises(p) ==
    /\ Open(p)
    /\ Goto(p, "failing")
    /\ UNCHANGED <<diskVars, writer, acked, executed, torn, checkpoints>>

\* An exception inside an append: the finally clause unlinks the temporary
\* name.  While the writer is being constructed, or a failure is being
\* recorded, nobody records this one.
AppendRaises(p) ==
    /\ pc[p] = "writing"
    /\ LET w == writer[p] IN
       /\ disk' = CASE Writing(p, "temp") -> [f \in DOMAIN disk \ {w.file} |-> disk[f]]
                    [] Writing(p, "linked") -> [disk EXCEPT ![w.file] = "clean"]
                    [] OTHER -> disk
       /\ Goto(p, IF w.seq = 0 \/ content[w.append].kind = "CAUGHT_FAILURE"
                  THEN "ended" ELSE "failing")
    /\ torn' = TRUE
    /\ UNCHANGED <<directory, content, output, writer, acked, executed, checkpoints>>

Crash(p) ==
    /\ pc[p] \notin {"idle", "ended", "dead"}
    /\ Goto(p, "dead")
    /\ torn' = (torn \/ pc[p] = "writing")
    /\ UNCHANGED <<diskVars, writer, acked, executed, checkpoints>>

-----------------------------------------------------------------------------
(* Specification                                                           *)

\* Every runner is gone.
Finished == (\A p \in Runners : pc[p] \in {"ended", "dead"}) /\ UNCHANGED vars

AttemptNext ==
    \/ \E p \in Runners :
          \/ Start(p) \/ Mkdir(p) \/ Subdirs(p)
          \/ WriteTemp(p) \/ Link(p) \/ Unlink(p)
          \/ BindSource(p) \/ BeginOccurrence(p) \/ CommitCheckpoint(p)
          \/ CompleteOccurrence(p) \/ CommitComputation(p)
          \/ PublishOutput(p) \/ CommitPublished(p) \/ CommitFailure(p)
          \/ ComputationRaises(p) \/ AppendRaises(p) \/ Crash(p)
    \/ Finished

AttemptSpec == AttemptInit /\ [][AttemptNext]_vars

-----------------------------------------------------------------------------
(* Properties                                                              *)

\* One attempt has one writer: of two runners that found no attempt only one
\* gets past the mkdir, and nobody appends to an attempt that was left behind.
SingleWriter ==
    \A p, q \in Runners :
        pc[p] \in {"subdirs", "writing", "open", "failing"} /\ p # q
          => pc[q] \in {"idle", "making", "ended", "dead"} /\ writer[q].seq = 0

\* The durable prefix: every append that has returned is on disk, with its
\* objects, under its number and chained to the one before, whatever raised
\* or died later.
AckedPrefixIntact ==
    \A k \in 1..Len(acked) :
        LET n == acked[k] IN
        /\ Event(n) \in DOMAIN disk /\ disk[Event(n)] = "clean"
        /\ HasObjects(content[n].kind) => Published(Object(n))
        /\ content[n].seq = k - 1
        /\ content[n].previous = (IF k = 1 THEN 0 ELSE acked[k - 1])

\* A journal between two appends verifies, with the closure of its last event,
\* unless an append was cut short: the verifier refuses no honest attempt.  Cut
\* short or not, what had been acknowledged is still there.
HonestVerifies ==
    /\ AckedPrefixIntact
    /\ acked # <<>> /\ ~torn /\ (\A p \in Runners : pc[p] # "writing") =>
         /\ Verifies
         /\ LET kind == content[Last(acked)].kind IN
            Closure = IF kind \in TerminalKinds THEN kind ELSE "UNCLOSED_ABRUPT"

\* What the verifier accepts is true: the events it read are those that
\* returned, but for at most a last one; the occurrences it counts have been
\* executed; and an attempt it calls published has its output and all of its
\* occurrences.  Nothing it read was left by a cut-short append: every object
\* on disk belongs to an event.
VerdictTruthful ==
    Verifies =>
        /\ \A n \in Appends : Object(n) \in DOMAIN disk => Event(n) \in DOMAIN disk
        /\ Range(acked) \subseteq EventsOnDisk
        /\ Cardinality(EventsOnDisk) <= Len(acked) + 1
        /\ Replay.completed <= executed
        /\ Closure = "OUTPUT_PUBLISHED" => output /\ Replay.completed = Count

\* "The journal preserves immutable byte prefixes and caught failures": an
\* attempt whose caught failure was recorded verifies as such.  It does not
\* when the failure struck inside an append, between an object and its event
\* or between an event's link and the writer's own count.
CaughtFailurePreserved ==
    acked # <<>> /\ content[Last(acked)].kind = "CAUGHT_FAILURE"
        => Closure = "CAUGHT_FAILURE"
=============================================================================
