--------------------------- MODULE CacheIsolation ---------------------------
(***************************************************************************)
(* The writer-preferring, reentrant isolation of the exact Bernoulli       *)
(* caches: _ExactBernoulliCacheIsolationV1 in                              *)
(* sequential_bernoulli_acquisition_v1.py.                                 *)
(*                                                                         *)
(* Every "with self._condition" block is one atomic step, except that      *)
(* Condition.wait() gives the lock up: a thread that waits is asleep until *)
(* a notify_all() makes it awake, and an awake thread evaluates its        *)
(* predicate again in a step of its own.  The context managers a thread    *)
(* is inside of are its stack of frames.                                   *)
(***************************************************************************)
EXTENDS Integers, FiniteSets, Sequences

CONSTANTS
    Threads,        \* the threads of the process
    NoThread,       \* writer_thread_id when it is None
    Interruptible,  \* the threads in which a signal handler may raise
    MaxFrames       \* bound: how deep one thread nests the context managers

ASSUME ThreadsFinite == IsFiniteSet(Threads)
ASSUME NoThreadIsNone == NoThread \notin Threads
ASSUME InterruptibleThreads == Interruptible \subseteq Threads
ASSUME MaxFramesNat == MaxFrames \in Nat

VARIABLES
    active_readers,     \* self._active_readers
    waiting_writers,    \* self._waiting_writers
    writer_thread_id,   \* self._writer_thread_id
    writer_depth,       \* self._writer_depth
    reader_depth,       \* self._local.reader_depth, one per thread
    frames,             \* the context managers each thread has entered
    waiting,            \* where each thread is with Condition.wait()
    raised              \* TRUE once an internal consistency check has raised

isolationVars == <<active_readers, waiting_writers, writer_thread_id,
                   writer_depth, reader_depth, frames, waiting, raised>>

FrameKinds == {"primary", "nested", "writer_owned", "epoch"}
WaitStates == {"running", "reader_asleep", "reader_awake",
               "writer_asleep", "writer_awake"}

IsolationInit ==
    /\ active_readers = 0
    /\ waiting_writers = 0
    /\ writer_thread_id = NoThread
    /\ writer_depth = 0
    /\ reader_depth = [t \in Threads |-> 0]
    /\ frames = [t \in Threads |-> <<>>]
    /\ waiting = [t \in Threads |-> "running"]
    /\ raised = FALSE

-----------------------------------------------------------------------------
(* Helpers                                                                 *)

\* self._condition.notify_all(), for the threads that wait[t] says sleep.
Notified(wait) ==
    [t \in Threads |-> CASE wait[t] = "reader_asleep" -> "reader_awake"
                         [] wait[t] = "writer_asleep" -> "writer_awake"
                         [] OTHER -> wait[t]]

Push(t, kind) == frames' = [frames EXCEPT ![t] = Append(@, kind)]
Popped(f) == SubSeq(f, 1, Len(f) - 1)
Pop(t) == frames' = [frames EXCEPT ![t] = Popped(@)]
Top(t) == frames[t][Len(frames[t])]
InFrame(t, kinds) == frames[t] # <<>> /\ Top(t) \in kinds

\* Mutant: readers do not give way to waiting writers.
ReaderBlocked_NoPreference == writer_thread_id # NoThread

\* Mutant: a writer does not wait for the active readers.
WriterBlocked_IgnoresReaders == writer_thread_id # NoThread

\* The predicates of the two wait loops.
ReaderBlocked == writer_thread_id # NoThread \/ waiting_writers > 0
WriterBlocked == writer_thread_id # NoThread \/ active_readers # 0

\* t runs client code and may open one more context manager.
MayEnter(t) == waiting[t] = "running" /\ Len(frames[t]) < MaxFrames

-----------------------------------------------------------------------------
(* registered_user()                                                       *)

\* The writer calls a registered facade inside its own epoch.
EnterWriterOwned(t) ==
    /\ MayEnter(t)
    /\ writer_thread_id = t
    /\ Push(t, "writer_owned")
    /\ UNCHANGED <<active_readers, waiting_writers, writer_thread_id,
                   writer_depth, reader_depth, waiting, raised>>

\* Mutant: the nested entry does not count.
EnterNested_NotCounted(t) ==
    /\ MayEnter(t)
    /\ writer_thread_id # t
    /\ reader_depth[t] > 0
    /\ Push(t, "nested")
    /\ UNCHANGED <<active_readers, waiting_writers, writer_thread_id,
                   writer_depth, reader_depth, waiting, raised>>

\* A thread that is a reader already never waits.
EnterNested(t) ==
    /\ MayEnter(t)
    /\ writer_thread_id # t
    /\ reader_depth[t] > 0
    /\ reader_depth' = [reader_depth EXCEPT ![t] = @ + 1]
    /\ Push(t, "nested")
    /\ UNCHANGED <<active_readers, waiting_writers, writer_thread_id,
                   writer_depth, waiting, raised>>

\* A first-level reader evaluates its wait predicate, on arrival or awake.
EnterPrimary(t) ==
    /\ \/ MayEnter(t) /\ writer_thread_id # t /\ reader_depth[t] = 0
       \/ waiting[t] = "reader_awake"
    /\ ~ReaderBlocked
    /\ active_readers' = active_readers + 1
    /\ reader_depth' = [reader_depth EXCEPT ![t] = 1]
    /\ waiting' = [waiting EXCEPT ![t] = "running"]
    /\ Push(t, "primary")
    /\ UNCHANGED <<waiting_writers, writer_thread_id, writer_depth, raised>>

ReaderWaits(t) ==
    /\ \/ MayEnter(t) /\ writer_thread_id # t /\ reader_depth[t] = 0
       \/ waiting[t] = "reader_awake"
    /\ ReaderBlocked
    /\ waiting' = [waiting EXCEPT ![t] = "reader_asleep"]
    /\ UNCHANGED <<active_readers, waiting_writers, writer_thread_id,
                   writer_depth, reader_depth, frames, raised>>

\* The finally block: a writer-owned call leaves nothing behind.
LeaveWriterOwned(t) ==
    /\ waiting[t] = "running"
    /\ InFrame(t, {"writer_owned"})
    /\ Pop(t)
    /\ UNCHANGED <<active_readers, waiting_writers, writer_thread_id,
                   writer_depth, reader_depth, waiting, raised>>

\* The finally block of a nested or a primary reader, its two internal
\* checks included.
LeaveReader(t) ==
    /\ waiting[t] = "running"
    /\ InFrame(t, {"primary", "nested"})
    /\ Pop(t)
    /\ IF reader_depth[t] <= 0
       THEN /\ raised' = TRUE
            /\ UNCHANGED <<active_readers, reader_depth, waiting>>
       ELSE /\ reader_depth' = [reader_depth EXCEPT ![t] = @ - 1]
            /\ \/ /\ Top(t) = "nested"
                  /\ UNCHANGED <<active_readers, waiting, raised>>
               \/ /\ Top(t) = "primary" /\ reader_depth[t] # 1
                  /\ raised' = TRUE
                  /\ UNCHANGED <<active_readers, waiting>>
               \/ /\ Top(t) = "primary" /\ reader_depth[t] = 1
                  /\ active_readers' = active_readers - 1
                  /\ waiting' = Notified(waiting)
                  /\ UNCHANGED raised
    /\ UNCHANGED <<waiting_writers, writer_thread_id, writer_depth>>

-----------------------------------------------------------------------------
(* exclusive_epoch()                                                       *)

ReenterEpoch(t) ==
    /\ MayEnter(t)
    /\ writer_thread_id = t
    /\ writer_depth' = writer_depth + 1
    /\ Push(t, "epoch")
    /\ UNCHANGED <<active_readers, waiting_writers, writer_thread_id,
                   reader_depth, waiting, raised>>

\* A thread that is a reader is refused: no step of this module upgrades it.
ArrivesForEpoch(t) ==
    MayEnter(t) /\ writer_thread_id # t /\ reader_depth[t] = 0

\* The predicate is false at once, or an awake writer finds it false; the
\* count of waiting writers is what it was before the thread arrived.
EnterEpoch(t) ==
    /\ \/ ArrivesForEpoch(t) /\ UNCHANGED waiting_writers
       \/ /\ waiting[t] = "writer_awake"
          /\ waiting_writers' = waiting_writers - 1
    /\ ~WriterBlocked
    /\ writer_thread_id' = t
    /\ writer_depth' = 1
    /\ waiting' = [waiting EXCEPT ![t] = "running"]
    /\ Push(t, "epoch")
    /\ UNCHANGED <<active_readers, reader_depth, raised>>

WriterWaits(t) ==
    /\ \/ ArrivesForEpoch(t) /\ waiting_writers' = waiting_writers + 1
       \/ waiting[t] = "writer_awake" /\ UNCHANGED waiting_writers
    /\ WriterBlocked
    /\ waiting' = [waiting EXCEPT ![t] = "writer_asleep"]
    /\ UNCHANGED <<active_readers, writer_thread_id, writer_depth,
                   reader_depth, frames, raised>>

LeaveEpoch(t) ==
    /\ waiting[t] = "running"
    /\ InFrame(t, {"epoch"})
    /\ Pop(t)
    /\ \/ /\ writer_thread_id # t
          /\ raised' = TRUE
          /\ UNCHANGED <<writer_thread_id, writer_depth, waiting>>
       \/ /\ writer_thread_id = t
          /\ writer_depth' = writer_depth - 1
          /\ IF writer_depth = 1
             THEN /\ writer_thread_id' = NoThread
                  /\ waiting' = Notified(waiting)
             ELSE UNCHANGED <<writer_thread_id, waiting>>
          /\ UNCHANGED raised
    /\ UNCHANGED <<active_readers, waiting_writers, reader_depth>>

-----------------------------------------------------------------------------
(* A signal handler raises inside Condition.wait(): the reader loop just   *)
(* unwinds, the writer loop runs its finally block, which does not notify. *)

WaitInterrupted(t) ==
    /\ t \in Interruptible
    /\ \/ /\ waiting[t] \in {"reader_asleep", "reader_awake"}
          /\ UNCHANGED waiting_writers
       \/ /\ waiting[t] \in {"writer_asleep", "writer_awake"}
          /\ waiting_writers' = waiting_writers - 1
    /\ waiting' = [waiting EXCEPT ![t] = "running"]
    /\ UNCHANGED <<active_readers, writer_thread_id, writer_depth,
                   reader_depth, frames, raised>>
-----------------------------------------------------------------------------
(* The isolation used by arbitrary clients                                 *)

IsolationStep(t) ==
    \/ EnterWriterOwned(t)
    \/ EnterNested(t)
    \/ EnterPrimary(t)
    \/ ReaderWaits(t)
    \/ LeaveWriterOwned(t)
    \/ LeaveReader(t)
    \/ ReenterEpoch(t)
    \/ EnterEpoch(t)
    \/ WriterWaits(t)
    \/ LeaveEpoch(t)
    \/ WaitInterrupted(t)

IsolationNext == \E t \in Threads : IsolationStep(t)

IsolationSpec == IsolationInit /\ [][IsolationNext]_isolationVars

\* What a thread must get round to (MathCache): awake threads run again, and
\* the work inside a context manager is finite, so that a thread that is again
\* and again in its d-th one leaves it.
Leaves(t, d) ==
    Len(frames[t]) = d /\ (LeaveReader(t) \/ LeaveEpoch(t) \/ LeaveWriterOwned(t))
AwakeRuns(t) ==
    /\ waiting[t] \in {"reader_awake", "writer_awake"}
    /\ (EnterPrimary(t) \/ ReaderWaits(t) \/ EnterEpoch(t) \/ WriterWaits(t))

-----------------------------------------------------------------------------
(* Properties                                                              *)

\* Types: no counter of the isolation goes below zero in any interleaving.
IsolationTypeOK ==
    /\ active_readers \in Nat
    /\ waiting_writers \in Nat
    /\ writer_thread_id \in Threads \cup {NoThread}
    /\ writer_depth \in Nat
    /\ reader_depth \in [Threads -> Nat]
    /\ frames \in [Threads -> Seq(FrameKinds)]
    /\ waiting \in [Threads -> WaitStates]
    /\ raised \in BOOLEAN

\* "One cold-cache epoch is the sole writer and excludes those readers": while
\* a thread owns the epoch no other thread is inside any context manager, so
\* no registered cache access of another thread overlaps an epoch.
EpochExcludesOthers ==
    writer_thread_id # NoThread =>
        \A t \in Threads \ {writer_thread_id} : frames[t] = <<>>

\* The shared counters agree with what the threads are doing: active readers
\* are the threads inside a primary frame, waiting writers the threads inside
\* the writers' wait loop (interrupted ones have taken themselves off).
CountersExact ==
    /\ active_readers = Cardinality({t \in Threads : reader_depth[t] > 0})
    /\ waiting_writers =
         Cardinality({t \in Threads :
                        waiting[t] \in {"writer_asleep", "writer_awake"}})

\* None of the internal checks of the two finally blocks (reader depth
\* underflow, primary reader out of order, writer ownership changed) can raise.
ChecksNeverRaise == ~raised

\* No wakeup is lost: a thread asleep in Condition.wait() still has a true
\* wait predicate, so whoever falsifies it notifies.  (It fails when a signal
\* may interrupt a waiting writer; see WaitInterrupted.)
NoLostWakeup ==
    \A t \in Threads :
        /\ waiting[t] = "reader_asleep" => ReaderBlocked
        /\ waiting[t] = "writer_asleep" => WriterBlocked

\* Writer preference makes writers live: whenever a writer waits, some epoch
\* is entered eventually, whatever the readers do, unless every waiting writer
\* is interrupted and goes away.
WaitingWriterServed ==
    waiting_writers > 0 ~> (writer_thread_id # NoThread \/ waiting_writers = 0)
=============================================================================
