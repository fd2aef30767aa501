------------------------ MODULE CacheIsolationProofs ------------------------
(***************************************************************************)
(* Safety of the cache isolation for any number of threads and any nesting *)
(* of its context managers, and of the accounting of MathCache, whose      *)
(* threads are clients of that isolation.                                  *)
(***************************************************************************)
EXTENDS MathCache, FiniteSetTheorems, SequenceTheorems, TLAPS

Readers == {t \in Threads : reader_depth[t] > 0}
Waiters == {t \in Threads : waiting[t] \in {"writer_asleep", "writer_awake"}}
EpochFrames(f) == {i \in 1..Len(f) : f[i] = "epoch"}

\* The stack of a reader of depth n: nested frames above one primary frame.
ReaderStack(f, n) ==
    /\ f \in Seq(FrameKinds)
    /\ Len(f) = n
    /\ f[1] = "primary"
    /\ \A i \in 2..Len(f) : f[i] = "nested"

\* The stack of a writer of depth n: an epoch frame at the bottom, n of them,
\* and frames of writer-owned calls.
WriterStack(f, n) ==
    /\ f \in Seq(FrameKinds)
    /\ Len(f) > 0
    /\ f[1] = "epoch"
    /\ \A i \in 1..Len(f) : f[i] \in {"epoch", "writer_owned"}
    /\ n = Cardinality(EpochFrames(f))

\* What the stack of a thread says about the depths.
FramesFit ==
    \A t \in Threads :
        /\ reader_depth[t] > 0 =>
             /\ writer_thread_id = NoThread
             /\ waiting[t] = "running"
             /\ ReaderStack(frames[t], reader_depth[t])
        /\ writer_thread_id = t =>
             /\ reader_depth[t] = 0
             /\ waiting[t] = "running"
             /\ WriterStack(frames[t], writer_depth)
        /\ reader_depth[t] = 0 /\ writer_thread_id # t => frames[t] = <<>>

IsolationInv ==
    /\ IsolationTypeOK
    /\ FramesFit
    /\ CountersExact
    /\ ChecksNeverRaise
-----------------------------------------------------------------------------
(* Lemmas                                                                  *)

\* Pushing and popping one frame, element by element.
LEMMA PushFrame ==
    ASSUME NEW f \in Seq(FrameKinds), NEW k \in FrameKinds
    PROVE  /\ Append(f, k) \in Seq(FrameKinds)
           /\ Len(Append(f, k)) = Len(f) + 1
           /\ \A i \in 1..Len(f) : Append(f, k)[i] = f[i]
           /\ Append(f, k)[Len(f) + 1] = k
  BY DEF FrameKinds

\* Popping the top frame, element by element.
LEMMA PopFrame ==
    ASSUME NEW f \in Seq(FrameKinds), f # <<>>
    PROVE  /\ Popped(f) \in Seq(FrameKinds)
           /\ Len(Popped(f)) = Len(f) - 1
           /\ \A i \in 1..Len(f) - 1 : Popped(f)[i] = f[i]
           /\ Len(f) > 0
           /\ f[Len(f)] \in FrameKinds
           /\ Len(f) = 1 => Popped(f) = <<>>
  <1>1. Len(f) \in Nat /\ Len(f) > 0
    BY EmptySeq
  <1>2. \A i \in 1..Len(f) : f[i] \in FrameKinds
    BY LenProperties
  <1>3. /\ Len(f) - 1 \in Int
        /\ \A i \in 1..Len(f) - 1 : f[i] \in FrameKinds
    BY <1>1, <1>2
  <1>4. /\ Popped(f) \in Seq(FrameKinds)
        /\ Len(Popped(f)) = IF 1 <= Len(f) - 1 THEN Len(f) - 1 - 1 + 1 ELSE 0
        /\ \A i \in 1..Len(f) - 1 - 1 + 1 : Popped(f)[i] = f[1 + i - 1]
    BY <1>3, SubSeqProperties DEF Popped
  <1>5. Len(Popped(f)) = Len(f) - 1
    <2>1. Len(Popped(f)) = IF 1 <= Len(f) - 1 THEN Len(f) - 1 - 1 + 1 ELSE 0
      BY <1>4
    <2> DEFINE m == Len(f)
               l == Len(Popped(f))
    <2>2. m \in Nat /\ m > 0 /\ l = IF 1 <= m - 1 THEN m - 1 - 1 + 1 ELSE 0
      BY <1>1, <2>1
    <2> HIDE DEF m, l
    <2>3. l = m - 1
      BY <2>2
    <2> QED BY <2>3 DEF l, m
  <1>6. \A i \in 1..Len(f) - 1 : Popped(f)[i] = f[i]
    <2> TAKE i \in 1..Len(f) - 1
    <2>1. i \in 1..Len(f) - 1 - 1 + 1 /\ 1 + i - 1 = i
      BY <1>1
    <2> QED BY <1>4, <2>1
  <1>7. Len(f) = 1 => Popped(f) = <<>>
    BY SubSeqEmpty DEF Popped
  <1> QED BY <1>1, <1>2, <1>4, <1>5, <1>6, <1>7

\* The number of epoch frames follows pushes and pops.
LEMMA EpochCount ==
    ASSUME NEW f \in Seq(FrameKinds)
    PROVE  /\ IsFiniteSet(EpochFrames(f))
           /\ Cardinality(EpochFrames(f)) \in Nat
           /\ \A k \in FrameKinds :
                Cardinality(EpochFrames(Append(f, k))) =
                  IF k = "epoch" THEN Cardinality(EpochFrames(f)) + 1
                                 ELSE Cardinality(EpochFrames(f))
           /\ f # <<>> =>
                Cardinality(EpochFrames(Popped(f))) =
                  IF f[Len(f)] = "epoch"
                  THEN Cardinality(EpochFrames(f)) - 1
                  ELSE Cardinality(EpochFrames(f))
  <1>1. IsFiniteSet(EpochFrames(f)) /\ Cardinality(EpochFrames(f)) \in Nat
    <2>1. IsFiniteSet(1..Len(f))
      BY FS_Interval, Len(f) \in Int
    <2>2. EpochFrames(f) \subseteq 1..Len(f)
      BY DEF EpochFrames
    <2> QED BY <2>1, <2>2, FS_Subset, FS_CardinalityType
  <1>2. ASSUME NEW k \in FrameKinds
        PROVE  Cardinality(EpochFrames(Append(f, k))) =
                 IF k = "epoch" THEN Cardinality(EpochFrames(f)) + 1
                                ELSE Cardinality(EpochFrames(f))
    <2>1. k = "epoch" =>
            EpochFrames(Append(f, k)) = EpochFrames(f) \cup {Len(f) + 1}
      BY PushFrame DEF EpochFrames
    <2>2. k # "epoch" => EpochFrames(Append(f, k)) = EpochFrames(f)
      BY PushFrame DEF EpochFrames
    <2>3. Len(f) + 1 \notin EpochFrames(f)
      BY DEF EpochFrames
    <2> QED BY <1>1, <2>1, <2>2, <2>3, FS_AddElement
  <1>3. ASSUME f # <<>>
        PROVE  Cardinality(EpochFrames(Popped(f))) =
                 IF f[Len(f)] = "epoch"
                 THEN Cardinality(EpochFrames(f)) - 1
                 ELSE Cardinality(EpochFrames(f))
    <2>1. EpochFrames(Popped(f)) = EpochFrames(f) \ {Len(f)}
      BY SMTT(30), <1>3, PopFrame DEF EpochFrames
    <2>2. Len(f) \in EpochFrames(f) <=> f[Len(f)] = "epoch"
      BY <1>3, PopFrame DEF EpochFrames
    <2> QED BY <1>1, <2>1, <2>2, FS_RemoveElement
  <1> QED BY <1>1, <1>2, <1>3
\* Pushing on and popping off a reader's stack.
LEMMA ReaderStackMoves ==
    ASSUME NEW f \in Seq(FrameKinds), NEW n \in Nat
    PROVE  /\ f = <<>> => ReaderStack(Append(f, "primary"), 1)
           /\ n > 0 /\ ReaderStack(f, n) =>
                /\ f # <<>>
                /\ ReaderStack(Append(f, "nested"), n + 1)
                /\ f[Len(f)] = (IF n = 1 THEN "primary" ELSE "nested")
                /\ n = 1 => Popped(f) = <<>>
                /\ n > 1 => ReaderStack(Popped(f), n - 1)
  <1>1. f = <<>> => ReaderStack(Append(f, "primary"), 1)
    BY PushFrame DEF ReaderStack, FrameKinds
  <1>2. ASSUME n > 0, ReaderStack(f, n)
        PROVE  /\ f # <<>>
               /\ ReaderStack(Append(f, "nested"), n + 1)
               /\ f[Len(f)] = (IF n = 1 THEN "primary" ELSE "nested")
               /\ n = 1 => Popped(f) = <<>>
               /\ n > 1 => ReaderStack(Popped(f), n - 1)
    <2>1. /\ Len(f) = n /\ f[1] = "primary"
          /\ \A i \in 2..Len(f) : f[i] = "nested"
      BY <1>2 DEF ReaderStack
    <2>2. f # <<>>
      BY <1>2, <2>1
    <2>3. ReaderStack(Append(f, "nested"), n + 1)
      BY <1>2, <2>1, PushFrame DEF ReaderStack, FrameKinds
    <2>4. f[Len(f)] = (IF n = 1 THEN "primary" ELSE "nested")
      BY <1>2, <2>1
    <2>5. n = 1 => Popped(f) = <<>>
      BY <2>1, <2>2, PopFrame
    <2>6. n > 1 => ReaderStack(Popped(f), n - 1)
      <3> HAVE n > 1
      <3>1. Popped(f) \in Seq(FrameKinds) /\ Len(Popped(f)) = n - 1
        BY <2>1, <2>2, PopFrame
      <3>2. \A i \in 1..Len(f) - 1 : Popped(f)[i] = f[i]
        BY <2>2, PopFrame
      <3>3. Popped(f)[1] = "primary"
        BY <2>1, <3>2
      <3>4. \A i \in 2..Len(Popped(f)) : Popped(f)[i] = "nested"
        BY <2>1, <3>1, <3>2
      <3> QED BY <3>1, <3>3, <3>4 DEF ReaderStack
    <2> QED BY <2>2, <2>3, <2>4, <2>5, <2>6
  <1> QED BY <1>1, <1>2

\* Pushing on and popping off the writer's stack.
LEMMA WriterStackMoves ==
    ASSUME NEW f \in Seq(FrameKinds), NEW n \in Nat
    PROVE  /\ f = <<>> => WriterStack(Append(f, "epoch"), 1)
           /\ WriterStack(f, n) =>
                /\ f # <<>>
                /\ n > 0
                /\ WriterStack(Append(f, "epoch"), n + 1)
                /\ WriterStack(Append(f, "writer_owned"), n)
                /\ f[Len(f)] \in {"epoch", "writer_owned"}
                /\ f[Len(f)] = "writer_owned" =>
                     WriterStack(Popped(f), n)
                /\ f[Len(f)] = "epoch" /\ n = 1 =>
                     Popped(f) = <<>>
                /\ f[Len(f)] = "epoch" /\ n > 1 =>
                     WriterStack(Popped(f), n - 1)
  <1>1. ASSUME f = <<>> PROVE WriterStack(Append(f, "epoch"), 1)
    <2>1. EpochFrames(f) = {}
      BY <1>1 DEF EpochFrames
    <2>2. Cardinality(EpochFrames(f)) = 0
      BY <2>1, FS_EmptySet
    <2>3. Cardinality(EpochFrames(Append(f, "epoch"))) = 0 + 1
      BY <2>2, EpochCount DEF FrameKinds
    <2> QED BY <1>1, <2>3, PushFrame DEF WriterStack, FrameKinds
  <1>2. ASSUME WriterStack(f, n)
        PROVE  /\ f # <<>>
               /\ n > 0
               /\ WriterStack(Append(f, "epoch"), n + 1)
               /\ WriterStack(Append(f, "writer_owned"), n)
               /\ f[Len(f)] \in {"epoch", "writer_owned"}
               /\ f[Len(f)] = "writer_owned" =>
                    WriterStack(Popped(f), n)
               /\ f[Len(f)] = "epoch" /\ n = 1 =>
                    Popped(f) = <<>>
               /\ f[Len(f)] = "epoch" /\ n > 1 =>
                    WriterStack(Popped(f), n - 1)
    <2>1. /\ Len(f) > 0 /\ Len(f) \in Nat /\ f[1] = "epoch"
          /\ \A i \in 1..Len(f) : f[i] \in {"epoch", "writer_owned"}
          /\ n = Cardinality(EpochFrames(f))
      BY <1>2 DEF WriterStack
    <2>2. f # <<>>
      BY <2>1
    <2>3. 1 \in EpochFrames(f) /\ IsFiniteSet(EpochFrames(f))
      <3>1. 1 \in 1..Len(f)
        BY <2>1
      <3>2. 1 \in EpochFrames(f)
        BY <2>1, <3>1 DEF EpochFrames
      <3> QED BY <3>2, EpochCount
    <2>4. n > 0
      BY <2>1, <2>3, FS_EmptySet
    <2>5. WriterStack(Append(f, "epoch"), n + 1)
      BY <2>1, EpochCount, PushFrame DEF WriterStack, FrameKinds
    <2>6. WriterStack(Append(f, "writer_owned"), n)
      BY <2>1, EpochCount, PushFrame DEF WriterStack, FrameKinds
    <2>7. f[Len(f)] \in {"epoch", "writer_owned"}
      BY <2>1
    <2>8. ASSUME Len(f) > 1
          PROVE  WriterStack(Popped(f),
                   IF f[Len(f)] = "epoch" THEN n - 1 ELSE n)
      <3>1. Popped(f) \in Seq(FrameKinds) /\ Len(Popped(f)) = Len(f) - 1
        BY <2>2, PopFrame
      <3>2. \A i \in 1..Len(f) - 1 : Popped(f)[i] = f[i]
        BY <2>2, PopFrame
      <3>3. Popped(f)[1] = "epoch" /\ Len(Popped(f)) > 0
        BY <2>1, <2>8, <3>1, <3>2
      <3>4. \A i \in 1..Len(Popped(f)) : Popped(f)[i] \in {"epoch", "writer_owned"}
        BY <2>1, <3>1, <3>2
      <3>5. Cardinality(EpochFrames(Popped(f))) =
              IF f[Len(f)] = "epoch" THEN n - 1 ELSE n
        BY <2>1, <2>2, EpochCount
      <3> QED BY <3>1, <3>3, <3>4, <3>5 DEF WriterStack
    <2>9. Len(f) = 1 => n = 1 /\ f[Len(f)] = "epoch"
                        /\ Popped(f) = <<>>
      <3> HAVE Len(f) = 1
      <3>1. EpochFrames(f) = {1}
        BY <2>1 DEF EpochFrames
      <3>2. n = 1
        BY <2>1, <3>1, FS_Singleton
      <3>3. Popped(f) = <<>>
        BY <2>2, PopFrame
      <3> QED BY <2>1, <3>2, <3>3
    <2>10. f[Len(f)] = "epoch" /\ Len(f) > 1 => n # 1
      <3> HAVE f[Len(f)] = "epoch" /\ Len(f) > 1
      <3>1. Len(f) \in EpochFrames(f) /\ Len(f) # 1
        BY <2>1 DEF EpochFrames
      <3> QED BY <2>1, <2>3, <3>1, FS_Singleton
    <2>l. Len(f) = 1 \/ Len(f) > 1
      <3>1. Len(f) \in Nat /\ Len(f) > 0
        BY <2>1
      <3> QED BY <3>1
    <2>11. f[Len(f)] = "writer_owned" => WriterStack(Popped(f), n)
      BY <2>l, <2>8, <2>9
    <2>12. f[Len(f)] = "epoch" /\ n = 1 => Popped(f) = <<>>
      BY <2>l, <2>9, <2>10
    <2>13. f[Len(f)] = "epoch" /\ n > 1 => WriterStack(Popped(f), n - 1)
      BY <2>l, <2>8, <2>9
    <2> QED BY <2>2, <2>4, <2>5, <2>6, <2>7, <2>11, <2>12, <2>13
  <1> QED BY <1>1, <1>2

\* Both counted sets are finite, and follow one thread joining or leaving.
LEMMA CountOne ==
    ASSUME NEW S \in SUBSET Threads, NEW t \in Threads
    PROVE  /\ IsFiniteSet(S)
           /\ Cardinality(S) \in Nat
           /\ Cardinality(S) = 0 <=> S = {}
           /\ t \notin S => Cardinality(S \cup {t}) = Cardinality(S) + 1
           /\ t \in S => /\ Cardinality(S \ {t}) = Cardinality(S) - 1
                         /\ Cardinality(S) > 0
  <1>1. IsFiniteSet(S)
    BY ThreadsFinite, FS_Subset
  <1>2. Cardinality(S) \in Nat /\ (Cardinality(S) = 0 <=> S = {})
    BY <1>1, FS_CardinalityType, FS_EmptySet
  <1>3. t \notin S => Cardinality(S \cup {t}) = Cardinality(S) + 1
    BY <1>1, FS_AddElement
  <1>4. t \in S => Cardinality(S \ {t}) = Cardinality(S) - 1
    BY <1>1, FS_RemoveElement
  <1> QED BY <1>1, <1>2, <1>3, <1>4

\* notify_all changes who is asleep, not who waits.
LEMMA NotifiedKeeps ==
    ASSUME NEW w \in [Threads -> WaitStates]
    PROVE  /\ Notified(w) \in [Threads -> WaitStates]
           /\ \A t \in Threads :
                /\ Notified(w)[t] = "running" <=> w[t] = "running"
                /\ Notified(w)[t] \in {"writer_asleep", "writer_awake"} <=>
                     w[t] \in {"writer_asleep", "writer_awake"}
                /\ Notified(w)[t] \notin {"reader_asleep", "writer_asleep"}
  BY DEF Notified, WaitStates

-----------------------------------------------------------------------------
(* The inductive invariant                                                 *)

\* The initial state satisfies the inductive invariant.
LEMMA IsolationInitInv == IsolationInit => IsolationInv
  <1> SUFFICES ASSUME IsolationInit PROVE IsolationInv
    OBVIOUS
  <1> USE DEF IsolationInit
  <1>1. IsolationTypeOK
    BY EmptySeq, NoThreadIsNone DEF IsolationTypeOK, WaitStates
  <1>2. FramesFit
    BY NoThreadIsNone DEF FramesFit
  <1>3. CountersExact
    <2>1. {t \in Threads : reader_depth[t] > 0} = {}
      OBVIOUS
    <2>2. {t \in Threads :
             waiting[t] \in {"writer_asleep", "writer_awake"}} = {}
      OBVIOUS
    <2> QED BY <2>1, <2>2, FS_EmptySet DEF CountersExact
  <1> QED BY <1>1, <1>2, <1>3 DEF IsolationInv, ChecksNeverRaise

\* Every step, one case per action, keeps the inductive invariant.
LEMMA IsolationStepInv ==
    IsolationInv /\ [IsolationNext]_isolationVars => IsolationInv'
  <1> SUFFICES ASSUME IsolationInv, [IsolationNext]_isolationVars
               PROVE  IsolationInv'
    OBVIOUS
  <1>0. /\ IsolationTypeOK /\ FramesFit /\ CountersExact /\ ChecksNeverRaise
    BY DEF IsolationInv
  <1>c. /\ active_readers = Cardinality(Readers)
        /\ waiting_writers = Cardinality(Waiters)
        /\ Readers \in SUBSET Threads /\ Waiters \in SUBSET Threads
    BY <1>0 DEF CountersExact, Readers, Waiters
  <1>e. \A t \in Threads :
          /\ waiting[t] # "running" => frames[t] = <<>> /\ reader_depth[t] = 0
          /\ frames[t] # <<>> => Len(frames[t]) > 0
          /\ Len(frames[t]) \in Nat
    BY <1>0, EmptySeq DEF FramesFit, IsolationTypeOK
  <1>r. \A t \in Threads : reader_depth[t] > 0 =>
          /\ writer_thread_id = NoThread /\ waiting[t] = "running"
          /\ ReaderStack(frames[t], reader_depth[t])
          /\ frames[t] # <<>> /\ writer_thread_id # t
          /\ Top(t) = IF reader_depth[t] = 1 THEN "primary" ELSE "nested"
    <2> SUFFICES ASSUME NEW t \in Threads, reader_depth[t] > 0
                 PROVE  <1>r!(t)!2
      OBVIOUS
    <2>1. frames[t] \in Seq(FrameKinds) /\ reader_depth[t] \in Nat
      BY <1>0 DEF IsolationTypeOK
    <2>2. /\ writer_thread_id = NoThread /\ waiting[t] = "running"
          /\ ReaderStack(frames[t], reader_depth[t])
      BY <1>0 DEF FramesFit
    <2> QED BY <2>1, <2>2, ReaderStackMoves, NoThreadIsNone DEF Top
  <1>w. \A t \in Threads : writer_thread_id = t =>
          /\ reader_depth[t] = 0 /\ waiting[t] = "running"
          /\ WriterStack(frames[t], writer_depth)
          /\ frames[t] # <<>> /\ writer_depth > 0
          /\ Top(t) \in {"epoch", "writer_owned"}
    <2> SUFFICES ASSUME NEW t \in Threads, writer_thread_id = t
                 PROVE  <1>w!(t)!2
      OBVIOUS
    <2>1. frames[t] \in Seq(FrameKinds) /\ writer_depth \in Nat
      BY <1>0 DEF IsolationTypeOK
    <2>2. /\ reader_depth[t] = 0 /\ waiting[t] = "running"
          /\ WriterStack(frames[t], writer_depth)
      BY <1>0 DEF FramesFit
    <2> QED BY <2>1, <2>2, WriterStackMoves DEF Top
  <1>i. \A t \in Threads :
          reader_depth[t] = 0 /\ writer_thread_id # t => frames[t] = <<>>
    BY <1>0 DEF FramesFit
  <1>u. CASE UNCHANGED isolationVars
    <2> USE <1>0, <1>u DEF isolationVars
    <2>1. IsolationTypeOK'
      BY DEF IsolationTypeOK
    <2>2. FramesFit'
      BY DEF FramesFit
    <2>3. CountersExact' /\ ChecksNeverRaise'
      BY DEF CountersExact, ChecksNeverRaise
    <2> QED BY <2>1, <2>2, <2>3 DEF IsolationInv
  <1>s. ASSUME NEW t \in Threads, IsolationStep(t) PROVE IsolationInv'
    <2>0. /\ frames[t] \in Seq(FrameKinds) /\ reader_depth[t] \in Nat
          /\ waiting[t] \in WaitStates /\ writer_depth \in Nat
      BY <1>0 DEF IsolationTypeOK
    <2>p. ASSUME NEW k \in FrameKinds, Push(t, k)
          PROVE  /\ frames' \in [Threads -> Seq(FrameKinds)]
                 /\ \A u \in Threads \ {t} : frames'[u] = frames[u]
                 /\ frames'[t] = Append(frames[t], k)
      BY <1>0, <2>0, <2>p, PushFrame DEF Push, IsolationTypeOK
    <2>q. ASSUME frames[t] # <<>>, Pop(t)
          PROVE  /\ frames' \in [Threads -> Seq(FrameKinds)]
                 /\ \A u \in Threads \ {t} : frames'[u] = frames[u]
                 /\ frames'[t] = Popped(frames[t])
      BY <1>0, <2>0, <2>q, PopFrame DEF Pop, IsolationTypeOK
    <2>o. \A S \in {Readers, Waiters} :
            /\ Cardinality(S) \in Nat
            /\ t \notin S => Cardinality(S \cup {t}) = Cardinality(S) + 1
            /\ t \in S => /\ Cardinality(S \ {t}) = Cardinality(S) - 1
                          /\ Cardinality(S) > 0
      BY <1>c, CountOne
    <2>1. CASE EnterWriterOwned(t)
      <3>1. /\ Push(t, "writer_owned") /\ writer_thread_id = t
            /\ UNCHANGED <<active_readers, waiting_writers, writer_thread_id,
                           writer_depth, reader_depth, waiting, raised>>
        BY <2>1 DEF EnterWriterOwned
      <3>p. /\ frames' \in [Threads -> Seq(FrameKinds)]
            /\ \A u \in Threads \ {t} : frames'[u] = frames[u]
            /\ frames'[t] = Append(frames[t], "writer_owned")
        BY <2>p, <3>1 DEF FrameKinds
      <3>2. IsolationTypeOK'
        BY <1>0, <3>p, <3>1 DEF IsolationTypeOK
      <3>3. FramesFit'
        <4> SUFFICES ASSUME NEW u \in Threads PROVE FramesFit!(u)'
          BY DEF FramesFit
        <4>1. CASE u = t
          <5>1. WriterStack(frames'[t], writer_depth)
            <6>1. WriterStack(frames[t], writer_depth)
              BY <1>w, <3>1
            <6>2. frames'[t] = Append(frames[t], "writer_owned")
              BY <3>p
            <6> QED BY <2>0, <6>1, <6>2, WriterStackMoves
          <5> QED BY <4>1, <1>w, <3>1, <5>1
        <4>2. CASE u # t
          BY <4>2, <1>0, <3>1, <3>p DEF FramesFit
        <4> QED BY <4>1, <4>2
      <3>4. CountersExact'
        BY <1>0, <3>1 DEF CountersExact
      <3> QED BY <1>0, <3>1, <3>2, <3>3, <3>4
         DEF IsolationInv, ChecksNeverRaise
    <2>2. CASE EnterNested(t)
      <3>1. /\ Push(t, "nested") /\ reader_depth[t] > 0
            /\ reader_depth' = [reader_depth EXCEPT ![t] = @ + 1]
            /\ UNCHANGED <<active_readers, waiting_writers, writer_thread_id,
                           writer_depth, waiting, raised>>
        BY <2>2 DEF EnterNested
      <3>p. /\ frames' \in [Threads -> Seq(FrameKinds)]
            /\ \A u \in Threads \ {t} : frames'[u] = frames[u]
            /\ frames'[t] = Append(frames[t], "nested")
        BY <2>p, <3>1 DEF FrameKinds
      <3>d. /\ reader_depth' \in [Threads -> Nat]
            /\ reader_depth'[t] = reader_depth[t] + 1
            /\ \A u \in Threads \ {t} : reader_depth'[u] = reader_depth[u]
        BY <1>0, <2>0, <3>1 DEF IsolationTypeOK
      <3>2. IsolationTypeOK'
        BY <1>0, <3>p, <3>d, <3>1 DEF IsolationTypeOK
      <3>3. FramesFit'
        <4> SUFFICES ASSUME NEW u \in Threads PROVE FramesFit!(u)'
          BY DEF FramesFit
        <4>1. CASE u = t
          <5>1. ReaderStack(frames'[t], reader_depth'[t])
            BY <1>r, <2>0, <3>1, <3>p, <3>d, ReaderStackMoves
          <5> QED BY <4>1, <1>r, <2>0, <3>1, <3>d, <5>1
        <4>2. CASE u # t
          BY <4>2, <1>0, <3>1, <3>p, <3>d DEF FramesFit
        <4> QED BY <4>1, <4>2
      <3>4. CountersExact'
        <4>1. Readers' = Readers
          BY <2>0, <3>1, <3>d DEF Readers
        <4> QED BY <1>c, <3>1, <4>1 DEF CountersExact, Readers, Waiters
      <3> QED BY <1>0, <3>1, <3>2, <3>3, <3>4
         DEF IsolationInv, ChecksNeverRaise
    <2>3. CASE EnterPrimary(t)
      <3>1. /\ Push(t, "primary") /\ writer_thread_id = NoThread
            /\ waiting[t] \in {"running", "reader_awake"}
            /\ active_readers' = active_readers + 1
            /\ reader_depth' = [reader_depth EXCEPT ![t] = 1]
            /\ waiting' = [waiting EXCEPT ![t] = "running"]
            /\ UNCHANGED <<waiting_writers, writer_thread_id, writer_depth,
                           raised>>
        BY <2>3 DEF EnterPrimary, ReaderBlocked, MayEnter
      <3>i. reader_depth[t] = 0 /\ frames[t] = <<>>
        BY <2>3, <1>e, <1>i, <3>1, NoThreadIsNone DEF EnterPrimary
      <3>p. /\ frames' \in [Threads -> Seq(FrameKinds)]
            /\ \A u \in Threads \ {t} : frames'[u] = frames[u]
            /\ frames'[t] = Append(frames[t], "primary")
        BY <2>p, <3>1 DEF FrameKinds
      <3>d. /\ reader_depth' \in [Threads -> Nat]
            /\ reader_depth'[t] = 1
            /\ \A u \in Threads \ {t} : reader_depth'[u] = reader_depth[u]
            /\ waiting' \in [Threads -> WaitStates]
            /\ waiting'[t] = "running"
            /\ \A u \in Threads \ {t} : waiting'[u] = waiting[u]
        BY <1>0, <2>0, <3>1 DEF IsolationTypeOK, WaitStates
      <3>2. IsolationTypeOK'
        BY <1>0, <3>p, <3>d, <3>1 DEF IsolationTypeOK
      <3>3. FramesFit'
        <4> SUFFICES ASSUME NEW u \in Threads PROVE FramesFit!(u)'
          BY DEF FramesFit
        <4>1. CASE u = t
          <5>1. ReaderStack(frames'[t], reader_depth'[t])
            <6>1. frames'[t] = Append(frames[t], "primary")
              BY <3>p
            <6>2. ReaderStack(Append(frames[t], "primary"), 1)
              BY <2>0, <3>i, ReaderStackMoves
            <6> QED BY <3>d, <6>1, <6>2
          <5> QED BY <4>1, <3>1, <3>d, <5>1, NoThreadIsNone
        <4>2. CASE u # t
          BY <4>2, <1>0, <3>1, <3>p, <3>d DEF FramesFit
        <4> QED BY <4>1, <4>2
      <3>4. CountersExact'
        <4>1. Readers' = Readers \cup {t} /\ t \notin Readers
          BY <3>i, <3>d DEF Readers
        <4>2. Waiters' = Waiters
          BY <3>1, <3>d DEF Waiters
        <4>3. active_readers' = Cardinality(Readers')
          BY <1>c, <3>1, <4>1, CountOne
        <4> QED BY <1>c, <3>1, <4>2, <4>3 DEF CountersExact, Readers, Waiters
      <3> QED BY <1>0, <3>1, <3>2, <3>3, <3>4
         DEF IsolationInv, ChecksNeverRaise
    <2>4. CASE ReaderWaits(t)
      <3>1. /\ waiting[t] \in {"running", "reader_awake"}
            /\ waiting' = [waiting EXCEPT ![t] = "reader_asleep"]
            /\ UNCHANGED <<active_readers, waiting_writers, writer_thread_id,
                           writer_depth, reader_depth, frames, raised>>
        BY <2>4 DEF ReaderWaits, MayEnter
      <3>i. reader_depth[t] = 0 /\ frames[t] = <<>> /\ writer_thread_id # t
        BY <2>4, <1>e, <1>i, <1>w, <3>1 DEF ReaderWaits
      <3>d. /\ waiting' \in [Threads -> WaitStates]
            /\ waiting'[t] = "reader_asleep"
            /\ \A u \in Threads \ {t} : waiting'[u] = waiting[u]
        BY <1>0, <3>1 DEF IsolationTypeOK, WaitStates
      <3>2. IsolationTypeOK'
        BY <1>0, <3>d, <3>1 DEF IsolationTypeOK
      <3>3. FramesFit'
        <4> SUFFICES ASSUME NEW u \in Threads PROVE FramesFit!(u)'
          BY DEF FramesFit
        <4>1. CASE u = t
          BY <4>1, <3>1, <3>i
        <4>2. CASE u # t
          BY <4>2, <1>0, <3>1, <3>d DEF FramesFit
        <4> QED BY <4>1, <4>2
      <3>4. CountersExact'
        <4>1. Waiters' = Waiters
          BY <3>1, <3>d DEF Waiters
        <4> QED BY <1>c, <3>1, <4>1 DEF CountersExact, Readers, Waiters
      <3> QED BY <1>0, <3>1, <3>2, <3>3, <3>4
         DEF IsolationInv, ChecksNeverRaise
    <2>5. CASE LeaveWriterOwned(t)
      <3>1. /\ Pop(t) /\ frames[t] # <<>> /\ Top(t) = "writer_owned"
            /\ UNCHANGED <<active_readers, waiting_writers, writer_thread_id,
                           writer_depth, reader_depth, waiting, raised>>
        BY <2>5 DEF LeaveWriterOwned, InFrame
      <3>i. writer_thread_id = t
        BY <2>0, <1>r, <1>i, <3>1
      <3>p. /\ frames' \in [Threads -> Seq(FrameKinds)]
            /\ \A u \in Threads \ {t} : frames'[u] = frames[u]
            /\ frames'[t] = Popped(frames[t])
        BY <2>q, <3>1
      <3>2. IsolationTypeOK'
        BY <1>0, <3>p, <3>1 DEF IsolationTypeOK
      <3>3. FramesFit'
        <4> SUFFICES ASSUME NEW u \in Threads PROVE FramesFit!(u)'
          BY DEF FramesFit
        <4>1. CASE u = t
          <5>1. WriterStack(frames'[t], writer_depth)
            BY <1>w, <2>0, <3>1, <3>i, <3>p, WriterStackMoves DEF Top
          <5> QED BY <4>1, <1>w, <3>1, <3>i, <5>1
        <4>2. CASE u # t
          BY <4>2, <1>0, <3>1, <3>p DEF FramesFit
        <4> QED BY <4>1, <4>2
      <3>4. CountersExact'
        BY <1>0, <3>1 DEF CountersExact
      <3> QED BY <1>0, <3>1, <3>2, <3>3, <3>4
         DEF IsolationInv, ChecksNeverRaise
    <2>6. CASE LeaveReader(t)
      <3>a. /\ Pop(t) /\ frames[t] # <<>> /\ Top(t) \in {"primary", "nested"}
        BY <2>6 DEF LeaveReader, InFrame
      <3>i. /\ reader_depth[t] > 0 /\ writer_thread_id # t
            /\ Top(t) = IF reader_depth[t] = 1 THEN "primary" ELSE "nested"
        BY <2>0, <1>r, <1>i, <1>w, <3>a
      <3>1. /\ reader_depth' = [reader_depth EXCEPT ![t] = @ - 1]
            /\ IF reader_depth[t] = 1
               THEN /\ active_readers' = active_readers - 1
                    /\ waiting' = Notified(waiting)
               ELSE UNCHANGED <<active_readers, waiting>>
            /\ UNCHANGED <<waiting_writers, writer_thread_id, writer_depth,
                           raised>>
        BY <2>0, <2>6, <3>i DEF LeaveReader
      <3>p. /\ frames' \in [Threads -> Seq(FrameKinds)]
            /\ \A u \in Threads \ {t} : frames'[u] = frames[u]
            /\ frames'[t] = Popped(frames[t])
        BY <2>q, <3>a
      <3>d. /\ reader_depth' \in [Threads -> Nat]
            /\ reader_depth'[t] = reader_depth[t] - 1
            /\ \A u \in Threads \ {t} : reader_depth'[u] = reader_depth[u]
        BY <1>0, <2>0, <3>1, <3>i DEF IsolationTypeOK
      <3>n. /\ waiting' \in [Threads -> WaitStates]
            /\ \A u \in Threads :
                 /\ waiting'[u] = "running" <=> waiting[u] = "running"
                 /\ waiting'[u] \in {"writer_asleep", "writer_awake"} <=>
                      waiting[u] \in {"writer_asleep", "writer_awake"}
        BY ZenonT(30), <1>0, <3>1, NotifiedKeeps DEF IsolationTypeOK
      <3>c. /\ reader_depth[t] = 1 => Readers' = Readers \ {t}
            /\ reader_depth[t] # 1 => Readers' = Readers
            /\ t \in Readers /\ Waiters' = Waiters
        BY <2>0, <3>d, <3>i, <3>n DEF Readers, Waiters
      <3>k. active_readers' = Cardinality(Readers') /\ active_readers' \in Nat
        <4>1. CASE reader_depth[t] = 1
          <5>1. active_readers' = active_readers - 1 /\ Readers' = Readers \ {t}
            BY <4>1, <3>1, <3>c
          <5>2. /\ Cardinality(Readers) \in Nat /\ Cardinality(Readers) > 0
                /\ Cardinality(Readers \ {t}) = Cardinality(Readers) - 1
            BY <2>o, <3>c
          <5> QED BY <1>c, <5>1, <5>2
        <4>2. CASE reader_depth[t] # 1
          BY <4>2, <1>c, <2>o, <3>1, <3>c
        <4> QED BY <4>1, <4>2
      <3>2. IsolationTypeOK'
        BY <1>0, <3>1, <3>p, <3>d, <3>n, <3>k DEF IsolationTypeOK
      <3>3. FramesFit'
        <4> SUFFICES ASSUME NEW u \in Threads PROVE FramesFit!(u)'
          BY DEF FramesFit
        <4>1. CASE u = t
          <5>1. CASE reader_depth[t] = 1
            BY <4>1, <5>1, <1>r, <2>0, <3>1, <3>i, <3>p, <3>d, ReaderStackMoves
          <5>2. CASE reader_depth[t] # 1
            <6>1. ReaderStack(frames'[t], reader_depth'[t])
              BY <5>2, <1>r, <2>0, <3>i, <3>p, <3>d, ReaderStackMoves
            <6> QED BY <4>1, <5>2, <1>r, <2>0, <3>1, <3>i, <3>d, <3>n, <6>1
          <5> QED BY <5>1, <5>2
        <4>2. CASE u # t
          BY <4>2, <1>0, <3>1, <3>p, <3>d, <3>n DEF FramesFit
        <4> QED BY <4>1, <4>2
      <3>4. CountersExact'
        BY <1>c, <3>1, <3>c, <3>k DEF CountersExact, Readers, Waiters
      <3> QED BY <1>0, <3>1, <3>2, <3>3, <3>4
         DEF IsolationInv, ChecksNeverRaise
    <2>7. CASE ReenterEpoch(t)
      <3>1. /\ Push(t, "epoch") /\ writer_thread_id = t
            /\ writer_depth' = writer_depth + 1
            /\ UNCHANGED <<active_readers, waiting_writers, writer_thread_id,
                           reader_depth, waiting, raised>>
        BY <2>7 DEF ReenterEpoch
      <3>p. /\ frames' \in [Threads -> Seq(FrameKinds)]
            /\ \A u \in Threads \ {t} : frames'[u] = frames[u]
            /\ frames'[t] = Append(frames[t], "epoch")
        BY <2>p, <3>1 DEF FrameKinds
      <3>2. IsolationTypeOK'
        BY <1>0, <3>p, <3>1 DEF IsolationTypeOK
      <3>3. FramesFit'
        <4> SUFFICES ASSUME NEW u \in Threads PROVE FramesFit!(u)'
          BY DEF FramesFit
        <4>1. CASE u = t
          <5>1. WriterStack(frames'[t], writer_depth')
            <6>1. WriterStack(frames[t], writer_depth)
              BY <1>w, <3>1
            <6>2. frames'[t] = Append(frames[t], "epoch")
              BY <3>p
            <6>3. WriterStack(frames'[t], writer_depth + 1)
              BY <2>0, <6>1, <6>2, WriterStackMoves
            <6> QED BY <3>1, <6>3
          <5> QED BY <4>1, <1>w, <3>1, <5>1
        <4>2. CASE u # t
          BY <4>2, <1>0, <3>1, <3>p DEF FramesFit
        <4> QED BY <4>1, <4>2
      <3>4. CountersExact'
        BY <1>0, <3>1 DEF CountersExact
      <3> QED BY <1>0, <3>1, <3>2, <3>3, <3>4
         DEF IsolationInv, ChecksNeverRaise
    <2>8. CASE EnterEpoch(t)
      <3>1. /\ Push(t, "epoch") /\ writer_thread_id = NoThread
            /\ active_readers = 0
            /\ writer_thread_id' = t /\ writer_depth' = 1
            /\ waiting' = [waiting EXCEPT ![t] = "running"]
            /\ UNCHANGED <<active_readers, reader_depth, raised>>
        BY <2>8 DEF EnterEpoch, WriterBlocked
      <3>2a. \/ waiting[t] = "running" /\ waiting_writers' = waiting_writers
             \/ /\ waiting[t] = "writer_awake"
                /\ waiting_writers' = waiting_writers - 1
        BY <2>8 DEF EnterEpoch, ArrivesForEpoch, MayEnter
      <3>e. Readers = {}
        BY <1>c, <3>1, CountOne
      <3>i. (\A u \in Threads : reader_depth[u] = 0) /\ frames[t] = <<>>
        BY <1>0, <1>i, <3>1, <3>e, NoThreadIsNone DEF Readers, IsolationTypeOK
      <3>p. /\ frames' \in [Threads -> Seq(FrameKinds)]
            /\ \A u \in Threads \ {t} : frames'[u] = frames[u]
            /\ frames'[t] = Append(frames[t], "epoch")
        BY <2>p, <3>1 DEF FrameKinds
      <3>d. /\ waiting' \in [Threads -> WaitStates]
            /\ waiting'[t] = "running"
            /\ \A u \in Threads \ {t} : waiting'[u] = waiting[u]
        BY <1>0, <3>1 DEF IsolationTypeOK, WaitStates
      <3>c. /\ waiting[t] = "running" => Waiters' = Waiters
            /\ waiting[t] = "writer_awake" => Waiters' = Waiters \ {t}
                                              /\ t \in Waiters
        BY <3>d DEF Waiters
      <3>k. waiting_writers' = Cardinality(Waiters') /\ waiting_writers' \in Nat
        <4>1. CASE waiting[t] = "running"
          BY <4>1, <1>c, <2>o, <3>2a, <3>c
        <4>2. CASE waiting[t] = "writer_awake"
          BY <4>2, <1>c, <2>o, <3>2a, <3>c
        <4> QED BY <3>2a, <4>1, <4>2
      <3>2. IsolationTypeOK'
        BY <1>0, <3>p, <3>d, <3>1, <3>k DEF IsolationTypeOK
      <3>3. FramesFit'
        <4> SUFFICES ASSUME NEW u \in Threads PROVE FramesFit!(u)'
          BY DEF FramesFit
        <4>1. CASE u = t
          <5>1. WriterStack(frames'[t], writer_depth')
            BY <2>0, <3>1, <3>i, <3>p, WriterStackMoves
          <5> QED BY <4>1, <3>1, <3>d, <3>i, <5>1
        <4>2. CASE u # t
          <5>1. frames[u] = <<>> /\ frames'[u] = frames[u]
            BY <4>2, <1>i, <3>1, <3>i, <3>p, NoThreadIsNone
          <5> QED BY <4>2, <3>1, <3>i, <5>1
        <4> QED BY <4>1, <4>2
      <3>4. CountersExact'
        BY <1>c, <3>1, <3>k DEF CountersExact, Readers, Waiters
      <3> QED BY <1>0, <3>1, <3>2, <3>3, <3>4
         DEF IsolationInv, ChecksNeverRaise
    <2>9. CASE WriterWaits(t)
      <3>1. /\ waiting' = [waiting EXCEPT ![t] = "writer_asleep"]
            /\ UNCHANGED <<active_readers, writer_thread_id, writer_depth,
                           reader_depth, frames, raised>>
        BY <2>9 DEF WriterWaits
      <3>2a. \/ waiting[t] = "running" /\ waiting_writers' = waiting_writers + 1
             \/ /\ waiting[t] = "writer_awake"
                /\ waiting_writers' = waiting_writers
        BY <2>9 DEF WriterWaits, ArrivesForEpoch, MayEnter
      <3>i. reader_depth[t] = 0 /\ frames[t] = <<>> /\ writer_thread_id # t
        BY <2>9, <1>e, <1>i, <1>w DEF WriterWaits, ArrivesForEpoch
      <3>d. /\ waiting' \in [Threads -> WaitStates]
            /\ waiting'[t] = "writer_asleep"
            /\ \A u \in Threads \ {t} : waiting'[u] = waiting[u]
        BY <1>0, <3>1 DEF IsolationTypeOK, WaitStates
      <3>c. /\ waiting[t] = "running" => Waiters' = Waiters \cup {t}
                                         /\ t \notin Waiters
            /\ waiting[t] = "writer_awake" => Waiters' = Waiters
        BY <3>d DEF Waiters
      <3>k. waiting_writers' = Cardinality(Waiters') /\ waiting_writers' \in Nat
        <4>1. CASE waiting[t] = "running"
          BY <4>1, <1>c, <2>o, <3>2a, <3>c
        <4>2. CASE waiting[t] = "writer_awake"
          BY <4>2, <1>c, <2>o, <3>2a, <3>c
        <4> QED BY <3>2a, <4>1, <4>2
      <3>2. IsolationTypeOK'
        BY <1>0, <3>d, <3>1, <3>k DEF IsolationTypeOK
      <3>3. FramesFit'
        <4> SUFFICES ASSUME NEW u \in Threads PROVE FramesFit!(u)'
          BY DEF FramesFit
        <4>1. CASE u = t
          BY <4>1, <3>1, <3>i
        <4>2. CASE u # t
          BY <4>2, <1>0, <3>1, <3>d DEF FramesFit
        <4> QED BY <4>1, <4>2
      <3>4. CountersExact'
        BY <1>c, <3>1, <3>k DEF CountersExact, Readers, Waiters
      <3> QED BY <1>0, <3>1, <3>2, <3>3, <3>4
         DEF IsolationInv, ChecksNeverRaise
    <2>10. CASE LeaveEpoch(t)
      <3>a. /\ Pop(t) /\ frames[t] # <<>> /\ Top(t) = "epoch"
        BY <2>10 DEF LeaveEpoch, InFrame
      <3>i. writer_thread_id = t /\ reader_depth[t] = 0 /\ writer_depth > 0
        BY <2>0, <1>r, <1>i, <1>w, <3>a
      <3>1. /\ writer_depth' = writer_depth - 1
            /\ IF writer_depth = 1
               THEN /\ writer_thread_id' = NoThread
                    /\ waiting' = Notified(waiting)
               ELSE UNCHANGED <<writer_thread_id, waiting>>
            /\ UNCHANGED <<active_readers, waiting_writers, reader_depth,
                           raised>>
        BY <2>10, <3>i DEF LeaveEpoch
      <3>p. /\ frames' \in [Threads -> Seq(FrameKinds)]
            /\ \A u \in Threads \ {t} : frames'[u] = frames[u]
            /\ frames'[t] = Popped(frames[t])
        BY <2>q, <3>a
      <3>n. /\ waiting' \in [Threads -> WaitStates]
            /\ \A u \in Threads :
                 /\ waiting'[u] = "running" <=> waiting[u] = "running"
                 /\ waiting'[u] \in {"writer_asleep", "writer_awake"} <=>
                      waiting[u] \in {"writer_asleep", "writer_awake"}
        BY ZenonT(30), <1>0, <3>1, NotifiedKeeps DEF IsolationTypeOK
      <3>c. Waiters' = Waiters
        BY <3>n DEF Waiters
      <3>2. IsolationTypeOK'
        BY <1>0, <2>0, <3>1, <3>i, <3>p, <3>n DEF IsolationTypeOK
      <3>3. FramesFit'
        <4> SUFFICES ASSUME NEW u \in Threads PROVE FramesFit!(u)'
          BY DEF FramesFit
        <4>1. CASE u = t
          <5>1. CASE writer_depth = 1
            <6>1. frames'[t] = <<>>
              BY <5>1, <1>w, <2>0, <3>a, <3>i, <3>p, WriterStackMoves DEF Top
            <6> QED BY <4>1, <5>1, <3>1, <3>i, <6>1, NoThreadIsNone
          <5>2. CASE writer_depth > 1
            <6>1. WriterStack(frames'[t], writer_depth')
              BY <5>2, <1>w, <2>0, <3>a, <3>i, <3>1, <3>p, WriterStackMoves
                 DEF Top
            <6> QED BY <4>1, <5>2, <1>w, <3>1, <3>i, <3>n, <6>1
          <5> QED BY <2>0, <3>i, <5>1, <5>2
        <4>2. CASE u # t
          <5>1. reader_depth[u] = 0 /\ frames[u] = <<>>
            <6>1. reader_depth[u] \in Nat /\ writer_thread_id # u
              BY <4>2, <1>0, <3>i DEF IsolationTypeOK
            <6>2. ~(reader_depth[u] > 0)
              BY <1>r, <3>i, NoThreadIsNone
            <6> QED BY <1>i, <6>1, <6>2
          <5> QED BY <4>2, <3>1, <3>i, <3>p, <5>1, NoThreadIsNone
        <4> QED BY <4>1, <4>2
      <3>4. CountersExact'
        BY <1>c, <3>1, <3>c DEF CountersExact, Readers, Waiters
      <3> QED BY <1>0, <3>1, <3>2, <3>3, <3>4
         DEF IsolationInv, ChecksNeverRaise
    <2>11. CASE WaitInterrupted(t)
      <3>1. /\ waiting' = [waiting EXCEPT ![t] = "running"]
            /\ UNCHANGED <<active_readers, writer_thread_id, writer_depth,
                           reader_depth, frames, raised>>
        BY <2>11 DEF WaitInterrupted
      <3>2a. \/ /\ waiting[t] \notin {"writer_asleep", "writer_awake"}
                /\ waiting_writers' = waiting_writers
             \/ /\ waiting[t] \in {"writer_asleep", "writer_awake"}
                /\ waiting_writers' = waiting_writers - 1
        BY <2>11 DEF WaitInterrupted
      <3>d. /\ waiting' \in [Threads -> WaitStates]
            /\ waiting'[t] = "running"
            /\ \A u \in Threads \ {t} : waiting'[u] = waiting[u]
        BY <1>0, <3>1 DEF IsolationTypeOK, WaitStates
      <3>c. IF waiting[t] \in {"writer_asleep", "writer_awake"}
            THEN Waiters' = Waiters \ {t} /\ t \in Waiters
            ELSE Waiters' = Waiters
        BY <3>d DEF Waiters
      <3>k. waiting_writers' = Cardinality(Waiters') /\ waiting_writers' \in Nat
        <4>1. CASE waiting[t] \in {"writer_asleep", "writer_awake"}
          BY <4>1, <1>c, <2>o, <3>2a, <3>c
        <4>2. CASE waiting[t] \notin {"writer_asleep", "writer_awake"}
          BY <4>2, <1>c, <2>o, <3>2a, <3>c
        <4> QED BY <4>1, <4>2
      <3>2. IsolationTypeOK'
        BY <1>0, <3>d, <3>1, <3>k DEF IsolationTypeOK
      <3>3. FramesFit'
        <4> SUFFICES ASSUME NEW u \in Threads PROVE FramesFit!(u)'
          BY DEF FramesFit
        <4>1. CASE u = t
          BY <4>1, <1>0, <3>1, <3>d DEF FramesFit
        <4>2. CASE u # t
          BY <4>2, <1>0, <3>1, <3>d DEF FramesFit
        <4> QED BY <4>1, <4>2
      <3>4. CountersExact'
        BY <1>c, <3>1, <3>k DEF CountersExact, Readers, Waiters
      <3> QED BY <1>0, <3>1, <3>2, <3>3, <3>4
         DEF IsolationInv, ChecksNeverRaise
    <2> QED BY <1>s, <2>1, <2>2, <2>3, <2>4, <2>5, <2>6, <2>7, <2>8, <2>9,
              <2>10, <2>11 DEF IsolationStep
  <1> QED BY <1>u, <1>s DEF IsolationNext
-----------------------------------------------------------------------------
(* Theorems                                                                *)

\* The isolation keeps its types: no counter of
\* _ExactBernoulliCacheIsolationV1 ever goes below zero.
THEOREM IsolationTypeCorrect == IsolationSpec => []IsolationTypeOK
  <1>1. IsolationInv => IsolationTypeOK
    BY DEF IsolationInv
  <1> QED BY <1>1, IsolationInitInv, IsolationStepInv, PTL DEF IsolationSpec

\* An epoch excludes every other thread from every registered cache access,
\* for any number of threads and any nesting, interrupted waits included.
THEOREM IsolationExcludes == IsolationSpec => []EpochExcludesOthers
  <1>1. IsolationInv => EpochExcludesOthers
    <2> SUFFICES ASSUME IsolationInv, writer_thread_id # NoThread,
                        NEW t \in Threads \ {writer_thread_id}
                 PROVE  frames[t] = <<>>
      BY DEF EpochExcludesOthers
    <2>1. reader_depth[t] \in Nat
      BY DEF IsolationInv, IsolationTypeOK
    <2>2. ~(reader_depth[t] > 0)
      BY DEF IsolationInv, FramesFit
    <2>3. reader_depth[t] = 0
      BY <2>1, <2>2
    <2> QED BY <2>3 DEF IsolationInv, FramesFit
  <1> QED BY <1>1, IsolationInitInv, IsolationStepInv, PTL DEF IsolationSpec

\* The reader and writer counters are exact, and none of the "no cover" checks
\* of the two finally blocks can raise.
THEOREM IsolationCountersExact ==
    IsolationSpec => [](CountersExact /\ ChecksNeverRaise)
  <1>1. IsolationInv => CountersExact /\ ChecksNeverRaise
    BY DEF IsolationInv
  <1> QED BY <1>1, IsolationInitInv, IsolationStepInv, PTL DEF IsolationSpec

\* Without interrupts a step of the isolation loses no wakeup.
LEMMA NoLostWakeupStep ==
    ASSUME Interruptible = {}
    PROVE  IsolationInv /\ NoLostWakeup /\ [IsolationNext]_isolationVars
             => NoLostWakeup'
  <1> SUFFICES ASSUME IsolationInv, NoLostWakeup,
                      [IsolationNext]_isolationVars
               PROVE  NoLostWakeup'
    OBVIOUS
  <1>0. IsolationTypeOK /\ ChecksNeverRaise
    BY DEF IsolationInv
  <1>u. CASE UNCHANGED isolationVars
    BY <1>u DEF isolationVars, NoLostWakeup, ReaderBlocked, WriterBlocked
  <1>s. ASSUME NEW t \in Threads, IsolationStep(t) PROVE NoLostWakeup'
    <2> USE DEF NoLostWakeup, ReaderBlocked, WriterBlocked
    <2>t. /\ active_readers \in Nat /\ waiting_writers \in Nat
          /\ waiting \in [Threads -> WaitStates]
      BY <1>0 DEF IsolationTypeOK
    <2>1. CASE EnterWriterOwned(t)
      BY <2>1 DEF EnterWriterOwned
    <2>2. CASE EnterNested(t)
      BY <2>2 DEF EnterNested
    <2>3. CASE EnterPrimary(t)
      BY <2>3, <2>t DEF EnterPrimary
    <2>4. CASE ReaderWaits(t)
      BY <2>4, <2>t DEF ReaderWaits
    <2>5. CASE LeaveWriterOwned(t)
      BY <2>5 DEF LeaveWriterOwned
    <2>6. CASE LeaveReader(t)
      <3>1. \/ UNCHANGED <<active_readers, waiting>>
            \/ waiting' = Notified(waiting)
        BY <2>6 DEF LeaveReader
      <3>2. UNCHANGED <<waiting_writers, writer_thread_id>>
        BY <2>6 DEF LeaveReader
      <3> QED BY <2>t, <3>1, <3>2, NotifiedKeeps
    <2>7. CASE ReenterEpoch(t)
      BY <2>7 DEF ReenterEpoch
    <2>8. CASE EnterEpoch(t)
      BY <2>8, <2>t, NoThreadIsNone DEF EnterEpoch
    <2>9. CASE WriterWaits(t)
      <3>1. /\ waiting_writers' \in Nat
            /\ waiting_writers > 0 => waiting_writers' > 0
        BY <2>9, <2>t DEF WriterWaits
      <3> QED BY <2>9, <2>t, <3>1 DEF WriterWaits
    <2>10. CASE LeaveEpoch(t)
      <3>1. \/ UNCHANGED <<writer_thread_id, waiting>>
            \/ waiting' = Notified(waiting)
        BY <2>10 DEF LeaveEpoch
      <3>2. UNCHANGED <<waiting_writers, active_readers>>
        BY <2>10 DEF LeaveEpoch
      <3> QED BY <2>t, <3>1, <3>2, NotifiedKeeps
    <2>11. CASE WaitInterrupted(t)
      BY <2>11 DEF WaitInterrupted
    <2> QED BY <1>s, <2>1, <2>2, <2>3, <2>4, <2>5, <2>6, <2>7, <2>8, <2>9,
              <2>10, <2>11 DEF IsolationStep
  <1> QED BY <1>u, <1>s DEF IsolationNext

\* A thread asleep in Condition.wait() still has to wait: no wakeup is lost,
\* provided no signal interrupts a waiting writer.
THEOREM IsolationWakesSleepers ==
    ASSUME Interruptible = {}
    PROVE  IsolationSpec => []NoLostWakeup
  <1>1. IsolationInit => NoLostWakeup
    BY DEF IsolationInit, NoLostWakeup
  <1>2. IsolationInv /\ NoLostWakeup /\ [IsolationNext]_isolationVars
          => NoLostWakeup'
    BY NoLostWakeupStep
  <1> QED BY <1>1, <1>2, IsolationInitInv, IsolationStepInv, PTL
         DEF IsolationSpec
-----------------------------------------------------------------------------
(* The accounting of the memoized bounds                                   *)

\* What an occurrence can have counted.
Occurrences ==
    [cold : BOOLEAN, lookups : Nat, hits : Nat, misses : Nat,
     computed : SUBSET Keys, bodies : Nat, foreign : BOOLEAN]

\* The types of the shared caches, the accesses and the occurrences.
MathTypeOK ==
    /\ bounds \in Seq(Keys)
    /\ hits \in Nat /\ misses \in Nat
    /\ entries \in [Threads -> Nat]
    /\ access \in [Threads -> Accesses \cup {None}]
    /\ owned \in [Threads -> Occurrences \cup {None}]

\* An access a of a thread with len frames and e body entries, while the
\* shared counters are h and m.  They have moved on only since the access read
\* them; its own body entry tells whether it was a miss.
AccessFits(a, len, e, h, m) ==
    a # None =>
      /\ a.depth > 0
      /\ len = IF a.phase \in {"mass", "leave"} THEN a.depth + 1 ELSE a.depth
      /\ h >= a.hits /\ m >= a.misses
      /\ \/ a.phase = "lookup" /\ e = a.entries
         \/ a.phase = "classify" /\ e = a.entries /\ h > a.hits
         \/ a.phase # "lookup" /\ e = a.entries + 1 /\ m > a.misses

\* The account o of a thread that is in access a: the lookup is counted when
\* the access begins, the body when it is entered, the class at the end.
AccountFits(o, a, e) ==
    o # None =>
      IF a = None
      THEN o.misses = o.bodies /\ o.lookups = o.hits + o.misses
      ELSE /\ o.bodies = o.misses + (e - a.entries)
           /\ o.lookups = o.hits + o.misses + 1

\* A cold occurrence o of thread t: t is the writer w, and what is cached, or
\* about to be, t has computed itself.
ColdFits(t, o, a, w, cached) ==
    o # None /\ o.cold =>
      /\ w = t
      /\ cached \subseteq o.computed
      /\ o.foreign = FALSE
      /\ a # None /\ a.phase \in {"enter", "mass", "leave", "insert"} =>
           a.key \in o.computed

ThreadFits(t) ==
    /\ AccessFits(access[t], Len(frames[t]), entries[t], hits, misses)
    /\ AccountFits(owned[t], access[t], entries[t])
    /\ ColdFits(t, owned[t], access[t], writer_thread_id, Range(bounds))

MathInv ==
    /\ IsolationInv
    /\ MathTypeOK
    /\ \A t \in Threads : ThreadFits(t)
    /\ unclear = FALSE

\* Who is inside which context manager: one who holds an epoch frame is the
\* writer, and then nobody else is inside any.
LEMMA FrameOwners ==
    ASSUME IsolationInv, NEW t \in Threads
    PROVE  /\ frames[t] \in Seq(FrameKinds) /\ Len(frames[t]) \in Nat
           /\ frames[t] = <<>> <=> Len(frames[t]) = 0
           /\ writer_thread_id = t => frames[t] # <<>>
           /\ InFrame(t, {"epoch"}) => writer_thread_id = t
           /\ frames[t] # <<>> /\ writer_thread_id # NoThread =>
                writer_thread_id = t
  <1>0. /\ frames[t] \in Seq(FrameKinds) /\ reader_depth[t] \in Nat
        /\ writer_depth \in Nat
        /\ FramesFit
    BY DEF IsolationInv, IsolationTypeOK
  <1>1. Len(frames[t]) \in Nat /\ (frames[t] = <<>> <=> Len(frames[t]) = 0)
    BY <1>0, EmptySeq
  <1>2. writer_thread_id = t => frames[t] # <<>>
    BY <1>0, WriterStackMoves DEF FramesFit
  <1>3. ASSUME frames[t] # <<>>, writer_thread_id # t
        PROVE  writer_thread_id = NoThread /\ Top(t) # "epoch"
    <2>1. reader_depth[t] > 0
      BY <1>0, <1>3 DEF FramesFit
    <2>2. writer_thread_id = NoThread /\ ReaderStack(frames[t], reader_depth[t])
      BY <1>0, <2>1 DEF FramesFit
    <2> QED BY <1>0, <2>1, <2>2, ReaderStackMoves DEF Top
  <1> QED BY <1>0, <1>1, <1>2, <1>3 DEF InFrame

\* A step of one thread moves no frame of another, and the writer stays the
\* writer as long as it has a frame.
LEMMA IsolationMoves ==
    ASSUME IsolationInv, NEW t \in Threads, IsolationStep(t)
    PROVE  /\ \A u \in Threads \ {t} : frames'[u] = frames[u]
           /\ \A u \in Threads :
                writer_thread_id = u /\ frames'[u] # <<>> =>
                  writer_thread_id' = u
  <1>0. /\ IsolationTypeOK /\ FramesFit
    BY DEF IsolationInv
  <1>1. \A u \in Threads \ {t} : frames'[u] = frames[u]
    <2>1. \/ \E k \in FrameKinds : Push(t, k)
          \/ Pop(t)
          \/ UNCHANGED frames
      BY DEF IsolationStep, EnterWriterOwned, EnterNested, EnterPrimary,
             ReaderWaits, LeaveWriterOwned, LeaveReader, ReenterEpoch,
             EnterEpoch, WriterWaits, LeaveEpoch, WaitInterrupted, FrameKinds
    <2> QED BY <1>0, <2>1 DEF Push, Pop, IsolationTypeOK
  <1>2. ASSUME NEW u \in Threads, writer_thread_id = u, frames'[u] # <<>>
        PROVE  writer_thread_id' = u
    <2>1. CASE EnterEpoch(t)
      BY <2>1, <1>2, NoThreadIsNone DEF EnterEpoch, WriterBlocked
    <2>2. CASE LeaveEpoch(t)
      <3>1. /\ Pop(t) /\ writer_thread_id = t
            /\ IF writer_depth = 1 THEN writer_thread_id' = NoThread
                                   ELSE UNCHANGED writer_thread_id
        BY <2>2, FrameOwners DEF LeaveEpoch
      <3>2. /\ WriterStack(frames[t], writer_depth) /\ writer_depth \in Nat
            /\ frames[t] \in Seq(FrameKinds) /\ frames[t][Len(frames[t])] = "epoch"
        BY <1>0, <3>1, <2>2 DEF FramesFit, IsolationTypeOK, LeaveEpoch, InFrame, Top
      <3>3. writer_depth = 1 => Popped(frames[t]) = <<>>
        BY <3>2, WriterStackMoves
      <3>4. frames'[t] = Popped(frames[t])
        BY <1>0, <3>1 DEF Pop, IsolationTypeOK
      <3> QED BY <1>2, <3>1, <3>3, <3>4
    <2>3. CASE ~EnterEpoch(t) /\ ~LeaveEpoch(t)
      <3>1. UNCHANGED writer_thread_id
        BY <2>3 DEF IsolationStep, EnterWriterOwned, EnterNested, EnterPrimary,
             ReaderWaits, LeaveWriterOwned, LeaveReader, ReenterEpoch,
             WriterWaits, WaitInterrupted
      <3> QED BY <1>2, <3>1
    <2> QED BY <2>1, <2>2, <2>3
  <1> QED BY <1>1, <1>2

\* The facade inside an access opens and closes one frame.
LEMMA FacadeMoves ==
    ASSUME IsolationInv, NEW t \in Threads
    PROVE  /\ EnterNested(t) \/ EnterWriterOwned(t) =>
                /\ Len(frames'[t]) = Len(frames[t]) + 1
                /\ writer_thread_id' = writer_thread_id
           /\ LeaveReader(t) \/ LeaveWriterOwned(t) =>
                /\ Len(frames'[t]) = Len(frames[t]) - 1
                /\ writer_thread_id' = writer_thread_id
  <1>0. frames \in [Threads -> Seq(FrameKinds)]
    BY DEF IsolationInv, IsolationTypeOK
  <1>1. ASSUME NEW k \in FrameKinds, Push(t, k)
        PROVE  Len(frames'[t]) = Len(frames[t]) + 1
    <2>1. frames'[t] = Append(frames[t], k)
      BY <1>0, <1>1 DEF Push
    <2> QED BY <1>0, <2>1, PushFrame
  <1>2. ASSUME frames[t] # <<>>, Pop(t)
        PROVE  Len(frames'[t]) = Len(frames[t]) - 1
    <2>1. frames'[t] = Popped(frames[t])
      BY <1>0, <1>2 DEF Pop
    <2> QED BY <1>0, <1>2, <2>1, PopFrame
  <1> QED BY <1>1, <1>2 DEF EnterNested, EnterWriterOwned, LeaveReader,
             LeaveWriterOwned, InFrame, FrameKinds

\* What moving a key to the end and dropping the oldest key do to the cache.
LEMMA CacheMoves ==
    ASSUME NEW s \in Seq(Keys), NEW k \in Keys
    PROVE  /\ Append(s, k) \in Seq(Keys)
           /\ Range(Append(s, k)) = Range(s) \cup {k}
           /\ s # <<>> => Tail(s) \in Seq(Keys) /\ Range(Tail(s)) \subseteq Range(s)
           /\ \A i \in DOMAIN s :
                RemoveAt(s, i) \in Seq(Keys) /\ Range(RemoveAt(s, i)) \subseteq Range(s)
  <1>1. PICK n \in Nat : n = Len(s)
    BY LenProperties
  <1>2. DOMAIN s = 1..n /\ \A i \in 1..n : s[i] \in Keys
    BY <1>1, LenProperties
  <1>3. /\ Append(s, k) \in Seq(Keys)
        /\ Range(Append(s, k)) = Range(s) \cup {k}
    <2>1. /\ Append(s, k) \in Seq(Keys) /\ Len(Append(s, k)) = n + 1
          /\ \A i \in 1..n : Append(s, k)[i] = s[i]
          /\ Append(s, k)[n + 1] = k
      BY <1>1, AppendProperties
    <2>2. DOMAIN Append(s, k) = 1..(n + 1)
      BY <2>1, LenProperties
    <2> QED BY <1>2, <2>1, <2>2 DEF Range
  <1>4. ASSUME s # <<>>
        PROVE  Tail(s) \in Seq(Keys) /\ Range(Tail(s)) \subseteq Range(s)
    <2>1. /\ Tail(s) \in Seq(Keys) /\ Len(Tail(s)) = n - 1
          /\ \A i \in 1..(n - 1) : Tail(s)[i] = s[i + 1]
          /\ n > 0
      BY <1>1, <1>4, HeadTailProperties, EmptySeq
    <2>2. DOMAIN Tail(s) = 1..(n - 1)
      BY <2>1, LenProperties
    <2>3. \A i \in 1..(n - 1) : i + 1 \in 1..n
      BY <2>1
    <2> QED BY <1>2, <2>1, <2>2, <2>3 DEF Range
  <1>5. ASSUME NEW i \in DOMAIN s
        PROVE  /\ RemoveAt(s, i) \in Seq(Keys)
               /\ Range(RemoveAt(s, i)) \subseteq Range(s)
    <2>0. i \in 1..n
      BY <1>2
    <2> DEFINE lo == SubSeq(s, 1, i - 1)
               hi == SubSeq(s, i + 1, n)
    <2>1. /\ lo \in Seq(Keys) /\ \A j \in 1..Len(lo) : lo[j] \in Range(s)
      <3>1. \A j \in 1..(i - 1) : s[j] \in Keys
        BY <1>2, <2>0
      <3>2. /\ lo \in Seq(Keys)
            /\ Len(lo) = IF 1 <= i - 1 THEN i - 1 - 1 + 1 ELSE 0
            /\ \A j \in 1..(i - 1 - 1 + 1) : lo[j] = s[1 + j - 1]
        BY <2>0, <3>1, SubSeqProperties
      <3>3. \A j \in 1..Len(lo) : j \in 1..(i - 1 - 1 + 1) /\ 1 + j - 1 \in 1..n
        BY <2>0, <3>2
      <3> QED BY <1>2, <3>2, <3>3 DEF Range
    <2>2. /\ hi \in Seq(Keys) /\ \A j \in 1..Len(hi) : hi[j] \in Range(s)
      <3>1. \A j \in (i + 1)..n : s[j] \in Keys
        BY <1>2, <2>0
      <3>2. /\ hi \in Seq(Keys)
            /\ Len(hi) = IF i + 1 <= n THEN n - (i + 1) + 1 ELSE 0
            /\ \A j \in 1..(n - (i + 1) + 1) : hi[j] = s[i + 1 + j - 1]
        BY SMTT(30), <2>0, <3>1, SubSeqProperties
      <3>3. \A j \in 1..Len(hi) :
              j \in 1..(n - (i + 1) + 1) /\ i + 1 + j - 1 \in 1..n
        BY SMTT(30), <2>0, <3>2
      <3> QED BY <1>2, <3>2, <3>3 DEF Range
    <2> HIDE DEF lo, hi
    <2>3. /\ lo \o hi \in Seq(Keys)
          /\ Len(lo \o hi) = Len(lo) + Len(hi)
          /\ \A j \in 1..Len(lo) + Len(hi) :
               (lo \o hi)[j] = IF j <= Len(lo) THEN lo[j] ELSE hi[j - Len(lo)]
      BY <2>1, <2>2, ConcatProperties
    <2>4. \A j \in 1..Len(lo) + Len(hi) : (lo \o hi)[j] \in Range(s)
      <3> PICK a \in Nat, b \in Nat : a = Len(lo) /\ b = Len(hi)
        BY <2>1, <2>2, LenProperties
      <3> TAKE j \in 1..a + b
      <3>1. j <= a => j \in 1..a
        OBVIOUS
      <3>2. ~(j <= a) => j - a \in 1..b
        OBVIOUS
      <3> QED BY <2>1, <2>2, <2>3, <3>1, <3>2
    <2>5. DOMAIN (lo \o hi) = 1..Len(lo) + Len(hi)
      BY <2>3, LenProperties
    <2>6. RemoveAt(s, i) = lo \o hi
      BY <1>1 DEF RemoveAt, lo, hi
    <2>7. Range(lo \o hi) \subseteq Range(s)
      <3> SUFFICES ASSUME NEW j \in DOMAIN (lo \o hi)
                   PROVE  (lo \o hi)[j] \in Range(s)
        BY DEF Range
      <3> QED BY <2>4, <2>5
    <2> QED BY <2>3, <2>6, <2>7
  <1> QED BY <1>3, <1>4, <1>5

\* While a thread is inside a context manager, no other thread's occurrence is
\* cold; while it holds an epoch frame, no other thread is in an access.
LEMMA ColdAlone ==
    ASSUME MathInv, NEW t \in Threads, frames[t] # <<>>,
           NEW u \in Threads \ {t}
    PROVE  /\ ~(owned[u] # None /\ owned[u].cold)
           /\ InFrame(t, {"epoch"}) => access[u] = None
  <1>0. IsolationInv /\ ThreadFits(u) /\ ThreadFits(t) /\ u # t /\ MathTypeOK
    BY DEF MathInv
  <1>1. ~(owned[u] # None /\ owned[u].cold)
    BY <1>0, FrameOwners, NoThreadIsNone DEF ThreadFits, ColdFits
  <1>2. ASSUME InFrame(t, {"epoch"}), access[u] # None PROVE FALSE
    <2>1. writer_thread_id = t /\ frames[u] = <<>>
      BY <1>0, <1>2, FrameOwners, NoThreadIsNone
    <2>2. Len(frames[u]) = 0
      BY <1>0, <2>1, FrameOwners
    <2>3. /\ access[u].depth \in Nat /\ access[u].depth > 0
          /\ \/ Len(frames[u]) = access[u].depth
             \/ Len(frames[u]) = access[u].depth + 1
      BY <1>0, <1>2 DEF ThreadFits, AccessFits, MathTypeOK, Accesses
    <2> QED BY <2>2, <2>3
  <1> QED BY <1>1, <1>2

\* A thread in an access is inside a context manager.
LEMMA AccessInFrame ==
    ASSUME MathInv, NEW t \in Threads, access[t] # None
    PROVE  /\ access[t] \in Accesses /\ entries[t] \in Nat
           /\ frames[t] # <<>> /\ Len(frames[t]) \in Nat
           /\ access[t].depth \in Nat /\ access[t].depth > 0
  <1>0. IsolationInv /\ ThreadFits(t) /\ MathTypeOK
    BY DEF MathInv
  <1>1. access[t] \in Accesses /\ entries[t] \in Nat
    BY <1>0 DEF MathTypeOK
  <1>2. /\ access[t].depth \in Nat /\ access[t].depth > 0
        /\ \/ Len(frames[t]) = access[t].depth
           \/ Len(frames[t]) = access[t].depth + 1
    BY <1>0, <1>1 DEF ThreadFits, AccessFits, Accesses
  <1>3. Len(frames[t]) # 0
    BY <1>2
  <1> QED BY <1>0, <1>1, <1>2, <1>3, FrameOwners

\* What a step leaves of the threads it does not belong to.
LEMMA OthersFit ==
    ASSUME MathInv, NEW t \in Threads,
           hits' \in Nat, misses' \in Nat,
           \A u \in Threads \ {t} :
             /\ frames'[u] = frames[u] /\ access'[u] = access[u]
             /\ owned'[u] = owned[u] /\ entries'[u] = entries[u]
             /\ access[u] = None \/ (hits' >= hits /\ misses' >= misses)
             /\ owned[u] # None /\ owned[u].cold =>
                  /\ writer_thread_id' = writer_thread_id
                  /\ Range(bounds') \subseteq Range(bounds)
    PROVE  \A u \in Threads \ {t} : ThreadFits(u)'
  <1> SUFFICES ASSUME NEW u \in Threads \ {t} PROVE ThreadFits(u)'
    OBVIOUS
  <1>0. ThreadFits(u) /\ MathTypeOK
    BY DEF MathInv
  <1>1. /\ access[u] \in Accesses \cup {None} /\ hits \in Nat /\ misses \in Nat
    BY <1>0 DEF MathTypeOK
  <1>2. AccessFits(access[u], Len(frames[u]), entries[u], hits', misses')
    <2>1. CASE access[u] = None
      BY <2>1 DEF AccessFits
    <2>2. CASE access[u] # None
      <3>1. /\ access[u].hits \in Nat /\ access[u].misses \in Nat
            /\ hits' >= hits /\ misses' >= misses
        BY <2>2, <1>1 DEF Accesses
      <3> QED BY <2>2, <1>0, <1>1, <3>1 DEF ThreadFits, AccessFits
    <2> QED BY <2>1, <2>2
  <1>3. AccountFits(owned[u], access[u], entries[u])
    BY <1>0 DEF ThreadFits
  <1>4. ColdFits(u, owned[u], access[u], writer_thread_id', Range(bounds'))
    BY <1>0 DEF ThreadFits, ColdFits
  <1> QED BY <1>2, <1>3, <1>4 DEF ThreadFits

\* The invariant holds again when the isolation, the types and the threads do.
LEMMA MathAssemble ==
    ASSUME MathInv, NEW t \in Threads,
           [IsolationNext]_isolationVars,
           MathTypeOK',
           \A u \in Threads \ {t} : ThreadFits(u)',
           ThreadFits(t)',
           unclear' = FALSE
    PROVE  MathInv'
  BY IsolationStepInv DEF MathInv

\* Clearing leaves no access under way and no other cold occurrence.
LEMMA ClearingFits ==
    ASSUME MathInv, NEW t \in Threads, InFrame(t, {"epoch"}), Cleared(t),
           UNCHANGED <<isolationVars, access>>,
           \A u \in Threads \ {t} : owned'[u] = owned[u]
    PROVE  /\ \A u \in Threads \ {t} : ThreadFits(u)'
           /\ bounds' = <<>> /\ bounds' \in Seq(Keys) /\ Range(bounds') = {}
           /\ hits' \in Nat /\ misses' \in Nat
           /\ entries' \in [Threads -> Nat]
           /\ access' \in [Threads -> Accesses \cup {None}]
  <1>0. MathTypeOK
    BY DEF MathInv
  <1>1. bounds' = <<>> /\ hits' = 0 /\ misses' = 0
        /\ entries' = [entries EXCEPT ![t] = 0]
    BY DEF Cleared
  <1>2. bounds' \in Seq(Keys) /\ Range(bounds') = {}
    BY <1>1 DEF Range
  <1>3. frames[t] # <<>>
    BY DEF InFrame
  <1>4. \A u \in Threads \ {t} : ThreadFits(u)'
    <2>1. ASSUME NEW u \in Threads \ {t}
          PROVE  /\ frames'[u] = frames[u] /\ access'[u] = access[u]
                 /\ owned'[u] = owned[u] /\ entries'[u] = entries[u]
                 /\ access[u] = None
                 /\ ~(owned[u] # None /\ owned[u].cold)
      BY <1>0, <1>1, <1>3, ColdAlone DEF isolationVars, MathTypeOK
    <2> QED BY <1>1, <2>1, OthersFit
  <1> QED BY <1>0, <1>1, <1>2, <1>4 DEF MathTypeOK
-----------------------------------------------------------------------------
\* Entering and leaving the isolation between accesses.
LEMMA ClientFits ==
    ASSUME MathInv, NEW t \in Threads, ClientStep(t)
    PROVE  MathInv'
  <1>0. MathTypeOK /\ IsolationInv /\ ThreadFits(t) /\ unclear = FALSE
    BY DEF MathInv
  <1>1. /\ access[t] = None /\ IsolationStep(t)
        /\ owned[t] # None /\ owned[t].cold => frames'[t] # <<>>
        /\ UNCHANGED <<bounds, mass, hits, misses, entries, access, owned,
                       unclear>>
    BY DEF ClientStep, cacheVars
  <1>2. /\ \A u \in Threads \ {t} : frames'[u] = frames[u]
        /\ \A u \in Threads :
             writer_thread_id = u /\ frames'[u] # <<>> => writer_thread_id' = u
    BY <1>0, <1>1, IsolationMoves
  <1>3. MathTypeOK'
    BY <1>0, <1>1 DEF MathTypeOK
  <1>4. \A u \in Threads \ {t} : ThreadFits(u)'
    <2>1. ASSUME NEW u \in Threads \ {t}, owned[u] # None, owned[u].cold
          PROVE  writer_thread_id' = writer_thread_id
      <3>1. writer_thread_id = u
        BY <2>1 DEF MathInv, ThreadFits, ColdFits
      <3> QED BY <1>0, <1>2, <3>1, FrameOwners
    <2>2. hits \in Nat /\ misses \in Nat
      BY <1>0 DEF MathTypeOK
    <2> QED BY <1>1, <1>2, <2>1, <2>2, OthersFit
  <1>5. ThreadFits(t)'
    <2>1. AccessFits(access[t], Len(frames'[t]), entries[t], hits, misses)
      BY <1>1 DEF AccessFits
    <2>2. AccountFits(owned[t], access[t], entries[t])
      BY <1>0 DEF ThreadFits
    <2>3. ColdFits(t, owned[t], access[t], writer_thread_id', Range(bounds))
      BY <1>0, <1>1, <1>2 DEF ThreadFits, ColdFits
    <2> QED BY <1>1, <2>1, <2>2, <2>3 DEF ThreadFits
  <1>6. IsolationNext
    BY <1>1 DEF IsolationNext
  <1> QED BY <1>0, <1>1, <1>3, <1>4, <1>5, <1>6, MathAssemble

\* A clear inside the caller's epoch.
LEMMA ClearFits ==
    ASSUME MathInv, NEW t \in Threads, ClearCache(t)
    PROVE  MathInv'
  <1>0. MathTypeOK /\ IsolationInv /\ ThreadFits(t) /\ unclear = FALSE
    BY DEF MathInv
  <1>1. /\ access[t] = None /\ InFrame(t, {"epoch"}) /\ Cleared(t)
        /\ UNCHANGED <<isolationVars, access, owned, unclear>>
    BY DEF ClearCache, Idle
  <1>2. /\ \A u \in Threads \ {t} : ThreadFits(u)'
        /\ bounds' \in Seq(Keys) /\ Range(bounds') = {}
        /\ hits' \in Nat /\ misses' \in Nat
        /\ entries' \in [Threads -> Nat]
        /\ access' \in [Threads -> Accesses \cup {None}]
    BY <1>1, ClearingFits
  <1>3. MathTypeOK'
    BY <1>0, <1>1, <1>2 DEF MathTypeOK
  <1>4. ThreadFits(t)'
    <2>1. AccessFits(access[t], Len(frames[t]), entries'[t], hits', misses')
      BY <1>1 DEF AccessFits
    <2>2. AccountFits(owned[t], access[t], entries'[t])
      BY <1>0, <1>1 DEF ThreadFits, AccountFits
    <2>3. ColdFits(t, owned[t], access[t], writer_thread_id, Range(bounds'))
      BY <1>0, <1>1, <1>2 DEF ThreadFits, ColdFits
    <2> QED BY <1>1, <2>1, <2>2, <2>3 DEF ThreadFits, isolationVars
  <1> QED BY <1>0, <1>1, <1>2, <1>3, <1>4, MathAssemble

\* An occurrence that begins has counted nothing.
LEMMA OccurrenceStarts ==
    ASSUME NEW cold \in BOOLEAN, NEW e
    PROVE  /\ Occurrence(cold) \in Occurrences
           /\ AccountFits(Occurrence(cold), None, e)
           /\ Occurrence(cold).cold = cold
           /\ Occurrence(cold).foreign = FALSE
  BY DEF Occurrence, Occurrences, AccountFits

\* A cold occurrence begins on cleared caches.
LEMMA ColdBegins ==
    ASSUME MathInv, NEW t \in Threads, BeginColdOccurrence(t)
    PROVE  MathInv'
  <1>0. MathTypeOK /\ IsolationInv /\ ThreadFits(t) /\ unclear = FALSE
    BY DEF MathInv
  <1>1. /\ access[t] = None /\ frames[t] = <<"epoch">> /\ Cleared(t)
        /\ owned' = [owned EXCEPT ![t] = Occurrence(TRUE)]
        /\ UNCHANGED <<isolationVars, access, unclear>>
    BY DEF BeginColdOccurrence, Idle
  <1>e. InFrame(t, {"epoch"}) /\ writer_thread_id = t
    <2>1. InFrame(t, {"epoch"})
      BY <1>1 DEF InFrame, Top
    <2> QED BY <1>0, <2>1, FrameOwners
  <1>o. /\ owned' \in [Threads -> Occurrences \cup {None}]
        /\ owned'[t] = Occurrence(TRUE)
        /\ \A u \in Threads \ {t} : owned'[u] = owned[u]
    BY <1>0, <1>1, OccurrenceStarts DEF MathTypeOK
  <1>2. /\ \A u \in Threads \ {t} : ThreadFits(u)'
        /\ bounds' \in Seq(Keys) /\ Range(bounds') = {}
        /\ hits' \in Nat /\ misses' \in Nat
        /\ entries' \in [Threads -> Nat]
        /\ access' \in [Threads -> Accesses \cup {None}]
    BY <1>1, <1>e, <1>o, ClearingFits
  <1>3. MathTypeOK'
    BY <1>o, <1>2 DEF MathTypeOK
  <1>4. ThreadFits(t)'
    <2>1. AccessFits(access[t], Len(frames[t]), entries'[t], hits', misses')
      BY <1>1 DEF AccessFits
    <2>2. AccountFits(owned'[t], access[t], entries'[t])
      BY <1>1, <1>o, OccurrenceStarts
    <2>3. ColdFits(t, owned'[t], access[t], writer_thread_id, Range(bounds'))
      BY <1>1, <1>e, <1>o, <1>2, OccurrenceStarts DEF ColdFits
    <2> QED BY <1>1, <2>1, <2>2, <2>3 DEF ThreadFits, isolationVars
  <1> QED BY <1>0, <1>1, <1>2, <1>3, <1>4, MathAssemble

\* An occurrence without isolation begins on whatever is cached.
LEMMA SharedBegins ==
    ASSUME MathInv, NEW t \in Threads, BeginSharedOccurrence(t)
    PROVE  MathInv'
  <1>0. MathTypeOK /\ IsolationInv /\ ThreadFits(t) /\ unclear = FALSE
    BY DEF MathInv
  <1>1. /\ access[t] = None
        /\ owned' = [owned EXCEPT ![t] = Occurrence(FALSE)]
        /\ UNCHANGED <<isolationVars, bounds, mass, hits, misses, entries,
                       access, unclear>>
    BY DEF BeginSharedOccurrence, Idle, cacheVars
  <1>o. /\ owned' \in [Threads -> Occurrences \cup {None}]
        /\ owned'[t] = Occurrence(FALSE)
        /\ \A u \in Threads \ {t} : owned'[u] = owned[u]
    BY <1>0, <1>1, OccurrenceStarts DEF MathTypeOK
  <1>2. \A u \in Threads \ {t} : ThreadFits(u)'
    <2>1. hits \in Nat /\ misses \in Nat
      BY <1>0 DEF MathTypeOK
    <2>2. ASSUME NEW u \in Threads \ {t}
          PROVE  /\ frames'[u] = frames[u] /\ access'[u] = access[u]
                 /\ owned'[u] = owned[u] /\ entries'[u] = entries[u]
      BY <1>1, <1>o DEF isolationVars
    <2>3. hits' >= hits /\ misses' >= misses
      BY <1>1, <2>1
    <2>4. writer_thread_id' = writer_thread_id /\ bounds' = bounds
      BY <1>1 DEF isolationVars
    <2> QED BY <1>1, <2>1, <2>2, <2>3, <2>4, OthersFit
  <1>3. MathTypeOK'
    BY <1>0, <1>1, <1>o DEF MathTypeOK
  <1>4. ThreadFits(t)'
    <2>1. AccessFits(access[t], Len(frames[t]), entries[t], hits, misses)
      BY <1>1 DEF AccessFits
    <2>2. AccountFits(owned'[t], access[t], entries[t])
      BY <1>1, <1>o, OccurrenceStarts
    <2>3. ColdFits(t, owned'[t], access[t], writer_thread_id, Range(bounds))
      BY <1>o, OccurrenceStarts DEF ColdFits
    <2> QED BY <1>1, <2>1, <2>2, <2>3 DEF ThreadFits, isolationVars
  <1> QED BY <1>0, <1>1, <1>2, <1>3, <1>4, MathAssemble

\* An occurrence ends, and a cold one may clear.
LEMMA OccurrenceEnds ==
    ASSUME MathInv, NEW t \in Threads, EndOccurrence(t)
    PROVE  MathInv'
  <1>0. MathTypeOK /\ IsolationInv /\ ThreadFits(t) /\ unclear = FALSE
    BY DEF MathInv
  <1>1. /\ access[t] = None /\ owned[t] # None
        /\ Len(frames[t]) = (IF owned[t].cold THEN 1 ELSE 0)
        /\ owned' = [owned EXCEPT ![t] = None]
        /\ (owned[t].cold /\ Cleared(t)) \/ UNCHANGED cacheVars
        /\ UNCHANGED <<isolationVars, access, unclear>>
    BY DEF EndOccurrence, Idle
  <1>o. /\ owned' \in [Threads -> Occurrences \cup {None}]
        /\ owned'[t] = None
        /\ \A u \in Threads \ {t} : owned'[u] = owned[u]
    BY <1>0, <1>1 DEF MathTypeOK
  <1>2. /\ \A u \in Threads \ {t} : ThreadFits(u)'
        /\ bounds' \in Seq(Keys)
        /\ hits' \in Nat /\ misses' \in Nat
        /\ entries' \in [Threads -> Nat]
        /\ access' \in [Threads -> Accesses \cup {None}]
    <2>1. CASE owned[t].cold /\ Cleared(t)
      <3>1. writer_thread_id = t /\ Len(frames[t]) = 1
        BY <1>0, <1>1, <2>1 DEF ThreadFits, ColdFits
      <3>2. InFrame(t, {"epoch"})
        <4>1. /\ WriterStack(frames[t], writer_depth)
          BY <1>0, <3>1 DEF IsolationInv, FramesFit
        <4> QED BY <3>1, <4>1 DEF WriterStack, InFrame, Top
      <3> QED BY <1>1, <1>o, <2>1, <3>2, ClearingFits
    <2>2. CASE UNCHANGED cacheVars
      <3>1. hits \in Nat /\ misses \in Nat
        BY <1>0 DEF MathTypeOK
      <3>2. \A u \in Threads \ {t} : ThreadFits(u)'
        BY <1>1, <1>o, <2>2, <3>1, OthersFit DEF isolationVars, cacheVars
      <3> QED BY <1>0, <1>1, <2>2, <3>2 DEF MathTypeOK, cacheVars
    <2> QED BY <1>1, <2>1, <2>2
  <1>3. MathTypeOK'
    BY <1>o, <1>2 DEF MathTypeOK
  <1>4. ThreadFits(t)'
    BY <1>1, <1>o DEF ThreadFits, AccessFits, AccountFits, ColdFits
  <1> QED BY <1>0, <1>1, <1>2, <1>3, <1>4, MathAssemble
-----------------------------------------------------------------------------
\* An access begins inside a registered user: its lookup is counted.
LEMMA AccessBegins ==
    ASSUME MathInv, NEW t \in Threads, NEW k \in Keys, BeginAccess(t, k)
    PROVE  MathInv'
  <1>0. MathTypeOK /\ IsolationInv /\ ThreadFits(t) /\ unclear = FALSE
    BY DEF MathInv
  <1> DEFINE a == [key |-> k, phase |-> "lookup", hits |-> hits,
                   misses |-> misses, entries |-> entries[t],
                   depth |-> Len(frames[t])]
             o == [owned[t] EXCEPT !.lookups = @ + 1]
  <1>1. /\ access[t] = None /\ frames[t] # <<>>
        /\ access' = [access EXCEPT ![t] = a]
        /\ owned' = IF owned[t] = None THEN owned ELSE [owned EXCEPT ![t] = o]
        /\ UNCHANGED <<isolationVars, bounds, mass, hits, misses, entries,
                       unclear>>
    BY DEF BeginAccess, Idle, InFrame, cacheVars
  <1>2. /\ hits \in Nat /\ misses \in Nat /\ entries[t] \in Nat
        /\ Len(frames[t]) \in Nat /\ Len(frames[t]) > 0
    <2>1. Len(frames[t]) \in Nat /\ Len(frames[t]) # 0
      BY <1>0, <1>1, FrameOwners
    <2> QED BY <1>0, <2>1 DEF MathTypeOK
  <1>a. /\ a \in Accesses /\ a # None
        /\ a.phase = "lookup" /\ a.hits = hits /\ a.misses = misses
        /\ a.entries = entries[t] /\ a.depth = Len(frames[t])
    BY <1>2, NoneIsNoAccess DEF Accesses
  <1>o. owned[t] # None =>
          /\ o \in Occurrences /\ o.lookups = owned[t].lookups + 1
          /\ o.hits = owned[t].hits /\ o.misses = owned[t].misses
          /\ o.bodies = owned[t].bodies /\ o.cold = owned[t].cold
          /\ o.computed = owned[t].computed /\ o.foreign = owned[t].foreign
          /\ o.hits \in Nat /\ o.misses \in Nat
    <2> HAVE owned[t] # None
    <2>1. owned[t] \in Occurrences
      BY <1>0 DEF MathTypeOK
    <2> QED BY <2>1 DEF Occurrences
  <1> HIDE DEF a, o
  <1>f. /\ access' \in [Threads -> Accesses \cup {None}]
        /\ owned' \in [Threads -> Occurrences \cup {None}]
        /\ access'[t] = a
        /\ owned'[t] = IF owned[t] = None THEN None ELSE o
        /\ \A u \in Threads \ {t} : access'[u] = access[u] /\ owned'[u] = owned[u]
    BY <1>0, <1>1, <1>a, <1>o DEF MathTypeOK
  <1>3. \A u \in Threads \ {t} : ThreadFits(u)'
    <2>1. ASSUME NEW u \in Threads \ {t}
          PROVE  /\ frames'[u] = frames[u] /\ entries'[u] = entries[u]
                 /\ ~(owned[u] # None /\ owned[u].cold)
      BY <1>1, ColdAlone DEF isolationVars
    <2>2. hits' \in Nat /\ misses' \in Nat /\ hits' >= hits /\ misses' >= misses
      BY <1>1, <1>2
    <2> QED BY <1>f, <2>1, <2>2, OthersFit
  <1>4. MathTypeOK'
    BY <1>0, <1>1, <1>f DEF MathTypeOK
  <1>5. ThreadFits(t)'
    <2>1. AccessFits(a, Len(frames[t]), entries[t], hits, misses)
      BY <1>2, <1>a DEF AccessFits
    <2>2. AccountFits(owned'[t], a, entries[t])
      BY <1>0, <1>1, <1>2, <1>a, <1>o, <1>f DEF ThreadFits, AccountFits
    <2>3. ColdFits(t, owned'[t], a, writer_thread_id, Range(bounds))
      BY <1>0, <1>a, <1>o, <1>f DEF ThreadFits, ColdFits
    <2> QED BY <1>1, <1>f, <2>1, <2>2, <2>3 DEF ThreadFits, isolationVars
  <1> QED BY <1>0, <1>1, <1>3, <1>4, <1>5, MathAssemble

\* An access moves on to another phase and changes nothing else of itself.
LEMMA PhaseMoves ==
    ASSUME MathInv, NEW t \in Threads, access[t] # None,
           NEW p \in {"lookup", "enter", "mass", "leave", "insert", "classify"},
           Goto(t, p)
    PROVE  /\ access' \in [Threads -> Accesses \cup {None}]
           /\ access'[t] # None /\ access'[t] \in Accesses
           /\ access'[t].phase = p /\ access'[t].key = access[t].key
           /\ access'[t].hits = access[t].hits
           /\ access'[t].misses = access[t].misses
           /\ access'[t].entries = access[t].entries
           /\ access'[t].depth = access[t].depth
           /\ \A u \in Threads \ {t} : access'[u] = access[u]
  <1>0. /\ access[t] \in Accesses
        /\ access \in [Threads -> Accesses \cup {None}]
    BY DEF MathInv, MathTypeOK
  <1> DEFINE b == [access[t] EXCEPT !.phase = p]
  <1>1. /\ b \in Accesses /\ b.phase = p /\ b.key = access[t].key
        /\ b.hits = access[t].hits /\ b.misses = access[t].misses
        /\ b.entries = access[t].entries /\ b.depth = access[t].depth
    BY <1>0 DEF Accesses
  <1>2. access' = [access EXCEPT ![t] = b]
    BY DEF Goto
  <1>3. b # None
    BY <1>1, NoneIsNoAccess
  <1> HIDE DEF b
  <1>4. access'[t] = b
    BY <1>0, <1>2
  <1> QED BY <1>0, <1>1, <1>2, <1>3, <1>4

\* A step of an access leaves the other threads' fits alone.
LEMMA AccessOthers ==
    ASSUME MathInv, NEW t \in Threads, access[t] # None,
           hits' \in Nat, misses' \in Nat, hits' >= hits, misses' >= misses,
           \A u \in Threads \ {t} :
             /\ frames'[u] = frames[u] /\ access'[u] = access[u]
             /\ owned'[u] = owned[u] /\ entries'[u] = entries[u]
    PROVE  \A u \in Threads \ {t} : ThreadFits(u)'
  <1>1. frames[t] # <<>>
    BY AccessInFrame
  <1>2. \A u \in Threads \ {t} : ~(owned[u] # None /\ owned[u].cold)
    BY <1>1, ColdAlone
  <1> QED BY <1>2, OthersFit

\* The lookup hits: only an own bound when the occurrence is cold.
LEMMA HitFits ==
    ASSUME MathInv, NEW t \in Threads, At(t, "lookup"), Goto(t, "classify"),
           NEW i \in DOMAIN bounds, bounds[i] = access[t].key,
           bounds' = Append(RemoveAt(bounds, i), access[t].key),
           hits' = hits + 1,
           owned' = IF owned[t] = None THEN owned
                    ELSE [owned EXCEPT ![t].foreign =
                            @ \/ access[t].key \notin owned[t].computed],
           UNCHANGED <<isolationVars, misses, entries, unclear>>
    PROVE  MathInv'
  <1>0. MathTypeOK /\ IsolationInv /\ ThreadFits(t) /\ unclear = FALSE
    BY DEF MathInv
  <1>1. /\ access[t] # None /\ access[t].phase = "lookup"
        /\ access[t] \in Accesses /\ access[t].key \in Keys
        /\ access[t].hits \in Nat /\ access[t].misses \in Nat
        /\ access[t].entries \in Nat
        /\ hits \in Nat /\ misses \in Nat /\ entries[t] \in Nat
        /\ bounds \in Seq(Keys)
    <2>1. access[t] # None /\ access[t].phase = "lookup"
      BY DEF At
    <2>2. access[t] \in Accesses
      BY <2>1, AccessInFrame
    <2> QED BY <1>0, <2>1, <2>2 DEF Accesses, MathTypeOK
  <1>2. /\ access' \in [Threads -> Accesses \cup {None}]
        /\ access'[t] # None
        /\ access'[t].phase = "classify"
        /\ access'[t].hits = access[t].hits
        /\ access'[t].misses = access[t].misses
        /\ access'[t].entries = access[t].entries
        /\ access'[t].depth = access[t].depth
        /\ \A u \in Threads \ {t} : access'[u] = access[u]
    BY <1>1, PhaseMoves
  <1>b. /\ bounds' \in Seq(Keys) /\ Range(bounds') \subseteq Range(bounds)
        /\ access[t].key \in Range(bounds)
    <2>1. /\ RemoveAt(bounds, i) \in Seq(Keys)
          /\ Range(RemoveAt(bounds, i)) \subseteq Range(bounds)
      BY <1>1, CacheMoves
    <2>2. access[t].key \in Range(bounds)
      BY DEF Range
    <2>3. /\ bounds' \in Seq(Keys)
          /\ Range(bounds') = Range(RemoveAt(bounds, i)) \cup {access[t].key}
      BY <1>1, <2>1, CacheMoves
    <2> QED BY <2>1, <2>2, <2>3
  <1> DEFINE o == [owned[t] EXCEPT !.foreign =
                     @ \/ access[t].key \notin owned[t].computed]
  <1>o. owned[t] # None =>
          /\ o \in Occurrences /\ o.lookups = owned[t].lookups
          /\ o.hits = owned[t].hits /\ o.misses = owned[t].misses
          /\ o.bodies = owned[t].bodies /\ o.cold = owned[t].cold
          /\ o.computed = owned[t].computed
          /\ owned[t].foreign = FALSE /\ access[t].key \in owned[t].computed =>
               o.foreign = FALSE
    <2> HAVE owned[t] # None
    <2>1. owned[t] \in Occurrences
      BY <1>0 DEF MathTypeOK
    <2>2. /\ o.lookups = owned[t].lookups
          /\ o.hits = owned[t].hits /\ o.misses = owned[t].misses
          /\ o.bodies = owned[t].bodies /\ o.cold = owned[t].cold
          /\ o.computed = owned[t].computed
          /\ o.foreign = (owned[t].foreign \/ access[t].key \notin owned[t].computed)
      BY <2>1 DEF Occurrences
    <2>3. o \in Occurrences
      BY <2>1 DEF Occurrences
    <2>4. owned[t].foreign = FALSE /\ access[t].key \in owned[t].computed =>
               o.foreign = FALSE
      BY <2>2
    <2> QED BY <2>2, <2>3, <2>4
  <1>p. owned' = IF owned[t] = None THEN owned ELSE [owned EXCEPT ![t] = o]
    OBVIOUS
  <1> HIDE DEF o
  <1>f. /\ owned' \in [Threads -> Occurrences \cup {None}]
        /\ owned'[t] = IF owned[t] = None THEN None ELSE o
        /\ \A u \in Threads \ {t} : owned'[u] = owned[u]
    BY <1>0, <1>o, <1>p DEF MathTypeOK
  <1>3. \A u \in Threads \ {t} : ThreadFits(u)'
    <2>1. \A u \in Threads \ {t} : frames'[u] = frames[u] /\ entries'[u] = entries[u]
      BY DEF isolationVars
    <2>2. hits' \in Nat /\ misses' \in Nat /\ hits' >= hits /\ misses' >= misses
      BY <1>1
    <2> QED BY <1>1, <1>2, <1>f, <2>1, <2>2, AccessOthers
  <1>4. MathTypeOK'
    BY <1>0, <1>1, <1>2, <1>b, <1>f DEF MathTypeOK
  <1>5. ThreadFits(t)'
    <2>0. /\ AccessFits(access[t], Len(frames[t]), entries[t], hits, misses)
          /\ AccountFits(owned[t], access[t], entries[t])
          /\ ColdFits(t, owned[t], access[t], writer_thread_id, Range(bounds))
      BY <1>0 DEF ThreadFits
    <2>1. AccessFits(access'[t], Len(frames[t]), entries[t], hits', misses)
      BY <1>1, <1>2, <2>0 DEF AccessFits
    <2>2. AccountFits(owned'[t], access'[t], entries[t])
      BY <1>1, <1>2, <1>f, <1>o, <2>0 DEF AccountFits
    <2>3. ColdFits(t, owned'[t], access'[t], writer_thread_id, Range(bounds'))
      BY <1>1, <1>2, <1>b, <1>f, <1>o, <2>0 DEF ColdFits
    <2> QED BY <2>1, <2>2, <2>3 DEF ThreadFits, isolationVars
  <1> QED BY <1>0, <1>3, <1>4, <1>5, MathAssemble

\* The lookup misses: the body is entered and counted as the thread's own.
LEMMA MissFits ==
    ASSUME MathInv, NEW t \in Threads, At(t, "lookup"), Goto(t, "enter"),
           misses' = misses + 1,
           entries' = [entries EXCEPT ![t] = @ + 1],
           owned' = IF owned[t] = None THEN owned
                    ELSE [owned EXCEPT ![t].computed = @ \cup {access[t].key},
                                       ![t].bodies = @ + 1],
           UNCHANGED <<isolationVars, hits, bounds, unclear>>
    PROVE  MathInv'
  <1>0. MathTypeOK /\ IsolationInv /\ ThreadFits(t) /\ unclear = FALSE
    BY DEF MathInv
  <1>1. /\ access[t] # None /\ access[t].phase = "lookup"
        /\ access[t] \in Accesses /\ access[t].key \in Keys
        /\ access[t].hits \in Nat /\ access[t].misses \in Nat
        /\ access[t].entries \in Nat
        /\ hits \in Nat /\ misses \in Nat /\ entries[t] \in Nat
    <2>1. access[t] # None /\ access[t].phase = "lookup"
      BY DEF At
    <2>2. access[t] \in Accesses
      BY <2>1, AccessInFrame
    <2> QED BY <1>0, <2>1, <2>2 DEF Accesses, MathTypeOK
  <1>2. /\ access' \in [Threads -> Accesses \cup {None}]
        /\ access'[t] # None
        /\ access'[t].phase = "enter" /\ access'[t].key = access[t].key
        /\ access'[t].hits = access[t].hits
        /\ access'[t].misses = access[t].misses
        /\ access'[t].entries = access[t].entries
        /\ access'[t].depth = access[t].depth
        /\ \A u \in Threads \ {t} : access'[u] = access[u]
    BY <1>1, PhaseMoves
  <1>b. /\ entries' \in [Threads -> Nat] /\ entries'[t] = entries[t] + 1
        /\ \A u \in Threads \ {t} : entries'[u] = entries[u]
    BY <1>0 DEF MathTypeOK
  <1> DEFINE o == [owned[t] EXCEPT !.computed = @ \cup {access[t].key},
                                   !.bodies = @ + 1]
  <1>o. owned[t] # None =>
          /\ o \in Occurrences /\ o.lookups = owned[t].lookups
          /\ o.hits = owned[t].hits /\ o.misses = owned[t].misses
          /\ o.bodies = owned[t].bodies + 1 /\ o.cold = owned[t].cold
          /\ o.computed = owned[t].computed \cup {access[t].key}
          /\ o.foreign = owned[t].foreign
          /\ o.misses \in Nat /\ owned[t].bodies \in Nat
    <2> HAVE owned[t] # None
    <2>1. owned[t] \in Occurrences
      BY <1>0 DEF MathTypeOK
    <2> DEFINE c == owned[t].computed \cup {access[t].key}
               n == owned[t].bodies + 1
    <2>2. c \in SUBSET Keys /\ owned[t].bodies \in Nat /\ n \in Nat
      BY <1>1, <2>1 DEF Occurrences
    <2>3. o = [owned[t] EXCEPT !.computed = c, !.bodies = n]
      OBVIOUS
    <2> HIDE DEF c, n, o
    <2>4. /\ o \in Occurrences /\ o.lookups = owned[t].lookups
          /\ o.hits = owned[t].hits /\ o.misses = owned[t].misses
          /\ o.bodies = n /\ o.cold = owned[t].cold
          /\ o.computed = c
          /\ o.foreign = owned[t].foreign
          /\ o.misses \in Nat
      BY <2>1, <2>2, <2>3 DEF Occurrences
    <2> QED BY <2>2, <2>4 DEF c, n
  <1>p. owned' = IF owned[t] = None THEN owned ELSE [owned EXCEPT ![t] = o]
    OBVIOUS
  <1> HIDE DEF o
  <1>f. /\ owned' \in [Threads -> Occurrences \cup {None}]
        /\ owned'[t] = IF owned[t] = None THEN None ELSE o
        /\ \A u \in Threads \ {t} : owned'[u] = owned[u]
    BY <1>0, <1>o, <1>p DEF MathTypeOK
  <1>3. \A u \in Threads \ {t} : ThreadFits(u)'
    <2>1. \A u \in Threads \ {t} : frames'[u] = frames[u]
      BY DEF isolationVars
    <2>2. hits' \in Nat /\ misses' \in Nat /\ hits' >= hits /\ misses' >= misses
      BY <1>1
    <2> QED BY <1>1, <1>2, <1>b, <1>f, <2>1, <2>2, AccessOthers
  <1>4. MathTypeOK'
    <2>1. hits' \in Nat /\ misses' \in Nat /\ bounds' \in Seq(Keys)
      BY <1>0, <1>1 DEF MathTypeOK
    <2> QED BY <1>2, <1>b, <1>f, <2>1 DEF MathTypeOK
  <1>5. ThreadFits(t)'
    <2>0. /\ AccessFits(access[t], Len(frames[t]), entries[t], hits, misses)
          /\ AccountFits(owned[t], access[t], entries[t])
          /\ ColdFits(t, owned[t], access[t], writer_thread_id, Range(bounds))
      BY <1>0 DEF ThreadFits
    <2>1. AccessFits(access'[t], Len(frames[t]), entries'[t], hits, misses')
      BY <1>1, <1>2, <1>b, <2>0 DEF AccessFits
    <2>2. AccountFits(owned'[t], access'[t], entries'[t])
      <3>1. CASE owned[t] = None
        BY <3>1, <1>f DEF AccountFits
      <3>2. CASE owned[t] # None
        <4>1. /\ owned[t].bodies = owned[t].misses + (entries[t] - access[t].entries)
              /\ owned[t].lookups = owned[t].hits + owned[t].misses + 1
          BY <3>2, <1>1, <2>0 DEF AccountFits
        <4>2. o.bodies = o.misses + ((entries[t] + 1) - access[t].entries)
          BY <3>2, <1>1, <1>o, <4>1
        <4> QED BY <3>2, <1>2, <1>b, <1>f, <1>o, <4>1, <4>2 DEF AccountFits
      <3> QED BY <3>1, <3>2
    <2>3. ColdFits(t, owned'[t], access'[t], writer_thread_id, Range(bounds))
      BY <1>1, <1>2, <1>f, <1>o, <2>0 DEF ColdFits
    <2> QED BY <2>1, <2>2, <2>3 DEF ThreadFits, isolationVars
  <1> QED BY <1>0, <1>3, <1>4, <1>5, MathAssemble

\* A phase change that leaves the counters and the account alone: the frames
\* follow it, and the cache gains at most the access's own key.
LEMMA MoveFits ==
    ASSUME MathInv, NEW t \in Threads, access[t] # None,
           NEW p \in {"mass", "leave", "insert", "classify"}, Goto(t, p),
           access[t].phase \in {"enter", "mass", "leave", "insert"},
           [IsolationNext]_isolationVars,
           \A u \in Threads \ {t} : frames'[u] = frames[u],
           writer_thread_id' = writer_thread_id,
           Len(frames'[t]) = IF p \in {"mass", "leave"} THEN access[t].depth + 1
                             ELSE access[t].depth,
           bounds' \in Seq(Keys),
           Range(bounds') \subseteq Range(bounds) \cup {access[t].key},
           UNCHANGED <<hits, misses, entries, owned, unclear>>
    PROVE  MathInv'
  <1>0. MathTypeOK /\ IsolationInv /\ ThreadFits(t) /\ unclear = FALSE
    BY DEF MathInv
  <1>1. /\ access[t] \in Accesses
        /\ access[t].hits \in Nat /\ access[t].misses \in Nat
        /\ access[t].entries \in Nat
        /\ hits \in Nat /\ misses \in Nat /\ entries[t] \in Nat
    <2>2. access[t] \in Accesses
      BY AccessInFrame
    <2> QED BY <1>0, <2>2 DEF Accesses, MathTypeOK
  <1>2. /\ access' \in [Threads -> Accesses \cup {None}]
        /\ access'[t] # None
        /\ access'[t].phase = p /\ access'[t].key = access[t].key
        /\ access'[t].hits = access[t].hits
        /\ access'[t].misses = access[t].misses
        /\ access'[t].entries = access[t].entries
        /\ access'[t].depth = access[t].depth
        /\ \A u \in Threads \ {t} : access'[u] = access[u]
    BY <1>1, PhaseMoves
  <1>3. \A u \in Threads \ {t} : ThreadFits(u)'
    <2>2. hits' \in Nat /\ misses' \in Nat /\ hits' >= hits /\ misses' >= misses
      BY <1>1
    <2> QED BY <1>1, <1>2, <2>2, AccessOthers
  <1>4. MathTypeOK'
    BY <1>0, <1>2 DEF MathTypeOK
  <1>5. ThreadFits(t)'
    <2>0. /\ AccessFits(access[t], Len(frames[t]), entries[t], hits, misses)
          /\ AccountFits(owned[t], access[t], entries[t])
          /\ ColdFits(t, owned[t], access[t], writer_thread_id, Range(bounds))
      BY <1>0 DEF ThreadFits
    <2>1. AccessFits(access'[t], Len(frames'[t]), entries[t], hits, misses)
      BY <1>1, <1>2, <2>0 DEF AccessFits
    <2>2. AccountFits(owned[t], access'[t], entries[t])
      BY <1>2, <2>0 DEF AccountFits
    <2>3. ColdFits(t, owned[t], access'[t], writer_thread_id, Range(bounds'))
      BY <1>2, <2>0 DEF ColdFits
    <2> QED BY <2>1, <2>2, <2>3 DEF ThreadFits
  <1> QED BY <1>0, <1>3, <1>4, <1>5, MathAssemble

\* The steps of an access after its lookup, up to its classification.
LEMMA BodyFits ==
    ASSUME MathInv, NEW t \in Threads,
           EnterMass(t) \/ MassLookup(t) \/ LeaveMass(t) \/ Insert(t)
    PROVE  MathInv'
  <1>0. MathTypeOK /\ IsolationInv /\ ThreadFits(t)
    BY DEF MathInv
  <1>a. /\ access[t] # None
        /\ access[t].phase \in {"enter", "mass", "leave", "insert"}
    BY DEF EnterMass, MassLookup, LeaveMass, Insert, At
  <1>1. /\ access[t].depth \in Nat /\ access[t].key \in Keys
        /\ Len(frames[t]) \in Nat
        /\ Len(frames[t]) = IF access[t].phase \in {"mass", "leave"}
                            THEN access[t].depth + 1 ELSE access[t].depth
    <2>1. access[t] \in Accesses /\ Len(frames[t]) \in Nat
      BY <1>a, AccessInFrame
    <2> QED BY <1>0, <1>a, <2>1 DEF Accesses, ThreadFits, AccessFits
  <1>b. bounds \in Seq(Keys)
    BY <1>0 DEF MathTypeOK
  <1>2. CASE EnterMass(t)
    <2>1. /\ access[t].phase = "enter" /\ Goto(t, "mass")
          /\ EnterNested(t) \/ EnterWriterOwned(t)
          /\ UNCHANGED <<bounds, mass, hits, misses, entries, owned, unclear>>
      BY <1>2 DEF EnterMass, At, cacheVars
    <2>2. IsolationStep(t)
      BY <2>1 DEF IsolationStep
    <2>3. IsolationNext /\ \A u \in Threads \ {t} : frames'[u] = frames[u]
      BY <1>0, <2>2, IsolationMoves DEF IsolationNext
    <2>4. Len(frames'[t]) = Len(frames[t]) + 1 /\ writer_thread_id' = writer_thread_id
      BY <1>0, <2>1, FacadeMoves
    <2> QED BY <1>a, <1>1, <1>b, <2>1, <2>3, <2>4, MoveFits
  <1>3. CASE MassLookup(t)
    <2>1. /\ access[t].phase = "mass" /\ Goto(t, "leave")
          /\ UNCHANGED <<isolationVars, bounds, hits, misses, entries, owned,
                         unclear>>
      BY <1>3 DEF MassLookup, At
    <2>2. UNCHANGED <<frames, writer_thread_id>>
      BY <2>1 DEF isolationVars
    <2> QED BY <1>a, <1>1, <1>b, <2>1, <2>2, MoveFits
  <1>4. CASE LeaveMass(t)
    <2> DEFINE p == IF access[t].key \in FailingKeys THEN "classify" ELSE "insert"
    <2>1. /\ access[t].phase = "leave" /\ Goto(t, p)
          /\ LeaveReader(t) \/ LeaveWriterOwned(t)
          /\ UNCHANGED <<bounds, mass, hits, misses, entries, owned, unclear>>
      BY <1>4 DEF LeaveMass, At, cacheVars
    <2>2. IsolationStep(t)
      BY <2>1 DEF IsolationStep
    <2>3. IsolationNext /\ \A u \in Threads \ {t} : frames'[u] = frames[u]
      BY <1>0, <2>2, IsolationMoves DEF IsolationNext
    <2>4. Len(frames'[t]) = Len(frames[t]) - 1 /\ writer_thread_id' = writer_thread_id
      BY <1>0, <2>1, FacadeMoves
    <2>5. p \in {"classify", "insert"}
      OBVIOUS
    <2> HIDE DEF p
    <2>6. Len(frames'[t]) = access[t].depth
      BY <1>1, <2>1, <2>4
    <2> QED BY <1>a, <1>b, <2>1, <2>3, <2>4, <2>5, <2>6, MoveFits
  <1>5. CASE Insert(t)
    <2> DEFINE k == access[t].key
    <2>1. /\ access[t].phase = "insert" /\ Goto(t, "classify")
          /\ bounds' = IF k \in Range(bounds) THEN bounds
                       ELSE Append(IF Len(bounds) = MaxSize THEN Tail(bounds)
                                   ELSE bounds, k)
          /\ UNCHANGED <<isolationVars, hits, misses, entries, owned, unclear>>
      BY <1>5 DEF Insert, At
    <2>2. UNCHANGED <<frames, writer_thread_id>>
      BY <2>1 DEF isolationVars
    <2>3. bounds' \in Seq(Keys) /\ Range(bounds') \subseteq Range(bounds) \cup {k}
      <3>1. Len(bounds) = MaxSize =>
              Tail(bounds) \in Seq(Keys) /\ Range(Tail(bounds)) \subseteq Range(bounds)
        <4> HAVE Len(bounds) = MaxSize
        <4>1. bounds # <<>>
          BY CacheBounds
        <4> QED BY <1>1, <1>b, <4>1, CacheMoves
      <3>2. CASE k \in Range(bounds)
        BY <3>2, <1>b, <2>1
      <3>3. CASE k \notin Range(bounds) /\ Len(bounds) = MaxSize
        <4>1. bounds' = Append(Tail(bounds), k)
          BY <3>3, <2>1
        <4>2. Tail(bounds) \in Seq(Keys) /\ k \in Keys
          BY <1>1, <3>1, <3>3
        <4>3. /\ Append(Tail(bounds), k) \in Seq(Keys)
              /\ Range(Append(Tail(bounds), k)) = Range(Tail(bounds)) \cup {k}
          BY <4>2, CacheMoves
        <4> QED BY <3>1, <3>3, <4>1, <4>3
      <3>4. CASE k \notin Range(bounds) /\ Len(bounds) # MaxSize
        <4>1. bounds' = Append(bounds, k)
          BY <3>4, <2>1
        <4> QED BY <1>1, <1>b, <4>1, CacheMoves
      <3> QED BY <3>2, <3>3, <3>4
    <2> HIDE DEF k
    <2>4. Range(bounds') \subseteq Range(bounds) \cup {access[t].key}
      BY <2>3 DEF k
    <2> QED BY <1>a, <1>1, <2>1, <2>2, <2>3, <2>4, MoveFits
  <1> QED BY <1>2, <1>3, <1>4, <1>5

\* The classification is never unclear and counts what really happened.
LEMMA ClassifyFits ==
    ASSUME MathInv, NEW t \in Threads, Classify(t)
    PROVE  MathInv'
  <1>0. MathTypeOK /\ IsolationInv /\ ThreadFits(t) /\ unclear = FALSE
    BY DEF MathInv
  <1>1. /\ access[t] # None /\ access[t].phase = "classify"
        /\ access[t] \in Accesses /\ entries[t] \in Nat
        /\ access[t].hits \in Nat /\ access[t].misses \in Nat
        /\ access[t].entries \in Nat
        /\ hits \in Nat /\ misses \in Nat
    <2>1. access[t] # None /\ access[t].phase = "classify"
      BY DEF Classify, At
    <2>2. access[t] \in Accesses /\ entries[t] \in Nat
      BY <2>1, AccessInFrame
    <2> QED BY <1>0, <2>1, <2>2 DEF Accesses, MathTypeOK
  <1>2. \/ entries[t] = access[t].entries /\ Classification(t) = "hit"
        \/ entries[t] = access[t].entries + 1 /\ Classification(t) = "miss"
    <2>1. \/ entries[t] = access[t].entries /\ hits > access[t].hits
          \/ entries[t] = access[t].entries + 1 /\ misses > access[t].misses
      BY <1>0, <1>1 DEF ThreadFits, AccessFits
    <2>2. CASE entries[t] = access[t].entries /\ hits > access[t].hits
      <3>1. entries[t] - access[t].entries = 0
        BY <1>1, <2>2
      <3> QED BY <2>2, <3>1 DEF Classification
    <2>3. CASE entries[t] = access[t].entries + 1 /\ misses > access[t].misses
      <3>1. entries[t] - access[t].entries = 1
        BY <1>1, <2>3
      <3> QED BY <2>3, <3>1 DEF Classification
    <2> QED BY <2>1, <2>2, <2>3
  <1>3. /\ access' = [access EXCEPT ![t] = None]
        /\ UNCHANGED <<isolationVars, bounds, mass, hits, misses, entries>>
    BY DEF Classify, cacheVars
  <1>4. unclear' = FALSE
    BY <1>0, <1>2 DEF Classify
  <1>a. /\ access' \in [Threads -> Accesses \cup {None}]
        /\ access'[t] = None
        /\ \A u \in Threads \ {t} : access'[u] = access[u]
    BY <1>0, <1>3 DEF MathTypeOK
  <1> DEFINE h == [owned[t] EXCEPT !.hits = @ + 1]
             m == [owned[t] EXCEPT !.misses = @ + 1]
  <1>o. owned' = IF owned[t] = None THEN owned
                 ELSE IF entries[t] = access[t].entries
                 THEN [owned EXCEPT ![t] = h] ELSE [owned EXCEPT ![t] = m]
    <2>1. CASE owned[t] = None
      BY <2>1 DEF Classify
    <2>2. CASE owned[t] # None /\ Classification(t) = "hit"
      <3>1. owned' = [owned EXCEPT ![t].hits = @ + 1]
        BY <2>2 DEF Classify
      <3> QED BY <1>1, <1>2, <2>2, <3>1
    <2>3. CASE owned[t] # None /\ Classification(t) = "miss"
      <3>1. owned' = [owned EXCEPT ![t].misses = @ + 1]
        BY <2>3 DEF Classify
      <3>2. entries[t] # access[t].entries
        BY <1>1, <1>2, <2>3
      <3> QED BY <2>3, <3>1, <3>2
    <2> QED BY <1>2, <2>1, <2>2, <2>3
  <1>t. owned[t] # None =>
          /\ h \in Occurrences /\ h.lookups = owned[t].lookups
          /\ h.hits = owned[t].hits + 1 /\ h.misses = owned[t].misses
          /\ h.bodies = owned[t].bodies /\ h.cold = owned[t].cold
          /\ h.computed = owned[t].computed /\ h.foreign = owned[t].foreign
          /\ m \in Occurrences /\ m.lookups = owned[t].lookups
          /\ m.hits = owned[t].hits /\ m.misses = owned[t].misses + 1
          /\ m.bodies = owned[t].bodies /\ m.cold = owned[t].cold
          /\ m.computed = owned[t].computed /\ m.foreign = owned[t].foreign
          /\ owned[t].hits \in Nat /\ owned[t].misses \in Nat
    <2> HAVE owned[t] # None
    <2>1. owned[t] \in Occurrences
      BY <1>0 DEF MathTypeOK
    <2> QED BY <2>1 DEF Occurrences
  <1> HIDE DEF h, m
  <1>f. /\ owned' \in [Threads -> Occurrences \cup {None}]
        /\ owned'[t] = IF owned[t] = None THEN None
                       ELSE IF entries[t] = access[t].entries THEN h ELSE m
        /\ \A u \in Threads \ {t} : owned'[u] = owned[u]
    BY <1>0, <1>o, <1>t DEF MathTypeOK
  <1>5. \A u \in Threads \ {t} : ThreadFits(u)'
    <2>1. \A u \in Threads \ {t} : frames'[u] = frames[u] /\ entries'[u] = entries[u]
      BY <1>3 DEF isolationVars
    <2>2. hits' \in Nat /\ misses' \in Nat /\ hits' >= hits /\ misses' >= misses
      BY <1>1, <1>3
    <2> QED BY <1>1, <1>a, <1>f, <2>1, <2>2, AccessOthers
  <1>6. MathTypeOK'
    BY <1>0, <1>3, <1>a, <1>f DEF MathTypeOK
  <1>7. ThreadFits(t)'
    <2>0. /\ AccountFits(owned[t], access[t], entries[t])
          /\ ColdFits(t, owned[t], access[t], writer_thread_id, Range(bounds))
      BY <1>0 DEF ThreadFits
    <2>1. AccessFits(None, Len(frames'[t]), entries'[t], hits', misses')
      BY DEF AccessFits
    <2>2. AccountFits(owned'[t], None, entries'[t])
      <3>1. CASE owned[t] = None
        BY <3>1, <1>f DEF AccountFits
      <3>2. CASE owned[t] # None
        <4>1. /\ owned[t].bodies = owned[t].misses + (entries[t] - access[t].entries)
              /\ owned[t].lookups = owned[t].hits + owned[t].misses + 1
          BY <3>2, <1>1, <2>0 DEF AccountFits
        <4>2. CASE entries[t] = access[t].entries
          <5>1. /\ h.misses = h.bodies /\ h.lookups = h.hits + h.misses
            BY <4>2, <3>2, <1>1, <1>t, <4>1
          <5> QED BY <3>2, <4>2, <1>f, <5>1 DEF AccountFits
        <4>3. CASE entries[t] = access[t].entries + 1
          <5>1. /\ m.misses = m.bodies /\ m.lookups = m.hits + m.misses
            BY <4>3, <3>2, <1>1, <1>t, <4>1
          <5>2. entries[t] # access[t].entries
            BY <4>3, <1>1
          <5> QED BY <3>2, <5>2, <1>f, <5>1 DEF AccountFits
        <4> QED BY <1>2, <4>2, <4>3
      <3> QED BY <3>1, <3>2
    <2>3. ColdFits(t, owned'[t], None, writer_thread_id, Range(bounds))
      BY <1>f, <1>t, <2>0 DEF ColdFits
    <2> QED BY <1>3, <1>a, <2>1, <2>2, <2>3 DEF ThreadFits, isolationVars
  <1> QED BY <1>0, <1>3, <1>4, <1>5, <1>6, <1>7, MathAssemble

\* Nothing is cached or counted at first.
LEMMA MathInitInv == MathCacheInit => MathInv
  <1> SUFFICES ASSUME MathCacheInit PROVE MathInv
    OBVIOUS
  <1>1. IsolationInv
    BY IsolationInitInv DEF MathCacheInit
  <1>2. /\ bounds = <<>> /\ hits = 0 /\ misses = 0 /\ unclear = FALSE
        /\ entries = [t \in Threads |-> 0]
        /\ access = [t \in Threads |-> None]
        /\ owned = [t \in Threads |-> None]
    BY DEF MathCacheInit
  <1>3. MathTypeOK
    BY <1>2 DEF MathTypeOK
  <1>4. \A t \in Threads : ThreadFits(t)
    BY <1>2 DEF ThreadFits, AccessFits, AccountFits, ColdFits
  <1> QED BY <1>1, <1>2, <1>3, <1>4 DEF MathInv

\* Every step of the accounted cache keeps the inductive invariant.
LEMMA MathStepInv == MathInv /\ [MathCacheNext]_mathVars => MathInv'
  <1> SUFFICES ASSUME MathInv, [MathCacheNext]_mathVars PROVE MathInv'
    OBVIOUS
  <1>1. CASE UNCHANGED mathVars
    <2>1. UNCHANGED <<isolationVars, bounds, hits, misses, entries, access,
                      owned, unclear>>
      BY <1>1 DEF mathVars, cacheVars
    <2>2. IsolationInv'
      BY <2>1, IsolationStepInv DEF MathInv
    <2>3. MathTypeOK' /\ unclear' = FALSE
      BY <2>1 DEF MathInv, MathTypeOK
    <2>4. \A t \in Threads : ThreadFits(t)'
      BY <2>1 DEF MathInv, ThreadFits, isolationVars
    <2> QED BY <2>2, <2>3, <2>4 DEF MathInv
  <1>2. ASSUME NEW t \in Threads, Lookup(t) PROVE MathInv'
    <2>0. At(t, "lookup") /\ UNCHANGED <<isolationVars, unclear>>
      BY <1>2 DEF Lookup
    <2>1. CASE Goto(t, "classify") /\ hits' = hits + 1
      <3>1. PICK i \in DOMAIN bounds :
              /\ bounds[i] = access[t].key
              /\ bounds' = Append(RemoveAt(bounds, i), access[t].key)
              /\ owned' = IF owned[t] = None THEN owned
                          ELSE [owned EXCEPT ![t].foreign =
                                  @ \/ access[t].key \notin owned[t].computed]
              /\ UNCHANGED <<misses, entries>>
        <4>1. hits' # hits
          BY <2>1 DEF MathInv, MathTypeOK
        <4> QED BY <1>2, <4>1 DEF Lookup
      <3> QED BY <2>0, <2>1, <3>1, HitFits
    <2>2. CASE ~(Goto(t, "classify") /\ hits' = hits + 1)
      <3>1. /\ Goto(t, "enter") /\ misses' = misses + 1
            /\ entries' = [entries EXCEPT ![t] = @ + 1]
            /\ owned' = IF owned[t] = None THEN owned
                        ELSE [owned EXCEPT ![t].computed = @ \cup {access[t].key},
                                           ![t].bodies = @ + 1]
            /\ UNCHANGED <<hits, bounds>>
        BY <1>2, <2>2 DEF Lookup
      <3> QED BY <2>0, <3>1, MissFits
    <2> QED BY <2>1, <2>2
  <1>3. ASSUME NEW t \in Threads, AccessStep(t) PROVE MathInv'
    BY <1>2, <1>3, BodyFits, ClassifyFits DEF AccessStep
  <1> QED BY <1>1, <1>3, ClientFits, ClearFits, ColdBegins, SharedBegins,
            OccurrenceEnds, AccessBegins DEF MathCacheNext

\* The accounted cache keeps its inductive invariant, the isolation's included.
THEOREM MathCacheInvariant == MathCacheSpec => []MathInv
  BY MathInitInv, MathStepInv, PTL DEF MathCacheSpec

\* The accounting of _outer_confidence_bounds_accounted_v2 is exact and never
\* raises, for any number of threads that move the shared counters.
THEOREM AccountingIsExact == MathCacheSpec => []AccountingExact
  <1>1. MathInv => AccountingExact
    BY DEF MathInv, ThreadFits, AccountFits, AccountingExact
  <1> QED BY <1>1, MathCacheInvariant, PTL

\* A cold occurrence hits only what it has computed itself since the clear.
THEOREM ColdOccurrencesNeverReuse == MathCacheSpec => []ColdNeverReuses
  <1>1. MathInv => ColdNeverReuses
    BY DEF MathInv, ThreadFits, ColdFits, ColdNeverReuses
  <1> QED BY <1>1, MathCacheInvariant, PTL

\* The isolation keeps its promises to the clients that take it here: in the
\* midst of accesses and occurrences an epoch excludes every other thread, and
\* no check of the two finally blocks raises.
THEOREM MathCacheIsolated ==
    MathCacheSpec => [](EpochExcludesOthers /\ ChecksNeverRaise)
  <1>1. MathInv => EpochExcludesOthers /\ ChecksNeverRaise
    BY FrameOwners DEF MathInv, IsolationInv, EpochExcludesOthers
  <1> QED BY <1>1, MathCacheInvariant, PTL
=============================================================================
