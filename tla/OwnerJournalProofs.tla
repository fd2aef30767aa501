------------------------ MODULE OwnerJournalProofs ------------------------
(***************************************************************************)
(* The files of the shared cap owner for any number of processes, records  *)
(* and faults: whatever step a process dies at, the next locked call       *)
(* accepts what it left, and the files implement the log of OwnerLog.      *)
(***************************************************************************)
EXTENDS OwnerJournal, FiniteSetTheorems, SequenceTheorems, TLAPS

\* The record files of a journal s: one for each record, which names all the
\* records up to it.
Chain(s) == {SubSeq(s, 1, i) : i \in 1..Len(s)}

PayloadRecords == {Payload(x) : x \in Payloads}

\* Where a process holds the owner lock.
Holding == {"cursor", "reconcile", "work", "row", "pending", "publish"}

CallType ==
    [kind : {"none", "append", "replay", "enable"},
     rec : PayloadRecords \cup {None},
     stage : {"none", "call", "open", "hydrate", "recovery", "admission",
              "verify"},
     done : BOOLEAN]

\* The record files fs are the chain of the journal l, which has no more units
\* than its intent needs and an intent for the present directory w only.
HistoryFits(fs, l, w) ==
    /\ l \in Seq(Records) /\ fs = Chain(l)
    /\ UnitsDone(l) \in 0..UnitLength
    /\ IntentOf(l) \in {0, w}

\* A record d that may follow the journal l while the directory is w.
NextFits(l, w, d) ==
    \/ d \in PayloadRecords
    \/ d = Intent(w) /\ w # 0 /\ IntentOf(l) = 0
    \/ /\ d = Unit(UnitsDone(l) + 1)
       /\ IntentOf(l) # 0 /\ UnitsDone(l) < UnitLength

\* The stages of an append, by its committed links c and pending links n:
\* nothing pending, announced, published, committed.
CursorFits(l, c, n, w) ==
    \/ c = {l} /\ n = {}
    \/ c = {l} /\ \E d \in Records : NextFits(l, w, d) /\ n = {Append(l, d)}
    \/ l # <<>> /\ c = {Front(l)} /\ n = {l}
    \/ l # <<>> /\ c = {Front(l), l} /\ n \subseteq {l}

\* The rows r: none without a directory, the announced record a if there is
\* one, else what an append left before its announcement or after its end.
RowsFit(l, a, w, r) ==
    /\ w = 0 => r = {}
    /\ w # 0 => IF a # {} THEN r = a ELSE \A x \in r : x = l \/ Front(x) = l

\* The binding marker b stands on the settled intent of the directory.
BindingFits(l, w, b) ==
    b # 0 => b = w /\ IntentOf(l) = b /\ UnitsDone(l) = UnitLength

\* Each directory but the last was given up because of a fault.
InodesFit(w, i, f) ==
    /\ w \in Nat /\ i \in Nat /\ f \in Nat /\ f <= MaxFaults
    /\ w <= i /\ i <= f + 1
    /\ w = 0 => i <= f

\* A directory without intent is the work of the lock holder or of a dead one.
DirectoryFits(l, i, f, owner, c) ==
    \/ i <= f
    \/ IntentOf(l) # 0
    \/ owner # None /\ c[owner].stage = "admission"

DiskFits ==
    /\ HistoryFits(files, Log, walDir)
    /\ CursorFits(Log, committed, pending, walDir)
    /\ RowsFit(Log, Announced, walDir, rows)
    /\ BindingFits(Log, walDir, binding)
    /\ InodesFit(walDir, inodes, faults)
    /\ DirectoryFits(Log, inodes, faults, ownerLock, call)

CallFits(c) ==
    /\ c \in CallType
    /\ c.kind = "append" => c.rec \in PayloadRecords
    /\ c.stage \in {"open", "hydrate", "recovery", "admission"} =>
         c.kind = "enable"

\* What the point a process has reached says of the files it works on.
PointFits(p) ==
    /\ pc[p] \in Holding \ {"cursor"} => committed = {Log}
    /\ pc[p] = "work" /\ walDir # 0 => pending = {} /\ rows = {}
    /\ pc[p] \in {"row", "pending", "publish"} =>
         NextFits(Log, walDir, NextRecord(p))
    /\ pc[p] = "row" => walDir # 0 /\ pending = {}
    /\ pc[p] = "pending" /\ walDir # 0 => pending = {} /\ rows = {Appended(p)}
    /\ pc[p] = "publish" => pending = {Appended(p)}

ProcFits(p) ==
    /\ CallFits(call[p])
    /\ pc[p] \in Holding \cup {"idle", "owner", "gate"}
    /\ pc[p] = "gate" => call[p].kind = "enable"
    /\ pc[p] \in Holding <=> ownerLock = p
    /\ ownerLock = p => WalOf(p) = walDir
    /\ PointFits(p)

OwnerInv ==
    /\ ownerLock \in Procs \cup {None}
    /\ DOMAIN pc = Procs /\ DOMAIN call = Procs /\ DOMAIN handle = Procs
    /\ DiskFits
    /\ \A p \in Procs : ProcFits(p)
-----------------------------------------------------------------------------
(* Chains of records                                                       *)

\* What SubSeq from the start gives.
LEMMA PrefixOf ==
    ASSUME NEW R, NEW s \in Seq(R), NEW i \in 0..Len(s)
    PROVE  /\ SubSeq(s, 1, i) \in Seq(R) /\ Len(SubSeq(s, 1, i)) = i
           /\ \A j \in 1..i : SubSeq(s, 1, i)[j] = s[j]
  <1>1. PICK n \in Nat : n = Len(s)
    BY LenProperties
  <1>2. i \in 0..n /\ \A j \in 1..i : s[j] \in R
    BY <1>1, LenProperties
  <1>3. /\ SubSeq(s, 1, i) \in Seq(R)
        /\ Len(SubSeq(s, 1, i)) = IF 1 <= i THEN i - 1 + 1 ELSE 0
        /\ \A j \in 1..(i - 1 + 1) : SubSeq(s, 1, i)[j] = s[1 + j - 1]
    BY <1>2, SubSeqProperties
  <1>4. Len(SubSeq(s, 1, i)) = i
    <2>1. PICK m : m = Len(SubSeq(s, 1, i))
      OBVIOUS
    <2> QED BY <1>2, <1>3, <2>1
  <1>5. ASSUME NEW j \in 1..i PROVE SubSeq(s, 1, i)[j] = s[j]
    <2>1. j \in 1..(i - 1 + 1) /\ 1 + j - 1 = j
      BY <1>2
    <2> QED BY <1>3, <2>1
  <1> QED BY <1>3, <1>4, <1>5

\* A chain replays, is linear, and its longest record is the journal itself.
LEMMA ChainOf ==
    ASSUME NEW R, NEW s \in Seq(R)
    PROVE  /\ Tail0(Chain(s)) = s
           /\ Replays(Chain(s)) /\ Linear(Chain(s))
           /\ s # <<>> => s \in Chain(s)
           /\ \A t \in Chain(s) : t \in Seq(R) /\ Len(t) \in 1..Len(s)
  <1>1. PICK n \in Nat : n = Len(s)
    BY LenProperties
  <1>2. \A i \in 1..n : SubSeq(s, 1, i) \in Seq(R) /\ Len(SubSeq(s, 1, i)) = i
    BY <1>1, PrefixOf
  <1>3. \A t \in Chain(s) : t \in Seq(R) /\ Len(t) \in 1..n /\ t = SubSeq(s, 1, Len(t))
    BY <1>1, <1>2 DEF Chain
  <1>4. SubSeq(s, 1, n) = s
    <2>1. /\ SubSeq(s, 1, n) \in Seq(R) /\ Len(SubSeq(s, 1, n)) = n
          /\ \A j \in 1..n : SubSeq(s, 1, n)[j] = s[j]
      BY <1>1, PrefixOf
    <2> QED BY <1>1, <2>1, SeqEqual
  <1>5. s # <<>> => s \in Chain(s)
    <2> HAVE s # <<>>
    <2>1. n \in 1..n
      BY <1>1, EmptySeq
    <2> QED BY <1>1, <1>4, <2>1 DEF Chain
  <1>6. Linear(Chain(s))
    BY <1>3 DEF Linear
  <1>7. Replays(Chain(s))
    <2> SUFFICES ASSUME NEW t \in Chain(s), Len(t) > 1
                 PROVE  Front(t) \in Chain(s)
      BY DEF Replays
    <2>1. PICK i \in 1..n : i = Len(t) /\ t = SubSeq(s, 1, i) /\ t \in Seq(R)
      BY <1>3
    <2>2. i - 1 \in 1..n /\ i - 1 \in 0..Len(t) /\ i - 1 \in 0..Len(s)
      BY <1>1, <2>1
    <2>3. Front(t) = SubSeq(t, 1, i - 1)
      BY <2>1 DEF Front
    <2>4. /\ SubSeq(t, 1, i - 1) \in Seq(R) /\ Len(SubSeq(t, 1, i - 1)) = i - 1
          /\ \A j \in 1..(i - 1) : SubSeq(t, 1, i - 1)[j] = t[j]
      BY <2>1, <2>2, PrefixOf
    <2>5. /\ SubSeq(s, 1, i - 1) \in Seq(R) /\ Len(SubSeq(s, 1, i - 1)) = i - 1
          /\ \A j \in 1..(i - 1) : SubSeq(s, 1, i - 1)[j] = s[j]
      BY <2>2, PrefixOf
    <2>6. \A j \in 1..(i - 1) : t[j] = s[j]
      <3>1. \A j \in 1..i : SubSeq(s, 1, i)[j] = s[j]
        BY <1>1, <2>1, PrefixOf
      <3> QED BY <2>1, <3>1
    <2>7. SubSeq(t, 1, i - 1) = SubSeq(s, 1, i - 1)
      BY <2>4, <2>5, <2>6, SeqEqual
    <2> QED BY <1>1, <2>2, <2>3, <2>7 DEF Chain
  <1>8. Tail0(Chain(s)) = s
    <2>1. CASE s = <<>>
      <3>1. Chain(s) = {}
        BY <2>1 DEF Chain
      <3> QED BY <2>1, <3>1 DEF Tail0
    <2>2. CASE s # <<>>
      <3>1. s \in Chain(s) /\ \A t \in Chain(s) : Len(t) <= Len(s)
        BY <1>1, <1>3, <1>5, <2>2
      <3> DEFINE x == CHOOSE u \in Chain(s) : \A t \in Chain(s) : Len(t) <= Len(u)
      <3>2. x \in Chain(s) /\ \A t \in Chain(s) : Len(t) <= Len(x)
        BY <3>1
      <3>3. Tail0(Chain(s)) = x
        BY <3>1 DEF Tail0
      <3> HIDE DEF x
      <3>4. Len(x) = n /\ x = SubSeq(s, 1, Len(x))
        BY <1>1, <1>3, <3>1, <3>2
      <3> QED BY <1>4, <3>3, <3>4
    <2> QED BY <2>1, <2>2
  <1> QED BY <1>1, <1>3, <1>5, <1>6, <1>7, <1>8

\* One more record makes the chain longer by its file.
LEMMA ChainGrows ==
    ASSUME NEW R, NEW s \in Seq(R), NEW d \in R
    PROVE  /\ Append(s, d) \in Seq(R)
           /\ Len(Append(s, d)) = Len(s) + 1 /\ Len(s) \in Nat
           /\ Chain(Append(s, d)) = Chain(s) \cup {Append(s, d)}
           /\ Append(s, d) \notin Chain(s)
           /\ Append(s, d) # <<>> /\ Append(s, d) # s
           /\ Front(Append(s, d)) = s /\ Last(Append(s, d)) = d
  <1>1. PICK n \in Nat : n = Len(s)
    BY LenProperties
  <1> DEFINE a == Append(s, d)
  <1>2. /\ a \in Seq(R) /\ Len(a) = n + 1
        /\ \A j \in 1..n : a[j] = s[j]
        /\ a[n + 1] = d
    BY <1>1, AppendProperties
  <1>3. a # <<>> /\ a # s
    BY <1>1, <1>2, EmptySeq
  <1> HIDE DEF a
  <1>4. ASSUME NEW i \in 1..n PROVE SubSeq(a, 1, i) = SubSeq(s, 1, i)
    <2>1. /\ SubSeq(a, 1, i) \in Seq(R) /\ Len(SubSeq(a, 1, i)) = i
          /\ \A j \in 1..i : SubSeq(a, 1, i)[j] = a[j]
      BY <1>2, PrefixOf
    <2>2. /\ SubSeq(s, 1, i) \in Seq(R) /\ Len(SubSeq(s, 1, i)) = i
          /\ \A j \in 1..i : SubSeq(s, 1, i)[j] = s[j]
      BY <1>1, PrefixOf
    <2>3. \A j \in 1..i : a[j] = s[j]
      BY <1>2
    <2> QED BY <2>1, <2>2, <2>3, SeqEqual
  <1>5. SubSeq(a, 1, n + 1) = a
    <2>1. /\ SubSeq(a, 1, n + 1) \in Seq(R) /\ Len(SubSeq(a, 1, n + 1)) = n + 1
          /\ \A j \in 1..(n + 1) : SubSeq(a, 1, n + 1)[j] = a[j]
      BY <1>2, PrefixOf
    <2> QED BY <1>2, <2>1, SeqEqual
  <1>6. Chain(a) = Chain(s) \cup {a}
    <2>1. Chain(a) = {SubSeq(a, 1, i) : i \in 1..(n + 1)}
      BY <1>2 DEF Chain
    <2>2. Chain(s) = {SubSeq(s, 1, i) : i \in 1..n}
      BY <1>1 DEF Chain
    <2>3. 1..(n + 1) = (1..n) \cup {n + 1}
      OBVIOUS
    <2> QED BY <1>4, <1>5, <2>1, <2>2, <2>3
  <1>7. a \notin Chain(s)
    BY <1>1, <1>2, ChainOf
  <1>8. Front(a) = s
    <2>1. Front(a) = SubSeq(a, 1, n)
      BY <1>2 DEF Front
    <2>2. /\ SubSeq(a, 1, n) \in Seq(R) /\ Len(SubSeq(a, 1, n)) = n
          /\ \A j \in 1..n : SubSeq(a, 1, n)[j] = a[j]
      BY <1>2, PrefixOf
    <2> QED BY <1>1, <1>2, <2>1, <2>2, SeqEqual
  <1>9. Last(a) = d
    BY <1>2 DEF Last
  <1> QED BY <1>1, <1>2, <1>3, <1>6, <1>7, <1>8, <1>9 DEF a

\* What one more record does to the intent and the units of a journal.
LEMMA HistoryGrows ==
    ASSUME NEW s \in Seq(Records), NEW d \in Records,
           UnitsDone(s) \in Nat
    PROVE  /\ d.kind = "INTENT" /\ IntentOf(s) = 0 => IntentOf(Append(s, d)) = d.of
           /\ d.kind # "INTENT" => IntentOf(Append(s, d)) = IntentOf(s)
           /\ UnitsDone(Append(s, d)) =
                IF d.kind = "UNIT" THEN UnitsDone(s) + 1 ELSE UnitsDone(s)
  <1>1. PICK n \in Nat : n = Len(s)
    BY LenProperties
  <1> DEFINE a == Append(s, d)
  <1>2. /\ a \in Seq(Records) /\ Len(a) = n + 1
        /\ \A j \in 1..n : a[j] = s[j]
        /\ a[n + 1] = d
    BY <1>1, AppendProperties
  <1>3. DOMAIN a = 1..(n + 1) /\ DOMAIN s = 1..n
    BY <1>1, <1>2, LenProperties
  <1> HIDE DEF a
  <1>4. \A i \in DOMAIN s : s[i] \in Records
    BY <1>1, <1>3, LenProperties
  <1> DEFINE I(x) == {i \in DOMAIN x : x[i].kind = "INTENT"}
             U(x) == {i \in DOMAIN x : x[i].kind = "UNIT"}
  <1>5. /\ IntentOf(s) = IF I(s) = {} THEN 0 ELSE s[CHOOSE i \in I(s) : TRUE].of
        /\ IntentOf(a) = IF I(a) = {} THEN 0 ELSE a[CHOOSE i \in I(a) : TRUE].of
        /\ UnitsDone(s) = Cardinality(U(s)) /\ UnitsDone(a) = Cardinality(U(a))
    BY DEF IntentOf, UnitsDone
  <1>6. /\ I(a) = IF d.kind = "INTENT" THEN I(s) \cup {n + 1} ELSE I(s)
        /\ U(a) = IF d.kind = "UNIT" THEN U(s) \cup {n + 1} ELSE U(s)
        /\ I(s) \subseteq 1..n /\ U(s) \subseteq 1..n
    BY <1>2, <1>3
  <1>7. d.kind # "INTENT" => IntentOf(a) = IntentOf(s)
    <2> HAVE d.kind # "INTENT"
    <2>1. I(a) = I(s)
      BY <1>6
    <2>2. CASE I(s) = {}
      BY <1>5, <2>1, <2>2
    <2>3. CASE I(s) # {}
      <3>1. (CHOOSE i \in I(s) : TRUE) \in I(s)
        BY <2>3
      <3> QED BY ZenonT(30), <1>2, <1>5, <1>6, <2>1, <2>3, <3>1
    <2> QED BY <2>2, <2>3
  <1>8. d.kind = "INTENT" /\ IntentOf(s) = 0 => IntentOf(a) = d.of
    <2> HAVE d.kind = "INTENT" /\ IntentOf(s) = 0
    <2>1. I(s) = {}
      <3> SUFFICES ASSUME I(s) # {} PROVE FALSE
        OBVIOUS
      <3>1. PICK i \in I(s) : IntentOf(s) = s[i].of
        BY <1>5
      <3>2. s[i] \in Records /\ s[i].kind = "INTENT"
        BY <1>4
      <3>3. PICK k \in 1..(MaxFaults + 1) : s[i] = Intent(k)
        BY <3>2 DEF Records, Intent, Payload, Unit
      <3>4. IntentOf(s) = k
        BY <3>1, <3>3 DEF Intent
      <3> QED BY <3>4
    <2>2. I(a) = {n + 1}
      BY <1>6, <2>1
    <2>3. (CHOOSE i \in I(a) : TRUE) = n + 1
      BY <2>2
    <2> QED BY <1>2, <1>5, <2>2, <2>3
  <1>9. UnitsDone(a) = IF d.kind = "UNIT" THEN UnitsDone(s) + 1 ELSE UnitsDone(s)
    <2>1. IsFiniteSet(1..n)
      BY FS_Interval
    <2>2. IsFiniteSet(U(s)) /\ n + 1 \notin U(s)
      BY <1>6, <2>1, FS_Subset
    <2> QED BY ZenonT(30), <1>5, <1>6, <2>2, FS_AddElement
  <1> QED BY <1>7, <1>8, <1>9 DEF a
-----------------------------------------------------------------------------
(* The files                                                               *)

\* The files of a well-formed disk are readable, and tell the stages apart.
LEMMA Readable ==
    ASSUME DiskFits
    PROVE  /\ Log \in Seq(Records)
           /\ Replays(files) /\ Linear(files) /\ CursorReadable
           /\ walDir # 0 => RowsReadable
           /\ \/ Announced = {}
              \/ /\ Announced = pending /\ committed = {Log}
                 /\ \E d \in Records :
                      NextFits(Log, walDir, d) /\ pending = {Append(Log, d)}
           /\ Announced = {} => pending = {} \/ (Log # <<>> /\ pending = {Log})
           /\ Cardinality(committed) = 1 =>
                \/ committed = {Log}
                \/ Log # <<>> /\ committed = {Front(Log)} /\ pending = {Log}
           /\ Cardinality(committed) = 2 =>
                /\ Log # <<>> /\ committed = {Front(Log), Log}
                /\ pending \subseteq {Log}
           /\ pending # {} /\ committed = {Log} => Announced = pending
           /\ Log # <<>> => Log \in files
  <1>0. /\ HistoryFits(files, Log, walDir)
        /\ CursorFits(Log, committed, pending, walDir)
        /\ RowsFit(Log, Announced, walDir, rows)
    BY DEF DiskFits
  <1>l. PICK l \in Seq(Records) : l = Log /\ files = Chain(l)
    BY <1>0 DEF HistoryFits
  <1>1. Replays(files) /\ Linear(files) /\ (l # <<>> => l \in files)
    BY <1>l, ChainOf
  <1>2. walDir # 0 => RowsReadable
    BY <1>0 DEF RowsFit, RowsReadable
  <1>3. ASSUME NEW d \in Records
        PROVE  /\ Append(l, d) \notin files /\ Append(l, d) # l
               /\ Len(Append(l, d)) = Len(l) + 1
    BY <1>l, ChainGrows
  <1>4. l # <<>> => Front(l) # l /\ Len(l) = Len(Front(l)) + 1
    <2> HAVE l # <<>>
    <2>1. Len(l) \in Nat /\ Len(l) # 0
      BY EmptySeq
    <2>2. Len(l) - 1 \in 0..Len(l)
      BY <2>1
    <2>3. Len(Front(l)) = Len(l) - 1
      BY <2>2, PrefixOf DEF Front
    <2> QED BY <2>1, <2>3
  <1>c. \A x, y : /\ Cardinality({x}) = 1
                  /\ x # y => Cardinality({x, y}) = 2
    <2> TAKE x, y
    <2>1. Cardinality({}) = 0 /\ IsFiniteSet({})
      BY FS_EmptySet
    <2>2. Cardinality({x}) = 1 /\ IsFiniteSet({x})
      BY FS_Singleton
    <2>3. x # y => Cardinality({x} \cup {y}) = Cardinality({x}) + 1
      BY <2>2, FS_AddElement
    <2>4. {x} \cup {y} = {x, y}
      OBVIOUS
    <2>5. x # y => Cardinality({x, y}) = 2
      <3> HAVE x # y
      <3>1. Cardinality({x} \cup {y}) = 1 + 1
        BY <2>2, <2>3
      <3>2. Cardinality({x, y}) = 1 + 1
        BY <2>4, <3>1
      <3> QED BY <3>2
    <2> QED BY <2>2, <2>5
  <1>s. \/ committed = {l} /\ pending = {}
        \/ committed = {l} /\ \E d \in Records :
             NextFits(l, walDir, d) /\ pending = {Append(l, d)}
        \/ l # <<>> /\ committed = {Front(l)} /\ pending = {l}
        \/ l # <<>> /\ committed = {Front(l), l} /\ pending \subseteq {l}
    BY <1>0, <1>l DEF CursorFits
  <1>5. CASE committed = {l} /\ pending = {}
    <2>1. Announced = {} /\ Cardinality(committed) = 1
      BY <1>5, <1>c DEF Announced
    <2>2. CursorReadable
      BY <1>5, <1>l DEF CursorReadable
    <2> QED BY <1>l, <1>1, <1>2, <1>5, <2>1, <2>2
  <1>6. CASE committed = {l} /\ \E d \in Records :
               NextFits(l, walDir, d) /\ pending = {Append(l, d)}
    <2>1. PICK d \in Records : NextFits(l, walDir, d) /\ pending = {Append(l, d)}
      BY <1>6
    <2>2. Announced = pending /\ pending # {} /\ Cardinality(committed) = 1
      BY <1>6, <2>1, <1>3, <1>c DEF Announced
    <2>3. CursorReadable
      BY <1>6, <1>l, <1>3, <2>1 DEF CursorReadable
    <2> QED BY <1>l, <1>1, <1>2, <1>6, <2>1, <2>2, <2>3
  <1>7. CASE l # <<>> /\ committed = {Front(l)} /\ pending = {l}
    <2>1. Announced = {} /\ Cardinality(committed) = 1
      BY <1>7, <1>1, <1>c DEF Announced
    <2>2. CursorReadable
      BY <1>7, <1>l, <1>4 DEF CursorReadable
    <2> QED BY <1>l, <1>1, <1>2, <1>4, <1>7, <2>1, <2>2
  <1>8. CASE l # <<>> /\ committed = {Front(l), l} /\ pending \subseteq {l}
    <2>1. Announced = {} /\ Cardinality(committed) = 2
      BY <1>8, <1>1, <1>4, <1>c DEF Announced
    <2>2. CursorReadable
      BY <1>8, <1>l, <1>4 DEF CursorReadable
    <2> QED BY <1>l, <1>1, <1>2, <1>4, <1>8, <2>1, <2>2
  <1> QED BY <1>s, <1>5, <1>6, <1>7, <1>8

\* A record that may follow is one of the records there are.
LEMMA NextIsRecord ==
    ASSUME DiskFits, NEW d, NextFits(Log, walDir, d)
    PROVE  /\ d \in Records /\ d # None
           /\ d.kind = "INTENT" => d.of = walDir /\ walDir # 0 /\ IntentOf(Log) = 0
           /\ d.kind = "UNIT" => IntentOf(Log) # 0 /\ UnitsDone(Log) < UnitLength
           /\ d.kind # "INTENT" \/ d.kind # "UNIT"
  <1>0. /\ HistoryFits(files, Log, walDir) /\ InodesFit(walDir, inodes, faults)
    BY DEF DiskFits
  <1>1. CASE d \in PayloadRecords
    BY <1>1, NoneIsNothing DEF PayloadRecords, Records, Payload
  <1>2. CASE d = Intent(walDir) /\ walDir # 0 /\ IntentOf(Log) = 0
    <2>1. MaxFaults \in Nat
      BY JournalBounds
    <2>2. walDir \in 1..(MaxFaults + 1)
      BY <1>0, <1>2, <2>1 DEF InodesFit
    <2> QED BY <1>2, <2>2, NoneIsNothing DEF Records, Intent
  <1>3. CASE /\ d = Unit(UnitsDone(Log) + 1)
             /\ IntentOf(Log) # 0 /\ UnitsDone(Log) < UnitLength
    <2>1. UnitLength \in Nat
      BY JournalBounds
    <2>2. UnitsDone(Log) + 1 \in 1..UnitLength
      BY <1>0, <1>3, <2>1 DEF HistoryFits
    <2> QED BY <1>3, <2>2, NoneIsNothing DEF Records, Unit
  <1> QED BY <1>1, <1>2, <1>3 DEF NextFits

\* More faults allow no fewer directories.
LEMMA FaultsGrow ==
    ASSUME NEW w, NEW i, NEW f, NEW g \in Nat,
           InodesFit(w, i, f), g <= MaxFaults, g >= f
    PROVE  InodesFit(w, i, g)
  BY DEF InodesFit

\* The announced record is published: the journal has it.
LEMMA Published ==
    ASSUME DiskFits, NEW d, NextFits(Log, walDir, d),
           committed = {Log}, pending = {Append(Log, d)},
           files' = files \cup {Append(Log, d)},
           UNCHANGED <<committed, pending, walDir, rows, binding, inodes>>,
           faults' \in Nat, faults' <= MaxFaults, faults' >= faults,
           \/ IntentOf(Log) # 0
           \/ DirectoryFits(Log, inodes, faults', ownerLock', call')
    PROVE  /\ DiskFits' /\ Log' = Append(Log, d) /\ Announced' = {}
           /\ IntentOf(Log) # 0 => IntentOf(Log') # 0
  <1>0. /\ HistoryFits(files, Log, walDir)
        /\ RowsFit(Log, Announced, walDir, rows)
        /\ BindingFits(Log, walDir, binding)
        /\ InodesFit(walDir, inodes, faults)
    BY DEF DiskFits
  <1>1. /\ Log \in Seq(Records) /\ files = Chain(Log)
        /\ UnitsDone(Log) \in 0..UnitLength /\ IntentOf(Log) \in {0, walDir}
    BY <1>0 DEF HistoryFits
  <1>2. /\ d \in Records
        /\ d.kind = "INTENT" => d.of = walDir /\ walDir # 0 /\ IntentOf(Log) = 0
        /\ d.kind = "UNIT" => IntentOf(Log) # 0 /\ UnitsDone(Log) < UnitLength
        /\ d.kind # "INTENT" \/ d.kind # "UNIT"
    BY NextIsRecord
  <1> DEFINE a == Append(Log, d)
  <1>3. /\ a \in Seq(Records) /\ Chain(a) = files \cup {a} /\ a # <<>>
        /\ Front(a) = Log /\ a \notin files
    BY <1>1, <1>2, ChainGrows
  <1>4. Log' = a
    <2>1. Tail0(files') = a
      BY <1>3, ChainOf
    <2> QED BY <2>1 DEF Log
  <1>5. /\ d.kind = "INTENT" /\ IntentOf(Log) = 0 => IntentOf(a) = d.of
        /\ d.kind # "INTENT" => IntentOf(a) = IntentOf(Log)
        /\ UnitsDone(a) =
             IF d.kind = "UNIT" THEN UnitsDone(Log) + 1 ELSE UnitsDone(Log)
    <2>1. UnitsDone(Log) \in Nat
      BY <1>1
    <2> QED BY <1>1, <1>2, <2>1, HistoryGrows
  <1>6. files' = Chain(a)
    BY <1>3
  <1>7. Announced = {a} /\ pending = {a}
    BY <1>3 DEF Announced
  <1> HIDE DEF a
  <1>8. HistoryFits(files', a, walDir)
    <2>1. UnitsDone(a) \in 0..UnitLength
      BY <1>1, <1>2, <1>5, JournalBounds
    <2>2. IntentOf(a) \in {0, walDir}
      BY <1>1, <1>2, <1>5
    <2> QED BY <1>3, <1>6, <2>1, <2>2 DEF HistoryFits
  <1>9. CursorFits(a, committed, pending, walDir)
    BY <1>3, <1>7 DEF CursorFits
  <1>10. Announced' = {}
    BY <1>7, <1>3, <1>6 DEF Announced
  <1>11. RowsFit(a, {}, walDir, rows)
    BY <1>0, <1>7 DEF RowsFit
  <1>12. BindingFits(a, walDir, binding)
    BY <1>0, <1>1, <1>2, <1>5, JournalBounds DEF BindingFits
  <1>13. IntentOf(Log) # 0 => IntentOf(a) # 0
    BY <1>2, <1>5
  <1>14. InodesFit(walDir, inodes, faults')
    BY <1>0, FaultsGrow
  <1>15. DirectoryFits(a, inodes, faults', ownerLock', call')
    BY <1>13 DEF DirectoryFits
  <1>16. DiskFits'
    BY <1>4, <1>8, <1>9, <1>10, <1>11, <1>12, <1>14, <1>15 DEF DiskFits
  <1> QED BY <1>4, <1>10, <1>13, <1>16 DEF a
-----------------------------------------------------------------------------
(* Steps of one process                                                    *)

\* A step that moves only p and the owner lock.
Only(p) ==
    /\ DOMAIN pc' = Procs /\ DOMAIN call' = Procs /\ DOMAIN handle' = Procs
    /\ ownerLock' \in Procs \cup {None}
    /\ \A q \in Procs \ {p} :
         /\ pc'[q] = pc[q] /\ call'[q] = call[q] /\ handle'[q] = handle[q]
         /\ ownerLock' = q <=> ownerLock = q

SameFiles == UNCHANGED <<files, committed, pending, walDir, rows>>

\* What such a step changes of p.
LEMMA OnlyMoves ==
    ASSUME OwnerInv, NEW p \in Procs,
           pc' = pc \/ \E l : pc' = [pc EXCEPT ![p] = l],
           call' = call \/ \E c : call' = [call EXCEPT ![p] = c],
           handle' = handle \/ \E h : handle' = [handle EXCEPT ![p] = h],
           \/ ownerLock' = ownerLock
           \/ ownerLock \in {p, None} /\ ownerLock' \in {p, None}
    PROVE  Only(p)
  <1>1. /\ DOMAIN pc = Procs /\ DOMAIN call = Procs /\ DOMAIN handle = Procs
        /\ ownerLock \in Procs \cup {None} /\ None \notin Procs
    BY NoneIsNothing DEF OwnerInv
  <1>2. DOMAIN pc' = Procs /\ \A q \in Procs \ {p} : pc'[q] = pc[q]
    BY <1>1
  <1>3. DOMAIN call' = Procs /\ \A q \in Procs \ {p} : call'[q] = call[q]
    BY <1>1
  <1>4. DOMAIN handle' = Procs /\ \A q \in Procs \ {p} : handle'[q] = handle[q]
    BY <1>1
  <1>5. /\ ownerLock' \in Procs \cup {None}
        /\ \A q \in Procs \ {p} : ownerLock' = q <=> ownerLock = q
    BY <1>1
  <1> QED BY <1>2, <1>3, <1>4, <1>5 DEF Only

\* The others keep what they know: the lock holder is the only one who knows
\* anything of the files.
LEMMA OthersFit ==
    ASSUME OwnerInv, NEW p \in Procs, Only(p), ownerLock = p \/ SameFiles
    PROVE  \A q \in Procs \ {p} : ProcFits(q)'
  <1> SUFFICES ASSUME NEW q \in Procs \ {p} PROVE ProcFits(q)'
    OBVIOUS
  <1>0. ProcFits(q) /\ p # q
    BY DEF OwnerInv
  <1>1. /\ pc'[q] = pc[q] /\ call'[q] = call[q] /\ handle'[q] = handle[q]
        /\ ownerLock' = q <=> ownerLock = q
    BY DEF Only
  <1>2. CASE ownerLock # q
    <2>1. pc[q] \notin Holding /\ ownerLock' # q
      BY <1>0, <1>1, <1>2 DEF ProcFits
    <2>2. PointFits(q)'
      BY <1>1, <2>1 DEF PointFits, Holding
    <2> QED BY <1>0, <1>1, <2>1, <2>2 DEF ProcFits
  <1>3. CASE ownerLock = q
    <2>1. SameFiles
      BY <1>0, <1>3
    <2>2. /\ Log' = Log /\ UNCHANGED <<committed, pending, walDir, rows>>
      BY <2>1 DEF SameFiles, Log
    <2>3. NextRecord(q)' = NextRecord(q)
      BY <1>1, <2>2 DEF NextRecord
    <2>4. Appended(q)' = Appended(q)
      BY <2>2, <2>3 DEF Appended
    <2>5. WalOf(q)' = WalOf(q)
      BY <1>1, <2>2 DEF WalOf, Activating
    <2>6. PointFits(q)'
      BY <1>0, <1>1, <2>2, <2>3, <2>4 DEF PointFits, ProcFits
    <2> QED BY <1>0, <1>1, <2>2, <2>5, <2>6 DEF ProcFits
  <1> QED BY <1>2, <1>3

\* When a directory without intent stays explained.
LEMMA DirectoryKept ==
    ASSUME OwnerInv, NEW p \in Procs, Only(p),
           faults' \in Nat, faults' >= faults,
           \/ ownerLock # p
           \/ faults' = faults + 1
           \/ walDir = 0
           \/ IntentOf(Log) # 0
           \/ call[p].stage # "admission"
           \/ ownerLock' = p /\ call'[p].stage = call[p].stage
    PROVE  DirectoryFits(Log, inodes, faults', ownerLock', call')
  <1>0. /\ InodesFit(walDir, inodes, faults)
        /\ DirectoryFits(Log, inodes, faults, ownerLock, call)
        /\ None \notin Procs /\ ownerLock \in Procs \cup {None}
    BY NoneIsNothing DEF OwnerInv, DiskFits
  <1>1. inodes \in Nat /\ faults \in Nat /\ inodes <= faults + 1
    BY <1>0 DEF InodesFit
  <1>2. CASE inodes <= faults'
    BY <1>2 DEF DirectoryFits
  <1>3. CASE IntentOf(Log) # 0
    BY <1>3 DEF DirectoryFits
  <1>4. CASE ~(inodes <= faults') /\ IntentOf(Log) = 0
    <2>1. /\ ~(inodes <= faults) /\ faults' # faults + 1 /\ walDir # 0
      BY <1>0, <1>1, <1>4 DEF InodesFit
    <2>2. ownerLock # None /\ call[ownerLock].stage = "admission"
      BY <1>0, <1>4, <2>1 DEF DirectoryFits
    <2>3. CASE ownerLock = p
      BY <1>0, <1>4, <2>1, <2>2, <2>3 DEF DirectoryFits
    <2>4. CASE ownerLock # p
      BY <1>0, <2>2, <2>4 DEF DirectoryFits, Only
    <2> QED BY <2>3, <2>4
  <1> QED BY <1>2, <1>3, <1>4

\* Putting the parts together.
LEMMA OwnerAssemble ==
    ASSUME OwnerInv, NEW p \in Procs, Only(p), ownerLock = p \/ SameFiles,
           DiskFits', ProcFits(p)'
    PROVE  OwnerInv'
  <1>1. \A q \in Procs \ {p} : ProcFits(q)'
    BY OthersFit
  <1> QED BY <1>1 DEF OwnerInv, Only

\* A step that leaves all the files alone.
LEMMA QuietStep ==
    ASSUME OwnerInv, NEW p \in Procs, Only(p), SameFiles,
           UNCHANGED <<binding, inodes>>,
           faults' \in Nat, faults' <= MaxFaults, faults' >= faults,
           ProcFits(p)',
           \/ ownerLock # p
           \/ faults' = faults + 1
           \/ walDir = 0
           \/ IntentOf(Log) # 0
           \/ call[p].stage # "admission"
           \/ ownerLock' = p /\ call'[p].stage = call[p].stage
    PROVE  OwnerInv'
  <1>0. DiskFits
    BY DEF OwnerInv
  <1>1. DirectoryFits(Log, inodes, faults', ownerLock', call')
    BY DirectoryKept
  <1>2. Log' = Log /\ Announced' = Announced
    BY DEF SameFiles, Log, Announced
  <1>3. InodesFit(walDir, inodes, faults')
    BY <1>0, FaultsGrow DEF DiskFits
  <1>4. DiskFits'
    BY <1>0, <1>1, <1>2, <1>3 DEF DiskFits, SameFiles
  <1> QED BY <1>4, OwnerAssemble

\* A process outside the lock fits whatever the files are.
LEMMA OutsideFits ==
    ASSUME NEW p, pc'[p] \in {"idle", "owner", "gate"}, ownerLock' # p,
           CallFits(call'[p]), pc'[p] = "gate" => call'[p].kind = "enable"
    PROVE  ProcFits(p)'
  BY DEF ProcFits, PointFits, Holding

\* A call that ends, by itself or by a fault.
LEMMA EndsFits ==
    ASSUME OwnerInv, NEW p \in Procs,
           ownerLock' = Freed(p, ownerLock),
           call' = [call EXCEPT ![p] = NoCall],
           pc' = [pc EXCEPT ![p] = "idle"],
           handle' = handle \/ \E h : handle' = [handle EXCEPT ![p] = h]
    PROVE  Only(p) /\ ProcFits(p)'
  <1>0. /\ DOMAIN pc = Procs /\ DOMAIN call = Procs /\ None \notin Procs
    BY NoneIsNothing DEF OwnerInv
  <1>1. pc'[p] = "idle" /\ call'[p] = NoCall /\ ownerLock' # p
    BY <1>0 DEF Freed
  <1>2. CallFits(NoCall)
    BY DEF CallFits, NoCall, CallType
  <1>3. Only(p)
    BY OnlyMoves DEF Freed
  <1> QED BY <1>1, <1>2, <1>3, OutsideFits

\* A refused or finished call: the files stay.
LEMMA RefusesFits ==
    ASSUME OwnerInv, NEW p \in Procs, Refuses(p),
           \/ ownerLock # p \/ walDir = 0 \/ IntentOf(Log) # 0
           \/ call[p].stage # "admission"
    PROVE  OwnerInv'
  <1>1. /\ ownerLock' = Freed(p, ownerLock)
        /\ call' = [call EXCEPT ![p] = NoCall]
        /\ pc' = [pc EXCEPT ![p] = "idle"]
        /\ handle' = handle
        /\ UNCHANGED <<files, committed, pending, walDir, rows, binding, inodes,
                       faults>>
    BY DEF Refuses, Ends, Goto, disk, cursor, walFiles
  <1>2. Only(p) /\ ProcFits(p)'
    BY <1>1, EndsFits
  <1>3. faults \in Nat /\ faults <= MaxFaults
    BY DEF OwnerInv, DiskFits, InodesFit
  <1>4. faults' \in Nat /\ faults' <= MaxFaults /\ faults' >= faults
    BY <1>1, <1>3
  <1> QED BY <1>1, <1>2, <1>4, QuietStep DEF SameFiles
-----------------------------------------------------------------------------
(* The actions                                                             *)

\* What a step does to the log the files amount to.
LogMoves ==
    \/ Announced' = Announced /\ UNCHANGED <<files, binding>>
    \/ /\ \E d \in Records : Announced = {} /\ Announced' = {Append(Log, d)}
       /\ UNCHANGED <<files, binding>>
    \/ /\ \E d \in Records :
            Announced = {Append(Log, d)} /\ Log' = Append(Log, d)
       /\ Announced' = {} /\ UNCHANGED binding
    \/ /\ Announced = {} /\ binding' # 0
       /\ UNCHANGED <<files, pending>>

\* Where a process is, and the types of the counters.
LEMMA Standing ==
    ASSUME OwnerInv, NEW p \in Procs
    PROVE  /\ DiskFits /\ ProcFits(p) /\ CallFits(call[p])
           /\ faults \in Nat /\ faults <= MaxFaults
           /\ pc[p] \in {"idle", "owner", "gate"} => ownerLock # p
           /\ pc[p] \in Holding => ownerLock = p /\ WalOf(p) = walDir
           /\ None \notin Procs
           /\ p \in DOMAIN pc /\ p \in DOMAIN call /\ p \in DOMAIN handle
  BY NoneIsNothing DEF OwnerInv, DiskFits, InodesFit, ProcFits, Holding

\* A step of a process outside the lock that stays there.
LEMMA OutsideStep ==
    ASSUME OwnerInv, NEW p \in Procs,
           pc[p] \in {"idle", "owner", "gate"},
           SameFiles, UNCHANGED <<binding, inodes, faults, ownerLock>>,
           \/ pc' = pc /\ (pc[p] # "gate" \/ call' = call)
           \/ \E l \in {"idle", "owner"} : pc' = [pc EXCEPT ![p] = l],
           call' = call \/ \E c : CallFits(c) /\ call' = [call EXCEPT ![p] = c],
           handle' = handle \/ \E h : handle' = [handle EXCEPT ![p] = h]
    PROVE  OwnerInv' /\ LogMoves
  <1>0. /\ ownerLock # p /\ CallFits(call[p])
        /\ faults \in Nat /\ faults <= MaxFaults
        /\ p \in DOMAIN pc /\ p \in DOMAIN call
        /\ pc[p] = "gate" => call[p].kind = "enable"
    BY Standing DEF ProcFits
  <1>1. Only(p)
    BY OnlyMoves
  <1>2. /\ pc'[p] \in {"idle", "owner", "gate"} /\ CallFits(call'[p])
        /\ pc'[p] = "gate" => call'[p].kind = "enable"
    BY <1>0
  <1>3. ProcFits(p)'
    BY <1>0, <1>2, OutsideFits
  <1>4. faults' \in Nat /\ faults' <= MaxFaults /\ faults' >= faults
    BY <1>0
  <1>5. OwnerInv'
    BY <1>0, <1>1, <1>3, <1>4, QuietStep
  <1> QED BY <1>5 DEF LogMoves, SameFiles, Announced

\* A refusal leaves the log alone.
LEMMA RefusesStep ==
    ASSUME OwnerInv, NEW p \in Procs, Refuses(p),
           \/ ownerLock # p \/ walDir = 0 \/ IntentOf(Log) # 0
           \/ call[p].stage # "admission"
    PROVE  OwnerInv' /\ LogMoves
  <1>1. OwnerInv'
    BY RefusesFits
  <1>2. UNCHANGED <<files, pending, binding>>
    BY DEF Refuses, disk, cursor, walFiles
  <1> QED BY <1>1, <1>2 DEF LogMoves, Announced

\* A phase of a call's plan changes, nothing else of the call.
LEMMA StageFits ==
    ASSUME OwnerInv, NEW p \in Procs,
           NEW s \in {"open", "hydrate", "recovery", "admission", "verify"},
           Stage(p, s),
           s # "verify" => call[p].kind = "enable"
    PROVE  \E c : CallFits(c) /\ call' = [call EXCEPT ![p] = c] /\ c.stage = s
  <1>0. CallFits(call[p]) /\ call[p] \in CallType
    BY Standing DEF CallFits
  <1> DEFINE c == [call[p] EXCEPT !.stage = s]
  <1>1. c \in CallType /\ c.stage = s /\ c.kind = call[p].kind /\ c.rec = call[p].rec
    BY <1>0 DEF CallType
  <1>2. call' = [call EXCEPT ![p] = c]
    BY DEF Stage
  <1>3. CallFits(c)
    BY <1>0, <1>1 DEF CallFits
  <1> QED BY <1>1, <1>2, <1>3

\* Opening, beginning a call, refreshing the handle, taking the lease.
LEMMA OutsideActions ==
    ASSUME OwnerInv, NEW p \in Procs,
           \/ Open(p) \/ BeginReplay(p) \/ BeginEnable(p)
           \/ \E x \in Payloads : BeginAppend(p, x)
           \/ Refresh(p)
           \/ AdmissionLease(p)
    PROVE  OwnerInv' /\ LogMoves
  <1> USE DEF disk, cursor, walFiles, gateVars, SameFiles
  <1>1. CASE Open(p)
    <2>1. /\ pc[p] = "idle" /\ SameFiles
          /\ UNCHANGED <<binding, inodes, faults, ownerLock, pc, call>>
          /\ handle' = [handle EXCEPT ![p] = binding]
      BY <1>1 DEF Open
    <2> QED BY <2>1, OutsideStep
  <1>2. ASSUME NEW c, CallFits(c), Begin(p, c) PROVE OwnerInv' /\ LogMoves
    <2>1. /\ pc[p] = "idle" /\ SameFiles
          /\ UNCHANGED <<binding, inodes, faults, ownerLock, handle>>
          /\ call' = [call EXCEPT ![p] = c] /\ pc' = [pc EXCEPT ![p] = "owner"]
      BY <1>2 DEF Begin, Goto
    <2> QED BY <1>2, <2>1, OutsideStep
  <1>3. CASE BeginReplay(p)
    <2>1. CallFits(Call("replay", None, "call"))
      BY DEF CallFits, CallType, Call
    <2> QED BY <1>2, <1>3, <2>1 DEF BeginReplay
  <1>4. CASE BeginEnable(p)
    <2>1. /\ CallFits(Call("enable", None, "open"))
          /\ CallFits(Call("enable", None, "verify"))
      BY DEF CallFits, CallType, Call
    <2> QED BY <1>2, <1>4, <2>1 DEF BeginEnable
  <1>5. ASSUME NEW x \in Payloads, BeginAppend(p, x) PROVE OwnerInv' /\ LogMoves
    <2>1. CallFits(Call("append", Payload(x), "call"))
      BY DEF CallFits, CallType, Call, PayloadRecords
    <2> QED BY <1>2, <1>5, <2>1 DEF BeginAppend
  <1>6. CASE Refresh(p)
    <2> DEFINE s == IF binding # 0 THEN "verify"
                    ELSE IF call[p].stage = "open" THEN "recovery" ELSE "admission"
    <2>1. /\ pc[p] = "owner" /\ Stage(p, s) /\ SameFiles
          /\ UNCHANGED <<binding, inodes, faults, ownerLock, pc>>
          /\ handle' = [handle EXCEPT ![p] = binding]
      BY <1>6 DEF Refresh
    <2>2. s \in {"verify", "recovery", "admission"}
      OBVIOUS
    <2> HIDE DEF s
    <2>k. call[p].kind = "enable"
      BY <1>6, Standing DEF Refresh, CallFits
    <2>3. \E c : CallFits(c) /\ call' = [call EXCEPT ![p] = c]
      BY <2>1, <2>2, <2>k, StageFits
    <2> QED BY <2>1, <2>3, OutsideStep
  <1>7. CASE AdmissionLease(p)
    <2>1. CASE Refuses(p)
      <3>1. ownerLock # p
        BY <1>7, Standing DEF AdmissionLease
      <3> QED BY <2>1, <3>1, RefusesStep
    <2>2. CASE ~Refuses(p)
      <3>1. /\ pc[p] = "gate" /\ Stage(p, "hydrate") /\ SameFiles
            /\ UNCHANGED <<binding, inodes, faults, ownerLock, handle>>
            /\ pc' = [pc EXCEPT ![p] = "owner"]
        BY <1>7, <2>2 DEF AdmissionLease, Goto
      <3>2. \E c : CallFits(c) /\ call' = [call EXCEPT ![p] = c]
        BY <3>1, Standing, StageFits DEF ProcFits
      <3> QED BY <3>1, <3>2, OutsideStep
    <2> QED BY <2>1, <2>2
  <1> QED BY <1>1, <1>3, <1>4, <1>5, <1>6, <1>7

\* A step of the lock holder that keeps the lock, its call and its handle.
LEMMA InsideStep ==
    ASSUME OwnerInv, NEW p \in Procs, pc[p] \in Holding,
           NEW l \in Holding,
           pc' = [pc EXCEPT ![p] = l] \/ (pc' = pc /\ l = pc[p]),
           UNCHANGED <<call, handle, ownerLock, faults>>,
           DiskFits', walDir' = walDir \/ Activating(p),
           PointFits(p)'
    PROVE  OwnerInv'
  <1>0. /\ ownerLock = p /\ WalOf(p) = walDir /\ CallFits(call[p])
        /\ p \in DOMAIN pc
    BY Standing
  <1>1. Only(p)
    BY OnlyMoves
  <1>2. pc'[p] = l
    BY <1>0
  <1>3. WalOf(p)' = walDir'
    BY <1>0 DEF WalOf, Activating
  <1>4. ProcFits(p)'
    BY <1>0, <1>2, <1>3 DEF ProcFits, Holding
  <1> QED BY <1>0, <1>1, <1>4, OwnerAssemble

\* The owner lock is taken with a handle that fits the directory.
LEMMA AcquireOwnerFits ==
    ASSUME OwnerInv, NEW p \in Procs, AcquireOwner(p)
    PROVE  OwnerInv' /\ LogMoves
  <1>0. /\ ownerLock # p /\ CallFits(call[p]) /\ DiskFits
        /\ faults \in Nat /\ faults <= MaxFaults
        /\ p \in DOMAIN pc
    BY Standing DEF AcquireOwner
  <1>1. CASE Refuses(p)
    BY <1>0, <1>1, RefusesStep
  <1>2. CASE ~Refuses(p)
    <2>1. /\ HandleAccepted(p) /\ ownerLock = None /\ ownerLock' = p
          /\ pc' = [pc EXCEPT ![p] = "cursor"]
          /\ SameFiles
          /\ UNCHANGED <<binding, inodes, call, handle, faults>>
      BY <1>2 DEF AcquireOwner, Goto, cursor, walFiles, SameFiles
    <2>2. Only(p) /\ pc'[p] = "cursor"
      BY <1>0, <2>1, OnlyMoves
    <2>3. WalOf(p) = walDir
      BY <1>0, <2>1 DEF HandleAccepted, WalOf, DiskFits, BindingFits
    <2>4. WalOf(p)' = walDir'
      BY <2>1, <2>3 DEF WalOf, Activating, SameFiles
    <2>5. PointFits(p)'
      BY <2>2 DEF PointFits
    <2>6. ProcFits(p)'
      BY <1>0, <2>1, <2>2, <2>4, <2>5 DEF ProcFits, Holding
    <2>7. faults' \in Nat /\ faults' <= MaxFaults /\ faults' >= faults
      BY <1>0, <2>1
    <2>8. OwnerInv'
      BY <1>0, <2>1, <2>2, <2>6, <2>7, QuietStep
    <2> QED BY <2>1, <2>8 DEF LogMoves, SameFiles, Announced
  <1> QED BY <1>1, <1>2

\* The cursor follows a published record, link by link.
LEMMA AdvanceCursorFits ==
    ASSUME OwnerInv, NEW p \in Procs, AdvanceCursor(p)
    PROVE  OwnerInv' /\ LogMoves
  <1>0. /\ DiskFits /\ pc[p] = "cursor" /\ pc[p] \in Holding /\ p \in DOMAIN pc
        /\ ownerLock = p
    BY Standing DEF AdvanceCursor, Holding
  <1>r. /\ Log \in Seq(Records) /\ CursorReadable
        /\ Announced = {} => pending = {} \/ (Log # <<>> /\ pending = {Log})
        /\ Cardinality(committed) = 1 =>
             \/ committed = {Log}
             \/ Log # <<>> /\ committed = {Front(Log)} /\ pending = {Log}
        /\ Cardinality(committed) = 2 =>
             /\ Log # <<>> /\ committed = {Front(Log), Log}
             /\ pending \subseteq {Log}
        /\ pending # {} /\ committed = {Log} => Announced = pending
        /\ Log # <<>> => Log \in files
    BY <1>0, Readable
  <1>u. UNCHANGED <<files, walDir, rows, binding, inodes, call, handle,
                    ownerLock, faults>>
    BY <1>r DEF AdvanceCursor, walFiles
  <1>l. Log' = Log /\ Announced' = pending' \ files
    BY <1>u DEF Log, Announced
  <1>c. ASSUME CursorFits(Log, committed', pending', walDir),
               pending' \ files = Announced,
               pc' = pc \/ (pc' = [pc EXCEPT ![p] = "reconcile"] /\ committed' = {Log})
        PROVE  OwnerInv' /\ LogMoves
    <2>1. DiskFits'
      BY <1>0, <1>u, <1>l, <1>c DEF DiskFits
    <2>2. CASE pc' = pc
      <3>2. PointFits(p)'
        BY <1>0, <2>2 DEF PointFits
      <3>3. OwnerInv'
        BY <1>0, <1>u, <2>1, <2>2, <3>2, InsideStep
      <3> QED BY <1>u, <1>l, <1>c, <3>3 DEF LogMoves
    <2>3. CASE pc' = [pc EXCEPT ![p] = "reconcile"] /\ committed' = {Log}
      <3>1. pc'[p] = "reconcile"
        BY <1>0, <2>3
      <3>2. PointFits(p)'
        BY <1>l, <2>3, <3>1 DEF PointFits
      <3>3. OwnerInv'
        BY <1>0, <1>u, <2>1, <2>3, <3>2, InsideStep DEF Holding
      <3> QED BY <1>u, <1>l, <1>c, <3>3 DEF LogMoves
    <2> QED BY <1>c, <2>2, <2>3
  <1>1. CASE /\ Cardinality(committed) = 1 /\ pending # {} /\ pending \subseteq files
             /\ committed' = committed \cup pending
             /\ UNCHANGED <<pending, pc>>
    <2>1. Announced = {}
      BY <1>1 DEF Announced
    <2>2. Log # <<>> /\ committed = {Front(Log)} /\ pending = {Log}
      BY <1>1, <1>r, <2>1
    <2>3. CursorFits(Log, committed', pending', walDir)
      BY <1>1, <2>2 DEF CursorFits
    <2> QED BY <1>1, <1>c, <2>3 DEF Announced
  <1>2. CASE /\ Cardinality(committed) = 2 /\ pending # {}
             /\ pending' = {} /\ UNCHANGED <<committed, pc>>
    <2>1. Log # <<>> /\ committed = {Front(Log), Log} /\ pending \subseteq {Log}
      BY <1>2, <1>r
    <2>2. Announced = {}
      BY <1>r, <2>1 DEF Announced
    <2>3. CursorFits(Log, committed', pending', walDir)
      BY <1>2, <2>1 DEF CursorFits
    <2> QED BY <1>2, <1>c, <2>2, <2>3
  <1>3. CASE /\ Cardinality(committed) = 2 /\ pending = {}
             /\ committed' = {Log} /\ UNCHANGED <<pending, pc>>
    <2>1. CursorFits(Log, committed', pending', walDir)
      BY <1>3 DEF CursorFits
    <2> QED BY <1>3, <1>c, <2>1 DEF Announced
  <1>4. CASE /\ Cardinality(committed) = 1 /\ Announced = pending
             /\ Goto(p, "reconcile") /\ UNCHANGED cursor
    <2>1. committed = {Log}
      <3>1. Log # <<>> /\ pending = {Log} => Announced = {}
        BY <1>r DEF Announced
      <3> QED BY <1>4, <1>r, <3>1
    <2>2. committed' = committed /\ pending' = pending
      BY <1>4 DEF cursor
    <2>3. CursorFits(Log, committed', pending', walDir)
      BY <1>0, <2>2 DEF DiskFits
    <2>4. pc' = [pc EXCEPT ![p] = "reconcile"] /\ committed' = {Log}
      BY <1>4, <2>1, <2>2 DEF Goto
    <2> QED BY <1>c, <2>2, <2>3, <2>4 DEF Announced
  <1> QED BY <1>r, <1>1, <1>2, <1>3, <1>4 DEF AdvanceCursor

\* A step of the lock holder that leaves all the files alone.
LEMMA InsideQuiet ==
    ASSUME OwnerInv, NEW p \in Procs, pc[p] \in Holding,
           NEW l \in Holding, pc' = [pc EXCEPT ![p] = l],
           SameFiles, UNCHANGED <<binding, inodes, faults, ownerLock, call, handle>>,
           PointFits(p)'
    PROVE  OwnerInv' /\ LogMoves
  <1>0. DiskFits
    BY DEF OwnerInv
  <1>1. Log' = Log /\ Announced' = Announced
    BY DEF SameFiles, Log, Announced
  <1>2. DiskFits'
    BY <1>0, <1>1 DEF DiskFits, SameFiles
  <1>3. OwnerInv'
    BY <1>2, InsideStep DEF SameFiles
  <1> QED BY <1>1, <1>3 DEF LogMoves, SameFiles

\* The rows are reconciled with the journal.
LEMMA ReconcileFits ==
    ASSUME OwnerInv, NEW p \in Procs, Reconcile(p)
    PROVE  OwnerInv' /\ LogMoves
  <1>0. /\ DiskFits /\ pc[p] = "reconcile" /\ pc[p] \in Holding
        /\ ownerLock = p /\ WalOf(p) = walDir /\ p \in DOMAIN pc
        /\ faults \in Nat /\ faults <= MaxFaults
        /\ committed = {Log}
    BY Standing DEF Reconcile, Holding, ProcFits, PointFits
  <1>d. /\ HistoryFits(files, Log, walDir)
        /\ CursorFits(Log, committed, pending, walDir)
        /\ RowsFit(Log, Announced, walDir, rows)
        /\ BindingFits(Log, walDir, binding)
        /\ InodesFit(walDir, inodes, faults)
        /\ DirectoryFits(Log, inodes, faults, ownerLock, call)
    BY <1>0 DEF DiskFits
  <1>r. /\ walDir # 0 => RowsReadable
        /\ \/ Announced = {}
           \/ /\ Announced = pending
              /\ \E d \in Records :
                   NextFits(Log, walDir, d) /\ pending = {Append(Log, d)}
        /\ pending # {} => Announced = pending
    BY <1>0, Readable
  <1> DEFINE readable == /\ IntentAccepted(p)
                         /\ (WalOf(p) # 0 => WalOf(p) = walDir /\ RowsReadable)
  <1>1. readable \/ ~Activating(p)
    BY <1>0, <1>d, <1>r DEF IntentAccepted, HistoryFits, BindingFits
  <1>2. CASE ~readable
    <2>1. Refuses(p)
      BY <1>2 DEF Reconcile
    <2>2. call[p].stage # "admission"
      BY <1>1, <1>2 DEF Activating
    <2> QED BY <2>1, <2>2, RefusesStep
  <1>3. CASE readable /\ walDir = 0
    <2>1. /\ pc' = [pc EXCEPT ![p] = "work"] /\ SameFiles
          /\ UNCHANGED <<binding, inodes, faults, ownerLock, call, handle>>
      BY <1>0, <1>3 DEF Reconcile, Goto, SameFiles, disk, cursor, walFiles
    <2>2. pc'[p] = "work" /\ Log' = Log
      BY <1>0, <2>1 DEF SameFiles, Log
    <2>3. PointFits(p)'
      BY <1>0, <1>3, <2>1, <2>2 DEF PointFits, SameFiles
    <2> QED BY <1>0, <2>1, <2>3, InsideQuiet DEF Holding
  <1>4. CASE readable /\ walDir # 0
    <2>1. /\ UNCHANGED <<committed, pending, walDir, binding, inodes, ownerLock,
                         call, handle, faults>>
          /\ \/ /\ Announced # {}
                /\ files' = files \cup Announced
                /\ Goto(p, "cursor") /\ UNCHANGED rows
             \/ /\ Announced = {} /\ rows # {}
                /\ rows' = {}
                /\ UNCHANGED <<files, pc>>
             \/ /\ Announced = {} /\ rows = {}
                /\ Goto(p, "work") /\ UNCHANGED <<files, rows>>
      BY <1>0, <1>4 DEF Reconcile, cursor
    <2>2. CASE /\ Announced # {}
               /\ files' = files \cup Announced
               /\ Goto(p, "cursor") /\ UNCHANGED rows
      <3>1. PICK d \in Records : /\ NextFits(Log, walDir, d)
                                 /\ pending = {Append(Log, d)}
                                 /\ Announced = {Append(Log, d)}
        BY <1>r, <2>2
      <3>2. files' = files \cup {Append(Log, d)}
        BY <2>2, <3>1
      <3>3. faults' \in Nat /\ faults' <= MaxFaults /\ faults' >= faults
        BY <1>0, <2>1
      <3>4. DirectoryFits(Log, inodes, faults', ownerLock', call')
        BY <1>d, <2>1
      <3>5. DiskFits' /\ Log' = Append(Log, d) /\ Announced' = {}
        BY <1>0, <2>1, <2>2, <3>1, <3>2, <3>3, <3>4, Published
      <3>6. pc' = [pc EXCEPT ![p] = "cursor"] /\ pc'[p] = "cursor"
        BY <1>0, <2>2 DEF Goto
      <3>7. PointFits(p)'
        BY <3>6 DEF PointFits
      <3>8. OwnerInv'
        BY <1>0, <2>1, <3>5, <3>6, <3>7, InsideStep DEF Holding
      <3> QED BY <2>1, <3>1, <3>5, <3>8 DEF LogMoves
    <2>3. CASE /\ Announced = {} /\ rows # {}
               /\ rows' = {}
               /\ UNCHANGED <<files, pc>>
      <3>1. Log' = Log /\ Announced' = {}
        BY <2>1, <2>3 DEF Log, Announced
      <3>2. RowsFit(Log, {}, walDir, {})
        BY DEF RowsFit
      <3>3. DiskFits'
        BY <1>d, <2>1, <2>3, <3>1, <3>2 DEF DiskFits
      <3>4. PointFits(p)'
        BY <1>0, <2>1, <2>3, <3>1 DEF PointFits
      <3>5. OwnerInv'
        BY <1>0, <2>1, <2>3, <3>3, <3>4, InsideStep
      <3> QED BY <2>1, <2>3, <3>1, <3>5 DEF LogMoves
    <2>4. CASE /\ Announced = {} /\ rows = {}
               /\ Goto(p, "work") /\ UNCHANGED <<files, rows>>
      <3>1. /\ pc' = [pc EXCEPT ![p] = "work"] /\ SameFiles
            /\ pc'[p] = "work" /\ Log' = Log
        BY <1>0, <2>1, <2>4 DEF Goto, SameFiles, Log
      <3>2. pending = {}
        BY <1>r, <2>4
      <3>3. PointFits(p)'
        BY <1>0, <2>4, <3>1, <3>2 DEF PointFits, SameFiles
      <3> QED BY <1>0, <2>1, <3>1, <3>3, InsideQuiet DEF Holding
    <2> QED BY <2>1, <2>2, <2>3, <2>4
  <1> QED BY <1>2, <1>3, <1>4

\* What an append in progress knows of its record.
LEMMA Appending ==
    ASSUME OwnerInv, NEW p \in Procs, pc[p] \in {"row", "pending", "publish"}
    PROVE  /\ DiskFits /\ ownerLock = p /\ p \in DOMAIN pc /\ p \in DOMAIN call
           /\ pc[p] \in Holding /\ WalOf(p) = walDir /\ committed = {Log}
           /\ NextFits(Log, walDir, NextRecord(p)) /\ NextRecord(p) \in Records
           /\ Appended(p) = Append(Log, NextRecord(p))
           /\ Appended(p) \notin files /\ Front(Appended(p)) = Log
           /\ PointFits(p)
  <1>1. /\ DiskFits /\ ownerLock = p /\ p \in DOMAIN pc /\ p \in DOMAIN call
        /\ pc[p] \in Holding /\ WalOf(p) = walDir /\ PointFits(p)
    BY Standing DEF Holding, ProcFits
  <1>2. committed = {Log} /\ NextFits(Log, walDir, NextRecord(p))
    BY <1>1 DEF PointFits, Holding
  <1>3. NextRecord(p) \in Records
    BY <1>1, <1>2, NextIsRecord
  <1>4. Log \in Seq(Records) /\ files = Chain(Log)
    BY <1>1 DEF DiskFits, HistoryFits
  <1>5. /\ Append(Log, NextRecord(p)) \notin files
        /\ Front(Append(Log, NextRecord(p))) = Log
    BY <1>3, <1>4, ChainGrows
  <1> QED BY <1>1, <1>2, <1>3, <1>5 DEF Appended

\* The row of an append, before its announcement.
LEMMA RowWritten ==
    ASSUME OwnerInv, NEW p \in Procs, pc[p] = "row", Only(p),
           rows' = {Appended(p)},
           UNCHANGED <<files, committed, pending, walDir, binding, inodes>>,
           faults' \in Nat, faults' <= MaxFaults, faults' >= faults,
           \/ faults' = faults + 1
           \/ ownerLock' = p /\ call'[p].stage = call[p].stage
    PROVE  DiskFits' /\ Log' = Log /\ LogMoves
  <1>0. /\ DiskFits /\ ownerLock = p /\ Front(Appended(p)) = Log
        /\ walDir # 0 /\ pending = {}
    BY Appending DEF PointFits
  <1>d. /\ HistoryFits(files, Log, walDir)
        /\ CursorFits(Log, committed, pending, walDir)
        /\ BindingFits(Log, walDir, binding)
        /\ InodesFit(walDir, inodes, faults)
    BY <1>0 DEF DiskFits
  <1>1. Log' = Log /\ Announced' = {} /\ Announced = {}
    BY <1>0 DEF Log, Announced
  <1>2. RowsFit(Log, {}, walDir, rows')
    BY <1>0 DEF RowsFit
  <1>3. DirectoryFits(Log, inodes, faults', ownerLock', call')
    BY DirectoryKept
  <1>4. InodesFit(walDir, inodes, faults')
    BY <1>d, FaultsGrow
  <1>5. DiskFits'
    BY <1>d, <1>1, <1>2, <1>3, <1>4 DEF DiskFits
  <1> QED BY <1>1, <1>5 DEF LogMoves

\* The row of an append is written before anything else.
LEMMA AppendRowFits ==
    ASSUME OwnerInv, NEW p \in Procs, AppendRow(p)
    PROVE  OwnerInv' /\ LogMoves
  <1>0. pc[p] = "row"
    BY DEF AppendRow
  <1>1. /\ pc' = [pc EXCEPT ![p] = "pending"] /\ rows' = {Appended(p)}
        /\ UNCHANGED <<files, committed, pending, walDir, binding, inodes,
                       ownerLock, call, handle, faults>>
    BY DEF AppendRow, Goto, cursor
  <1>2. /\ ownerLock = p /\ p \in DOMAIN pc /\ pc[p] \in Holding
        /\ committed = {Log} /\ NextFits(Log, walDir, NextRecord(p))
        /\ walDir # 0 /\ pending = {}
    BY <1>0, Appending DEF PointFits
  <1>3. faults \in Nat /\ faults <= MaxFaults
    BY Standing
  <1>4. faults' \in Nat /\ faults' <= MaxFaults /\ faults' >= faults
    BY <1>1, <1>3
  <1>5. Only(p)
    BY <1>1, OnlyMoves
  <1>6. DiskFits' /\ Log' = Log /\ LogMoves
    BY <1>0, <1>1, <1>2, <1>4, <1>5, RowWritten
  <1>7. NextRecord(p)' = NextRecord(p) /\ Appended(p)' = Appended(p)
    BY <1>1, <1>6 DEF NextRecord, Appended
  <1>8. pc'[p] = "pending"
    BY <1>1, <1>2
  <1>9. PointFits(p)'
    BY <1>1, <1>2, <1>6, <1>7, <1>8 DEF PointFits
  <1> QED BY <1>1, <1>2, <1>6, <1>9, InsideStep DEF Holding

\* The announcement of an append.
LEMMA AppendPendingFits ==
    ASSUME OwnerInv, NEW p \in Procs, AppendPending(p)
    PROVE  OwnerInv' /\ LogMoves
  <1>0. pc[p] = "pending"
    BY DEF AppendPending
  <1>2. /\ ownerLock = p /\ p \in DOMAIN pc /\ pc[p] \in Holding /\ DiskFits
        /\ committed = {Log} /\ NextFits(Log, walDir, NextRecord(p))
        /\ NextRecord(p) \in Records
        /\ Appended(p) = Append(Log, NextRecord(p)) /\ Appended(p) \notin files
        /\ walDir # 0 => pending = {} /\ rows = {Appended(p)}
    BY <1>0, Appending DEF PointFits
  <1>d. /\ HistoryFits(files, Log, walDir)
        /\ RowsFit(Log, Announced, walDir, rows)
        /\ BindingFits(Log, walDir, binding)
        /\ InodesFit(walDir, inodes, faults)
        /\ DirectoryFits(Log, inodes, faults, ownerLock, call)
    BY <1>2 DEF DiskFits
  <1>3. CASE ~(pending \subseteq {Appended(p)})
    <2>1. Refuses(p) /\ walDir = 0
      BY <1>2, <1>3 DEF AppendPending
    <2> QED BY <2>1, RefusesStep
  <1>4. CASE pending \subseteq {Appended(p)}
    <2>1. /\ pc' = [pc EXCEPT ![p] = "publish"] /\ pending' = {Appended(p)}
          /\ UNCHANGED <<files, committed, walDir, rows, binding, inodes,
                         ownerLock, call, handle, faults>>
      BY <1>4 DEF AppendPending, Goto, walFiles
    <2>2. Log' = Log /\ Announced' = {Appended(p)}
      BY <1>2, <2>1 DEF Log, Announced
    <2>3. NextRecord(p)' = NextRecord(p) /\ Appended(p)' = Appended(p)
      BY <2>1, <2>2 DEF NextRecord, Appended
    <2>4. CursorFits(Log, committed, {Appended(p)}, walDir)
      BY <1>2 DEF CursorFits
    <2>5. RowsFit(Log, {Appended(p)}, walDir, rows)
      BY <1>2, <1>d DEF RowsFit
    <2>6. DiskFits'
      BY <1>d, <2>1, <2>2, <2>4, <2>5 DEF DiskFits
    <2>7. pc'[p] = "publish"
      BY <1>2, <2>1
    <2>8. PointFits(p)'
      BY <1>2, <2>1, <2>2, <2>3, <2>7 DEF PointFits
    <2>9. OwnerInv'
      BY <1>2, <2>1, <2>6, <2>8, InsideStep DEF Holding
    <2>10. Announced = {} \/ Announced = {Appended(p)}
      BY <1>2, <1>4 DEF Announced
    <2> QED BY <1>2, <2>1, <2>2, <2>9, <2>10 DEF LogMoves
  <1> QED BY <1>3, <1>4

\* The publication of an append.
LEMMA AppendPublishFits ==
    ASSUME OwnerInv, NEW p \in Procs, AppendPublish(p)
    PROVE  OwnerInv' /\ LogMoves
  <1>0. pc[p] = "publish"
    BY DEF AppendPublish
  <1>1. /\ pc' = [pc EXCEPT ![p] = "cursor"] /\ files' = files \cup {Appended(p)}
        /\ UNCHANGED <<committed, pending, walDir, rows, binding, inodes,
                       ownerLock, handle, faults>>
        /\ call' = [call EXCEPT ![p].done = TRUE]
    BY DEF AppendPublish, Goto, cursor, walFiles
  <1>2. /\ ownerLock = p /\ p \in DOMAIN pc /\ p \in DOMAIN call /\ DiskFits
        /\ committed = {Log} /\ NextFits(Log, walDir, NextRecord(p))
        /\ NextRecord(p) \in Records /\ WalOf(p) = walDir
        /\ Appended(p) = Append(Log, NextRecord(p)) /\ Appended(p) \notin files
        /\ pending = {Appended(p)}
    BY <1>0, Appending DEF PointFits
  <1>3. faults \in Nat /\ faults <= MaxFaults /\ CallFits(call[p])
    BY Standing
  <1>4. faults' \in Nat /\ faults' <= MaxFaults /\ faults' >= faults
    BY <1>1, <1>3
  <1> DEFINE c == [call[p] EXCEPT !.done = TRUE]
  <1>5. call' = [call EXCEPT ![p] = c] /\ call'[p] = c
    BY <1>1, <1>2
  <1>6. /\ c \in CallType /\ c.stage = call[p].stage /\ c.kind = call[p].kind
        /\ c.rec = call[p].rec
    BY <1>3 DEF CallFits, CallType
  <1> HIDE DEF c
  <1>7. CallFits(c)
    BY <1>3, <1>6 DEF CallFits
  <1>8. Only(p)
    BY <1>1, <1>5, OnlyMoves
  <1>9. DirectoryFits(Log, inodes, faults', ownerLock', call')
    BY <1>1, <1>2, <1>4, <1>5, <1>6, <1>8, DirectoryKept
  <1>10. DiskFits' /\ Log' = Append(Log, NextRecord(p)) /\ Announced' = {}
    BY <1>1, <1>2, <1>4, <1>9, Published
  <1>11. pc'[p] = "cursor"
    BY <1>1, <1>2
  <1>12. PointFits(p)'
    BY <1>11 DEF PointFits
  <1>13. WalOf(p)' = walDir'
    BY <1>1, <1>2, <1>5, <1>6 DEF WalOf, Activating
  <1>14. ProcFits(p)'
    BY <1>1, <1>2, <1>5, <1>7, <1>11, <1>12, <1>13 DEF ProcFits, Holding
  <1>15. OwnerInv'
    BY <1>2, <1>8, <1>10, <1>14, OwnerAssemble
  <1>16. Announced = {Append(Log, NextRecord(p))}
    BY <1>2 DEF Announced
  <1> QED BY <1>1, <1>2, <1>10, <1>15, <1>16 DEF LogMoves

\* What a call at work knows: an activation finds its directory reconciled.
LEMMA Working ==
    ASSUME OwnerInv, NEW p \in Procs, pc[p] = "work"
    PROVE  /\ DiskFits /\ ownerLock = p /\ p \in DOMAIN pc /\ p \in DOMAIN call
           /\ pc[p] \in Holding /\ WalOf(p) = walDir /\ committed = {Log}
           /\ walDir # 0 => pending = {} /\ rows = {}
           /\ CallFits(call[p])
  BY Standing DEF Holding, ProcFits, PointFits

\* A call at work starts on its record.
LEMMA RecordStarted ==
    ASSUME OwnerInv, NEW p \in Procs, pc[p] = "work",
           StartsRecord(p), NextFits(Log, walDir, NextRecord(p)),
           UNCHANGED <<disk, gateVars, ownerLock, call, handle, faults>>
    PROVE  OwnerInv' /\ LogMoves
  <1>0. /\ p \in DOMAIN pc /\ pc[p] \in Holding /\ WalOf(p) = walDir
        /\ committed = {Log} /\ (walDir # 0 => pending = {} /\ rows = {})
    BY Working
  <1>1. /\ SameFiles
        /\ UNCHANGED <<binding, inodes, faults, ownerLock, call, handle>>
    BY DEF SameFiles, disk, cursor, walFiles
  <1>2. PICK l \in {"row", "pending"} :
          /\ pc' = [pc EXCEPT ![p] = l] /\ (l = "row" <=> walDir # 0)
    BY <1>0 DEF StartsRecord, Goto
  <1>3. Log' = Log /\ pc'[p] = l
    BY <1>0, <1>1, <1>2 DEF SameFiles, Log
  <1>4. NextRecord(p)' = NextRecord(p)
    BY <1>1, <1>3 DEF NextRecord, SameFiles
  <1>5. PointFits(p)'
    BY <1>0, <1>1, <1>2, <1>3, <1>4 DEF PointFits, SameFiles
  <1> QED BY <1>0, <1>1, <1>2, <1>5, InsideQuiet DEF Holding

\* The ordinary calls.
LEMMA OrdinaryCalls ==
    ASSUME OwnerInv, NEW p \in Procs, AppendCall(p) \/ ReplayCall(p)
    PROVE  OwnerInv' /\ LogMoves
  <1>0. pc[p] = "work"
    BY DEF AppendCall, ReplayCall
  <1>1. CallFits(call[p])
    BY <1>0, Working
  <1>2. CASE AppendCall(p) /\ call[p].done
    <2>1. Refuses(p) /\ call[p].stage # "admission"
      BY <1>1, <1>2 DEF AppendCall, CallFits
    <2> QED BY <2>1, RefusesStep
  <1>3. CASE AppendCall(p) /\ ~call[p].done
    <2>1. /\ StartsRecord(p)
          /\ UNCHANGED <<disk, gateVars, ownerLock, call, handle, faults>>
      BY <1>3 DEF AppendCall
    <2>2. NextRecord(p) \in PayloadRecords
      BY <1>1, <1>3 DEF AppendCall, NextRecord, CallFits
    <2>3. NextFits(Log, walDir, NextRecord(p))
      BY <2>2 DEF NextFits
    <2> QED BY <1>0, <2>1, <2>3, RecordStarted
  <1>4. CASE ReplayCall(p)
    <2>1. Refuses(p) /\ call[p].stage # "admission"
      BY <1>4 DEF ReplayCall
    <2> QED BY <2>1, RefusesStep
  <1> QED BY <1>2, <1>3, <1>4

\* The records of an activation.
LEMMA ActivationRecordFits ==
    ASSUME OwnerInv, NEW p \in Procs, ActivationRecord(p)
    PROVE  OwnerInv' /\ LogMoves
  <1>0. /\ pc[p] = "work" /\ Activating(p) /\ walDir # 0 /\ ~Settled
        /\ StartsRecord(p)
        /\ UNCHANGED <<disk, gateVars, ownerLock, call, handle, faults>>
    BY DEF ActivationRecord
  <1>1. DiskFits /\ CallFits(call[p])
    BY <1>0, Working
  <1>2. call[p].kind = "enable"
    BY <1>0, <1>1 DEF CallFits, Activating
  <1>3. CASE IntentOf(Log) = 0
    <2>1. NextRecord(p) = Intent(walDir)
      BY <1>2, <1>3 DEF NextRecord
    <2>2. NextFits(Log, walDir, NextRecord(p))
      BY <1>0, <1>3, <2>1 DEF NextFits
    <2> QED BY <1>0, <2>2, RecordStarted
  <1>4. CASE IntentOf(Log) # 0
    <2>1. NextRecord(p) = Unit(UnitsDone(Log) + 1)
      BY <1>2, <1>4 DEF NextRecord
    <2>2. UnitsDone(Log) \in 0..UnitLength /\ UnitsDone(Log) # UnitLength
      BY <1>0, <1>1, <1>4 DEF DiskFits, HistoryFits, Settled
    <2>3. UnitsDone(Log) < UnitLength
      BY <2>2, JournalBounds
    <2>4. NextFits(Log, walDir, NextRecord(p))
      BY <1>4, <2>1, <2>3 DEF NextFits
    <2> QED BY <1>0, <2>4, RecordStarted
  <1> QED BY <1>3, <1>4

\* A directory without intent is removed.
LEMMA RollBackFits ==
    ASSUME OwnerInv, NEW p \in Procs, RollBack(p)
    PROVE  OwnerInv' /\ LogMoves
  <1>0. /\ pc[p] = "work" /\ call[p].stage = "recovery" /\ IntentOf(Log) = 0
        /\ walDir' = 0 /\ ownerLock' = None /\ pc' = [pc EXCEPT ![p] = "gate"]
        /\ UNCHANGED <<files, committed, pending, rows, binding, inodes, call,
                       handle, faults>>
    BY DEF RollBack, Goto, cursor
  <1>1. /\ DiskFits /\ ownerLock = p /\ p \in DOMAIN pc /\ committed = {Log}
        /\ walDir # 0 => pending = {} /\ rows = {}
        /\ CallFits(call[p])
    BY <1>0, Working
  <1>d. /\ HistoryFits(files, Log, walDir)
        /\ CursorFits(Log, committed, pending, walDir)
        /\ RowsFit(Log, Announced, walDir, rows)
        /\ BindingFits(Log, walDir, binding)
        /\ InodesFit(walDir, inodes, faults)
        /\ DirectoryFits(Log, inodes, faults, ownerLock, call)
    BY <1>1 DEF DiskFits
  <1>2. Log' = Log /\ Announced' = Announced
    BY <1>0 DEF Log, Announced
  <1>3. HistoryFits(files, Log, 0)
    BY <1>0, <1>d DEF HistoryFits
  <1>4. CursorFits(Log, committed, pending, 0)
    <2>1. CASE walDir = 0
      BY <1>d, <2>1
    <2>2. CASE walDir # 0
      BY <1>1, <2>2 DEF CursorFits
    <2> QED BY <2>1, <2>2
  <1>5. RowsFit(Log, Announced, 0, rows)
    BY <1>1, <1>d DEF RowsFit
  <1>6. BindingFits(Log, 0, binding)
    BY <1>0, <1>d DEF BindingFits
  <1>7. inodes <= faults
    BY <1>0, <1>1, <1>d DEF DirectoryFits
  <1>8. InodesFit(0, inodes, faults)
    BY <1>d, <1>7 DEF InodesFit
  <1>9. DirectoryFits(Log, inodes, faults, ownerLock', call)
    BY <1>7 DEF DirectoryFits
  <1>10. DiskFits'
    BY <1>0, <1>2, <1>3, <1>4, <1>5, <1>6, <1>8, <1>9 DEF DiskFits
  <1>11. Only(p)
    BY <1>0, <1>1, OnlyMoves
  <1>12. pc'[p] = "gate" /\ ownerLock' # p /\ CallFits(call'[p])
         /\ call'[p].kind = "enable"
    BY <1>0, <1>1, Standing DEF CallFits
  <1>13. ProcFits(p)'
    BY <1>12, OutsideFits
  <1>14. OwnerInv'
    BY <1>1, <1>10, <1>11, <1>13, OwnerAssemble
  <1> QED BY <1>0, <1>2, <1>14 DEF LogMoves

\* A new directory.
LEMMA MakeDirectoryFits ==
    ASSUME OwnerInv, NEW p \in Procs, MakeDirectory(p)
    PROVE  OwnerInv' /\ LogMoves
  <1>0. pc[p] = "work" /\ call[p].stage = "admission" /\ walDir = 0
    BY DEF MakeDirectory
  <1>1. /\ DiskFits /\ ownerLock = p /\ p \in DOMAIN pc /\ pc[p] \in Holding
        /\ committed = {Log} /\ None \notin Procs
    BY <1>0, Working, Standing
  <1>d. /\ HistoryFits(files, Log, walDir)
        /\ RowsFit(Log, Announced, walDir, rows)
        /\ BindingFits(Log, walDir, binding)
        /\ InodesFit(walDir, inodes, faults)
    BY <1>1 DEF DiskFits
  <1>2. CASE Refuses(p)
    BY <1>0, <1>2, RefusesStep
  <1>3. CASE ~Refuses(p)
    <2>1. /\ pending = {} /\ walDir' = inodes + 1 /\ inodes' = inodes + 1
          /\ pc' = [pc EXCEPT ![p] = "reconcile"]
          /\ UNCHANGED <<files, committed, pending, rows, binding, ownerLock,
                         call, handle, faults>>
      BY <1>3 DEF MakeDirectory, Goto, cursor
    <2>2. Log' = Log /\ Announced = {} /\ Announced' = {}
      BY <2>1 DEF Log, Announced
    <2>3. HistoryFits(files, Log, walDir')
      BY <1>0, <1>d DEF HistoryFits
    <2>4. CursorFits(Log, committed, {}, walDir')
      BY <1>1 DEF CursorFits
    <2>5. RowsFit(Log, {}, walDir', rows)
      BY <1>0, <1>d, <2>2 DEF RowsFit
    <2>6. BindingFits(Log, walDir', binding)
      BY <1>0, <1>d DEF BindingFits
    <2>7. InodesFit(walDir', inodes', faults)
      BY <1>0, <1>d, <2>1 DEF InodesFit
    <2>8. DirectoryFits(Log, inodes', faults, ownerLock, call)
      BY <1>0, <1>1 DEF DirectoryFits
    <2>9. DiskFits'
      BY <2>1, <2>2, <2>3, <2>4, <2>5, <2>6, <2>7, <2>8 DEF DiskFits
    <2>10. pc'[p] = "reconcile" /\ Activating(p)
      BY <1>0, <1>1, <2>1 DEF Activating
    <2>11. PointFits(p)'
      BY <1>1, <2>1, <2>2, <2>10 DEF PointFits
    <2>12. OwnerInv'
      BY <1>1, <2>1, <2>9, <2>10, <2>11, InsideStep DEF Holding
    <2> QED BY <2>1, <2>2, <2>12 DEF LogMoves
  <1> QED BY <1>2, <1>3

\* The marker on the files, whoever publishes it and whether it survives.
LEMMA Bound ==
    ASSUME OwnerInv, NEW p \in Procs, pc[p] = "work", Settled,
           binding' = walDir,
           UNCHANGED <<files, committed, pending, walDir, rows, inodes>>,
           faults' \in Nat, faults' <= MaxFaults, faults' >= faults
    PROVE  DiskFits' /\ LogMoves
  <1>1. /\ DiskFits /\ committed = {Log}
        /\ walDir # 0 => pending = {} /\ rows = {}
    BY Working
  <1>d. /\ HistoryFits(files, Log, walDir)
        /\ CursorFits(Log, committed, pending, walDir)
        /\ RowsFit(Log, Announced, walDir, rows)
        /\ InodesFit(walDir, inodes, faults)
    BY <1>1 DEF DiskFits
  <1>2. Log' = Log /\ Announced' = Announced
    BY DEF Log, Announced
  <1>3. IntentOf(Log) # 0 /\ IntentOf(Log) = walDir /\ UnitsDone(Log) = UnitLength
    BY <1>d DEF Settled, HistoryFits
  <1>4. BindingFits(Log, walDir, walDir)
    BY <1>3 DEF BindingFits
  <1>5. DirectoryFits(Log, inodes, faults', ownerLock', call')
    BY <1>3 DEF DirectoryFits
  <1>6. InodesFit(walDir, inodes, faults')
    BY <1>d, FaultsGrow
  <1>7. DiskFits'
    BY <1>d, <1>2, <1>4, <1>5, <1>6 DEF DiskFits
  <1>8. Announced = {} /\ binding' # 0
    BY <1>1, <1>3 DEF Announced
  <1> QED BY <1>7, <1>8 DEF LogMoves

\* The marker is published.
LEMMA PublishBindingFits ==
    ASSUME OwnerInv, NEW p \in Procs, PublishBinding(p)
    PROVE  OwnerInv' /\ LogMoves
  <1>0. /\ pc[p] = "work" /\ Settled /\ binding' = walDir
        /\ ownerLock' = None /\ pc' = [pc EXCEPT ![p] = "owner"]
        /\ handle' = [handle EXCEPT ![p] = walDir] /\ Stage(p, "verify")
        /\ UNCHANGED <<files, committed, pending, walDir, rows, inodes, faults>>
    BY DEF PublishBinding, Goto, cursor
  <1>1. /\ ownerLock = p /\ p \in DOMAIN pc /\ p \in DOMAIN call
        /\ faults \in Nat /\ faults <= MaxFaults /\ None \notin Procs
    BY <1>0, Working, Standing
  <1>2. faults' \in Nat /\ faults' <= MaxFaults /\ faults' >= faults
    BY <1>0, <1>1
  <1>3. DiskFits' /\ LogMoves
    BY <1>0, <1>2, Bound
  <1>4. PICK c : CallFits(c) /\ call' = [call EXCEPT ![p] = c]
    BY <1>0, StageFits
  <1>5. Only(p)
    BY <1>0, <1>1, <1>4, OnlyMoves
  <1>6. pc'[p] = "owner" /\ call'[p] = c /\ ownerLock' # p
    BY <1>0, <1>1, <1>4
  <1>7. ProcFits(p)'
    BY <1>4, <1>6, OutsideFits
  <1> QED BY <1>1, <1>3, <1>5, <1>7, OwnerAssemble

\* A call that fails, or whose process dies, between two steps.
LEMMA FaultsFit ==
    ASSUME OwnerInv, NEW p \in Procs, CallFails(p) \/ Crash(p)
    PROVE  OwnerInv' /\ LogMoves
  <1>1. /\ ownerLock' = Freed(p, ownerLock)
        /\ call' = [call EXCEPT ![p] = NoCall]
        /\ pc' = [pc EXCEPT ![p] = "idle"]
        /\ handle' = handle \/ \E h : handle' = [handle EXCEPT ![p] = h]
        /\ SameFiles /\ UNCHANGED <<binding, inodes>>
        /\ faults < MaxFaults /\ faults' = faults + 1
    BY DEF CallFails, Crash, Dies, Ends, Fault, Goto, disk, cursor, walFiles, SameFiles
  <1>2. Only(p) /\ ProcFits(p)'
    BY <1>1, EndsFits
  <1>3. faults' \in Nat /\ faults' <= MaxFaults /\ faults' >= faults
    BY <1>1, Standing, JournalBounds
  <1>4. OwnerInv'
    BY <1>1, <1>2, <1>3, QuietStep
  <1> QED BY <1>1, <1>4 DEF LogMoves, SameFiles, Announced

\* A process dies inside a publication, before or after the link.
LEMMA CrashInPublishFits ==
    ASSUME OwnerInv, NEW p \in Procs, CrashInPublish(p)
    PROVE  OwnerInv' /\ LogMoves
  <1>1. /\ ownerLock' = Freed(p, ownerLock)
        /\ call' = [call EXCEPT ![p] = NoCall]
        /\ pc' = [pc EXCEPT ![p] = "idle"]
        /\ \E h : handle' = [handle EXCEPT ![p] = h]
        /\ UNCHANGED <<committed, pending, walDir, inodes>>
        /\ faults < MaxFaults /\ faults' = faults + 1
    BY DEF CrashInPublish, Dies, Fault, Goto, cursor
  <1>2. Only(p) /\ ProcFits(p)'
    BY <1>1, EndsFits
  <1>3. faults' \in Nat /\ faults' <= MaxFaults /\ faults' >= faults
    BY <1>1, Standing, JournalBounds
  <1>4. DiskFits /\ (pc[p] \in Holding => ownerLock = p)
    BY Standing
  <1>5. DirectoryFits(Log, inodes, faults', ownerLock', call')
    BY <1>1, <1>2, <1>3, DirectoryKept
  <1>6. CASE UNCHANGED <<files, rows, binding>>
    <2>1. OwnerInv'
      BY <1>1, <1>2, <1>3, <1>6, QuietStep DEF SameFiles
    <2> QED BY <1>1, <1>6, <2>1 DEF LogMoves, Announced
  <1>7. CASE pc[p] = "row" /\ rows' = {Appended(p)} /\ UNCHANGED <<files, binding>>
    <2>1. DiskFits' /\ LogMoves
      BY <1>1, <1>2, <1>3, <1>7, RowWritten
    <2> QED BY <1>2, <1>4, <1>7, <2>1, OwnerAssemble DEF Holding
  <1>8. ASSUME NEW d \in Records, NextFits(Log, walDir, d), committed = {Log},
               pending = {Append(Log, d)}, Announced = {Append(Log, d)},
               files' = files \cup {Append(Log, d)},
               UNCHANGED <<rows, binding>>, ownerLock = p
        PROVE  OwnerInv' /\ LogMoves
    <2>1. DiskFits' /\ Log' = Append(Log, d) /\ Announced' = {}
      BY <1>1, <1>3, <1>4, <1>5, <1>8, Published
    <2>2. OwnerInv'
      BY <1>2, <1>8, <2>1, OwnerAssemble
    <2> QED BY <1>8, <2>1, <2>2 DEF LogMoves
  <1>9. CASE /\ pc[p] = "publish" /\ files' = files \cup {Appended(p)}
             /\ UNCHANGED <<rows, binding>>
    <2>1. /\ ownerLock = p /\ committed = {Log}
          /\ NextFits(Log, walDir, NextRecord(p)) /\ NextRecord(p) \in Records
          /\ Appended(p) = Append(Log, NextRecord(p)) /\ Appended(p) \notin files
          /\ pending = {Appended(p)}
      BY <1>9, Appending DEF PointFits
    <2>2. Announced = {Appended(p)}
      BY <2>1 DEF Announced
    <2> QED BY <1>8, <1>9, <2>1, <2>2
  <1>10. CASE /\ pc[p] = "reconcile" /\ Announced # {}
              /\ files' = files \cup Announced /\ UNCHANGED <<rows, binding>>
    <2>1. ownerLock = p
      BY <1>4, <1>10 DEF Holding
    <2>2. PICK d \in Records : /\ NextFits(Log, walDir, d) /\ committed = {Log}
                               /\ pending = {Append(Log, d)}
                               /\ Announced = {Append(Log, d)}
      BY <1>4, <1>10, Readable
    <2> QED BY <1>8, <1>10, <2>1, <2>2
  <1>11. CASE /\ pc[p] = "work" /\ Settled /\ binding' = walDir
              /\ UNCHANGED <<files, rows>>
    <2>1. DiskFits' /\ LogMoves
      BY <1>1, <1>3, <1>11, Bound
    <2> QED BY <1>2, <1>4, <1>11, <2>1, OwnerAssemble DEF Holding
  <1> QED BY <1>6, <1>7, <1>9, <1>10, <1>11 DEF CrashInPublish

\* A step that touches none of the variables the invariant is about.
LEMMA StillFits ==
    ASSUME OwnerInv,
           UNCHANGED <<files, committed, pending, walDir, rows, binding, inodes,
                       ownerLock, pc, call, handle, faults>>
    PROVE  OwnerInv' /\ LogMoves
  <1>1. Log' = Log /\ Announced' = Announced
    BY DEF Log, Announced
  <1>2. DiskFits'
    BY <1>1 DEF OwnerInv, DiskFits
  <1>3. ASSUME NEW p \in Procs PROVE ProcFits(p)'
    <2>0. ProcFits(p)
      BY DEF OwnerInv
    <2>1. NextRecord(p)' = NextRecord(p)
      BY <1>1 DEF NextRecord
    <2>2. Appended(p)' = Appended(p)
      BY <1>1, <2>1 DEF Appended
    <2>3. WalOf(p)' = WalOf(p)
      BY DEF WalOf, Activating
    <2>4. PointFits(p)'
      BY <1>1, <2>0, <2>1, <2>2 DEF ProcFits, PointFits
    <2> QED BY <2>0, <2>3, <2>4 DEF ProcFits
  <1>4. OwnerInv'
    BY <1>2, <1>3 DEF OwnerInv
  <1> QED BY <1>1, <1>4 DEF LogMoves
-----------------------------------------------------------------------------
(* Theorems                                                                *)

\* A new runtime has no record, no directory and nobody inside.
LEMMA OwnerInitFits ==
    ASSUME JournalInit
    PROVE  OwnerInv
  <1>1. Log = <<>> /\ Announced = {}
    BY DEF JournalInit, Log, Tail0, Announced
  <1>2. Chain(<<>>) = {}
    BY DEF Chain
  <1>3. UnitsDone(<<>>) = 0 /\ IntentOf(<<>>) = 0
    <2>1. /\ {i \in DOMAIN <<>> : <<>>[i].kind = "UNIT"} = {}
          /\ {i \in DOMAIN <<>> : <<>>[i].kind = "INTENT"} = {}
      OBVIOUS
    <2> QED BY <2>1, FS_EmptySet DEF UnitsDone, IntentOf
  <1>4. MaxFaults \in Nat /\ UnitLength \in Nat
    BY JournalBounds
  <1>5. HistoryFits(files, Log, walDir)
    BY <1>1, <1>2, <1>3, <1>4 DEF HistoryFits, JournalInit
  <1>6. CursorFits(Log, committed, pending, walDir)
    BY <1>1 DEF CursorFits, JournalInit
  <1>7. RowsFit(Log, Announced, walDir, rows) /\ BindingFits(Log, walDir, binding)
    BY DEF RowsFit, BindingFits, JournalInit
  <1>8. /\ InodesFit(walDir, inodes, faults)
        /\ DirectoryFits(Log, inodes, faults, ownerLock, call)
    BY <1>4 DEF InodesFit, DirectoryFits, JournalInit
  <1>9. CallFits(NoCall)
    BY DEF CallFits, NoCall, CallType
  <1>10. ASSUME NEW p \in Procs PROVE ProcFits(p)
    <2>1. pc[p] = "idle" /\ call[p] = NoCall /\ ownerLock # p
      BY NoneIsNothing DEF JournalInit
    <2>2. PointFits(p)
      BY <2>1 DEF PointFits, Holding
    <2> QED BY <1>9, <2>1, <2>2 DEF ProcFits, Holding
  <1> QED BY <1>5, <1>6, <1>7, <1>8, <1>10 DEF OwnerInv, DiskFits, JournalInit

\* Every step keeps the invariant and moves the log as OwnerLog allows.
LEMMA OwnerStepFits ==
    ASSUME OwnerInv, [JournalNext]_journalVars
    PROVE  OwnerInv' /\ LogMoves
  <1>1. CASE UNCHANGED journalVars
    BY <1>1, StillFits DEF journalVars, disk, cursor, walFiles, control
  <1>2. CASE CloseGate
    BY <1>2, StillFits DEF CloseGate, disk, cursor, walFiles, control
  <1>3. ASSUME NEW p \in Procs, Runs(p) PROVE OwnerInv' /\ LogMoves
    BY <1>3, OutsideActions, AcquireOwnerFits, AdvanceCursorFits, ReconcileFits,
       AppendRowFits, AppendPendingFits, AppendPublishFits, OrdinaryCalls,
       RollBackFits, MakeDirectoryFits, ActivationRecordFits, PublishBindingFits
       DEF Runs, Locks
  <1>4. ASSUME NEW p \in Procs,
               \/ Open(p) \/ BeginReplay(p) \/ BeginEnable(p)
               \/ \E x \in Payloads : BeginAppend(p, x)
        PROVE  OwnerInv' /\ LogMoves
    BY <1>4, OutsideActions
  <1>5. ASSUME NEW p \in Procs, CallFails(p) \/ Crash(p) \/ CrashInPublish(p)
        PROVE  OwnerInv' /\ LogMoves
    BY <1>5, FaultsFit, CrashInPublishFits
  <1> QED BY <1>1, <1>2, <1>3, <1>4, <1>5 DEF JournalNext

\* The invariant of the owner's files: at any number of processes, calls,
\* kills and failed writes the record files are the chain of one journal, the
\* cursor is at one of the stages of one append, rows, directory, intent and
\* marker agree with it, and what the lock holder is about to do still fits.
THEOREM OwnerInvariant == JournalSpec => []OwnerInv
  <1>1. JournalInit => OwnerInv
    BY OwnerInitFits
  <1>2. OwnerInv /\ [JournalNext]_journalVars => OwnerInv'
    BY OwnerStepFits
  <1> QED BY <1>1, <1>2, PTL DEF JournalSpec

\* Whatever step a process dies at, _replay_records_fd, _recover_owner_cursor
\* and _reconcile_v4_wal_payload accept the files it leaves.
THEOREM FilesStayRecoverable == JournalSpec => []FilesRecoverable
  <1>1. OwnerInv => FilesRecoverable
    <2> SUFFICES ASSUME OwnerInv PROVE FilesRecoverable
      OBVIOUS
    <2>0. DiskFits
      BY DEF OwnerInv
    <2>1. /\ Replays(files) /\ Linear(files) /\ CursorReadable
          /\ walDir # 0 => RowsReadable
      BY <2>0, Readable
    <2>2. IntentOf(Log) \in {0, walDir}
      BY <2>0 DEF DiskFits, HistoryFits
    <2>3. binding # 0 => binding = walDir /\ IntentOf(Log) = binding /\ Settled
      BY <2>0 DEF DiskFits, BindingFits, Settled
    <2> QED BY <2>1, <2>2, <2>3 DEF FilesRecoverable
  <1> QED BY <1>1, OwnerInvariant, PTL

\* The record a set of announced records names.
NameOf(as) == IF as = {} THEN None ELSE Last(CHOOSE s \in as : TRUE)

\* The files implement the log of OwnerLog: the link of a pending record, its
\* file and the binding marker are the steps of the log, every other write,
\* kill and recovery is none.
THEOREM FilesImplementLog == JournalSpec => ImplementsLog
  <1>1. JournalInit => AbstractLog!LogInit
    <2> SUFFICES ASSUME JournalInit PROVE AbstractLog!LogInit
      OBVIOUS
    <2>1. Log = <<>> /\ Announced = {} /\ binding = 0
      BY DEF JournalInit, Log, Tail0, Announced
    <2> QED BY <2>1 DEF AbstractLog!LogInit
  <1>2. OwnerInv /\ [JournalNext]_journalVars
          => [AbstractLog!LogNext]_(AbstractLog!logVars)
    <2> SUFFICES ASSUME OwnerInv, LogMoves
                 PROVE  [AbstractLog!LogNext]_(AbstractLog!logVars)
      BY OwnerStepFits
    <2>0. Log \in Seq(Records) /\ None \notin Records
      BY NoneIsNothing DEF OwnerInv, DiskFits, HistoryFits
    <2>1. ASSUME NEW d \in Records
          PROVE  /\ {Append(Log, d)} # {} /\ d # None
                 /\ NameOf({Append(Log, d)}) = d
      <3>1. (CHOOSE s \in {Append(Log, d)} : TRUE) = Append(Log, d)
        OBVIOUS
      <3>2. Last(Append(Log, d)) = d
        BY <2>0, ChainGrows
      <3> QED BY <2>0, <3>1, <3>2 DEF NameOf
    <2>2. CASE Announced' = Announced /\ UNCHANGED <<files, binding>>
      <3>1. Log' = Log
        BY <2>2 DEF Log
      <3> QED BY <2>2, <3>1 DEF AbstractLog!logVars
    <2>3. CASE /\ \E d \in Records : Announced = {} /\ Announced' = {Append(Log, d)}
               /\ UNCHANGED <<files, binding>>
      <3>1. PICK d \in Records : Announced = {} /\ Announced' = {Append(Log, d)}
        BY <2>3
      <3>2. Log' = Log
        BY <2>3 DEF Log
      <3>3. AbstractLog!Announce(d)
        BY <2>1, <2>3, <3>1, <3>2 DEF AbstractLog!Announce, NameOf
      <3> QED BY <3>3 DEF AbstractLog!LogNext
    <2>4. CASE /\ \E d \in Records :
                    Announced = {Append(Log, d)} /\ Log' = Append(Log, d)
               /\ Announced' = {} /\ UNCHANGED binding
      <3>1. PICK d \in Records :
              Announced = {Append(Log, d)} /\ Log' = Append(Log, d)
        BY <2>4
      <3>2. NameOf(Announced) = d /\ d # None
        BY <2>1, <3>1
      <3>3. AbstractLog!Publish
        BY <2>4, <3>1, <3>2 DEF AbstractLog!Publish, NameOf
      <3> QED BY <3>3 DEF AbstractLog!LogNext
    <2>5. CASE /\ Announced = {} /\ binding' # 0 /\ UNCHANGED <<files, pending>>
      <3>1. Log' = Log /\ Announced' = {}
        BY <2>5 DEF Log, Announced
      <3>2. AbstractLog!Bind
        BY <2>5, <3>1 DEF AbstractLog!Bind
      <3> QED BY <3>2 DEF AbstractLog!LogNext
    <2> QED BY <2>2, <2>3, <2>4, <2>5 DEF LogMoves
  <1> QED BY <1>1, <1>2, OwnerInvariant, PTL DEF JournalSpec, ImplementsLog,
             AbstractLog!LogSpec
=============================================================================
