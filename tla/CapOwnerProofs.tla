--------------------------- MODULE CapOwnerProofs ---------------------------
(***************************************************************************)
(* Safety of the shared cap owner for any processes, operations, paths,    *)
(* caps and requests, and any number of crashes.                           *)
(***************************************************************************)
EXTENDS CapOwner, FiniteSetTheorems, WellFoundedInduction, TLAPS

-----------------------------------------------------------------------------
(* Sums over finite sets                                                   *)

\* The recursion MapThenSumSet unfolds to, with the values as a function.
Pick(s) == CHOOSE x \in s : TRUE
Sums(f, w, S) ==
    f = [s \in SUBSET S |-> IF s = {} THEN 0 ELSE w[Pick(s)] + f[s \ {Pick(s)}]]
\* n is the sum of w over S.
IsSum(n, w, S) == \E f : Sums(f, w, S) /\ n = f[S]
Weighs(w, S) == IsFiniteSet(S) /\ \A x \in S : w[x] \in Nat

LEMMA LeastNat ==
    ASSUME NEW T, T \subseteq Nat, T # {}
    PROVE  \E n \in T : \A m \in T : ~(m < n)
  <1>1. PICK n \in T : \A m \in T : <<m, n>> \notin OpToRel(<, Nat)
    BY NatLessThanWellFounded, WFMin
  <1> QED BY <1>1 DEF OpToRel

\* A smallest subset among those that are bad.
LEMMA LeastSubset ==
    ASSUME NEW S, IsFiniteSet(S), NEW Bad, Bad \subseteq SUBSET S, Bad # {}
    PROVE  \E s \in Bad : \A r \in SUBSET s : r # s => r \notin Bad
  <1>1. \A s \in SUBSET S : IsFiniteSet(s) /\ Cardinality(s) \in Nat
    BY FS_Subset, FS_CardinalityType
  <1> DEFINE T == {Cardinality(s) : s \in Bad}
  <1>2. T \subseteq Nat /\ T # {}
    BY <1>1
  <1>3. PICK n \in T : \A m \in T : ~(m < n)
    BY <1>2, LeastNat
  <1>4. PICK s \in Bad : Cardinality(s) = n
    BY <1>3
  <1>5. ASSUME NEW r \in SUBSET s, r # s, r \in Bad PROVE FALSE
    <2>1. Cardinality(r) < Cardinality(s)
      BY <1>1, <1>5, FS_Subset
    <2>2. Cardinality(r) \in T
      BY <1>5
    <2> QED BY <1>3, <1>4, <2>1, <2>2
  <1> QED BY <1>4, <1>5

LEMMA PickIsElement ==
    ASSUME NEW s, s # {}
    PROVE  Pick(s) \in s
  BY DEF Pick

\* The recursion has a solution, built up from the smaller subsets.
LEMMA SumsExist ==
    ASSUME NEW w, NEW S, Weighs(w, S)
    PROVE  \E f : Sums(f, w, S)
  <1> DEFINE Step(f) == [s \in SUBSET S |->
                           IF s = {} THEN 0 ELSE w[Pick(s)] + f[s \ {Pick(s)}]]
             Solves(f, n) == \A s \in SUBSET S : Cardinality(s) <= n => f[s] = Step(f)[s]
             T == {n \in Nat : ~ \E f : Solves(f, n)}
  <1>1. \A s \in SUBSET S : IsFiniteSet(s) /\ Cardinality(s) \in Nat
                            /\ Cardinality(s) <= Cardinality(S)
    BY FS_Subset, FS_CardinalityType DEF Weighs
  <1>2. T = {}
    <2> SUFFICES ASSUME T # {} PROVE FALSE
      OBVIOUS
    <2>1. PICK n \in T : \A m \in T : ~(m < n)
      BY LeastNat
    <2>2. CASE n = 0
      <3> DEFINE f == [s \in SUBSET S |-> 0]
      <3>1. ASSUME NEW s \in SUBSET S, Cardinality(s) <= 0 PROVE f[s] = Step(f)[s]
        <4>1. s = {}
          BY <1>1, <3>1, FS_EmptySet
        <4> QED BY <4>1
      <3>2. Solves(f, 0)
        BY <3>1
      <3> QED BY <2>1, <2>2, <3>2
    <2>3. CASE n # 0
      <3>1. n \in Nat /\ n - 1 \in Nat /\ n - 1 < n
        BY <2>1, <2>3
      <3>2. n - 1 \notin T
        BY <2>1, <3>1
      <3>3. PICK f : Solves(f, n - 1)
        BY <3>1, <3>2
      <3> DEFINE g == Step(f)
      <3>4. ASSUME NEW s \in SUBSET S, Cardinality(s) <= n PROVE g[s] = Step(g)[s]
        <4>1. CASE s = {}
          BY <4>1
        <4>2. CASE s # {}
          <5> DEFINE r == s \ {Pick(s)}
          <5>1. Pick(s) \in s /\ r \in SUBSET S
            BY <4>2, PickIsElement
          <5>2. Cardinality(r) = Cardinality(s) - 1
            BY <1>1, <5>1, FS_RemoveElement
          <5>3. Cardinality(r) <= n - 1
            BY <1>1, <3>1, <3>4, <5>1, <5>2
          <5>4. f[r] = g[r]
            BY <3>3, <5>1, <5>3
          <5>5. g[s] = w[Pick(s)] + f[r] /\ Step(g)[s] = w[Pick(s)] + g[r]
            BY <4>2
          <5> QED BY <5>4, <5>5
        <4> QED BY <4>1, <4>2
      <3>5. Solves(g, n)
        BY <3>4
      <3> QED BY <2>1, <3>5
    <2> QED BY <2>2, <2>3
  <1>3. Cardinality(S) \in Nat
    BY <1>1
  <1>4. PICK f : Solves(f, Cardinality(S))
    BY <1>2, <1>3
  <1>5. \A s \in SUBSET S : f[s] = Step(f)[s]
    BY <1>1, <1>4
  <1> DEFINE g == Step(f)
  <1>6. \A s \in SUBSET S : g[s] = f[s] /\ s \ {Pick(s)} \in SUBSET S
    BY <1>5
  <1>7. g = Step(g)
    <2>1. ASSUME NEW s \in SUBSET S PROVE Step(f)[s] = Step(g)[s]
      <3> HIDE DEF g
      <3> QED BY <1>6
    <2> HIDE DEF g
    <2> QED BY <2>1 DEF g
  <1> HIDE DEF g
  <1> QED BY <1>7 DEF Sums

\* Its value does not depend on the order in which elements are taken.
LEMMA SumsRemove ==
    ASSUME NEW w, NEW S, Weighs(w, S), NEW f, Sums(f, w, S), NEW s \in SUBSET S
    PROVE  /\ f[s] \in Nat /\ (s = {} => f[s] = 0)
           /\ \A x \in s : f[s] = w[x] + f[s \ {x}]
  <1> DEFINE Good(t) == f[t] \in Nat /\ \A x \in t : f[t] = w[x] + f[t \ {x}]
             Bad == {t \in SUBSET S : ~Good(t)}
  <1>1. \A t \in SUBSET S : f[t] = IF t = {} THEN 0 ELSE w[Pick(t)] + f[t \ {Pick(t)}]
    BY DEF Sums
  <1>2. Bad = {}
    <2> SUFFICES ASSUME Bad # {} PROVE FALSE
      OBVIOUS
    <2>1. PICK t \in Bad : \A r \in SUBSET t : r # t => r \notin Bad
      BY LeastSubset DEF Weighs
    <2>2. /\ t \in SUBSET S /\ ~Good(t) /\ \A x \in t : w[x] \in Nat
          /\ \A r \in SUBSET t : r # t => Good(r)
      BY <2>1 DEF Weighs
    <2> HIDE DEF Bad
    <2>3. CASE t = {}
      <3>1. f[t] = 0
        BY <1>1, <2>2, <2>3
      <3> QED BY <2>2, <2>3, <3>1
    <2>4. CASE t # {}
      <3> DEFINE y == Pick(t)
      <3>1. y \in t /\ f[t] = w[y] + f[t \ {y}] /\ w[y] \in Nat
        BY <1>1, <2>2, <2>4, PickIsElement
      <3> HIDE DEF y
      <3>2. Good(t \ {y})
        BY <2>2, <3>1
      <3>3. f[t] \in Nat
        BY <3>1, <3>2
      <3>4. ASSUME NEW x \in t, x # y PROVE f[t] = w[x] + f[t \ {x}]
        <4> DEFINE r == (t \ {y}) \ {x}
        <4>1. Good(t \ {x}) /\ Good(r)
          BY <2>2, <3>1
        <4>2. x \in t \ {y} /\ y \in t \ {x} /\ r = (t \ {x}) \ {y}
          BY <3>1, <3>4
        <4>3. f[t \ {y}] = w[x] + f[r] /\ f[t \ {x}] = w[y] + f[r] /\ f[r] \in Nat
          BY <3>2, <4>1, <4>2
        <4> HIDE DEF r
        <4>4. w[x] \in Nat
          BY <2>2
        <4> QED BY <3>1, <4>3, <4>4
      <3>5. Good(t)
        BY <3>1, <3>3, <3>4
      <3> QED BY <2>2, <3>5
    <2> QED BY <2>3, <2>4
  <1> HIDE DEF Good
  <1>3. Good(s)
    BY <1>2
  <1> QED BY <1>1, <1>3 DEF Good

\* It depends on the values on the set alone.
LEMMA SumsAgree ==
    ASSUME NEW w, NEW v, NEW S, IsFiniteSet(S), NEW f, Sums(f, w, S), NEW g, Sums(g, v, S),
           \A x \in S : w[x] = v[x]
    PROVE  f[S] = g[S]
  <1> DEFINE Bad == {t \in SUBSET S : f[t] # g[t]}
  <1>1. \A t \in SUBSET S :
          /\ f[t] = IF t = {} THEN 0 ELSE w[Pick(t)] + f[t \ {Pick(t)}]
          /\ g[t] = IF t = {} THEN 0 ELSE v[Pick(t)] + g[t \ {Pick(t)}]
    BY DEF Sums
  <1>2. Bad = {}
    <2> SUFFICES ASSUME Bad # {} PROVE FALSE
      OBVIOUS
    <2>1. PICK t \in Bad : \A r \in SUBSET t : r # t => r \notin Bad
      BY LeastSubset
    <2>2. t # {} /\ Pick(t) \in t
      BY <1>1, <2>1, PickIsElement
    <2>3. f[t \ {Pick(t)}] = g[t \ {Pick(t)}] /\ w[Pick(t)] = v[Pick(t)]
      BY <2>1, <2>2
    <2> QED BY <1>1, <2>1, <2>2, <2>3
  <1> QED BY <1>2

\* A solution for a set is one for its subsets.
LEMMA SumsRestrict ==
    ASSUME NEW w, NEW S, NEW f, Sums(f, w, S), NEW R \in SUBSET S
    PROVE  Sums([s \in SUBSET R |-> f[s]], w, R)
  <1>1. \A s \in SUBSET R :
          /\ s \in SUBSET S /\ s \ {Pick(s)} \in SUBSET R
          /\ f[s] = IF s = {} THEN 0 ELSE w[Pick(s)] + f[s \ {Pick(s)}]
    BY DEF Sums
  <1> QED BY <1>1 DEF Sums

LEMMA SumEmpty ==
    ASSUME NEW w
    PROVE  IsSum(0, w, {})
  <1>1. Weighs(w, {})
    BY FS_EmptySet DEF Weighs
  <1>2. PICK f : Sums(f, w, {})
    BY <1>1, SumsExist
  <1>3. f[{}] = 0
    BY <1>2 DEF Sums
  <1> QED BY <1>2, <1>3 DEF IsSum

LEMMA SumUnique ==
    ASSUME NEW w, NEW S, IsFiniteSet(S), NEW n, NEW m, IsSum(n, w, S), IsSum(m, w, S)
    PROVE  n = m
  BY SumsAgree DEF IsSum

LEMMA SumRemove ==
    ASSUME NEW w, NEW S, Weighs(w, S), NEW n, IsSum(n, w, S), NEW x \in S
    PROVE  n \in Nat /\ n - w[x] \in Nat /\ IsSum(n - w[x], w, S \ {x})
  <1>1. PICK f : Sums(f, w, S) /\ n = f[S]
    BY DEF IsSum
  <1> DEFINE R == S \ {x}  g == [s \in SUBSET R |-> f[s]]
  <1>2. Sums(g, w, R) /\ g[R] = f[R]
    BY <1>1, SumsRestrict
  <1>3. f[S] = w[x] + f[R] /\ f[S] \in Nat /\ f[R] \in Nat /\ w[x] \in Nat
    BY <1>1, SumsRemove DEF Weighs
  <1>4. n \in Nat /\ n - w[x] = f[R]
    BY <1>1, <1>3
  <1>5. IsSum(f[R], w, R)
    BY <1>2 DEF IsSum
  <1> QED BY <1>3, <1>4, <1>5

LEMMA SumAdd ==
    ASSUME NEW w, NEW S, Weighs(w, S), NEW n, IsSum(n, w, S), NEW x, x \notin S, w[x] \in Nat
    PROVE  n \in Nat /\ IsSum(n + w[x], w, S \cup {x})
  <1> DEFINE R == S \cup {x}
  <1>1. Weighs(w, R)
    BY FS_AddElement DEF Weighs
  <1>2. PICK f : Sums(f, w, R)
    BY <1>1, SumsExist
  <1>3. f[R] = w[x] + f[R \ {x}] /\ R \ {x} = S /\ f[S] \in Nat /\ w[x] \in Nat
    BY <1>1, <1>2, SumsRemove DEF Weighs
  <1>4. f[S] = n
    <2> DEFINE g == [s \in SUBSET S |-> f[s]]
    <2>1. Sums(g, w, S) /\ g[S] = f[S]
      BY <1>2, SumsRestrict
    <2>2. IsSum(f[S], w, S)
      BY <2>1 DEF IsSum
    <2> QED BY <2>2, SumUnique DEF Weighs
  <1>5. f[R] = n + w[x] /\ n \in Nat
    <2> HIDE DEF R
    <2>1. f[R] = w[x] + n
      BY <1>3, <1>4
    <2>2. n \in Nat /\ w[x] \in Nat
      BY <1>3, <1>4
    <2> QED BY <2>1, <2>2
  <1> QED BY <1>2, <1>3, <1>4, <1>5 DEF IsSum

LEMMA SumSame ==
    ASSUME NEW w, NEW v, NEW S, Weighs(w, S), NEW n, IsSum(n, w, S), \A x \in S : w[x] = v[x]
    PROVE  IsSum(n, v, S)
  <1>1. PICK f : Sums(f, w, S) /\ n = f[S]
    BY DEF IsSum
  <1>2. Weighs(v, S)
    BY DEF Weighs
  <1>3. PICK g : Sums(g, v, S)
    BY <1>2, SumsExist
  <1>4. f[S] = g[S]
    BY <1>1, <1>3, SumsAgree DEF Weighs
  <1> QED BY <1>1, <1>3, <1>4 DEF IsSum

LEMMA MaxOfTwo ==
    ASSUME NEW m \in Nat, NEW n \in Nat
    PROVE  /\ Max({m, n}) \in {m, n}
           /\ Max({m, n}) >= m /\ Max({m, n}) >= n
  <1>1. \E x \in {m, n} : \A y \in {m, n} : x >= y
    BY m \in Nat, n \in Nat
  <1>2. Max({m, n}) \in {m, n} /\ \A y \in {m, n} : Max({m, n}) >= y
    BY <1>1 DEF Max
  <1> QED BY <1>2

-----------------------------------------------------------------------------
(* The invariant                                                           *)

KnownZero == [basis |-> "KNOWN_NOT_STARTED_ZERO", value |-> 0]
Conservative == [basis |-> "CONSERVATIVE_RESERVATION_UPPER", value |-> 0]
Labels == {"idle", "gate", "owner", "recover", "work", "finish", "enter", "body", "ack"}
Kinds == {"none", "reserve", "synchronize", "lookup", "pending", "exact", "reject",
          "hold", "settle", "replay"}
RecordKinds == {"RESERVATION", "ADMISSION", "CELL", "EVIDENCE", "SETTLEMENT",
                "RECEIPT", "EVENT", "SNAPSHOT"}
Books ==
    [res : [Ops -> Requests \cup {None}],
     cell : [Ops -> Lifecycles \cup {None}],
     evidence : [Ops -> Settlements \cup {None}],
     settled : SUBSET Ops, receipts : SUBSET Subjects,
     events : SUBSET Subjects, snapshots : SUBSET Subjects,
     charged : [Paths -> Nat], outstanding : [Paths -> Nat],
     admission : Requests \cup {None}, overruns : Nat,
     head : (RecordKinds \cup {"GENESIS"}) \X (Subjects \cup {None}),
     ok : BOOLEAN]
Calls == [kind : Kinds, req : Requests \cup {None}, op : Ops \cup {None},
          settlement : Settlements \cup {None}]

ProcTypeOK ==
    /\ gateEx \in Procs \cup {None} /\ gateSh \in SUBSET Procs
    /\ ownerLock \in Procs \cup {None}
    /\ pc \in [Procs -> Labels] /\ call \in [Procs -> Calls]
    /\ guard \in [Procs -> Ops \cup {None}]
GateTypeOK ==
    /\ rejection \in Locals \cup {None, External}
    /\ receipt \in {None, External, CapRejection}
CapTypeOK ==
    /\ book \in Books /\ pend \in Records \cup {None} /\ wal \in BOOLEAN
    /\ GateTypeOK /\ ProcTypeOK
    /\ performed \in SUBSET Ops

\* The records of an operation build on each other.
ChainFits(b) ==
    /\ \A o \in Ops :
        /\ b.res[o] # None => b.res[o].op = o
        /\ b.cell[o] # None => b.res[o] # None
        /\ b.cell[o] = "KNOWN_NOT_STARTED" => KnownZero \in Settlements
        /\ b.evidence[o] # None =>
             /\ b.cell[o] = Lifecycle(b.evidence[o])
             /\ ValidSettlement(b.evidence[o], b.res[o])
        /\ o \in b.settled => b.evidence[o] # None
        /\ o \in b.receipts => o \in b.settled
    /\ b.events \subseteq b.receipts /\ b.snapshots \subseteq b.events

\* At most one unit is unfinished, the one of the head.
UnitFits(b) == Frontier(b) \subseteq {b.head}

\* A rejection admission is the head until its receipt is appended.
AdmissionFits(b) ==
    /\ CapRejection \in b.receipts => b.admission # None
    /\ b.admission # None /\ CapRejection \notin b.receipts => b.head[1] = "ADMISSION"

OverrunFits(b) ==
    \A o \in Ops : b.evidence[o] # None /\ b.evidence[o].basis = "OBSERVED_OVERRUN"
        => b.overruns > 0

\* The totals of a path are those of its operations: what is outstanding the
\* sum of the unsettled reservations, what is charged the sum of the settled
\* charges, on a MAX path the largest of them.
Uppers(b) == [o \in Ops |-> b.res[o].upper]
Costs(b) == [o \in Ops |-> Charge(b.evidence[o], b.res[o])]
Unsettled(b, path) ==
    {o \in Ops \ b.settled : b.res[o] # None /\ b.res[o].path = path}
SettledOn(b, path) == {o \in b.settled : b.res[o].path = path}
IsPeak(n, w, S) == n \in {0} \cup {w[o] : o \in S} /\ \A o \in S : w[o] <= n
OutstandingFits(b, path) == IsSum(b.outstanding[path], Uppers(b), Unsettled(b, path))
ChargedFits(b, path) ==
    IF path \in MaxPaths THEN IsPeak(b.charged[path], Costs(b), SettledOn(b, path))
    ELSE IsSum(b.charged[path], Costs(b), SettledOn(b, path))
TotalsFit(b) == \A path \in Paths : OutstandingFits(b, path) /\ ChargedFits(b, path)

BookFits(b) ==
    /\ b \in Books /\ b.ok
    /\ ChainFits(b) /\ UnitFits(b) /\ AdmissionFits(b) /\ OverrunFits(b)
    /\ TotalsFit(b)

\* A record the replay of the book takes, as one of the calls would build it.
Fitting(b, d) ==
    /\ d \in Records /\ Accepts(b, d)
    /\ d.kind \in {"RESERVATION", "ADMISSION"} => d.req.op = d.subject
    /\ d.kind = "CELL" /\ d.state = "KNOWN_NOT_STARTED" => KnownZero \in Settlements
    /\ d.subject = CapRejection => b.admission # None

PendFits ==
    pend # None =>
        /\ Fitting(book, pend)
        /\ pend.kind = "RESERVATION" => ~IsLocal(rejection)
        /\ pend.kind = "ADMISSION" => IsLocal(rejection) /\ pend.req = rejection.req

\* Gate and journal.  Between the rejection of the gate and its admission the
\* book stays the one the candidate was computed from.
GateFits ==
    /\ book.admission # None => IsLocal(rejection) /\ book.admission = rejection.req
    /\ IsLocal(rejection) /\ book.admission = None =>
         /\ PrestateFrozen(book, rejection) /\ receipt = None
         /\ rejection.candidate > Cap[rejection.req.path]
         /\ book.res[rejection.req.op] = None
         /\ pend \in {None, Reservation(book, rejection.req)}
    /\ IsLocal(rejection) /\ receipt # None =>
         receipt = CapRejection /\ CapRejection \in book.snapshots
    /\ GateOpen => receipt = None
\* Side effects share the gate, and only while it is open.
SharedFits == gateSh # {} => GateOpen /\ gateEx = None

InGate(p) == pc[p] \in {"owner", "recover", "work", "finish", "enter"}
LocksFit(p) ==
    /\ ownerLock = p <=> pc[p] \in {"recover", "work", "finish", "enter"}
    /\ gateEx = p <=> InGate(p) /\ call[p].kind # "hold" /\ guard[p] = None
    /\ p \in gateSh <=> guard[p] # None \/ (InGate(p) /\ call[p].kind = "hold")

\* Which calls are where, and what they rest on.
CallFits(p) ==
    /\ guard[p] # None =>
         \/ pc[p] = "body"
         \/ pc[p] \in {"owner", "recover", "work"} /\ call[p].kind \in {"settle", "replay"}
    /\ pc[p] = "body" => guard[p] # None
    /\ pc[p] \in {"owner", "recover"} => call[p].kind \notin {"none", "reject"}
    /\ pc[p] = "work" => call[p].kind # "none"
    /\ pc[p] = "finish" => call[p].kind = "pending"
    /\ pc[p] = "enter" => call[p].kind = "hold"
    /\ pc[p] = "gate" => call[p].kind \in {"synchronize", "lookup", "pending", "exact"}
    /\ pc[p] = "ack" => call[p].kind = "reject"
    /\ call[p].kind \in {"reserve", "lookup", "pending", "exact"} => call[p].req \in Requests
    /\ call[p].kind \in {"hold", "settle"} =>
         call[p].op \in Ops /\ book.res[call[p].op] # None
    /\ call[p].kind = "settle" => call[p].settlement \in Settlements
    /\ call[p].kind = "reserve" => GateOpen /\ InGate(p)
    /\ call[p].kind = "reject" => IsLocal(rejection) /\ pc[p] \in {"work", "ack"}
    /\ pc[p] = "ack" => CapRejection \in book.snapshots
    /\ pc[p] = "enter" =>
         book.cell[call[p].op] = "SIDE_EFFECT_STARTED" /\ call[p].op \notin performed

CapInv ==
    /\ CapTypeOK /\ BookFits(book) /\ PendFits /\ GateFits /\ SharedFits
    /\ PerformedRecorded
    /\ \A p \in Procs : LocksFit(p) /\ CallFits(p)

-----------------------------------------------------------------------------
(* Records                                                                 *)

\* What Accepts demands, kind by kind.
LEMMA AcceptsByKind ==
    ASSUME NEW b, NEW d
    PROVE  /\ Accepts(b, d) => ContinuesUnit(b, d) /\ Frontier(b) \subseteq {b.head}
           /\ ContinuesUnit(b, d) /\ Frontier(b) \subseteq {b.head} =>
                /\ d.kind \in {"RESERVATION", "ADMISSION"} =>
                     (Accepts(b, d) <=> AcceptsReservation(b, d))
                /\ d.kind = "CELL" => (Accepts(b, d) <=> AcceptsCell(b, d))
                /\ d.kind = "EVIDENCE" => (Accepts(b, d) <=> AcceptsEvidence(b, d))
                /\ d.kind = "SETTLEMENT" => (Accepts(b, d) <=> AcceptsSettlement(b, d))
                /\ d.kind = "RECEIPT" => (Accepts(b, d) <=> AcceptsReceipt(b, d))
                /\ d.kind = "EVENT" => (Accepts(b, d) <=> AcceptsEvent(b, d))
                /\ d.kind = "SNAPSHOT" => (Accepts(b, d) <=> AcceptsSnapshot(b, d))
  BY DEF Accepts

\* The stages of the frontier.
LEMMA FrontierByStage ==
    ASSUME NEW b, NEW f
    PROVE  f \in Frontier(b) <=>
             \/ \E o \in Ops : f = <<"CELL", o>> /\ b.cell[o] # None /\ b.evidence[o] = None
             \/ \E o \in Ops : f = <<"EVIDENCE", o>> /\ b.evidence[o] # None /\ o \notin b.settled
             \/ \E o \in b.settled \ b.receipts : f = <<"SETTLEMENT", o>>
             \/ \E x \in b.receipts \ b.events : f = <<"RECEIPT", x>>
             \/ \E x \in b.events \ b.snapshots : f = <<"EVENT", x>>
  BY DEF Frontier

\* The unit of the head, stage by stage.
LEMMA UnitByStage ==
    ASSUME NEW b
    PROVE  UnitFits(b) <=>
             /\ \A o \in Ops : b.cell[o] # None /\ b.evidence[o] = None =>
                                 b.head = <<"CELL", o>>
             /\ \A o \in Ops : b.evidence[o] # None /\ o \notin b.settled =>
                                 b.head = <<"EVIDENCE", o>>
             /\ \A o \in b.settled \ b.receipts : b.head = <<"SETTLEMENT", o>>
             /\ \A x \in b.receipts \ b.events : b.head = <<"RECEIPT", x>>
             /\ \A x \in b.events \ b.snapshots : b.head = <<"EVENT", x>>
  <1>1. UnitFits(b) <=> \A f \in Frontier(b) : f = b.head
    BY DEF UnitFits
  <1> QED BY <1>1, FrontierByStage

\* What continues it, stage by stage.
LEMMA ContinuesByStage ==
    ASSUME NEW b, NEW d
    PROVE  ContinuesUnit(b, d) <=>
             /\ b.head[1] = "ADMISSION" => d.kind = "RECEIPT" /\ d.subject = CapRejection
             /\ \A o \in Ops : b.cell[o] # None /\ b.evidence[o] = None =>
                                 d.kind = "EVIDENCE" /\ d.subject = o
             /\ \A o \in Ops : b.evidence[o] # None /\ o \notin b.settled =>
                                 d.kind = "SETTLEMENT" /\ d.subject = o
             /\ \A o \in b.settled \ b.receipts : d.kind = "RECEIPT" /\ d.subject = o
             /\ \A x \in b.receipts \ b.events : d.kind = "EVENT" /\ d.subject = x
             /\ \A x \in b.events \ b.snapshots : d.kind = "SNAPSHOT" /\ d.subject = x
  <1>1. \A o : /\ Follower[<<"CELL", o>>[1]] = "EVIDENCE" /\ <<"CELL", o>>[2] = o
               /\ Follower[<<"EVIDENCE", o>>[1]] = "SETTLEMENT" /\ <<"EVIDENCE", o>>[2] = o
               /\ Follower[<<"SETTLEMENT", o>>[1]] = "RECEIPT" /\ <<"SETTLEMENT", o>>[2] = o
               /\ Follower[<<"RECEIPT", o>>[1]] = "EVENT" /\ <<"RECEIPT", o>>[2] = o
               /\ Follower[<<"EVENT", o>>[1]] = "SNAPSHOT" /\ <<"EVENT", o>>[2] = o
    BY DEF Follower
  <1> HIDE DEF Follower
  <1>2. (\A f \in Frontier(b) : d.kind = Follower[f[1]] /\ d.subject = f[2]) <=>
             /\ \A o \in Ops : b.cell[o] # None /\ b.evidence[o] = None =>
                                 d.kind = "EVIDENCE" /\ d.subject = o
             /\ \A o \in Ops : b.evidence[o] # None /\ o \notin b.settled =>
                                 d.kind = "SETTLEMENT" /\ d.subject = o
             /\ \A o \in b.settled \ b.receipts : d.kind = "RECEIPT" /\ d.subject = o
             /\ \A x \in b.receipts \ b.events : d.kind = "EVENT" /\ d.subject = x
             /\ \A x \in b.events \ b.snapshots : d.kind = "SNAPSHOT" /\ d.subject = x
    <2>1. ASSUME \A f \in Frontier(b) : d.kind = Follower[f[1]] /\ d.subject = f[2]
          PROVE  /\ \A o \in Ops : b.cell[o] # None /\ b.evidence[o] = None =>
                                      <<"CELL", o>> \in Frontier(b)
                 /\ \A o \in Ops : b.evidence[o] # None /\ o \notin b.settled =>
                                      <<"EVIDENCE", o>> \in Frontier(b)
                 /\ \A o \in b.settled \ b.receipts : <<"SETTLEMENT", o>> \in Frontier(b)
                 /\ \A x \in b.receipts \ b.events : <<"RECEIPT", x>> \in Frontier(b)
                 /\ \A x \in b.events \ b.snapshots : <<"EVENT", x>> \in Frontier(b)
      BY FrontierByStage
    <2>2. ASSUME /\ \A o \in Ops : b.cell[o] # None /\ b.evidence[o] = None =>
                                 d.kind = "EVIDENCE" /\ d.subject = o
                 /\ \A o \in Ops : b.evidence[o] # None /\ o \notin b.settled =>
                                 d.kind = "SETTLEMENT" /\ d.subject = o
                 /\ \A o \in b.settled \ b.receipts : d.kind = "RECEIPT" /\ d.subject = o
                 /\ \A x \in b.receipts \ b.events : d.kind = "EVENT" /\ d.subject = x
                 /\ \A x \in b.events \ b.snapshots : d.kind = "SNAPSHOT" /\ d.subject = x,
                 NEW f \in Frontier(b)
          PROVE  d.kind = Follower[f[1]] /\ d.subject = f[2]
      <3>1. \/ \E o \in Ops : f = <<"CELL", o>> /\ b.cell[o] # None /\ b.evidence[o] = None
            \/ \E o \in Ops : f = <<"EVIDENCE", o>> /\ b.evidence[o] # None /\ o \notin b.settled
            \/ \E o \in b.settled \ b.receipts : f = <<"SETTLEMENT", o>>
            \/ \E x \in b.receipts \ b.events : f = <<"RECEIPT", x>>
            \/ \E x \in b.events \ b.snapshots : f = <<"EVENT", x>>
        BY FrontierByStage
      <3> QED BY <1>1, <2>2, <3>1
    <2> QED BY <1>1, <2>1, <2>2
  <1> QED BY <1>2 DEF ContinuesUnit

\* What a record adds, kind by kind.
LEMMA AppliedReservation ==
    ASSUME NEW b \in Books, NEW d, d.kind = "RESERVATION", d.subject \in Ops,
           d.req \in Requests
    PROVE  Applied(b, d) = [b EXCEPT
             !.res = [b.res EXCEPT ![d.subject] = d.req],
             !.outstanding = [b.outstanding EXCEPT ![d.req.path] = @ + d.req.upper],
             !.head = <<"RESERVATION", d.subject>>, !.ok = b.ok /\ Accepts(b, d)]
  BY RequestsTyped DEF Applied, Added, Books

LEMMA AppliedAdmission ==
    ASSUME NEW b \in Books, NEW d, d.kind = "ADMISSION"
    PROVE  Applied(b, d) = [b EXCEPT !.admission = d.req,
             !.head = <<"ADMISSION", d.subject>>, !.ok = b.ok /\ Accepts(b, d)]
  BY DEF Applied, Added, Books

LEMMA AppliedCell ==
    ASSUME NEW b \in Books, NEW d, d.kind = "CELL"
    PROVE  Applied(b, d) = [b EXCEPT !.cell = [b.cell EXCEPT ![d.subject] = d.state],
             !.head = <<"CELL", d.subject>>, !.ok = b.ok /\ Accepts(b, d)]
  BY DEF Applied, Added, Books

LEMMA AppliedEvidence ==
    ASSUME NEW b \in Books, NEW d, d.kind = "EVIDENCE"
    PROVE  Applied(b, d) = [b EXCEPT
             !.evidence = [b.evidence EXCEPT ![d.subject] = d.settlement],
             !.overruns = b.overruns +
                 (IF d.settlement.basis = "OBSERVED_OVERRUN" THEN 1 ELSE 0),
             !.head = <<"EVIDENCE", d.subject>>, !.ok = b.ok /\ Accepts(b, d)]
  BY DEF Applied, Added, Books

LEMMA AppliedSettlement ==
    ASSUME NEW b \in Books, NEW d, d.kind = "SETTLEMENT"
    PROVE  Applied(b, d) = [b EXCEPT
             !.settled = b.settled \cup {d.subject},
             !.charged = [b.charged EXCEPT ![b.res[d.subject].path] = d.charged],
             !.outstanding = [b.outstanding EXCEPT ![b.res[d.subject].path] = d.outstanding],
             !.head = <<"SETTLEMENT", d.subject>>, !.ok = b.ok /\ Accepts(b, d)]
  BY DEF Applied, Added, Books

LEMMA AppliedUnit ==
    ASSUME NEW b \in Books, NEW d
    PROVE  /\ d.kind = "RECEIPT" =>
                Applied(b, d) = [b EXCEPT !.receipts = b.receipts \cup {d.subject},
                  !.head = <<"RECEIPT", d.subject>>, !.ok = b.ok /\ Accepts(b, d)]
           /\ d.kind = "EVENT" =>
                Applied(b, d) = [b EXCEPT !.events = b.events \cup {d.subject},
                  !.head = <<"EVENT", d.subject>>, !.ok = b.ok /\ Accepts(b, d)]
           /\ d.kind = "SNAPSHOT" =>
                Applied(b, d) = [b EXCEPT !.snapshots = b.snapshots \cup {d.subject},
                  !.head = <<"SNAPSHOT", d.subject>>, !.ok = b.ok /\ Accepts(b, d)]
  BY DEF Applied, Added, Books

\* The fields of a record, kind by kind.
LEMMA RecordFields ==
    ASSUME NEW d \in Records
    PROVE  /\ d.kind \in RecordKinds /\ d.subject \in Subjects
           /\ d.kind \in {"RESERVATION", "ADMISSION"} =>
                /\ d.subject \in Ops /\ d.req \in Requests /\ d.candidate \in Nat
                /\ d.charged \in Nat /\ d.outstanding \in Nat
           /\ d.kind = "CELL" => d.subject \in Ops /\ d.state \in Lifecycles
           /\ d.kind = "EVIDENCE" => d.subject \in Ops /\ d.settlement \in Settlements
           /\ d.kind = "SETTLEMENT" =>
                d.subject \in Ops /\ d.charged \in Nat /\ d.outstanding \in Int
  BY DEF Records, RecordKinds, Subjects

LEMMA RequestFields ==
    ASSUME NEW r \in Requests
    PROVE  r.op \in Ops /\ r.path \in Paths /\ r.upper \in Nat
  BY RequestsTyped

LEMMA SettlementFields ==
    ASSUME NEW s \in Settlements
    PROVE  s.basis \in Bases /\ s.value \in Nat /\ Lifecycle(s) \in Lifecycles
  BY SettlementsTyped DEF Lifecycle, Lifecycles

\* A book in which nothing is unfinished.
Idle(b) ==
    /\ \A o \in Ops : b.cell[o] # None => b.evidence[o] # None
    /\ \A o \in Ops : b.evidence[o] # None => o \in b.settled
    /\ b.settled \subseteq b.receipts /\ b.receipts \subseteq b.events
    /\ b.events \subseteq b.snapshots
LEMMA IdleIsEmptyFrontier ==
    ASSUME NEW b
    PROVE  Idle(b) <=> Frontier(b) = {}
  <1>1. ASSUME Idle(b) PROVE Frontier(b) = {}
    BY <1>1, FrontierByStage DEF Idle
  <1>2. ASSUME Frontier(b) = {} PROVE Idle(b)
    <2>1. \A f : f \notin Frontier(b)
      BY <1>2
    <2> QED BY <2>1, FrontierByStage DEF Idle
  <1> QED BY <1>1, <1>2

\* An operation that has no reservation has nothing else.
LEMMA UnreservedIsBlank ==
    ASSUME NEW b \in Books, ChainFits(b), NEW o \in Ops, b.res[o] = None
    PROVE  b.cell[o] = None /\ b.evidence[o] = None /\ o \notin b.settled
           /\ o \notin b.receipts
  <1>1. b.cell[o] = None
    BY DEF ChainFits
  <1>2. b.evidence[o] = None
    <2> SUFFICES ASSUME b.evidence[o] # None PROVE FALSE
      OBVIOUS
    <2>1. b.evidence[o] \in Settlements
      BY DEF Books
    <2> QED BY <1>1, <2>1, SettlementFields, NothingIsNothing DEF ChainFits
  <1> QED BY <1>2 DEF ChainFits

LEMMA CellPrecedesEvidence ==
    ASSUME NEW b \in Books, ChainFits(b), NEW o \in Ops, b.cell[o] = None
    PROVE  b.evidence[o] = None /\ o \notin b.settled /\ o \notin b.receipts
  <1>1. b.evidence[o] = None
    <2> SUFFICES ASSUME b.evidence[o] # None PROVE FALSE
      OBVIOUS
    <2>1. b.evidence[o] \in Settlements
      BY DEF Books
    <2> QED BY <2>1, SettlementFields, NothingIsNothing DEF ChainFits
  <1> QED BY <1>1 DEF ChainFits

\* What a record may do to a book: nothing is taken back.
Grows(b, c) ==
    /\ \A o \in Ops : /\ b.res[o] # None => c.res[o] = b.res[o]
                      /\ b.cell[o] # None => c.cell[o] = b.cell[o]
                      /\ b.evidence[o] # None => c.evidence[o] = b.evidence[o]
    /\ b.settled \subseteq c.settled /\ b.snapshots \subseteq c.snapshots

\* The terms of the totals are numbers.
LEMMA TermsWeigh ==
    ASSUME NEW b \in Books, ChainFits(b), NEW path
    PROVE  /\ Weighs(Uppers(b), Unsettled(b, path))
           /\ Weighs(Costs(b), SettledOn(b, path))
           /\ Unsettled(b, path) \subseteq Ops /\ SettledOn(b, path) \subseteq Ops
           /\ \A o \in SettledOn(b, path) : b.res[o] # None /\ b.evidence[o] # None
  <1>1. /\ Unsettled(b, path) \subseteq Ops /\ SettledOn(b, path) \subseteq Ops
    BY DEF Unsettled, SettledOn, Books
  <1>2. IsFiniteSet(Unsettled(b, path)) /\ IsFiniteSet(SettledOn(b, path))
    BY <1>1, OpsFinite, FS_Subset
  <1>3. ASSUME NEW o \in Unsettled(b, path) PROVE Uppers(b)[o] \in Nat
    <2>1. o \in Ops /\ b.res[o] \in Requests
      BY <1>1 DEF Unsettled, Books
    <2> QED BY <2>1, RequestFields DEF Uppers
  <1>4. ASSUME NEW o \in SettledOn(b, path)
        PROVE  b.res[o] # None /\ b.evidence[o] # None /\ Costs(b)[o] \in Nat
    <2>1. o \in Ops /\ o \in b.settled /\ b.evidence[o] \in Settlements
      BY <1>1 DEF SettledOn, Books, ChainFits
    <2>2. b.res[o] # None
      BY <2>1, UnreservedIsBlank
    <2>3. b.res[o] \in Requests
      BY <2>1, <2>2 DEF Books
    <2>4. Charge(b.evidence[o], b.res[o]) \in Nat
      BY <2>1, <2>3, RequestFields, SettlementFields DEF Charge
    <2>5. b.evidence[o] # None
      BY <2>1, NothingIsNothing
    <2> QED BY <2>1, <2>2, <2>4, <2>5 DEF Costs
  <1> QED BY <1>1, <1>2, <1>3, <1>4 DEF Weighs

\* The totals rest on the requests and on the settled operations alone.
LEMMA ChargedKept ==
    ASSUME NEW b \in Books, ChainFits(b), NEW c, NEW path \in Paths, ChargedFits(b, path),
           c.charged[path] = b.charged[path],
           SettledOn(c, path) = SettledOn(b, path),
           \A o \in SettledOn(b, path) : c.res[o] = b.res[o] /\ c.evidence[o] = b.evidence[o]
    PROVE  ChargedFits(c, path)
  <1>1. \A o \in SettledOn(b, path) : Costs(c)[o] = Costs(b)[o]
    BY TermsWeigh DEF Costs
  <1>2. CASE path \in MaxPaths
    BY <1>1, <1>2 DEF ChargedFits, IsPeak
  <1>3. CASE path \notin MaxPaths
    BY <1>1, <1>3, TermsWeigh, SumSame DEF ChargedFits
  <1> QED BY <1>2, <1>3

LEMMA OutstandingKept ==
    ASSUME NEW b \in Books, ChainFits(b), NEW c, NEW path \in Paths,
           OutstandingFits(b, path), c.outstanding[path] = b.outstanding[path],
           Unsettled(c, path) = Unsettled(b, path),
           \A o \in Unsettled(b, path) : c.res[o] = b.res[o]
    PROVE  OutstandingFits(c, path)
  <1>1. \A o \in Unsettled(b, path) : Uppers(c)[o] = Uppers(b)[o]
    BY TermsWeigh DEF Uppers
  <1> QED BY <1>1, TermsWeigh, SumSame DEF OutstandingFits

LEMMA TotalsKept ==
    ASSUME NEW b, BookFits(b), NEW c, c.res = b.res, c.settled = b.settled,
           c.outstanding = b.outstanding, c.charged = b.charged,
           \A o \in b.settled : c.evidence[o] = b.evidence[o]
    PROVE  TotalsFit(c)
  <1> SUFFICES ASSUME NEW path \in Paths
               PROVE  OutstandingFits(c, path) /\ ChargedFits(c, path)
    BY DEF TotalsFit
  <1>1. b \in Books /\ ChainFits(b) /\ OutstandingFits(b, path) /\ ChargedFits(b, path)
    BY DEF BookFits, TotalsFit
  <1>2. /\ Unsettled(c, path) = Unsettled(b, path)
        /\ SettledOn(c, path) = SettledOn(b, path) /\ SettledOn(b, path) \subseteq b.settled
    BY DEF Unsettled, SettledOn
  <1> QED BY <1>1, <1>2, OutstandingKept, ChargedKept

\* Publishing a reservation: it is added to the outstanding total of its path.
LEMMA ReservationFits ==
    ASSUME NEW b, NEW d, BookFits(b), Fitting(b, d), d.kind = "RESERVATION"
    PROVE  BookFits(Applied(b, d)) /\ Grows(b, Applied(b, d))
  <1> DEFINE x == d.subject  c == Applied(b, d)
  <1>1. /\ x \in Ops /\ d.req \in Requests /\ b \in Books /\ b.ok /\ Accepts(b, d)
        /\ d.req.op = x /\ d.req.path \in Paths /\ d.req.upper \in Nat
    BY RecordFields, RequestFields DEF Fitting, BookFits
  <1>2. /\ ContinuesUnit(b, d) /\ b.admission = None /\ b.res[x] = None
    BY <1>1, AcceptsByKind DEF AcceptsReservation
  <1>3. c = [b EXCEPT
             !.res = [b.res EXCEPT ![x] = d.req],
             !.outstanding = [b.outstanding EXCEPT ![d.req.path] = @ + d.req.upper],
             !.head = <<"RESERVATION", x>>, !.ok = b.ok /\ Accepts(b, d)]
    BY <1>1, AppliedReservation
  <1> HIDE DEF c
  <1>4. c \in Books /\ c.ok
    <2>1. /\ [b.res EXCEPT ![x] = d.req] \in [Ops -> Requests \cup {None}]
          /\ [b.outstanding EXCEPT ![d.req.path] = @ + d.req.upper] \in [Paths -> Nat]
      BY <1>1 DEF Books
    <2> QED BY <1>1, <1>3, <2>1 DEF Books, RecordKinds, Subjects
  <1>5. /\ c.cell = b.cell /\ c.evidence = b.evidence /\ c.settled = b.settled
        /\ c.receipts = b.receipts /\ c.events = b.events /\ c.snapshots = b.snapshots
        /\ c.admission = b.admission /\ c.overruns = b.overruns
        /\ c.res = [b.res EXCEPT ![x] = d.req]
        /\ c.outstanding = [b.outstanding EXCEPT ![d.req.path] = @ + d.req.upper]
        /\ c.charged = b.charged
    BY <1>1, <1>3 DEF Books
  <1>6. ChainFits(b) /\ b.cell[x] = None /\ b.evidence[x] = None /\ x \notin b.settled
    BY <1>1, <1>2, UnreservedIsBlank DEF BookFits
  <1>7. b.res \in [Ops -> Requests \cup {None}]
    BY <1>1 DEF Books
  <1>8. ChainFits(c)
    BY <1>1, <1>5, <1>6, <1>7 DEF ChainFits
  <1>9. UnitFits(c)
    BY <1>2, <1>5, ContinuesByStage, UnitByStage
  <1>10. AdmissionFits(c) /\ OverrunFits(c)
    BY <1>2, <1>5 DEF BookFits, AdmissionFits, OverrunFits
  <1>11. TotalsFit(c)
    <2> SUFFICES ASSUME NEW path \in Paths
                 PROVE  OutstandingFits(c, path) /\ ChargedFits(c, path)
      BY DEF TotalsFit
    <2>1. OutstandingFits(b, path) /\ ChargedFits(b, path)
      BY DEF BookFits, TotalsFit
    <2>2. /\ path = d.req.path => Unsettled(c, path) = Unsettled(b, path) \cup {x}
          /\ path # d.req.path => Unsettled(c, path) = Unsettled(b, path)
          /\ x \notin Unsettled(b, path) /\ x \notin SettledOn(b, path)
      BY <1>1, <1>2, <1>5, <1>6, <1>7, NothingIsNothing DEF Unsettled, SettledOn
    <2>3. b.settled \subseteq Ops /\ b.outstanding \in [Paths -> Nat]
      BY <1>1 DEF Books
    <2>4. \A o \in Ops : o # x => c.res[o] = b.res[o]
      BY <1>5, <1>7
    <2>5. ChargedFits(c, path)
      <3>1. SettledOn(c, path) = SettledOn(b, path)
        BY <1>5, <1>6, <2>3, <2>4 DEF SettledOn
      <3>2. \A o \in SettledOn(b, path) : c.res[o] = b.res[o] /\ c.evidence[o] = b.evidence[o]
        BY <1>1, <1>5, <1>6, <2>2, <2>4, TermsWeigh
      <3>3. c.charged[path] = b.charged[path]
        BY <1>5
      <3> QED BY <1>1, <1>6, <2>1, <3>1, <3>2, <3>3, ChargedKept
    <2>6. CASE path # d.req.path
      <3>1. c.outstanding[path] = b.outstanding[path]
        BY <1>5, <2>3, <2>6
      <3> QED BY <1>1, <1>6, <2>1, <2>2, <2>4, <2>5, <2>6, <3>1, TermsWeigh, OutstandingKept
    <2>7. CASE path = d.req.path
      <3>1. c.outstanding[path] = b.outstanding[path] + d.req.upper /\ c.res[x] = d.req
        BY <1>1, <1>5, <1>7, <2>3, <2>7
      <3>2. \A o \in Unsettled(b, path) : Uppers(c)[o] = Uppers(b)[o]
        BY <1>1, <1>6, <2>2, <2>4, TermsWeigh DEF Uppers
      <3>3. Weighs(Uppers(b), Unsettled(b, path))
        BY <1>1, <1>6, TermsWeigh
      <3>4. IsSum(b.outstanding[path], Uppers(c), Unsettled(b, path))
        BY <2>1, <3>2, <3>3, SumSame DEF OutstandingFits
      <3>5. Weighs(Uppers(c), Unsettled(b, path))
        BY <3>2, <3>3 DEF Weighs
      <3>6. Uppers(c)[x] = d.req.upper
        BY <1>1, <3>1 DEF Uppers
      <3>7. IsSum(b.outstanding[path] + Uppers(c)[x], Uppers(c), Unsettled(b, path) \cup {x})
        BY <1>1, <2>2, <3>4, <3>5, <3>6, SumAdd
      <3> QED BY <2>2, <2>5, <2>7, <3>1, <3>6, <3>7 DEF OutstandingFits
    <2> QED BY <2>5, <2>6, <2>7
  <1>12. Grows(b, c)
    BY <1>2, <1>5, <1>7 DEF Grows
  <1> QED BY <1>4, <1>8, <1>9, <1>10, <1>11, <1>12 DEF BookFits, c

LEMMA AdmissionRecordFits ==
    ASSUME NEW b, NEW d, BookFits(b), Fitting(b, d), d.kind = "ADMISSION"
    PROVE  BookFits(Applied(b, d)) /\ Grows(b, Applied(b, d))
  <1> DEFINE x == d.subject  c == Applied(b, d)
  <1>1. x \in Ops /\ d.req \in Requests /\ b \in Books /\ b.ok /\ Accepts(b, d)
    BY RecordFields DEF Fitting, BookFits
  <1>2. ContinuesUnit(b, d) /\ b.admission = None
    BY <1>1, AcceptsByKind DEF AcceptsReservation
  <1>3. c = [b EXCEPT !.admission = d.req, !.head = <<"ADMISSION", x>>,
                      !.ok = b.ok /\ Accepts(b, d)]
    BY <1>1, AppliedAdmission
  <1> HIDE DEF c
  <1>4. c \in Books /\ c.ok
    BY <1>1, <1>3 DEF Books, RecordKinds, Subjects
  <1>5. /\ c.cell = b.cell /\ c.evidence = b.evidence /\ c.settled = b.settled
        /\ c.receipts = b.receipts /\ c.events = b.events /\ c.snapshots = b.snapshots
        /\ c.admission = d.req /\ c.overruns = b.overruns /\ c.res = b.res
        /\ c.outstanding = b.outstanding /\ c.charged = b.charged
        /\ c.head = <<"ADMISSION", x>>
    BY <1>1, <1>3 DEF Books
  <1>6. ChainFits(c)
    BY <1>5 DEF BookFits, ChainFits
  <1>7. UnitFits(c)
    BY <1>2, <1>5, ContinuesByStage, UnitByStage
  <1>8. AdmissionFits(c) /\ OverrunFits(c)
    BY <1>1, <1>5, NothingIsNothing DEF BookFits, AdmissionFits, OverrunFits
  <1>9. TotalsFit(c)
    BY <1>5, TotalsKept
  <1>10. Grows(b, c)
    BY <1>5 DEF Grows
  <1> QED BY <1>4, <1>6, <1>7, <1>8, <1>9, <1>10 DEF BookFits, c

LEMMA CellRecordFits ==
    ASSUME NEW b, NEW d, BookFits(b), Fitting(b, d), d.kind = "CELL"
    PROVE  BookFits(Applied(b, d)) /\ Grows(b, Applied(b, d))
  <1> DEFINE x == d.subject  c == Applied(b, d)
  <1>1. /\ x \in Ops /\ d.state \in Lifecycles /\ b \in Books /\ b.ok /\ Accepts(b, d)
        /\ d.state = "KNOWN_NOT_STARTED" => KnownZero \in Settlements
    BY RecordFields DEF Fitting, BookFits
  <1>2. ContinuesUnit(b, d) /\ b.res[x] # None /\ b.cell[x] = None
    BY <1>1, AcceptsByKind DEF AcceptsCell
  <1>3. c = [b EXCEPT !.cell = [b.cell EXCEPT ![x] = d.state], !.head = <<"CELL", x>>,
                      !.ok = b.ok /\ Accepts(b, d)]
    BY <1>1, AppliedCell
  <1> HIDE DEF c
  <1>4. c \in Books /\ c.ok
    <2>1. [b.cell EXCEPT ![x] = d.state] \in [Ops -> Lifecycles \cup {None}]
      BY <1>1 DEF Books
    <2> QED BY <1>1, <1>3, <2>1 DEF Books, RecordKinds, Subjects
  <1>5. /\ c.cell = [b.cell EXCEPT ![x] = d.state]
        /\ c.evidence = b.evidence /\ c.settled = b.settled
        /\ c.receipts = b.receipts /\ c.events = b.events /\ c.snapshots = b.snapshots
        /\ c.admission = b.admission /\ c.overruns = b.overruns /\ c.res = b.res
        /\ c.outstanding = b.outstanding /\ c.charged = b.charged
        /\ c.head = <<"CELL", x>>
    BY <1>1, <1>3 DEF Books
  <1>6. b.cell \in [Ops -> Lifecycles \cup {None}] /\ b.evidence[x] = None
    BY <1>1, <1>2, CellPrecedesEvidence DEF Books, BookFits
  <1>7. ChainFits(c)
    BY <1>1, <1>2, <1>5, <1>6 DEF BookFits, ChainFits
  <1>8. UnitFits(c)
    BY <1>1, <1>2, <1>5, <1>6, ContinuesByStage, UnitByStage
  <1>9. AdmissionFits(c) /\ OverrunFits(c)
    BY <1>1, <1>2, <1>5, AcceptsByKind, ContinuesByStage
       DEF BookFits, AdmissionFits, OverrunFits
  <1>10. TotalsFit(c)
    BY <1>5, TotalsKept
  <1>11. Grows(b, c)
    BY <1>2, <1>5, <1>6 DEF Grows
  <1> QED BY <1>4, <1>7, <1>8, <1>9, <1>10, <1>11 DEF BookFits, c

LEMMA EvidenceRecordFits ==
    ASSUME NEW b, NEW d, BookFits(b), Fitting(b, d), d.kind = "EVIDENCE"
    PROVE  BookFits(Applied(b, d)) /\ Grows(b, Applied(b, d))
  <1> DEFINE x == d.subject  c == Applied(b, d)
             more == IF d.settlement.basis = "OBSERVED_OVERRUN" THEN 1 ELSE 0
  <1>1. /\ x \in Ops /\ d.settlement \in Settlements /\ b \in Books /\ b.ok
        /\ Accepts(b, d)
    BY RecordFields DEF Fitting, BookFits
  <1>2. /\ ContinuesUnit(b, d) /\ b.cell[x] = Lifecycle(d.settlement)
        /\ b.evidence[x] = None /\ ValidSettlement(d.settlement, b.res[x])
    BY <1>1, AcceptsByKind DEF AcceptsEvidence
  <1>3. c = [b EXCEPT
             !.evidence = [b.evidence EXCEPT ![x] = d.settlement],
             !.overruns = b.overruns + more,
             !.head = <<"EVIDENCE", x>>, !.ok = b.ok /\ Accepts(b, d)]
    BY <1>1, AppliedEvidence
  <1> HIDE DEF c
  <1>4. more \in {0, 1} /\ (d.settlement.basis = "OBSERVED_OVERRUN" => more = 1)
    OBVIOUS
  <1> HIDE DEF more
  <1>5. c \in Books /\ c.ok
    <2>1. [b.evidence EXCEPT ![x] = d.settlement] \in [Ops -> Settlements \cup {None}]
      BY <1>1 DEF Books
    <2>2. b.overruns + more \in Nat
      BY <1>1, <1>4 DEF Books
    <2> QED BY <1>1, <1>3, <2>1, <2>2 DEF Books, RecordKinds, Subjects
  <1>6. /\ c.cell = b.cell /\ c.evidence = [b.evidence EXCEPT ![x] = d.settlement]
        /\ c.settled = b.settled
        /\ c.receipts = b.receipts /\ c.events = b.events /\ c.snapshots = b.snapshots
        /\ c.admission = b.admission /\ c.overruns = b.overruns + more /\ c.res = b.res
        /\ c.outstanding = b.outstanding /\ c.charged = b.charged
        /\ c.head = <<"EVIDENCE", x>>
    BY <1>1, <1>3 DEF Books
  <1>7. /\ b.evidence \in [Ops -> Settlements \cup {None}] /\ x \notin b.settled
        /\ b.overruns \in Nat /\ x \notin b.receipts
    BY <1>1, <1>2 DEF Books, BookFits, ChainFits
  <1>8. ChainFits(c)
    BY <1>1, <1>2, <1>6, <1>7 DEF BookFits, ChainFits
  <1>9. UnitFits(c)
    BY <1>1, <1>2, <1>6, <1>7, ContinuesByStage, UnitByStage, NothingIsNothing
  <1>10. AdmissionFits(c)
    BY <1>1, <1>2, <1>6, ContinuesByStage DEF BookFits, AdmissionFits
  <1>11. OverrunFits(c)
    BY <1>1, <1>4, <1>6, <1>7 DEF BookFits, OverrunFits
  <1>12. TotalsFit(c)
    BY <1>1, <1>6, <1>7, TotalsKept DEF Books
  <1>13. Grows(b, c)
    BY <1>2, <1>6, <1>7 DEF Grows
  <1> QED BY <1>5, <1>8, <1>9, <1>10, <1>11, <1>12, <1>13 DEF BookFits, c

\* Publishing a settlement: its reservation is no longer outstanding, its
\* charge is reduced into the path's.
LEMMA SettlementRecordFits ==
    ASSUME NEW b, NEW d, BookFits(b), Fitting(b, d), d.kind = "SETTLEMENT"
    PROVE  BookFits(Applied(b, d)) /\ Grows(b, Applied(b, d))
  <1> DEFINE x == d.subject  c == Applied(b, d)  r == b.res[x]
  <1>1. /\ x \in Ops /\ d.charged \in Nat /\ d.outstanding \in Int
        /\ b \in Books /\ b.ok /\ Accepts(b, d)
    BY RecordFields DEF Fitting, BookFits
  <1>2. /\ ContinuesUnit(b, d) /\ b.evidence[x] # None /\ x \notin b.settled
        /\ d = Settlement(b, x) /\ d.outstanding >= 0
    BY <1>1, AcceptsByKind DEF AcceptsSettlement
  <1>3. /\ r \in Requests /\ r.path \in Paths /\ r.upper \in Nat /\ r # None
    <2>1. b.res[x] # None
      BY <1>1, <1>2, UnreservedIsBlank DEF BookFits
    <2> QED BY <1>1, <2>1, RequestFields DEF Books
  <1>4. d.outstanding \in Nat /\ d.outstanding = b.outstanding[r.path] - r.upper
    BY <1>1, <1>2 DEF Settlement
  <1>5. c = [b EXCEPT
             !.settled = b.settled \cup {x},
             !.charged = [b.charged EXCEPT ![r.path] = d.charged],
             !.outstanding = [b.outstanding EXCEPT ![r.path] = d.outstanding],
             !.head = <<"SETTLEMENT", x>>, !.ok = b.ok /\ Accepts(b, d)]
    BY <1>1, AppliedSettlement
  <1> HIDE DEF c
  <1>6. c \in Books /\ c.ok
    <2>1. /\ [b.charged EXCEPT ![r.path] = d.charged] \in [Paths -> Nat]
          /\ [b.outstanding EXCEPT ![r.path] = d.outstanding] \in [Paths -> Nat]
          /\ b.settled \cup {x} \in SUBSET Ops
      BY <1>1, <1>3, <1>4 DEF Books
    <2> QED BY <1>1, <1>5, <2>1 DEF Books, RecordKinds, Subjects
  <1>7. /\ c.cell = b.cell /\ c.evidence = b.evidence /\ c.settled = b.settled \cup {x}
        /\ c.receipts = b.receipts /\ c.events = b.events /\ c.snapshots = b.snapshots
        /\ c.admission = b.admission /\ c.overruns = b.overruns /\ c.res = b.res
        /\ c.outstanding = [b.outstanding EXCEPT ![r.path] = d.outstanding]
        /\ c.charged = [b.charged EXCEPT ![r.path] = d.charged]
        /\ c.head = <<"SETTLEMENT", x>>
    BY <1>1, <1>5 DEF Books
  <1>8. ChainFits(c)
    BY <1>1, <1>2, <1>7 DEF BookFits, ChainFits
  <1>9. UnitFits(c)
    BY <1>1, <1>2, <1>7, ContinuesByStage, UnitByStage
  <1>10. AdmissionFits(c) /\ OverrunFits(c)
    BY <1>1, <1>2, <1>7, ContinuesByStage DEF BookFits, AdmissionFits, OverrunFits
  <1>11. TotalsFit(c)
    <2> SUFFICES ASSUME NEW path \in Paths
                 PROVE  OutstandingFits(c, path) /\ ChargedFits(c, path)
      BY DEF TotalsFit
    <2>1. /\ OutstandingFits(b, path) /\ ChargedFits(b, path) /\ ChainFits(b) /\ ChainFits(c)
          /\ b.outstanding \in [Paths -> Nat] /\ b.charged \in [Paths -> Nat]
      BY <1>1, <1>8 DEF BookFits, TotalsFit, Books
    <2>2. /\ Unsettled(c, path) = Unsettled(b, path) \ {x}
          /\ path = r.path <=> x \in Unsettled(b, path)
          /\ SettledOn(c, path) = SettledOn(b, path) \cup (IF path = r.path THEN {x} ELSE {})
          /\ x \notin SettledOn(b, path)
      BY <1>1, <1>2, <1>3, <1>7 DEF Unsettled, SettledOn
    <2>3. Uppers(c) = Uppers(b) /\ Costs(c) = Costs(b)
      BY <1>7 DEF Uppers, Costs
    <2>4. CASE path # r.path
      <3>1. c.outstanding[path] = b.outstanding[path] /\ c.charged[path] = b.charged[path]
        BY <1>7, <2>1, <2>4
      <3>2. Unsettled(c, path) = Unsettled(b, path) /\ SettledOn(c, path) = SettledOn(b, path)
        BY <2>2, <2>4
      <3> QED BY <2>1, <2>3, <3>1, <3>2 DEF OutstandingFits, ChargedFits
    <2>5. CASE path = r.path
      <3> DEFINE w == Costs(b)  S == SettledOn(b, path)  cost == Charge(b.evidence[x], r)
      <3>1. /\ c.outstanding[path] = b.outstanding[path] - r.upper
            /\ c.charged[path] = Reduce(path, b.charged[path], cost)
        <4>1. /\ d.outstanding = b.outstanding[path] - r.upper
              /\ d.charged = Reduce(path, b.charged[path], cost)
          BY <1>2, <2>5 DEF Settlement
        <4>2. c.outstanding[path] = d.outstanding /\ c.charged[path] = d.charged
          BY <1>7, <2>1, <2>5
        <4> QED BY <4>1, <4>2
      <3>2. w[x] = cost /\ Uppers(b)[x] = r.upper
        BY <1>1 DEF Costs, Uppers
      <3>3. Weighs(w, S) /\ Weighs(Uppers(b), Unsettled(b, path)) /\ w[x] \in Nat
        <4>1. x \in SettledOn(c, path)
          BY <2>2, <2>5
        <4>2. Weighs(Costs(c), SettledOn(c, path))
          BY <1>6, <2>1, TermsWeigh
        <4> QED BY <1>1, <2>1, <2>3, <4>1, <4>2, TermsWeigh DEF Weighs
      <3>4. OutstandingFits(c, path)
        <4>1. IsSum(b.outstanding[path] - Uppers(b)[x], Uppers(b), Unsettled(b, path) \ {x})
          BY <2>1, <2>2, <2>5, <3>3, SumRemove DEF OutstandingFits
        <4> QED BY <2>2, <2>3, <3>1, <3>2, <4>1 DEF OutstandingFits
      <3> HIDE DEF w, S, cost
      <3>5. ChargedFits(c, path)
        <4>1. Costs(c) = w /\ SettledOn(c, path) = S \cup {x} /\ x \notin S
          BY <2>2, <2>3, <2>5 DEF w, S
        <4>2. CASE path \in MaxPaths
          <5>1. IsPeak(b.charged[path], w, S) /\ b.charged[path] \in Nat
            BY <2>1, <4>2 DEF ChargedFits, w, S
          <5>2. c.charged[path] = Max({b.charged[path], w[x]})
            BY <3>1, <3>2, <4>2 DEF Reduce
          <5>3. /\ c.charged[path] \in {b.charged[path], w[x]}
                /\ c.charged[path] >= b.charged[path] /\ c.charged[path] >= w[x]
            BY <3>3, <5>1, <5>2, MaxOfTwo
          <5>4. \A o \in S : w[o] \in Nat
            BY <3>3 DEF Weighs
          <5>5. IsPeak(c.charged[path], w, S \cup {x})
            BY <3>3, <5>1, <5>3, <5>4 DEF IsPeak
          <5> QED BY <4>1, <4>2, <5>5 DEF ChargedFits
        <4>3. CASE path \notin MaxPaths
          <5>1. IsSum(b.charged[path], w, S)
            BY <2>1, <4>3 DEF ChargedFits, w, S
          <5>2. IsSum(b.charged[path] + w[x], w, S \cup {x})
            BY <3>3, <4>1, <5>1, SumAdd
          <5> QED BY <3>1, <3>2, <4>1, <4>3, <5>2 DEF ChargedFits, Reduce
        <4> QED BY <4>2, <4>3
      <3> QED BY <3>4, <3>5
    <2> QED BY <2>4, <2>5
  <1>12. Grows(b, c)
    BY <1>7 DEF Grows
  <1> QED BY <1>6, <1>8, <1>9, <1>10, <1>11, <1>12 DEF BookFits, c

\* Publishing the rest of a unit.
LEMMA UnitRecordFits ==
    ASSUME NEW b, NEW d, BookFits(b), Fitting(b, d),
           d.kind \in {"RECEIPT", "EVENT", "SNAPSHOT"}
    PROVE  BookFits(Applied(b, d)) /\ Grows(b, Applied(b, d))
  <1> DEFINE x == d.subject  c == Applied(b, d)
  <1>1. /\ x \in Subjects /\ b \in Books /\ b.ok /\ Accepts(b, d) /\ ContinuesUnit(b, d)
        /\ x = CapRejection => b.admission # None
    BY RecordFields, AcceptsByKind DEF Fitting, BookFits
  <1>2. /\ d.kind = "RECEIPT" => x \notin b.receipts /\ (x # CapRejection => x \in b.settled)
        /\ d.kind = "EVENT" => x \in b.receipts \ b.events
        /\ d.kind = "SNAPSHOT" => x \in b.events \ b.snapshots
    BY <1>1, AcceptsByKind DEF AcceptsReceipt, AcceptsEvent, AcceptsSnapshot
  <1>3. /\ d.kind = "RECEIPT" =>
             c = [b EXCEPT !.receipts = b.receipts \cup {x},
                           !.head = <<"RECEIPT", x>>, !.ok = b.ok /\ Accepts(b, d)]
        /\ d.kind = "EVENT" =>
             c = [b EXCEPT !.events = b.events \cup {x},
                           !.head = <<"EVENT", x>>, !.ok = b.ok /\ Accepts(b, d)]
        /\ d.kind = "SNAPSHOT" =>
             c = [b EXCEPT !.snapshots = b.snapshots \cup {x},
                           !.head = <<"SNAPSHOT", x>>, !.ok = b.ok /\ Accepts(b, d)]
    BY <1>1, AppliedUnit
  <1> HIDE DEF c
  <1>4. /\ c \in Books /\ c.ok
        /\ c.cell = b.cell /\ c.evidence = b.evidence /\ c.settled = b.settled
        /\ c.admission = b.admission /\ c.overruns = b.overruns /\ c.res = b.res
        /\ c.outstanding = b.outstanding /\ c.charged = b.charged
        /\ c.head = <<d.kind, x>>
        /\ c.receipts = IF d.kind = "RECEIPT" THEN b.receipts \cup {x} ELSE b.receipts
        /\ c.events = IF d.kind = "EVENT" THEN b.events \cup {x} ELSE b.events
        /\ c.snapshots = IF d.kind = "SNAPSHOT" THEN b.snapshots \cup {x} ELSE b.snapshots
    <2>1. CASE d.kind = "RECEIPT"
      <3>1. c = [b EXCEPT !.receipts = b.receipts \cup {x},
                          !.head = <<"RECEIPT", x>>, !.ok = b.ok /\ Accepts(b, d)]
        BY <1>3, <2>1
      <3>2. b.receipts \cup {x} \in SUBSET Subjects /\ <<"RECEIPT", x>> \in
              (RecordKinds \cup {"GENESIS"}) \X (Subjects \cup {None})
        BY <1>1 DEF Books, RecordKinds
      <3>3. c \in Books /\ c.ok
        BY <1>1, <3>1, <3>2 DEF Books
      <3>4. /\ c.cell = b.cell /\ c.evidence = b.evidence /\ c.settled = b.settled
            /\ c.admission = b.admission /\ c.overruns = b.overruns /\ c.res = b.res
            /\ c.outstanding = b.outstanding /\ c.charged = b.charged
            /\ c.head = <<"RECEIPT", x>>
            /\ c.receipts = b.receipts \cup {x}
            /\ c.events = b.events
            /\ c.snapshots = b.snapshots
        BY <1>1, <3>1 DEF Books
      <3> QED BY <2>1, <3>3, <3>4
    <2>2. CASE d.kind = "EVENT"
      <3>1. c = [b EXCEPT !.events = b.events \cup {x},
                          !.head = <<"EVENT", x>>, !.ok = b.ok /\ Accepts(b, d)]
        BY <1>3, <2>2
      <3>2. b.events \cup {x} \in SUBSET Subjects /\ <<"EVENT", x>> \in
              (RecordKinds \cup {"GENESIS"}) \X (Subjects \cup {None})
        BY <1>1 DEF Books, RecordKinds
      <3>3. c \in Books /\ c.ok
        BY <1>1, <3>1, <3>2 DEF Books
      <3>4. /\ c.cell = b.cell /\ c.evidence = b.evidence /\ c.settled = b.settled
            /\ c.admission = b.admission /\ c.overruns = b.overruns /\ c.res = b.res
            /\ c.outstanding = b.outstanding /\ c.charged = b.charged
            /\ c.head = <<"EVENT", x>>
            /\ c.receipts = b.receipts
            /\ c.events = b.events \cup {x}
            /\ c.snapshots = b.snapshots
        BY <1>1, <3>1 DEF Books
      <3> QED BY <2>2, <3>3, <3>4
    <2>3. CASE d.kind = "SNAPSHOT"
      <3>1. c = [b EXCEPT !.snapshots = b.snapshots \cup {x},
                          !.head = <<"SNAPSHOT", x>>, !.ok = b.ok /\ Accepts(b, d)]
        BY <1>3, <2>3
      <3>2. b.snapshots \cup {x} \in SUBSET Subjects /\ <<"SNAPSHOT", x>> \in
              (RecordKinds \cup {"GENESIS"}) \X (Subjects \cup {None})
        BY <1>1 DEF Books, RecordKinds
      <3>3. c \in Books /\ c.ok
        BY <1>1, <3>1, <3>2 DEF Books
      <3>4. /\ c.cell = b.cell /\ c.evidence = b.evidence /\ c.settled = b.settled
            /\ c.admission = b.admission /\ c.overruns = b.overruns /\ c.res = b.res
            /\ c.outstanding = b.outstanding /\ c.charged = b.charged
            /\ c.head = <<"SNAPSHOT", x>>
            /\ c.receipts = b.receipts
            /\ c.events = b.events
            /\ c.snapshots = b.snapshots \cup {x}
        BY <1>1, <3>1 DEF Books
      <3> QED BY <2>3, <3>3, <3>4
    <2> QED BY <2>1, <2>2, <2>3
  <1>5. /\ c.cell = b.cell /\ c.evidence = b.evidence /\ c.settled = b.settled
        /\ c.admission = b.admission /\ c.overruns = b.overruns /\ c.res = b.res
        /\ c.outstanding = b.outstanding /\ c.charged = b.charged
        /\ c.head = <<d.kind, x>>
        /\ c.receipts = IF d.kind = "RECEIPT" THEN b.receipts \cup {x} ELSE b.receipts
        /\ c.events = IF d.kind = "EVENT" THEN b.events \cup {x} ELSE b.events
        /\ c.snapshots = IF d.kind = "SNAPSHOT" THEN b.snapshots \cup {x} ELSE b.snapshots
    BY <1>4
  <1>6. ChainFits(c)
    BY <1>2, <1>5, RejectionIsNoOperation DEF BookFits, ChainFits
  <1>7. UnitFits(c)
    BY <1>1, <1>2, <1>5, ContinuesByStage, UnitByStage
  <1>8. AdmissionFits(c) /\ OverrunFits(c)
    BY <1>1, <1>2, <1>5, ContinuesByStage DEF BookFits, AdmissionFits, OverrunFits
  <1>9. TotalsFit(c)
    BY <1>5, TotalsKept
  <1>10. Grows(b, c)
    BY <1>5 DEF Grows
  <1> QED BY <1>4, <1>6, <1>7, <1>8, <1>9, <1>10 DEF BookFits, c

\* Whatever the record: the book it makes fits and takes nothing back.
LEMMA PublishedFits ==
    ASSUME NEW b, NEW d, BookFits(b), Fitting(b, d)
    PROVE  BookFits(Applied(b, d)) /\ Grows(b, Applied(b, d))
  <1>1. d.kind \in RecordKinds
    BY RecordFields DEF Fitting
  <1> QED BY <1>1, ReservationFits, AdmissionRecordFits, CellRecordFits, EvidenceRecordFits,
             SettlementRecordFits, UnitRecordFits DEF RecordKinds

-----------------------------------------------------------------------------
(* Steps of the journal                                                    *)

\* A record that may be announced in the present state of book and gate.
Due(d) ==
    /\ Fitting(book, d)
    /\ d.kind = "RESERVATION" => ~IsLocal(rejection)
    /\ d.kind = "ADMISSION" => IsLocal(rejection) /\ d.req = rejection.req
    /\ IsLocal(rejection) /\ book.admission = None => d = Reservation(book, rejection.req)

Announces(d) == pend = None /\ pend' = d /\ Due(d) /\ UNCHANGED <<book, wal>>
Publishes == pend # None /\ book' = Applied(book, pend) /\ pend' = None /\ wal' = wal
JournalStep == UNCHANGED journal \/ Publishes \/ \E d \in Records : Announces(d)

JournalFits ==
    /\ BookFits(book) /\ wal \in BOOLEAN /\ PendFits /\ GateFits /\ PerformedRecorded

LEMMA AdmissionOfApplied ==
    ASSUME NEW b \in Books, NEW d \in Records
    PROVE  Applied(b, d).admission = IF d.kind = "ADMISSION" THEN d.req ELSE b.admission
  <1> DEFINE c == Applied(b, d)
  <1>1. d.kind \in RecordKinds
    BY RecordFields
  <1>2. CASE d.kind = "RESERVATION"
    <2>1. c = [b EXCEPT !.res = [b.res EXCEPT ![d.subject] = d.req],
               !.outstanding = [b.outstanding EXCEPT ![d.req.path] = @ + d.req.upper],
               !.head = <<"RESERVATION", d.subject>>, !.ok = b.ok /\ Accepts(b, d)]
      BY <1>2, RecordFields, AppliedReservation
    <2> HIDE DEF c
    <2>2. c.admission = b.admission
      BY <2>1 DEF Books
    <2> QED BY <1>2, <2>2 DEF c
  <1>3. CASE d.kind = "ADMISSION"
    <2>1. c = [b EXCEPT !.admission = d.req,
               !.head = <<"ADMISSION", d.subject>>, !.ok = b.ok /\ Accepts(b, d)]
      BY <1>3, AppliedAdmission
    <2> HIDE DEF c
    <2>2. c.admission = d.req
      BY <2>1 DEF Books
    <2> QED BY <1>3, <2>2 DEF c
  <1>4. CASE d.kind = "CELL"
    <2>1. c = [b EXCEPT !.cell = [b.cell EXCEPT ![d.subject] = d.state],
               !.head = <<"CELL", d.subject>>, !.ok = b.ok /\ Accepts(b, d)]
      BY <1>4, AppliedCell
    <2> HIDE DEF c
    <2>2. c.admission = b.admission
      BY <2>1 DEF Books
    <2> QED BY <1>4, <2>2 DEF c
  <1>5. CASE d.kind = "EVIDENCE"
    <2>1. c = [b EXCEPT !.evidence = [b.evidence EXCEPT ![d.subject] = d.settlement],
               !.overruns = b.overruns +
                 (IF d.settlement.basis = "OBSERVED_OVERRUN" THEN 1 ELSE 0),
               !.head = <<"EVIDENCE", d.subject>>, !.ok = b.ok /\ Accepts(b, d)]
      BY <1>5, AppliedEvidence
    <2> HIDE DEF c
    <2>2. c.admission = b.admission
      BY <2>1 DEF Books
    <2> QED BY <1>5, <2>2 DEF c
  <1>6. CASE d.kind = "SETTLEMENT"
    <2>1. c = [b EXCEPT !.settled = b.settled \cup {d.subject},
               !.charged = [b.charged EXCEPT ![b.res[d.subject].path] = d.charged],
               !.outstanding = [b.outstanding EXCEPT
                                  ![b.res[d.subject].path] = d.outstanding],
               !.head = <<"SETTLEMENT", d.subject>>, !.ok = b.ok /\ Accepts(b, d)]
      BY <1>6, AppliedSettlement
    <2> HIDE DEF c
    <2>2. c.admission = b.admission
      BY <2>1 DEF Books
    <2> QED BY <1>6, <2>2 DEF c
  <1>7. CASE d.kind = "RECEIPT"
    <2>1. c = [b EXCEPT !.receipts = b.receipts \cup {d.subject},
               !.head = <<"RECEIPT", d.subject>>, !.ok = b.ok /\ Accepts(b, d)]
      BY <1>7, AppliedUnit
    <2> HIDE DEF c
    <2>2. c.admission = b.admission
      BY <2>1 DEF Books
    <2> QED BY <1>7, <2>2 DEF c
  <1>8. CASE d.kind = "EVENT"
    <2>1. c = [b EXCEPT !.events = b.events \cup {d.subject},
               !.head = <<"EVENT", d.subject>>, !.ok = b.ok /\ Accepts(b, d)]
      BY <1>8, AppliedUnit
    <2> HIDE DEF c
    <2>2. c.admission = b.admission
      BY <2>1 DEF Books
    <2> QED BY <1>8, <2>2 DEF c
  <1>9. CASE d.kind = "SNAPSHOT"
    <2>1. c = [b EXCEPT !.snapshots = b.snapshots \cup {d.subject},
               !.head = <<"SNAPSHOT", d.subject>>, !.ok = b.ok /\ Accepts(b, d)]
      BY <1>9, AppliedUnit
    <2> HIDE DEF c
    <2>2. c.admission = b.admission
      BY <2>1 DEF Books
    <2> QED BY <1>9, <2>2 DEF c
  <1> QED BY <1>1, <1>2, <1>3, <1>4, <1>5, <1>6, <1>7, <1>8, <1>9 DEF RecordKinds

LEMMA GrowsReflexive ==
    ASSUME NEW b PROVE Grows(b, b)
  BY DEF Grows

\* The reservation of the rejected request is its admission.
LEMMA FrozenIsAdmission ==
    ASSUME CapInv, IsLocal(rejection), book.admission = None
    PROVE  /\ Reservation(book, rejection.req).kind = "ADMISSION"
           /\ Reservation(book, rejection.req).req = rejection.req
           /\ rejection.req \in Requests
  BY DEF CapInv, CapTypeOK, GateTypeOK, GateFits, PrestateFrozen, Reservation, IsLocal,
         Locals

LEMMA JournalStepFits ==
    ASSUME CapInv, JournalStep, UNCHANGED <<gate, performed>>
    PROVE  JournalFits' /\ Grows(book, book')
  <1>1. CASE UNCHANGED journal
    <2>1. book' = book /\ pend' = pend /\ wal' = wal /\ rejection' = rejection
          /\ receipt' = receipt /\ performed' = performed
      BY <1>1 DEF journal, gate
    <2> QED BY <2>1, GrowsReflexive DEF CapInv, CapTypeOK, JournalFits, PendFits, GateFits,
         PerformedRecorded, GateOpen
  <1>2. CASE Publishes
    <2>1. /\ pend # None /\ book' = Applied(book, pend) /\ pend' = None /\ wal' = wal
          /\ rejection' = rejection /\ receipt' = receipt /\ performed' = performed
      BY <1>2 DEF Publishes, gate
    <2>2. BookFits(book) /\ Fitting(book, pend) /\ pend \in Records /\ book \in Books
      BY <2>1 DEF CapInv, PendFits, Fitting, BookFits
    <2>3. BookFits(book') /\ Grows(book, book')
      BY <2>1, <2>2, PublishedFits
    <2>4. PendFits'
      BY <2>1 DEF PendFits
    <2>5. book'.admission = IF pend.kind = "ADMISSION" THEN pend.req ELSE book.admission
      BY <2>1, <2>2, AdmissionOfApplied
    <2>6. IsLocal(rejection) /\ book.admission = None => pend.kind = "ADMISSION"
      BY <2>1, FrozenIsAdmission DEF CapInv, GateFits
    <2>7. pend.kind = "ADMISSION" => pend.req # None /\ IsLocal(rejection)
                                     /\ pend.req = rejection.req
      BY <2>1, <2>2, RecordFields, NothingIsNothing DEF CapInv, PendFits
    <2>8. book.snapshots \subseteq book'.snapshots
      BY <2>3 DEF Grows
    <2>9. GateFits'
      BY <2>1, <2>5, <2>6, <2>7, <2>8 DEF CapInv, GateFits, GateOpen, IsLocal
    <2>10. PerformedRecorded'
      BY <2>1, <2>3, NothingIsNothing
         DEF CapInv, CapTypeOK, PerformedRecorded, Grows, Lifecycles
    <2> QED BY <2>1, <2>3, <2>4, <2>9, <2>10 DEF JournalFits, CapInv, CapTypeOK
  <1>3. CASE \E d \in Records : Announces(d)
    <2>1. PICK d \in Records : Announces(d)
      BY <1>3
    <2>2. book' = book /\ pend' = d /\ wal' = wal /\ rejection' = rejection /\ Due(d)
          /\ receipt' = receipt /\ performed' = performed
      BY <2>1 DEF Announces, gate
    <2>3. PendFits'
      BY <2>2 DEF PendFits, Due, IsLocal
    <2>4. GateFits'
      BY <2>2 DEF CapInv, GateFits, Due, IsLocal, GateOpen
    <2> QED BY <2>2, <2>3, <2>4, GrowsReflexive
            DEF CapInv, CapTypeOK, JournalFits, PerformedRecorded
  <1> QED BY <1>1, <1>2, <1>3 DEF JournalStep

-----------------------------------------------------------------------------
(* Steps of a process                                                      *)

\* What a step of p leaves to the others.
Apart(p) ==
    \A q \in Procs \ {p} :
        /\ pc'[q] = pc[q] /\ call'[q] = call[q] /\ guard'[q] = guard[q]
        /\ ownerLock' = q <=> ownerLock = q
        /\ gateEx' = q <=> gateEx = q
        /\ q \in gateSh' <=> q \in gateSh

LEMMA OthersFit ==
    ASSUME CapInv, NEW p \in Procs, Apart(p), Grows(book, book'),
           rejection' = rejection \/ (GateOpen /\ gateEx \in {None, p}),
           performed' = performed \/ ownerLock = p,
           NEW q \in Procs, q # p
    PROVE  LocksFit(q)' /\ CallFits(q)'
  <1>1. /\ pc'[q] = pc[q] /\ call'[q] = call[q] /\ guard'[q] = guard[q]
        /\ ownerLock' = q <=> ownerLock = q
        /\ gateEx' = q <=> gateEx = q
        /\ q \in gateSh' <=> q \in gateSh
    BY DEF Apart
  <1>2. LocksFit(q) /\ CallFits(q)
    BY DEF CapInv
  <1>3. LocksFit(q)'
    BY <1>1, <1>2 DEF LocksFit, InGate
  <1>4. IsLocal(rejection) => rejection' = rejection
    BY DEF IsLocal, GateOpen
  <1>5. call[q].kind = "reserve" => rejection' = rejection
    BY <1>2, NothingIsNothing DEF LocksFit, CallFits, InGate
  <1>6. pc[q] = "enter" => performed' = performed
    BY <1>2 DEF LocksFit
  <1>7. \A o \in Ops : /\ book.res[o] # None => book'.res[o] # None
                       /\ book.cell[o] = "SIDE_EFFECT_STARTED" =>
                            book'.cell[o] = "SIDE_EFFECT_STARTED"
    BY NothingIsNothing DEF Grows, Lifecycles
  <1>8. book.snapshots \subseteq book'.snapshots
    BY DEF Grows
  <1>9. CallFits(q)'
    BY <1>1, <1>2, <1>4, <1>5, <1>6, <1>7, <1>8 DEF CallFits, InGate, GateOpen
  <1> QED BY <1>3, <1>9

\* A step that fits the journal, the gate and its own process fits.
LEMMA OwnStepFits ==
    ASSUME CapInv, NEW p \in Procs, Apart(p), Grows(book, book'), JournalFits',
           rejection' = rejection \/ (GateOpen /\ gateEx \in {None, p}),
           performed' = performed \/ ownerLock = p, performed' \in SUBSET Ops,
           GateTypeOK', ProcTypeOK', SharedFits', LocksFit(p)', CallFits(p)'
    PROVE  CapInv'
  <1>1. \A q \in Procs : LocksFit(q)' /\ CallFits(q)'
    BY OthersFit
  <1>2. book' \in Books /\ pend' \in Records \cup {None}
    BY DEF JournalFits, BookFits, PendFits, Fitting
  <1> QED BY <1>1, <1>2 DEF CapInv, CapTypeOK, JournalFits

\* The process invariants as they are used for one process.
LEMMA ProcFacts ==
    ASSUME CapInv, NEW p \in Procs
    PROVE  /\ LocksFit(p) /\ CallFits(p) /\ SharedFits /\ ProcTypeOK /\ GateTypeOK
           /\ pc[p] \in Labels /\ call[p] \in Calls /\ guard[p] \in Ops \cup {None}
           /\ None \notin Procs /\ p # None
           /\ performed \in SUBSET Ops /\ book \in Books
  BY NothingIsNothing DEF CapInv, CapTypeOK, ProcTypeOK

\* A call that ends, with or without the pending record published.
LEMMA EndsFits ==
    ASSUME CapInv, NEW p \in Procs, pc[p] \in {"recover", "work", "ack", "finish"},
           Ends(p), JournalStep, UNCHANGED <<gate, guard, performed>>
    PROVE  CapInv'
  <1>1. JournalFits' /\ Grows(book, book')
    BY JournalStepFits
  <1>2. /\ ownerLock' = (IF ownerLock = p THEN None ELSE ownerLock)
        /\ gateEx' = (IF gateEx = p THEN None ELSE gateEx)
        /\ gateSh' = IF guard[p] = None THEN gateSh \ {p} ELSE gateSh
        /\ call' = [call EXCEPT ![p] = NoCall]
        /\ pc' = [pc EXCEPT ![p] = IF guard[p] = None THEN "idle" ELSE "body"]
        /\ guard' = guard /\ rejection' = rejection /\ performed' = performed
        /\ receipt' = receipt
    BY DEF Ends, Releases, Freed, Goto, gate
  <1>3. NoCall \in Calls /\ NoCall.kind = "none"
    BY DEF NoCall, Calls, Kinds
  <1>4. ProcTypeOK' /\ GateTypeOK'
    BY <1>2, <1>3, ProcFacts DEF ProcTypeOK, GateTypeOK, Labels
  <1>5. /\ pc'[p] = (IF guard[p] = None THEN "idle" ELSE "body") /\ call'[p] = NoCall
        /\ \A q \in Procs : q # p => pc'[q] = pc[q] /\ call'[q] = call[q]
    BY <1>2, ProcFacts DEF ProcTypeOK
  <1>6. Apart(p)
    BY <1>2, <1>5, ProcFacts DEF Apart
  <1>7. SharedFits'
    BY <1>2, ProcFacts DEF SharedFits, GateOpen
  <1>8. LocksFit(p)'
    BY <1>2, <1>3, <1>5, ProcFacts DEF LocksFit, InGate
  <1>9. CallFits(p)'
    BY <1>2, <1>3, <1>5, ProcFacts DEF CallFits, InGate
  <1> QED BY <1>1, <1>2, <1>4, <1>6, <1>7, <1>8, <1>9, OwnStepFits, ProcFacts

\* A step that keeps locks, calls and guards and moves only the label of p.
LEMMA MovesFits ==
    ASSUME CapInv, NEW p \in Procs, NEW next \in Labels, pc' = [pc EXCEPT ![p] = next],
           JournalStep, UNCHANGED <<gate, locks, call, guard, performed>>,
           CallFits(p)', InGate(p), InGate(p)',
           pc[p] \in {"recover", "work", "finish", "enter"},
           next \in {"recover", "work", "finish", "enter"}
    PROVE  CapInv'
  <1>1. JournalFits' /\ Grows(book, book')
    BY JournalStepFits
  <1>2. /\ ownerLock' = ownerLock /\ gateEx' = gateEx /\ gateSh' = gateSh /\ call' = call
        /\ guard' = guard /\ rejection' = rejection /\ performed' = performed
        /\ receipt' = receipt
    BY DEF locks, gate
  <1>3. ProcTypeOK' /\ GateTypeOK' /\ SharedFits'
    BY <1>2, ProcFacts DEF ProcTypeOK, GateTypeOK, SharedFits, GateOpen
  <1>4. pc'[p] = next /\ \A q \in Procs : q # p => pc'[q] = pc[q]
    BY ProcFacts DEF ProcTypeOK
  <1>5. Apart(p)
    BY <1>2, <1>4 DEF Apart
  <1>6. LocksFit(p)'
    BY <1>2, <1>4, ProcFacts DEF LocksFit, InGate
  <1> QED BY <1>1, <1>2, <1>3, <1>5, <1>6, OwnStepFits, ProcFacts

\* Announcing a record keeps the label.
LEMMA AnnouncesFits ==
    ASSUME CapInv, NEW p \in Procs, pc[p] = "work", NEW d \in Records, Announces(d),
           UNCHANGED <<gate, locks, pc, call, guard, performed>>
    PROVE  CapInv'
  <1>1. pc' = [pc EXCEPT ![p] = "work"] /\ JournalStep
    BY ProcFacts DEF ProcTypeOK, JournalStep
  <1>2. /\ book' = book /\ call' = call /\ guard' = guard /\ rejection' = rejection
        /\ performed' = performed /\ pc' = pc
    BY DEF Announces, gate
  <1>3. CallFits(p)' /\ InGate(p)'
    BY <1>2, ProcFacts DEF CallFits, InGate, GateOpen
  <1> QED BY <1>1, <1>3, MovesFits DEF InGate, Labels

\* Appending a record that is due: it is announced, published or refused.
LEMMA AppendsFits ==
    ASSUME CapInv, NEW p \in Procs, pc[p] = "work", NEW d \in Records, NEW next,
           Appends(p, d, next), UNCHANGED <<gate, guard, performed>>,
           pend = None /\ ContinuesUnit(book, d) => Due(d),
           next \in {"work", "finish", "enter"},
           next = "finish" => call[p].kind = "pending",
           next = "work" => call[p].kind # "none",
           next = "enter" => call[p].kind = "hold" /\ d = Cell(call[p].op, "SIDE_EFFECT_STARTED")
    PROVE  CapInv'
  <1>1. CASE /\ pend = None /\ ContinuesUnit(book, d)
             /\ pend' = d /\ UNCHANGED <<book, wal, locks, pc, call>>
    <2>1. Announces(d)
      BY <1>1 DEF Announces
    <2> QED BY <1>1, <2>1, AnnouncesFits
  <1>2. CASE /\ pend = d /\ ContinuesUnit(book, d)
             /\ book' = Applied(book, d) /\ pend' = None /\ Goto(p, next)
             /\ UNCHANGED <<wal, locks, call>>
    <2>1. Publishes
      BY <1>2, NothingIsNothing DEF Publishes
    <2>2. JournalStep
      BY <2>1 DEF JournalStep
    <2>3. Grows(book, book')
      BY <2>2, JournalStepFits
    <2>4. pc' = [pc EXCEPT ![p] = next] /\ pc'[p] = next /\ next \in Labels
      BY <1>2, ProcFacts DEF Goto, ProcTypeOK, Labels
    <2>5. /\ call' = call /\ guard' = guard /\ rejection' = rejection
          /\ performed' = performed
      BY <1>2 DEF gate
    <2>6. InGate(p)' /\ InGate(p)
      BY <2>4 DEF InGate
    <2>7. \A o \in Ops : book.res[o] # None => book'.res[o] # None
      BY <2>3 DEF Grows
    <2>8. next = "enter" =>
            /\ book'.cell[call[p].op] = "SIDE_EFFECT_STARTED"
            /\ call[p].op \notin performed
      <3> SUFFICES ASSUME next = "enter" PROVE /\ book'.cell[call[p].op] = "SIDE_EFFECT_STARTED"
                                               /\ call[p].op \notin performed
        OBVIOUS
      <3>1. call[p].op \in Ops /\ d.kind = "CELL" /\ d.subject = call[p].op
            /\ d.state = "SIDE_EFFECT_STARTED"
        BY ProcFacts DEF CallFits, Cell
      <3>2. Accepts(book, d) /\ book \in Books
        BY <1>2, <2>1 DEF Publishes, CapInv, CapTypeOK, PendFits, Fitting
      <3>3. book.cell[d.subject] = None
        BY <3>1, <3>2, AcceptsByKind DEF AcceptsCell
      <3>4. call[p].op \notin performed
        BY <3>1, <3>3, NothingIsNothing DEF CapInv, PerformedRecorded, Lifecycles
      <3>5. book'.cell = [book.cell EXCEPT ![d.subject] = d.state]
        <4> DEFINE c == Applied(book, d)
        <4>1. c = [book EXCEPT !.cell = [book.cell EXCEPT ![d.subject] = d.state],
                     !.head = <<"CELL", d.subject>>, !.ok = book.ok /\ Accepts(book, d)]
          BY <3>1, <3>2, AppliedCell
        <4> HIDE DEF c
        <4>2. c.cell = [book.cell EXCEPT ![d.subject] = d.state]
          BY <3>2, <4>1 DEF Books
        <4> QED BY <1>2, <4>2 DEF c
      <3> QED BY <3>1, <3>2, <3>4, <3>5 DEF Books
    <2>9. CallFits(p)'
      BY <2>4, <2>5, <2>6, <2>7, <2>8, ProcFacts DEF CallFits, InGate, GateOpen
    <2> QED BY <1>2, <2>2, <2>4, <2>6, <2>9, MovesFits
  <1>3. CASE (pend \notin {None, d} \/ ~ContinuesUnit(book, d)) /\ Refuses(p)
    BY <1>3, EndsFits DEF Refuses, JournalStep
  <1> QED BY <1>1, <1>2, <1>3 DEF Appends

-----------------------------------------------------------------------------
(* The actions                                                             *)

\* A step that leaves journal and gate alone.
LEMMA QuietFits ==
    ASSUME CapInv, NEW p \in Procs, UNCHANGED <<journal, gate, performed>>, Apart(p),
           ProcTypeOK', SharedFits', LocksFit(p)', CallFits(p)'
    PROVE  CapInv'
  <1>1. JournalFits' /\ Grows(book, book')
    BY JournalStepFits DEF JournalStep
  <1>2. rejection' = rejection /\ receipt' = receipt /\ performed' = performed
    BY DEF gate
  <1> QED BY <1>1, <1>2, OwnStepFits, ProcFacts DEF GateTypeOK

\* What a new call is.
LEMMA CallIsCall ==
    ASSUME NEW kind \in Kinds, NEW r \in Requests \cup {None}, NEW o \in Ops \cup {None},
           NEW s \in Settlements \cup {None}
    PROVE  Call(kind, r, o, s) \in Calls
  BY DEF Call, Calls

LEMMA AdmissionGateFits ==
    ASSUME CapInv, NEW p \in Procs, NEW r \in Requests, AdmissionGate(p, r)
    PROVE  CapInv'
  <1>1. /\ pc[p] = "idle" /\ gateEx = None /\ gateSh = {}
        /\ UNCHANGED <<journal, gate, performed>>
        /\ gateSh' = gateSh /\ ownerLock' = ownerLock /\ guard' = guard /\ book' = book
        /\ rejection' = rejection
    BY DEF AdmissionGate, GateFree, journal, gate
  <1>2. /\ Call("reserve", r, None, None) \in Calls
        /\ Call("synchronize", r, None, None) \in Calls
    BY CallIsCall DEF Kinds
  <1>3. CASE /\ GateOpen /\ gateEx' = p
             /\ Starts(p, Call("reserve", r, None, None), "owner")
    <2>1. /\ call' = [call EXCEPT ![p] = Call("reserve", r, None, None)]
          /\ pc' = [pc EXCEPT ![p] = "owner"]
      BY <1>3 DEF Starts, Goto
    <2>2. /\ pc'[p] = "owner" /\ call'[p] = Call("reserve", r, None, None)
          /\ \A q \in Procs : q # p => pc'[q] = pc[q] /\ call'[q] = call[q]
      BY <2>1, ProcFacts DEF ProcTypeOK
    <2>3. ProcTypeOK'
      BY <1>1, <1>2, <1>3, <2>1, ProcFacts DEF ProcTypeOK, Labels
    <2>4. Apart(p) /\ SharedFits'
      BY <1>1, <1>3, <2>2, NothingIsNothing DEF Apart, SharedFits
    <2>5. guard[p] = None
      BY <1>1, ProcFacts DEF CallFits
    <2>6. LocksFit(p)' /\ CallFits(p)'
      BY <1>1, <1>3, <2>2, <2>5, ProcFacts DEF LocksFit, CallFits, InGate, Call, GateOpen
    <2> QED BY <1>1, <2>3, <2>4, <2>6, QuietFits
  <1>4. CASE /\ ~GateOpen
             /\ Starts(p, Call("synchronize", r, None, None), "gate") /\ UNCHANGED gateEx
    <2>1. /\ call' = [call EXCEPT ![p] = Call("synchronize", r, None, None)]
          /\ pc' = [pc EXCEPT ![p] = "gate"]
      BY <1>4 DEF Starts, Goto
    <2>2. /\ pc'[p] = "gate" /\ call'[p] = Call("synchronize", r, None, None)
          /\ \A q \in Procs : q # p => pc'[q] = pc[q] /\ call'[q] = call[q]
      BY <2>1, ProcFacts DEF ProcTypeOK
    <2>3. ProcTypeOK'
      BY <1>1, <1>2, <1>4, <2>1, ProcFacts DEF ProcTypeOK, Labels
    <2>4. Apart(p) /\ SharedFits'
      BY <1>1, <1>4, <2>2 DEF Apart, SharedFits
    <2>5. guard[p] = None
      BY <1>1, ProcFacts DEF CallFits
    <2>6. LocksFit(p)' /\ CallFits(p)'
      BY <1>1, <1>4, <2>2, <2>5, ProcFacts DEF LocksFit, CallFits, InGate, Call
    <2> QED BY <1>1, <2>3, <2>4, <2>6, QuietFits
  <1> QED BY <1>3, <1>4 DEF AdmissionGate

LEMMA SideEffectGateFits ==
    ASSUME CapInv, NEW p \in Procs, NEW o \in Ops, SideEffectGate(p, o)
    PROVE  CapInv'
  <1> DEFINE c == Call("hold", None, o, None)
  <1>1. /\ pc[p] = "idle" /\ gateEx = None /\ GateOpen /\ book.res[o] # None
        /\ UNCHANGED <<journal, gate, performed>>
        /\ gateSh' = gateSh \cup {p} /\ ownerLock' = ownerLock /\ guard' = guard
        /\ book' = book /\ rejection' = rejection /\ gateEx' = gateEx
    BY DEF SideEffectGate, journal, gate
  <1>2. c \in Calls /\ c.kind = "hold" /\ c.op = o
    BY CallIsCall DEF Kinds, Call
  <1>3. call' = [call EXCEPT ![p] = c] /\ pc' = [pc EXCEPT ![p] = "owner"]
    BY DEF SideEffectGate, Starts, Goto
  <1> HIDE DEF c
  <1>4. /\ pc'[p] = "owner" /\ call'[p] = c
        /\ \A q \in Procs : q # p => pc'[q] = pc[q] /\ call'[q] = call[q]
    BY <1>3, ProcFacts DEF ProcTypeOK
  <1>5. ProcTypeOK'
    BY <1>1, <1>2, <1>3, ProcFacts DEF ProcTypeOK, Labels
  <1>6. Apart(p) /\ SharedFits'
    BY <1>1, <1>4 DEF Apart, SharedFits, GateOpen
  <1>7. guard[p] = None
    BY <1>1, ProcFacts DEF CallFits
  <1>8. LocksFit(p)' /\ CallFits(p)'
    BY <1>1, <1>2, <1>4, <1>7, ProcFacts DEF LocksFit, CallFits, InGate
  <1> QED BY <1>1, <1>5, <1>6, <1>8, QuietFits

LEMMA JoinGateFits ==
    ASSUME CapInv, NEW p \in Procs, NEW c \in JoinedCalls, JoinGate(p, c)
    PROVE  CapInv'
  <1>1. /\ pc[p] = "idle" /\ gateEx = None /\ gateSh = {}
        /\ UNCHANGED <<journal, gate, performed>>
        /\ gateSh' = gateSh /\ ownerLock' = ownerLock /\ guard' = guard
        /\ book' = book /\ rejection' = rejection /\ gateEx' = p
    BY DEF JoinGate, ReplayGate, GateFree, journal, gate
  <1>2. /\ c \in Calls /\ c.kind \in {"settle", "synchronize", "replay"}
        /\ c.kind = "settle" => c.op \in Ops /\ c.settlement \in Settlements
        /\ c.op # None => book.res[c.op] # None
    BY DEF JoinGate, JoinedCalls, Calls, Kinds
  <1>3. call' = [call EXCEPT ![p] = c] /\ pc' = [pc EXCEPT ![p] = "owner"]
    BY DEF JoinGate, Starts, Goto
  <1>4. /\ pc'[p] = "owner" /\ call'[p] = c
        /\ \A q \in Procs : q # p => pc'[q] = pc[q] /\ call'[q] = call[q]
    BY <1>3, ProcFacts DEF ProcTypeOK
  <1>5. ProcTypeOK'
    BY <1>1, <1>2, <1>3, ProcFacts DEF ProcTypeOK, Labels
  <1>6. Apart(p) /\ SharedFits'
    BY <1>1, <1>4, NothingIsNothing DEF Apart, SharedFits
  <1>7. guard[p] = None
    BY <1>1, ProcFacts DEF CallFits
  <1>8. LocksFit(p)' /\ CallFits(p)'
    BY <1>1, <1>2, <1>4, <1>7, ProcFacts, NothingIsNothing DEF LocksFit, CallFits, InGate
  <1> QED BY <1>1, <1>5, <1>6, <1>8, QuietFits

LEMMA NextStageFits ==
    ASSUME CapInv, NEW p \in Procs, NextStage(p)
    PROVE  CapInv'
  <1>1. /\ pc[p] = "gate" /\ gateEx = None /\ gateSh = {}
        /\ UNCHANGED <<journal, gate, performed>>
        /\ gateSh' = gateSh /\ ownerLock' = ownerLock /\ guard' = guard /\ call' = call
        /\ book' = book /\ rejection' = rejection /\ gateEx' = p
        /\ pc' = [pc EXCEPT ![p] = "owner"]
    BY DEF NextStage, ReplayGate, GateFree, journal, gate, Goto
  <1>2. pc'[p] = "owner" /\ \A q \in Procs : q # p => pc'[q] = pc[q]
    BY <1>1, ProcFacts DEF ProcTypeOK
  <1>3. ProcTypeOK'
    BY <1>1, ProcFacts DEF ProcTypeOK, Labels
  <1>4. Apart(p) /\ SharedFits'
    BY <1>1, <1>2, NothingIsNothing DEF Apart, SharedFits
  <1>5. guard[p] = None
    BY <1>1, ProcFacts DEF CallFits
  <1>6. LocksFit(p)' /\ CallFits(p)'
    BY <1>1, <1>2, <1>5, ProcFacts DEF LocksFit, CallFits, InGate
  <1> QED BY <1>1, <1>3, <1>4, <1>6, QuietFits

LEMMA GuardedCallFits ==
    ASSUME CapInv, NEW p \in Procs, NEW c \in JoinedCalls, GuardedCall(p, c)
    PROVE  CapInv'
  <1>1. /\ pc[p] = "body" /\ UNCHANGED <<journal, gate, performed>>
        /\ gateSh' = gateSh /\ ownerLock' = ownerLock /\ guard' = guard
        /\ book' = book /\ rejection' = rejection /\ gateEx' = gateEx
    BY DEF GuardedCall, journal, gate, locks
  <1>2. /\ c \in Calls /\ c.kind \in {"settle", "replay"}
        /\ c.kind = "settle" => c.op \in Ops /\ c.settlement \in Settlements
        /\ c.op # None => book.res[c.op] # None
    BY DEF GuardedCall, JoinedCalls, Calls, Kinds
  <1>3. call' = [call EXCEPT ![p] = c] /\ pc' = [pc EXCEPT ![p] = "owner"]
    BY DEF GuardedCall, Starts, Goto
  <1>4. /\ pc'[p] = "owner" /\ call'[p] = c
        /\ \A q \in Procs : q # p => pc'[q] = pc[q] /\ call'[q] = call[q]
    BY <1>3, ProcFacts DEF ProcTypeOK
  <1>5. ProcTypeOK'
    BY <1>1, <1>2, <1>3, ProcFacts DEF ProcTypeOK, Labels
  <1>6. Apart(p) /\ SharedFits'
    BY <1>1, <1>4, ProcFacts DEF Apart, SharedFits, GateOpen
  <1>7. guard[p] # None
    BY <1>1, ProcFacts DEF CallFits
  <1>8. LocksFit(p)' /\ CallFits(p)'
    BY <1>1, <1>2, <1>4, <1>7, ProcFacts, NothingIsNothing DEF LocksFit, CallFits, InGate
  <1> QED BY <1>1, <1>5, <1>6, <1>8, QuietFits

LEMMA AcquireOwnerFits ==
    ASSUME CapInv, NEW p \in Procs, AcquireOwner(p)
    PROVE  CapInv'
  <1>1. /\ pc[p] = "owner" /\ ownerLock = None /\ ownerLock' = p
        /\ UNCHANGED <<journal, gate, performed>>
        /\ gateSh' = gateSh /\ guard' = guard /\ call' = call
        /\ book' = book /\ rejection' = rejection /\ gateEx' = gateEx
        /\ pc' = [pc EXCEPT ![p] = "recover"]
    BY DEF AcquireOwner, journal, gate, Goto
  <1>2. pc'[p] = "recover" /\ \A q \in Procs : q # p => pc'[q] = pc[q]
    BY <1>1, ProcFacts DEF ProcTypeOK
  <1>3. ProcTypeOK'
    BY <1>1, ProcFacts DEF ProcTypeOK, Labels
  <1>4. Apart(p) /\ SharedFits'
    BY <1>1, <1>2, ProcFacts, NothingIsNothing DEF Apart, SharedFits, GateOpen
  <1>5. LocksFit(p)' /\ CallFits(p)'
    BY <1>1, <1>2, ProcFacts DEF LocksFit, CallFits, InGate, GateOpen
  <1> QED BY <1>1, <1>3, <1>4, <1>5, QuietFits

\* The records of a reservation, of a rejection and of a settlement.
LEMMA ReservationIsRecord ==
    ASSUME NEW b \in Books, NEW r \in Requests
    PROVE  /\ Reservation(b, r) \in Records
           /\ Reservation(b, r).req = r /\ Reservation(b, r).subject = r.op
           /\ Reservation(b, r).kind =
                IF Candidate(b, r) > Cap[r.path] THEN "ADMISSION" ELSE "RESERVATION"
           /\ Candidate(b, r) \in Nat
  <1>1. /\ r.op \in Ops /\ r.path \in Paths /\ r.upper \in Nat
        /\ b.charged[r.path] \in Nat /\ b.outstanding[r.path] \in Nat
    BY RequestFields DEF Books
  <1>2. Candidate(b, r) \in Nat
    BY <1>1, MaxOfTwo DEF Candidate
  <1> HIDE DEF Candidate
  <1> QED BY <1>1, <1>2 DEF Reservation, Records

LEMMA UnitIsRecord ==
    ASSUME NEW b \in Books, NEW x \in Subjects
    PROVE  /\ Receipt(b, x) \in Records /\ Event(x) \in Records /\ Snapshot(b, x) \in Records
           /\ Receipt(b, x).kind = "RECEIPT" /\ Receipt(b, x).subject = x
           /\ Event(x).kind = "EVENT" /\ Event(x).subject = x
           /\ Snapshot(b, x).kind = "SNAPSHOT" /\ Snapshot(b, x).subject = x
  <1>1. Cardinality(b.settled) \in Nat
    BY OpsFinite, FS_Subset, FS_CardinalityType DEF Books
  <1>2. b.charged \in [Paths -> Nat] /\ b.outstanding \in [Paths -> Nat]
    BY DEF Books
  <1> QED BY <1>1, <1>2 DEF Receipt, Event, Snapshot, Records

LEMMA OperationIsRecord ==
    ASSUME NEW b \in Books, NEW o \in Ops, NEW s \in Settlements, NEW state \in Lifecycles
    PROVE  /\ Cell(o, state) \in Records /\ Evidence(o, s) \in Records
           /\ Cell(o, state).kind = "CELL" /\ Cell(o, state).subject = o
           /\ Cell(o, state).state = state
           /\ Evidence(o, s).kind = "EVIDENCE" /\ Evidence(o, s).subject = o
           /\ Evidence(o, s).settlement = s
  BY DEF Cell, Evidence, Records

LEMMA SettlementIsRecord ==
    ASSUME NEW b \in Books, ChainFits(b), NEW o \in Ops, b.evidence[o] # None
    PROVE  /\ Settlement(b, o) \in Records
           /\ Settlement(b, o).kind = "SETTLEMENT" /\ Settlement(b, o).subject = o
           /\ Settlement(b, o).outstanding = b.outstanding[b.res[o].path] - b.res[o].upper
           /\ b.res[o] \in Requests
  <1>1. b.res[o] # None
    BY UnreservedIsBlank
  <1>2. /\ b.res[o] \in Requests /\ b.evidence[o] \in Settlements
        /\ b.res[o].path \in Paths /\ b.res[o].upper \in Nat
        /\ b.charged[b.res[o].path] \in Nat /\ b.outstanding[b.res[o].path] \in Nat
    BY <1>1, RequestFields DEF Books
  <1> DEFINE v == Charge(b.evidence[o], b.res[o])
             m == b.charged[b.res[o].path]
             c == Reduce(b.res[o].path, m, v)
  <1>3. v \in Nat /\ m \in Nat
    BY <1>2, SettlementFields DEF Charge
  <1> HIDE DEF v, m
  <1>4. c \in Nat
    <2>1. Max({m, v}) \in {m, v} /\ m + v \in Nat
      BY <1>3, MaxOfTwo
    <2>2. c = Max({m, v}) \/ c = m + v
      BY DEF Reduce
    <2> QED BY <1>3, <2>1, <2>2
  <1>5. Settlement(b, o) = [kind |-> "SETTLEMENT", subject |-> o, charged |-> c,
           outstanding |-> b.outstanding[b.res[o].path] - b.res[o].upper]
    BY DEF Settlement, v, m
  <1> HIDE DEF c
  <1> QED BY <1>2, <1>4, <1>5 DEF Records

\* An unsettled reservation is part of the outstanding total.
LEMMA OutstandingCovers ==
    ASSUME NEW b, BookFits(b), NEW o \in Ops, b.res[o] \in Requests, o \notin b.settled
    PROVE  b.outstanding[b.res[o].path] - b.res[o].upper \in Nat
  <1> DEFINE path == b.res[o].path
  <1>1. path \in Paths /\ b \in Books /\ ChainFits(b)
    BY RequestFields DEF BookFits
  <1>2. o \in Unsettled(b, path) /\ Uppers(b)[o] = b.res[o].upper
    BY NothingIsNothing DEF Unsettled, Uppers
  <1>3. IsSum(b.outstanding[path], Uppers(b), Unsettled(b, path))
    BY <1>1 DEF BookFits, TotalsFit, OutstandingFits
  <1>4. Weighs(Uppers(b), Unsettled(b, path))
    BY <1>1, TermsWeigh
  <1> HIDE DEF path
  <1>5. b.outstanding[path] - Uppers(b)[o] \in Nat
    BY <1>2, <1>3, <1>4, SumRemove
  <1> QED BY <1>2, <1>5 DEF path

\* A local rejection that has no admission is awaiting it.
LEMMA AwaitingAdmission ==
    ASSUME CapInv, IsLocal(rejection), book.admission = None
    PROVE  JoinStatus(book) = "AWAITING_ADMISSION" /\ Idle(book) /\ CapRejection \notin book.receipts
  <1>1. PrestateFrozen(book, rejection) /\ receipt = None /\ OwnerOpen(book)
    BY DEF CapInv, GateFits, BookFits, AdmissionFits, OwnerOpen
  <1>2. ~GateOpen /\ rejection # External
    BY DEF IsLocal, GateOpen
  <1>3. LocalStatus(book) = "AWAITING_ADMISSION"
    BY <1>1, FrozenIsAdmission, NothingIsNothing DEF LocalStatus
  <1>5. JoinStatus(book) = "AWAITING_ADMISSION"
    BY <1>2, <1>3 DEF JoinStatus
  <1>4. Idle(book)
    BY <1>1, IdleIsEmptyFrontier DEF PrestateFrozen
  <1> QED BY <1>1, <1>4, <1>5 DEF OwnerOpen

\* While no rejection lacks its admission, what the replay takes is due.
LEMMA FittingIsDue ==
    ASSUME CapInv, NEW d, Fitting(book, d), ~(IsLocal(rejection) /\ book.admission = None),
           d.kind \notin {"RESERVATION", "ADMISSION"}
    PROVE  Due(d)
  BY DEF Due

LEMMA ReservationDue ==
    ASSUME CapInv, GateOpen, NEW r \in Requests, book.res[r.op] = None,
           ~NotAdmissible(book, r), Reservation(book, r).kind = "RESERVATION",
           ContinuesUnit(book, Reservation(book, r))
    PROVE  Due(Reservation(book, r))
  <1> DEFINE d == Reservation(book, r)
  <1>1. /\ d \in Records /\ d.req = r /\ d.subject = r.op /\ r.op \in Ops
        /\ book \in Books /\ ~IsLocal(rejection)
    BY ReservationIsRecord, RequestFields DEF CapInv, CapTypeOK, GateOpen, IsLocal
  <1>2. Frontier(book) = {} /\ ~Exposed(book, r) /\ book.admission = None
    BY <1>1 DEF NotAdmissible, CapInv, GateFits
  <1>3. AcceptsReservation(book, d)
    BY <1>1, <1>2 DEF AcceptsReservation
  <1>4. d.kind = "RESERVATION" /\ ContinuesUnit(book, d)
    OBVIOUS
  <1> HIDE DEF d
  <1>5. Accepts(book, d)
    BY <1>2, <1>3, <1>4, AcceptsByKind
  <1> QED BY <1>1, <1>4, <1>5, RejectionIsNoOperation DEF Due, Fitting, d

\* The next record of a rejection is due.
LEMMA RejectionRecordDue ==
    ASSUME CapInv, IsLocal(rejection), ~RejectionRecorded(book),
           ContinuesUnit(book, RejectionRecord(book))
    PROVE  Due(RejectionRecord(book)) /\ RejectionRecord(book) \in Records
  <1> DEFINE d == RejectionRecord(book)
  <1>1. /\ book \in Books /\ BookFits(book) /\ UnitFits(book)
        /\ book.events \subseteq book.receipts /\ CapRejection \notin book.snapshots
        /\ CapRejection \in Subjects
        /\ CapRejection \in book.receipts => book.admission # None
    BY DEF CapInv, CapTypeOK, BookFits, ChainFits, RejectionRecorded, Subjects, AdmissionFits
  <1>2. CASE book.admission = None
    <2>1. d = Reservation(book, rejection.req)
      BY <1>1, <1>2 DEF RejectionRecord
    <2>2. /\ rejection.req \in Requests /\ d.kind = "ADMISSION" /\ d.req = rejection.req
          /\ d.subject = rejection.req.op /\ d \in Records /\ rejection.req.op \in Ops
      BY <1>1, <1>2, <2>1, FrozenIsAdmission, ReservationIsRecord, RequestFields
    <2>3. /\ Frontier(book) = {} /\ ~Exposed(book, rejection.req)
          /\ book.res[rejection.req.op] = None
      BY <1>2 DEF CapInv, GateFits, PrestateFrozen
    <2>4. AcceptsReservation(book, d)
      BY <1>2, <2>1, <2>2, <2>3 DEF AcceptsReservation
    <2>5. ContinuesUnit(book, d)
      OBVIOUS
    <2> HIDE DEF d
    <2>6. Accepts(book, d)
      BY <2>2, <2>3, <2>4, <2>5, AcceptsByKind
    <2>7. Due(d)
      BY <2>1, <2>2, <2>6, RejectionIsNoOperation DEF Due, Fitting
    <2> QED BY <2>2, <2>7 DEF d
  <1>3. CASE book.admission # None /\ CapRejection \notin book.receipts
    <2>1. d = Receipt(book, CapRejection)
      BY <1>1, <1>3 DEF RejectionRecord
    <2>2. d \in Records /\ d.kind = "RECEIPT" /\ d.subject = CapRejection
      BY <1>1, <2>1, UnitIsRecord
    <2>3. AcceptsReceipt(book, d) /\ ContinuesUnit(book, d)
      BY <1>3, <2>1, <2>2 DEF AcceptsReceipt
    <2> HIDE DEF d
    <2>4. Accepts(book, d)
      BY <1>1, <2>2, <2>3, AcceptsByKind DEF UnitFits
    <2>5. Fitting(book, d)
      BY <1>3, <2>2, <2>4 DEF Fitting
    <2>6. Due(d)
      BY <1>3, <2>2, <2>5, FittingIsDue
    <2> QED BY <2>2, <2>6 DEF d
  <1>4. CASE book.admission # None /\ CapRejection \in book.receipts \ book.events
    <2>1. d = Event(CapRejection)
      BY <1>1, <1>4 DEF RejectionRecord
    <2>2. d \in Records /\ d.kind = "EVENT" /\ d.subject = CapRejection
      BY <1>1, <2>1, UnitIsRecord
    <2>3. AcceptsEvent(book, d) /\ ContinuesUnit(book, d)
      BY <1>4, <2>1, <2>2 DEF AcceptsEvent
    <2> HIDE DEF d
    <2>4. Accepts(book, d)
      BY <1>1, <2>2, <2>3, AcceptsByKind DEF UnitFits
    <2>5. Fitting(book, d)
      BY <1>4, <2>2, <2>4 DEF Fitting
    <2>6. Due(d)
      BY <1>4, <2>2, <2>5, FittingIsDue
    <2> QED BY <2>2, <2>6 DEF d
  <1>5. CASE /\ book.admission # None /\ CapRejection \in book.receipts
             /\ CapRejection \in book.events
    <2>1. d = Snapshot(book, CapRejection)
      BY <1>1, <1>5 DEF RejectionRecord
    <2>2. d \in Records /\ d.kind = "SNAPSHOT" /\ d.subject = CapRejection
      BY <1>1, <2>1, UnitIsRecord
    <2>3. AcceptsSnapshot(book, d) /\ ContinuesUnit(book, d)
      BY <1>1, <1>5, <2>1, <2>2 DEF AcceptsSnapshot
    <2> HIDE DEF d
    <2>4. Accepts(book, d)
      BY <1>1, <2>2, <2>3, AcceptsByKind DEF UnitFits
    <2>5. Fitting(book, d)
      BY <1>5, <2>2, <2>4 DEF Fitting
    <2>6. Due(d)
      BY <1>5, <2>2, <2>5, FittingIsDue
    <2> QED BY <2>2, <2>6 DEF d
  <1> QED BY <1>2, <1>3, <1>4, <1>5

\* What the next record of a settlement is.
LEMMA SettlementRecordByStage ==
    ASSUME NEW b \in Books, ChainFits(b), NEW o \in Ops, NEW s
    PROVE  \/ b.cell[o] = None /\ SettlementRecord(b, o, s) = Cell(o, Lifecycle(s))
           \/ /\ b.cell[o] # None /\ b.evidence[o] = None
              /\ SettlementRecord(b, o, s) = Evidence(o, s)
           \/ /\ b.evidence[o] # None /\ o \notin b.settled
              /\ SettlementRecord(b, o, s) = Settlement(b, o)
           \/ o \in b.settled \ b.receipts /\ SettlementRecord(b, o, s) = Receipt(b, o)
           \/ o \in b.receipts \ b.events /\ SettlementRecord(b, o, s) = Event(o)
           \/ o \in b.events /\ SettlementRecord(b, o, s) = Snapshot(b, o)
  <1>1. /\ b.cell[o] = None => b.evidence[o] = None /\ o \notin b.settled /\ o \notin b.receipts
        /\ o \in b.settled => b.evidence[o] # None
        /\ o \in b.receipts => o \in b.settled
        /\ o \in b.events => o \in b.receipts
    BY CellPrecedesEvidence DEF ChainFits
  <1>2. CASE b.cell[o] = None
    BY <1>1, <1>2 DEF SettlementRecord
  <1>3. CASE b.cell[o] # None /\ b.evidence[o] = None
    BY <1>1, <1>3 DEF SettlementRecord
  <1>4. CASE b.evidence[o] # None /\ o \notin b.settled
    BY <1>1, <1>4 DEF SettlementRecord
  <1>5. CASE o \in b.settled \ b.receipts
    BY <1>1, <1>5 DEF SettlementRecord
  <1>6. CASE o \in b.receipts \ b.events
    BY <1>1, <1>6 DEF SettlementRecord
  <1>7. CASE o \in b.events
    BY <1>1, <1>7 DEF SettlementRecord
  <1> QED BY <1>1, <1>2, <1>3, <1>4, <1>5, <1>6, <1>7

LEMMA KnownZeroOnly ==
    ASSUME NEW s \in Settlements, NEW r, ValidSettlement(s, r),
           Lifecycle(s) = "KNOWN_NOT_STARTED"
    PROVE  KnownZero \in Settlements
  <1>1. s.basis = "KNOWN_NOT_STARTED_ZERO"
    BY DEF Lifecycle
  <1>2. s.value = 0
    BY <1>1 DEF ValidSettlement
  <1>3. s = KnownZero
    BY <1>1, <1>2, SettlementsTyped DEF KnownZero
  <1> QED BY <1>3

\* The next record of a settlement that is not refused fits the book ...
LEMMA SettlementRecordFitting ==
    ASSUME NEW b, BookFits(b), NEW o \in Ops, NEW s \in Settlements, b.res[o] # None,
           ValidSettlement(s, b.res[o]), b.cell[o] \in {None, Lifecycle(s)},
           o \notin b.snapshots, ContinuesUnit(b, SettlementRecord(b, o, s))
    PROVE  /\ Fitting(b, SettlementRecord(b, o, s))
           /\ SettlementRecord(b, o, s).kind \notin {"RESERVATION", "ADMISSION"}
  <1> DEFINE d == SettlementRecord(b, o, s)
  <1>1. /\ b \in Books /\ ChainFits(b) /\ Frontier(b) \subseteq {b.head}
        /\ Lifecycle(s) \in Lifecycles /\ o \in Subjects /\ o # CapRejection
        /\ ContinuesUnit(b, d)
    BY SettlementFields, RejectionIsNoOperation DEF BookFits, UnitFits, Subjects
  <1>2. CASE b.cell[o] = None /\ d = Cell(o, Lifecycle(s))
    <2>1. /\ d \in Records /\ d.kind = "CELL" /\ d.subject = o
          /\ d.state = Lifecycle(s)
      BY <1>1, <1>2, OperationIsRecord
    <2>2. AcceptsCell(b, d)
      BY <1>2, <2>1 DEF AcceptsCell
    <2> HIDE DEF d
    <2>3. Accepts(b, d)
      BY <1>1, <2>1, <2>2, AcceptsByKind
    <2>4. Fitting(b, d)
      BY <1>1, <2>1, <2>3, KnownZeroOnly DEF Fitting
    <2> QED BY <2>1, <2>4 DEF d
  <1>3. CASE b.cell[o] # None /\ b.evidence[o] = None /\ d = Evidence(o, s)
    <2>1. /\ d \in Records /\ d.kind = "EVIDENCE" /\ d.subject = o
          /\ d.settlement = s
      BY <1>1, <1>3, OperationIsRecord
    <2>2. AcceptsEvidence(b, d)
      BY <1>3, <2>1 DEF AcceptsEvidence
    <2> HIDE DEF d
    <2>3. Accepts(b, d)
      BY <1>1, <2>1, <2>2, AcceptsByKind
    <2>4. Fitting(b, d)
      BY <1>1, <2>1, <2>3 DEF Fitting
    <2> QED BY <2>1, <2>4 DEF d
  <1>4. CASE b.evidence[o] # None /\ o \notin b.settled /\ d = Settlement(b, o)
    <2>1. /\ d \in Records /\ d.kind = "SETTLEMENT" /\ d.subject = o
          /\ d.outstanding = b.outstanding[b.res[o].path] - b.res[o].upper
          /\ b.res[o] \in Requests
      BY <1>1, <1>4, SettlementIsRecord
    <2>2. d.outstanding \in Nat
      BY <1>4, <2>1, OutstandingCovers
    <2>3. AcceptsSettlement(b, d)
      BY <1>4, <2>1, <2>2 DEF AcceptsSettlement
    <2> HIDE DEF d
    <2>4. Accepts(b, d)
      BY <1>1, <2>1, <2>3, AcceptsByKind
    <2>5. Fitting(b, d)
      BY <1>1, <2>1, <2>4 DEF Fitting
    <2> QED BY <2>1, <2>5 DEF d
  <1>5. CASE o \in b.settled \ b.receipts /\ d = Receipt(b, o)
    <2>1. d \in Records /\ d.kind = "RECEIPT" /\ d.subject = o
      BY <1>1, <1>5, UnitIsRecord
    <2>2. AcceptsReceipt(b, d)
      BY <1>5, <2>1 DEF AcceptsReceipt
    <2> HIDE DEF d
    <2>3. Accepts(b, d)
      BY <1>1, <2>1, <2>2, AcceptsByKind
    <2>4. Fitting(b, d)
      BY <1>1, <2>1, <2>3 DEF Fitting
    <2> QED BY <2>1, <2>4 DEF d
  <1>6. CASE o \in b.receipts \ b.events /\ d = Event(o)
    <2>1. d \in Records /\ d.kind = "EVENT" /\ d.subject = o
      BY <1>1, <1>6, UnitIsRecord
    <2>2. AcceptsEvent(b, d)
      BY <1>6, <2>1 DEF AcceptsEvent
    <2> HIDE DEF d
    <2>3. Accepts(b, d)
      BY <1>1, <2>1, <2>2, AcceptsByKind
    <2>4. Fitting(b, d)
      BY <1>1, <2>1, <2>3 DEF Fitting
    <2> QED BY <2>1, <2>4 DEF d
  <1>7. CASE o \in b.events /\ d = Snapshot(b, o)
    <2>1. d \in Records /\ d.kind = "SNAPSHOT" /\ d.subject = o
      BY <1>1, <1>7, UnitIsRecord
    <2>2. AcceptsSnapshot(b, d)
      BY <1>7, <2>1 DEF AcceptsSnapshot
    <2> HIDE DEF d
    <2>3. Accepts(b, d)
      BY <1>1, <2>1, <2>2, AcceptsByKind
    <2>4. Fitting(b, d)
      BY <1>1, <2>1, <2>3 DEF Fitting
    <2> QED BY <2>1, <2>4 DEF d
  <1> QED BY <1>1, <1>2, <1>3, <1>4, <1>5, <1>6, <1>7, SettlementRecordByStage

LEMMA RecoverFits ==
    ASSUME CapInv, NEW p \in Procs, Recover(p)
    PROVE  CapInv'
  <1> DEFINE b == IF wal /\ pend # None THEN Applied(book, pend) ELSE book
             joined == gateEx = p /\ call[p].kind # "reserve"
  <1>1. /\ pc[p] = "recover" /\ book' = b /\ pend' = (IF wal THEN None ELSE pend)
        /\ wal' = wal /\ UNCHANGED <<gate, guard, performed>>
    BY DEF Recover
  <1>2. JournalStep
    <2>1. CASE wal /\ pend # None
      BY <1>1, <2>1 DEF JournalStep, Publishes
    <2>2. CASE ~(wal /\ pend # None)
      BY <1>1, <2>2 DEF JournalStep, journal
    <2> QED BY <2>1, <2>2
  <1>3. \/ Ends(p)
        \/ Goto(p, "work") /\ UNCHANGED <<locks, call>>
    BY DEF Recover
  <1>4. CASE Ends(p)
    BY <1>1, <1>2, <1>4, EndsFits
  <1>5. CASE Goto(p, "work") /\ UNCHANGED <<locks, call>>
    <2>1. pc' = [pc EXCEPT ![p] = "work"] /\ pc'[p] = "work" /\ "work" \in Labels
      BY <1>5, ProcFacts DEF Goto, ProcTypeOK, Labels
    <2>2. Grows(book, book')
      BY <1>1, <1>2, JournalStepFits
    <2>3. \A o \in Ops : book.res[o] # None => book'.res[o] # None
      BY <2>2 DEF Grows
    <2>4. call' = call /\ guard' = guard /\ rejection' = rejection
      BY <1>1, <1>5 DEF gate
    <2>5. CallFits(p)' /\ InGate(p) /\ InGate(p)'
      BY <1>1, <2>1, <2>3, <2>4, ProcFacts DEF CallFits, InGate, GateOpen
    <2> QED BY <1>1, <1>2, <1>5, <2>1, <2>5, MovesFits
  <1> QED BY <1>3, <1>4, <1>5

\* A call whose kind changes while it keeps its locks.
LEMMA BecomesRejectFits ==
    ASSUME CapInv, NEW p \in Procs, pc[p] = "work", guard[p] = None,
           call[p].kind \in {"synchronize", "exact"}, IsLocal(rejection),
           Becomes(p, "reject"), UNCHANGED <<journal, locks, pc, gate, guard, performed>>
    PROVE  CapInv'
  <1>1. /\ call' = [call EXCEPT ![p].kind = "reject"] /\ pc' = pc /\ guard' = guard
        /\ ownerLock' = ownerLock /\ gateEx' = gateEx /\ gateSh' = gateSh /\ book' = book
        /\ rejection' = rejection
    BY DEF Becomes, locks, journal, gate
  <1>2. call'[p] = [call[p] EXCEPT !.kind = "reject"]
        /\ \A q \in Procs : q # p => call'[q] = call[q]
    BY <1>1, ProcFacts DEF ProcTypeOK
  <1>3. call'[p] \in Calls /\ call'[p].kind = "reject"
    BY <1>2, ProcFacts DEF Calls, Kinds
  <1>4. call' \in [Procs -> Calls]
    BY <1>1, <1>2, <1>3, ProcFacts DEF ProcTypeOK
  <1>5. ProcTypeOK' /\ SharedFits'
    BY <1>1, <1>4, ProcFacts DEF ProcTypeOK, SharedFits, GateOpen
  <1>6. Apart(p)
    BY <1>1, <1>2 DEF Apart
  <1>7. LocksFit(p)' /\ CallFits(p)'
    BY <1>1, <1>3, ProcFacts DEF LocksFit, CallFits, InGate
  <1> QED BY <1>5, <1>6, <1>7, QuietFits

\* A call that leaves its locks for its next stage.
LEMMA ReleasesFits ==
    ASSUME CapInv, NEW p \in Procs, pc[p] = "work", guard[p] = None, NEW label,
           NEW kind,
           \/ label = "gate" /\ kind \in {"lookup", "pending", "exact"}
                /\ call[p].req \in Requests
           \/ /\ label = "ack" /\ kind = "reject" /\ IsLocal(rejection)
              /\ CapRejection \in book.snapshots,
           call[p].kind # "hold",
           call' = [call EXCEPT ![p].kind = kind], Releases(p), Goto(p, label),
           UNCHANGED <<journal, gate, guard, performed>>
    PROVE  CapInv'
  <1>1. /\ pc' = [pc EXCEPT ![p] = label] /\ guard' = guard
        /\ ownerLock' = (IF ownerLock = p THEN None ELSE ownerLock)
        /\ gateEx' = (IF gateEx = p THEN None ELSE gateEx)
        /\ gateSh' = gateSh \ {p} /\ book' = book
        /\ rejection' = rejection
    BY DEF Goto, Releases, Freed, journal, gate
  <1>2. call'[p] = [call[p] EXCEPT !.kind = kind]
        /\ \A q \in Procs : q # p => call'[q] = call[q] /\ pc'[q] = pc[q]
    BY <1>1, ProcFacts DEF ProcTypeOK
  <1>3. call'[p] \in Calls /\ call'[p].kind = kind /\ call'[p].req = call[p].req
    BY <1>2, ProcFacts DEF Calls, Kinds
  <1>4. call' \in [Procs -> Calls]
    BY <1>2, <1>3, ProcFacts DEF ProcTypeOK
  <1>5. pc'[p] = label /\ label \in Labels
    BY <1>1, ProcFacts DEF ProcTypeOK, Labels
  <1>6. ProcTypeOK' /\ SharedFits'
    BY <1>1, <1>4, <1>5, ProcFacts DEF ProcTypeOK, SharedFits, GateOpen
  <1>7. Apart(p)
    BY <1>1, <1>2, ProcFacts DEF Apart
  <1>8. LocksFit(p)'
    BY <1>1, <1>3, <1>5, ProcFacts DEF LocksFit, InGate
  <1>9. CallFits(p)'
    BY <1>1, <1>3, <1>5, ProcFacts DEF CallFits, InGate
  <1> QED BY <1>6, <1>7, <1>8, <1>9, QuietFits

LEMMA ReserveFits ==
    ASSUME CapInv, NEW p \in Procs, Reserve(p)
    PROVE  CapInv'
  <1> DEFINE r == call[p].req  d == Reservation(book, r)
  <1>1. /\ pc[p] = "work" /\ call[p].kind = "reserve" /\ UNCHANGED <<gate, guard, performed>>
        /\ r \in Requests /\ GateOpen
    BY ProcFacts DEF Reserve, CallFits
  <1>2. CASE Ends(p) /\ UNCHANGED journal
    BY <1>1, <1>2, EndsFits DEF JournalStep
  <1>3. CASE Refuses(p)
    BY <1>1, <1>3, EndsFits DEF JournalStep, Refuses
  <1>4. CASE /\ book.res[r.op] = None /\ ~NotAdmissible(book, r) /\ d.kind = "RESERVATION"
             /\ Appends(p, d, "work")
    <2>1. ContinuesUnit(book, d) => Due(d)
      BY <1>1, <1>4, ReservationDue
    <2>2. d \in Records
      BY <1>1, ProcFacts, ReservationIsRecord
    <2> HIDE DEF d
    <2> QED BY <1>1, <1>4, <2>1, <2>2, AppendsFits
  <1> QED BY <1>2, <1>3, <1>4 DEF Reserve

LEMMA RecordRejectionFits ==
    ASSUME CapInv, NEW p \in Procs, RecordRejection(p)
    PROVE  CapInv'
  <1> DEFINE d == RejectionRecord(book)
  <1>1. /\ pc[p] = "work" /\ call[p].kind = "reject" /\ UNCHANGED <<gate, guard, performed>>
        /\ IsLocal(rejection) /\ guard[p] = None
    BY ProcFacts DEF RecordRejection, CallFits
  <1>2. CASE Refuses(p)
    BY <1>1, <1>2, EndsFits DEF JournalStep, Refuses
  <1>3. CASE ~RejectionRecorded(book) /\ Appends(p, d, "work")
    <2>1. CASE ContinuesUnit(book, d)
      <3>1. Due(d) /\ d \in Records
        BY <1>1, <1>3, <2>1, RejectionRecordDue
      <3> HIDE DEF d
      <3> QED BY <1>1, <1>3, <3>1, AppendsFits
    <2>2. CASE ~ContinuesUnit(book, d)
      <3>1. Refuses(p)
        BY <1>3, <2>2 DEF Appends
      <3> QED BY <1>1, <3>1, EndsFits DEF JournalStep, Refuses
    <2> QED BY <2>1, <2>2
  <1>4. CASE /\ RejectionRecorded(book) /\ Releases(p) /\ Goto(p, "ack")
             /\ UNCHANGED <<journal, call>>
    <2>1. call' = [call EXCEPT ![p].kind = "reject"]
      BY <1>1, <1>4, ProcFacts DEF ProcTypeOK, Calls
    <2> QED BY <1>1, <1>4, <2>1, ReleasesFits DEF RejectionRecorded
  <1> QED BY <1>2, <1>3, <1>4 DEF RecordRejection

LEMMA SynchronizeFits ==
    ASSUME CapInv, NEW p \in Procs, Synchronize(p)
    PROVE  CapInv'
  <1>1. /\ pc[p] = "work" /\ call[p].kind = "synchronize" /\ guard[p] = None
        /\ UNCHANGED <<gate, guard, performed>>
    BY ProcFacts DEF Synchronize, CallFits
  <1>2. CASE /\ JoinStatus(book) \in {"AWAITING_PAIR", "AWAITING_ACK", "ACK_VERIFIED"}
             /\ Becomes(p, "reject") /\ UNCHANGED <<journal, locks, pc>>
    <2>1. IsLocal(rejection)
      BY <1>2 DEF JoinStatus, IsLocal, GateOpen
    <2> QED BY <1>1, <1>2, <2>1, BecomesRejectFits
  <1>3. CASE Ends(p) /\ UNCHANGED journal
    BY <1>1, <1>3, EndsFits DEF JournalStep
  <1>4. CASE /\ call[p].req # None /\ Releases(p) /\ Becomes(p, "lookup") /\ Goto(p, "gate")
             /\ UNCHANGED journal
    <2>1. call[p].req \in Requests
      BY <1>4, ProcFacts DEF Calls
    <2> QED BY <1>1, <1>4, <2>1, ReleasesFits DEF Becomes
  <1> QED BY <1>2, <1>3, <1>4 DEF Synchronize

LEMMA LookupFits ==
    ASSUME CapInv, NEW p \in Procs, Lookup(p)
    PROVE  CapInv'
  <1>1. /\ pc[p] = "work" /\ call[p].kind = "lookup" /\ guard[p] = None
        /\ UNCHANGED <<journal, gate, guard, performed>> /\ call[p].req \in Requests
    BY ProcFacts DEF Lookup, CallFits
  <1>2. CASE Ends(p)
    BY <1>1, <1>2, EndsFits DEF JournalStep
  <1>3. CASE Releases(p) /\ Becomes(p, "pending") /\ Goto(p, "gate")
    BY <1>1, <1>3, ReleasesFits DEF Becomes
  <1> QED BY <1>2, <1>3 DEF Lookup

LEMMA RecoverPendingFits ==
    ASSUME CapInv, NEW p \in Procs, RecoverPending(p)
    PROVE  CapInv'
  <1> DEFINE d == Reservation(book, call[p].req)
  <1>1. /\ pc[p] = "work" /\ call[p].kind = "pending" /\ guard[p] = None
        /\ UNCHANGED <<gate, guard, performed>> /\ call[p].req \in Requests
    BY ProcFacts DEF RecoverPending, CallFits
  <1>2. CASE Releases(p) /\ Becomes(p, "exact") /\ Goto(p, "gate") /\ UNCHANGED journal
    BY <1>1, <1>2, ReleasesFits DEF Becomes
  <1>3. CASE Refuses(p)
    BY <1>1, <1>3, EndsFits DEF JournalStep, Refuses
  <1>4. CASE pend = d /\ Appends(p, d, "finish")
    <2>1. d \in Records /\ pend # None
      BY <1>1, <1>4, ProcFacts, ReservationIsRecord, NothingIsNothing
    <2> HIDE DEF d
    <2> QED BY <1>1, <1>4, <2>1, AppendsFits
  <1> QED BY <1>2, <1>3, <1>4 DEF RecoverPending

LEMMA FinishPendingFits ==
    ASSUME CapInv, NEW p \in Procs, FinishPending(p)
    PROVE  CapInv'
  BY EndsFits DEF FinishPending, JournalStep

LEMMA RecoverExactFits ==
    ASSUME CapInv, NEW p \in Procs, RecoverExact(p)
    PROVE  CapInv'
  <1>1. /\ pc[p] = "work" /\ call[p].kind = "exact" /\ guard[p] = None
        /\ UNCHANGED <<journal, gate, guard, performed>>
    BY ProcFacts DEF RecoverExact, CallFits
  <1>2. CASE Ends(p)
    BY <1>1, <1>2, EndsFits DEF JournalStep
  <1>3. CASE /\ JoinStatus(book) = "AWAITING_ADMISSION" /\ Becomes(p, "reject")
             /\ UNCHANGED <<locks, pc>>
    <2>1. IsLocal(rejection)
      BY <1>3 DEF JoinStatus, IsLocal, GateOpen
    <2> QED BY <1>1, <1>3, <2>1, BecomesRejectFits
  <1> QED BY <1>2, <1>3 DEF RecoverExact

LEMMA HoldSideEffectFits ==
    ASSUME CapInv, NEW p \in Procs, HoldSideEffect(p)
    PROVE  CapInv'
  <1> DEFINE o == call[p].op  d == Cell(o, "SIDE_EFFECT_STARTED")
  <1>1. /\ pc[p] = "work" /\ call[p].kind = "hold" /\ UNCHANGED <<gate, guard, performed>>
        /\ o \in Ops /\ book.res[o] # None /\ ~IsLocal(rejection)
    BY ProcFacts DEF HoldSideEffect, CallFits, LocksFit, InGate, SharedFits, GateOpen, IsLocal
  <1>2. CASE Refuses(p)
    BY <1>1, <1>2, EndsFits DEF JournalStep, Refuses
  <1>3. CASE book.cell[o] = None /\ Appends(p, d, "enter")
    <2>1. /\ d \in Records /\ d.kind = "CELL" /\ d.subject = o
          /\ d.state = "SIDE_EFFECT_STARTED"
      BY <1>1 DEF Cell, Records, Lifecycles
    <2>2. ContinuesUnit(book, d) => Due(d)
      <3> SUFFICES ASSUME ContinuesUnit(book, d) PROVE Due(d)
        OBVIOUS
      <3>1. AcceptsCell(book, d) /\ Frontier(book) \subseteq {book.head}
        BY <1>1, <1>3, <2>1 DEF AcceptsCell, CapInv, BookFits, UnitFits
      <3> HIDE DEF d
      <3>2. Accepts(book, d)
        BY <2>1, <3>1, AcceptsByKind
      <3>3. Fitting(book, d)
        BY <1>1, <2>1, <3>2, RejectionIsNoOperation DEF Fitting
      <3> QED BY <1>1, <2>1, <3>3, FittingIsDue
    <2> QED BY <1>1, <1>3, <2>1, <2>2, AppendsFits
  <1> QED BY <1>2, <1>3 DEF HoldSideEffect

LEMMA SettleFits ==
    ASSUME CapInv, NEW p \in Procs, Settle(p)
    PROVE  CapInv'
  <1> DEFINE o == call[p].op  s == call[p].settlement  d == SettlementRecord(book, o, s)
  <1>1. /\ pc[p] = "work" /\ call[p].kind = "settle" /\ UNCHANGED <<gate, guard, performed>>
        /\ o \in Ops /\ book.res[o] # None /\ s \in Settlements
    BY ProcFacts DEF Settle, CallFits
  <1>2. CASE Refuses(p)
    BY <1>1, <1>2, EndsFits DEF JournalStep, Refuses
  <1>3. CASE Ends(p) /\ UNCHANGED journal
    BY <1>1, <1>3, EndsFits DEF JournalStep
  <1>4. CASE /\ ~SettlementRefused(p, book, o, s) /\ o \notin book.snapshots
             /\ Appends(p, d, "work")
    <2>1. CASE ~ContinuesUnit(book, d)
      <3>1. Refuses(p)
        BY <1>4, <2>1 DEF Appends
      <3> QED BY <1>1, <3>1, EndsFits DEF JournalStep, Refuses
    <2>2. CASE ContinuesUnit(book, d)
      <3>1. ~(IsLocal(rejection) /\ book.admission = None)
        <4> SUFFICES ASSUME IsLocal(rejection), book.admission = None PROVE FALSE
          OBVIOUS
        <4>1. JoinStatus(book) = "AWAITING_ADMISSION" /\ Idle(book)
          BY AwaitingAdmission
        <4>2. guard[p] = None
          BY ProcFacts DEF LocksFit, SharedFits, GateOpen, IsLocal
        <4>3. gateEx = p
          BY <1>1, <4>2, ProcFacts DEF LocksFit, InGate
        <4>4. o \in book.settled
          BY <1>4, <4>1, <4>3 DEF SettlementRefused
        <4> QED BY <1>4, <4>1, <4>4 DEF Idle
      <3>2. /\ ValidSettlement(s, book.res[o]) /\ book.cell[o] \in {None, Lifecycle(s)}
        BY <1>4 DEF SettlementRefused
      <3>3. BookFits(book)
        BY DEF CapInv
      <3>4. Fitting(book, d) /\ d.kind \notin {"RESERVATION", "ADMISSION"}
        BY <1>1, <1>4, <2>2, <3>2, <3>3, SettlementRecordFitting
      <3> HIDE DEF d
      <3>5. Due(d) /\ d \in Records
        BY <3>1, <3>4, FittingIsDue DEF Fitting
      <3> QED BY <1>1, <1>4, <3>5, AppendsFits
    <2> QED BY <2>1, <2>2
  <1> QED BY <1>2, <1>3, <1>4 DEF Settle

LEMMA ReplayFits ==
    ASSUME CapInv, NEW p \in Procs, Replay(p)
    PROVE  CapInv'
  BY EndsFits DEF Replay, JournalStep

LEMMA CallFailsFits ==
    ASSUME CapInv, NEW p \in Procs, CallFails(p)
    PROVE  CapInv'
  BY EndsFits DEF CallFails, JournalStep

LEMMA CommitRejectionFits ==
    ASSUME CapInv, NEW p \in Procs, CommitRejection(p)
    PROVE  CapInv'
  <1> DEFINE r == call[p].req  x == Local(r, Candidate(book, r))
  <1>1. /\ pc[p] = "work" /\ call[p].kind = "reserve" /\ r \in Requests /\ GateOpen
        /\ guard[p] = None /\ gateEx = p
    BY ProcFacts DEF CommitRejection, CallFits, LocksFit, InGate
  <1>2. /\ book.res[r.op] = None /\ ~NotAdmissible(book, r) /\ pend = None
        /\ Candidate(book, r) > Cap[r.path]
        /\ gateSh = {} /\ rejection' = x /\ receipt' = receipt /\ gateSh' = gateSh
    BY DEF CommitRejection, Slot!Reject
  <1>3. /\ call' = [call EXCEPT ![p].kind = "reject"]
        /\ book' = book /\ pend' = pend /\ wal' = wal
        /\ gateEx' = gateEx /\ ownerLock' = ownerLock
        /\ pc' = pc /\ guard' = guard /\ performed' = performed
    BY DEF CommitRejection, Becomes, journal
  <1>4. Candidate(book, r) \in Nat
    BY <1>1, ReservationIsRecord, ProcFacts
  <1> HIDE DEF Candidate
  <1>5. x \in Locals /\ x.req = r /\ x.candidate = Candidate(book, r)
    BY <1>1, <1>4 DEF Local, Locals
  <1>6. /\ ~Poisoned(book) /\ Frontier(book) = {} /\ ~Exposed(book, r)
    BY <1>2 DEF NotAdmissible
  <1>7. book.admission = None /\ receipt = None
    BY <1>1 DEF CapInv, GateFits, GateOpen, IsLocal
  <1> HIDE DEF x
  <1>8. GateFits'
    <2>1. IsLocal(rejection)' /\ ~GateOpen'
      BY <1>2, <1>5, NothingIsNothing, ExternalIsOther DEF IsLocal, GateOpen
    <2>2. PrestateFrozen(book, x)
      BY <1>5, <1>6 DEF PrestateFrozen
    <2> QED BY <1>2, <1>3, <1>5, <1>7, <2>1, <2>2 DEF GateFits
  <1>9. JournalFits' /\ Grows(book, book')
    BY <1>2, <1>3, <1>8, GrowsReflexive
       DEF JournalFits, CapInv, CapTypeOK, PendFits, PerformedRecorded
  <1>10. call'[p] = [call[p] EXCEPT !.kind = "reject"]
         /\ \A q \in Procs : q # p => call'[q] = call[q]
    BY <1>3, ProcFacts DEF ProcTypeOK
  <1>11. call'[p] \in Calls /\ call'[p].kind = "reject"
    BY <1>10, ProcFacts DEF Calls, Kinds
  <1>12. call' \in [Procs -> Calls]
    BY <1>10, <1>11, <1>3, ProcFacts DEF ProcTypeOK
  <1>13. ProcTypeOK' /\ SharedFits' /\ GateTypeOK'
    BY <1>2, <1>3, <1>5, <1>7, <1>12, ProcFacts DEF ProcTypeOK, SharedFits, GateTypeOK
  <1>14. Apart(p)
    BY <1>2, <1>3, <1>10 DEF Apart
  <1>15. IsLocal(rejection)'
    BY <1>2, <1>5, NothingIsNothing, ExternalIsOther DEF IsLocal
  <1>16. LocksFit(p)' /\ CallFits(p)'
    BY <1>1, <1>2, <1>3, <1>11, <1>15, ProcFacts DEF LocksFit, CallFits, InGate
  <1> QED BY <1>1, <1>3, <1>9, <1>13, <1>14, <1>16, OwnStepFits, ProcFacts

LEMMA AcknowledgeFits ==
    ASSUME CapInv, NEW p \in Procs, Acknowledge(p)
    PROVE  CapInv'
  <1>1. /\ pc[p] = "ack" /\ gateEx = None /\ gateSh = {} /\ IsLocal(rejection)
        /\ CapRejection \in book.snapshots /\ guard[p] = None
    BY ProcFacts DEF Acknowledge, CallFits
  <1>2. /\ rejection' = rejection /\ gateSh' = gateSh /\ gateEx' = gateEx
        /\ ownerLock' = ownerLock /\ guard' = guard /\ performed' = performed
        /\ book' = book /\ pend' = pend /\ wal' = wal
        /\ receipt' = CapRejection \/ receipt' = receipt
        /\ call' = [call EXCEPT ![p] = NoCall] /\ pc' = [pc EXCEPT ![p] = "idle"]
    BY DEF Acknowledge, Slot!Acknowledge, gate, journal, Goto
  <1>3. book.admission # None
    BY <1>1 DEF CapInv, BookFits, ChainFits, AdmissionFits
  <1>4. GateFits'
    BY <1>1, <1>2, <1>3 DEF CapInv, GateFits, GateOpen, IsLocal
  <1>5. JournalFits' /\ Grows(book, book')
    BY <1>2, <1>4, GrowsReflexive
       DEF JournalFits, CapInv, CapTypeOK, PendFits, PerformedRecorded, IsLocal
  <1>6. NoCall \in Calls /\ NoCall.kind = "none"
    BY DEF NoCall, Calls, Kinds
  <1>7. /\ pc'[p] = "idle" /\ call'[p] = NoCall
        /\ \A q \in Procs : q # p => pc'[q] = pc[q] /\ call'[q] = call[q]
    BY <1>2, ProcFacts DEF ProcTypeOK
  <1>8. ProcTypeOK' /\ GateTypeOK' /\ SharedFits'
    BY <1>1, <1>2, <1>6, ProcFacts DEF ProcTypeOK, GateTypeOK, SharedFits, Labels
  <1>9. Apart(p)
    BY <1>2, <1>7 DEF Apart
  <1>10. LocksFit(p)' /\ CallFits(p)'
    BY <1>1, <1>2, <1>6, <1>7, ProcFacts DEF LocksFit, CallFits, InGate
  <1> QED BY <1>2, <1>5, <1>8, <1>9, <1>10, OwnStepFits, ProcFacts

LEMMA EnterBodyFits ==
    ASSUME CapInv, NEW p \in Procs, EnterBody(p)
    PROVE  CapInv'
  <1> DEFINE o == call[p].op
  <1>1. /\ pc[p] = "enter" /\ call[p].kind = "hold" /\ o \in Ops /\ ownerLock = p
        /\ book.cell[o] = "SIDE_EFFECT_STARTED" /\ guard[p] = None
        /\ p \in gateSh /\ gateEx # p
    BY ProcFacts DEF EnterBody, CallFits, LocksFit, InGate
  <1>2. /\ rejection' = rejection /\ gateSh' = gateSh /\ gateEx' = gateEx
        /\ receipt' = receipt
        /\ ownerLock' = None /\ performed' = performed \cup {o}
        /\ book' = book /\ pend' = pend /\ wal' = wal
        /\ guard' = [guard EXCEPT ![p] = o]
        /\ call' = [call EXCEPT ![p] = NoCall] /\ pc' = [pc EXCEPT ![p] = "body"]
    BY DEF EnterBody, gate, journal, Goto
  <1>3. JournalFits' /\ Grows(book, book')
    BY <1>1, <1>2, GrowsReflexive
       DEF JournalFits, CapInv, CapTypeOK, PendFits, PerformedRecorded, IsLocal, GateFits,
           GateOpen
  <1>4. NoCall \in Calls /\ NoCall.kind = "none"
    BY DEF NoCall, Calls, Kinds
  <1>5. /\ pc'[p] = "body" /\ call'[p] = NoCall /\ guard'[p] = o
        /\ \A q \in Procs : q # p =>
             pc'[q] = pc[q] /\ call'[q] = call[q] /\ guard'[q] = guard[q]
    BY <1>2, ProcFacts DEF ProcTypeOK
  <1>6. ProcTypeOK' /\ GateTypeOK' /\ SharedFits'
    BY <1>1, <1>2, <1>4, ProcFacts DEF ProcTypeOK, GateTypeOK, SharedFits, Labels, GateOpen
  <1>7. Apart(p)
    BY <1>1, <1>2, <1>5, ProcFacts DEF Apart
  <1>8. LocksFit(p)' /\ CallFits(p)'
    BY <1>1, <1>2, <1>4, <1>5, ProcFacts, NothingIsNothing DEF LocksFit, CallFits, InGate
  <1>9. performed' \in SUBSET Ops
    BY <1>1, <1>2, ProcFacts
  <1> QED BY <1>1, <1>2, <1>3, <1>6, <1>7, <1>8, <1>9, OwnStepFits

\* A process that lets go of everything it holds.
LEMMA DropsFits ==
    ASSUME CapInv, NEW p \in Procs, UNCHANGED <<journal, gate, performed>>,
           ownerLock' = Freed(p, ownerLock), gateEx' = Freed(p, gateEx),
           gateSh' = gateSh \ {p}, guard' = [guard EXCEPT ![p] = None],
           call' = [call EXCEPT ![p] = NoCall], Goto(p, "idle")
    PROVE  CapInv'
  <1>1. /\ rejection' = rejection
        /\ ownerLock' = (IF ownerLock = p THEN None ELSE ownerLock)
        /\ gateEx' = (IF gateEx = p THEN None ELSE gateEx)
        /\ pc' = [pc EXCEPT ![p] = "idle"]
    BY DEF gate, Freed, Goto
  <1>2. NoCall \in Calls /\ NoCall.kind = "none"
    BY DEF NoCall, Calls, Kinds
  <1>3. /\ pc'[p] = "idle" /\ call'[p] = NoCall /\ guard'[p] = None
        /\ \A q \in Procs : q # p =>
             pc'[q] = pc[q] /\ call'[q] = call[q] /\ guard'[q] = guard[q]
    BY <1>1, ProcFacts DEF ProcTypeOK
  <1>4. ProcTypeOK' /\ SharedFits'
    BY <1>1, <1>2, ProcFacts DEF ProcTypeOK, SharedFits, Labels, GateOpen
  <1>5. Apart(p)
    BY <1>1, <1>3, ProcFacts DEF Apart
  <1>6. LocksFit(p)' /\ CallFits(p)'
    BY <1>1, <1>2, <1>3, ProcFacts DEF LocksFit, CallFits, InGate
  <1> QED BY <1>4, <1>5, <1>6, QuietFits

LEMMA LeaveBodyFits ==
    ASSUME CapInv, NEW p \in Procs, LeaveBody(p)
    PROVE  CapInv'
  <1>1. pc[p] = "body" /\ ownerLock # p /\ gateEx # p /\ guard[p] # None
    BY ProcFacts DEF LeaveBody, LocksFit, CallFits, InGate
  <1>2. /\ guard' = [guard EXCEPT ![p] = None] /\ gateSh' = gateSh \ {p}
        /\ pc' = [pc EXCEPT ![p] = "idle"] /\ call' = call /\ ownerLock' = ownerLock
        /\ gateEx' = gateEx /\ rejection' = rejection /\ book' = book
        /\ UNCHANGED <<journal, gate, performed>>
    BY DEF LeaveBody, Goto, gate, journal
  <1>3. /\ pc'[p] = "idle" /\ guard'[p] = None
        /\ \A q \in Procs : q # p => pc'[q] = pc[q] /\ guard'[q] = guard[q]
    BY <1>2, ProcFacts DEF ProcTypeOK
  <1>4. ProcTypeOK' /\ SharedFits'
    BY <1>2, ProcFacts DEF ProcTypeOK, SharedFits, Labels, GateOpen
  <1>5. Apart(p)
    BY <1>2, <1>3, ProcFacts DEF Apart
  <1>6. LocksFit(p)' /\ CallFits(p)'
    BY <1>1, <1>2, <1>3, ProcFacts DEF LocksFit, CallFits, InGate
  <1> QED BY <1>2, <1>4, <1>5, <1>6, QuietFits

LEMMA CrashFits ==
    ASSUME CapInv, NEW p \in Procs, Crash(p)
    PROVE  CapInv'
  BY DropsFits DEF Crash

\* The other transactions of the attempt.
LEMMA ExternalFits ==
    ASSUME CapInv, ExternalRejects \/ ExternalAcknowledges
    PROVE  CapInv'
  <1>1. /\ gateEx = None /\ gateEx' = gateEx /\ ownerLock' = ownerLock /\ gateSh' = gateSh
        /\ book' = book /\ pend' = pend /\ wal' = wal
        /\ pc' = pc /\ call' = call /\ guard' = guard /\ performed' = performed
        /\ \/ rejection = None /\ gateSh = {} /\ rejection' = External /\ receipt' = receipt
           \/ rejection = External /\ rejection' = rejection /\ receipt' = External
    BY DEF ExternalRejects, ExternalAcknowledges, Slot!Reject, Slot!Acknowledge, journal
  <1>2. ~IsLocal(rejection) /\ ~IsLocal(rejection)' /\ rejection' = External
    BY <1>1 DEF IsLocal
  <1>3. book.admission = None
    BY <1>2 DEF CapInv, GateFits
  <1>4. GateFits' /\ SharedFits'
    BY <1>1, <1>2, <1>3, ExternalIsOther, ProcFacts
       DEF GateFits, GateOpen, SharedFits, CapInv
  <1>5. PendFits' /\ PerformedRecorded' /\ BookFits(book)'
    BY <1>1, <1>2 DEF CapInv, PendFits, PerformedRecorded
  <1>6. CapTypeOK'
    BY <1>1, <1>2 DEF CapInv, CapTypeOK, GateTypeOK, ProcTypeOK
  <1>7. ASSUME NEW p \in Procs PROVE LocksFit(p)' /\ CallFits(p)'
    <2>1. LocksFit(p) /\ CallFits(p) /\ p # None
      BY ProcFacts
    <2>2. call[p].kind \notin {"reserve", "reject"}
      BY <1>1, <1>2, <2>1 DEF LocksFit, CallFits, InGate
    <2> QED BY <1>1, <2>1, <2>2 DEF LocksFit, CallFits, InGate
  <1> QED BY <1>4, <1>5, <1>6, <1>7 DEF CapInv

LEMMA InitFits ==
    ASSUME CapInit
    PROVE  CapInv
  <1>1. /\ book = InitialBook /\ pend = None /\ rejection = None /\ receipt = None
        /\ gateEx = None /\ gateSh = {} /\ ownerLock = None /\ wal \in BOOLEAN
        /\ pc = [p \in Procs |-> "idle"] /\ call = [p \in Procs |-> NoCall]
        /\ guard = [p \in Procs |-> None] /\ performed = {}
    BY DEF CapInit
  <1>2. /\ book \in Books /\ book.ok /\ book.admission = None
        /\ \A o \in Ops : book.res[o] = None /\ book.cell[o] = None /\ book.evidence[o] = None
        /\ book.settled = {} /\ book.receipts = {} /\ book.events = {} /\ book.snapshots = {}
    BY <1>1 DEF InitialBook, Books, RecordKinds
  <1>3. NoCall \in Calls /\ NoCall.kind = "none"
    BY DEF NoCall, Calls, Kinds
  <1>4. CapTypeOK
    BY <1>1, <1>2, <1>3 DEF CapTypeOK, GateTypeOK, ProcTypeOK, Labels
  <1>5. ChainFits(book) /\ AdmissionFits(book) /\ OverrunFits(book)
    BY <1>2, NothingIsNothing DEF ChainFits, AdmissionFits, OverrunFits, Lifecycles
  <1>6. UnitFits(book)
    BY <1>2, UnitByStage
  <1>7. TotalsFit(book)
    <2> SUFFICES ASSUME NEW path \in Paths
                 PROVE  OutstandingFits(book, path) /\ ChargedFits(book, path)
      BY DEF TotalsFit
    <2>1. Unsettled(book, path) = {} /\ SettledOn(book, path) = {}
      BY <1>2 DEF Unsettled, SettledOn
    <2>2. book.outstanding[path] = 0 /\ book.charged[path] = 0
      BY <1>1 DEF InitialBook
    <2> QED BY <2>1, <2>2, SumEmpty DEF OutstandingFits, ChargedFits, IsPeak
  <1>8. PendFits /\ GateFits /\ SharedFits /\ PerformedRecorded
    BY <1>1, <1>2 DEF PendFits, GateFits, SharedFits, PerformedRecorded, IsLocal, GateOpen
  <1>9. \A p \in Procs : LocksFit(p) /\ CallFits(p)
    BY <1>1, <1>3, NothingIsNothing DEF LocksFit, CallFits, InGate
  <1> QED BY <1>2, <1>4, <1>5, <1>6, <1>7, <1>8, <1>9 DEF CapInv, BookFits

LEMMA NextFits ==
    ASSUME CapInv, [CapNext]_capVars
    PROVE  CapInv'
  <1>1. CASE UNCHANGED capVars
    BY <1>1 DEF capVars, journal, gate, locks, CapInv, CapTypeOK, GateTypeOK, ProcTypeOK,
       PendFits, GateFits, SharedFits, PerformedRecorded, LocksFit, CallFits, InGate, GateOpen
  <1>2. ASSUME NEW p \in Procs, Runs(p)
        PROVE  CapInv'
    BY <1>2, NextStageFits, AcknowledgeFits, AcquireOwnerFits, RecoverFits, ReserveFits,
       CommitRejectionFits, RecordRejectionFits, SynchronizeFits, LookupFits,
       RecoverPendingFits, FinishPendingFits, RecoverExactFits, HoldSideEffectFits,
       EnterBodyFits, LeaveBodyFits, SettleFits, ReplayFits
       DEF Runs, Acquires
  <1> QED BY <1>1, <1>2, CallFailsFits, CrashFits, AdmissionGateFits, SideEffectGateFits,
             JoinGateFits, GuardedCallFits, ExternalFits DEF CapNext


-----------------------------------------------------------------------------
(* The joins of gate and owner                                             *)

\* Publishing the pending record leaves a book that fits.
LEMMA EffectiveFits ==
    ASSUME CapInv
    PROVE  /\ BookFits(Effective) /\ Grows(book, Effective)
           /\ Effective.admission =
                IF pend # None /\ pend.kind = "ADMISSION" THEN pend.req ELSE book.admission
  <1>1. BookFits(book) /\ book \in Books
    BY DEF CapInv, BookFits
  <1>2. CASE pend = None
    BY <1>1, <1>2, GrowsReflexive DEF Effective
  <1>3. CASE pend # None
    <2>1. Fitting(book, pend) /\ pend \in Records
      BY <1>3 DEF CapInv, PendFits, Fitting
    <2>2. Effective = Applied(book, pend)
      BY <1>3 DEF Effective
    <2> QED BY <1>1, <1>3, <2>1, <2>2, PublishedFits, AdmissionOfApplied
  <1> QED BY <1>2, <1>3

\* With an admission in the journal the local rejection has its pair, in part
\* or in full.
LEMMA AdmittedStatus ==
    ASSUME NEW b, IsLocal(rejection), rejection.req # None, b.admission = rejection.req,
           receipt \in {None, CapRejection},
           receipt # None => CapRejection \in b.snapshots
    PROVE  JoinStatus(b) \in {"AWAITING_PAIR", "AWAITING_ACK", "ACK_VERIFIED"}
  <1>1. JoinStatus(b) = LocalStatus(b)
    BY DEF JoinStatus, IsLocal, GateOpen
  <1>2. CASE CapRejection \notin b.snapshots
    <2>1. receipt = None
      BY <1>2
    <2> QED BY <1>1, <1>2, <2>1 DEF LocalStatus
  <1>3. CASE CapRejection \in b.snapshots /\ receipt = None
    BY <1>1, <1>3 DEF LocalStatus
  <1>4. CASE CapRejection \in b.snapshots /\ receipt = CapRejection
    BY <1>1, <1>4, NothingIsNothing DEF LocalStatus
  <1> QED BY <1>2, <1>3, <1>4

\* The join is explainable for the book as it is and with its pending record.
LEMMA NoConflict ==
    ASSUME CapInv, NEW b, b = book \/ b = Effective
    PROVE  JoinStatus(b) # "CONFLICT"
  <1>1. /\ AdmissionFits(b) /\ book.snapshots \subseteq b.snapshots
        /\ b.admission = book.admission \/ (pend # None /\ pend.kind = "ADMISSION"
                                            /\ b.admission = pend.req)
    BY EffectiveFits DEF CapInv, BookFits, Grows
  <1>2. CASE ~IsLocal(rejection)
    <2>1. book.admission = None
      BY <1>2 DEF CapInv, GateFits
    <2>2. b.admission = None
      BY <1>1, <1>2, <2>1 DEF CapInv, PendFits
    <2>3. OwnerOpen(b)
      BY <1>1, <2>2 DEF OwnerOpen, AdmissionFits
    <2> QED BY <1>2, <2>3 DEF JoinStatus, IsLocal, GateOpen
  <1>3. CASE IsLocal(rejection) /\ b.admission = None
    <2>1. pend # None /\ pend.kind = "ADMISSION" => pend.req \in Requests
      BY RecordFields DEF CapInv, PendFits, Fitting
    <2>2. book.admission = None
      BY <1>1, <1>3, <2>1, NothingIsNothing
    <2>3. pend \in {None, Reservation(book, rejection.req)}
      BY <1>3, <2>2 DEF CapInv, GateFits
    <2>4. b = book
      <3>1. CASE pend = None
        BY <3>1 DEF Effective
      <3>2. CASE pend # None
        <4>1. pend.kind = "ADMISSION"
          BY <1>3, <2>2, <2>3, <3>2, FrozenIsAdmission
        <4>2. Effective.admission = pend.req
          BY <3>2, <4>1, EffectiveFits
        <4> QED BY <1>3, <2>1, <3>2, <4>1, <4>2, NothingIsNothing
      <3> QED BY <3>1, <3>2
    <2> QED BY <1>3, <2>2, <2>4, AwaitingAdmission
  <1>4. CASE IsLocal(rejection) /\ b.admission # None
    <2>1. rejection \in Locals
      BY <1>4 DEF CapInv, CapTypeOK, GateTypeOK, IsLocal
    <2>2. rejection.req # None
      BY <2>1, NothingIsNothing DEF Locals
    <2>3. b.admission = rejection.req
      BY <1>1, <1>4 DEF CapInv, GateFits, PendFits
    <2>4. /\ receipt \in {None, CapRejection}
          /\ receipt # None => CapRejection \in b.snapshots
      BY <1>1, <1>4 DEF CapInv, GateFits
    <2> QED BY <1>4, <2>2, <2>3, <2>4, AdmittedStatus
  <1> QED BY <1>2, <1>3, <1>4

-----------------------------------------------------------------------------
(* What finishes an unfinished unit                                        *)

\* An admission is awaited only while nothing else is under way.
LEMMA AwaitedIsQuiet ==
    ASSUME CapInv, JoinStatus(book) = "AWAITING_ADMISSION"
    PROVE  /\ Frontier(book) = {}
           /\ pend # None => pend.kind = "ADMISSION"
  <1>1. IsLocal(rejection)
    BY DEF JoinStatus, IsLocal, GateOpen
  <1>2. book.admission = None
    <2> SUFFICES ASSUME book.admission # None PROVE FALSE
      OBVIOUS
    <2>1. /\ rejection \in Locals /\ book.admission = rejection.req
          /\ receipt \in {None, CapRejection}
          /\ receipt # None => CapRejection \in book.snapshots
      BY <1>1 DEF CapInv, CapTypeOK, GateTypeOK, GateFits, IsLocal
    <2> QED BY <1>1, <2>1, AdmittedStatus
  <1> QED BY <1>1, <1>2, FrozenIsAdmission DEF CapInv, GateFits, PrestateFrozen

\* A settlement with the semantics of the durable records is not refused.
LEMMA NotRefused ==
    ASSUME CapInv, NEW o \in Ops, NEW s \in Settlements, ValidSettlement(s, book.res[o]),
           \/ book.cell[o] = Lifecycle(s)
           \/ /\ book.cell[o] = None /\ pend = Cell(o, Lifecycle(s))
              /\ s.basis \in {"KNOWN_NOT_STARTED_ZERO", "CONSERVATIVE_RESERVATION_UPPER"},
           book.evidence[o] \in {None, s},
           JoinStatus(book) # "AWAITING_ADMISSION"
    PROVE  ~SettlementRefused(None, book, o, s)
  <1>1. Lifecycle(s) # None
    BY SettlementFields, NothingIsNothing
  <1>2. CASE book.cell[o] = Lifecycle(s)
    BY <1>1, <1>2 DEF SettlementRefused
  <1>3. CASE book.cell[o] = None /\ pend = Cell(o, Lifecycle(s))
             /\ s.basis = "CONSERVATIVE_RESERVATION_UPPER"
    <2>1. Lifecycle(s) = "SIDE_EFFECT_STARTED"
      BY <1>3 DEF Lifecycle
    <2> QED BY <1>3, <2>1 DEF SettlementRefused
  <1>4. CASE book.cell[o] = None /\ pend = Cell(o, Lifecycle(s))
             /\ s.basis = "KNOWN_NOT_STARTED_ZERO"
    <2>1. Lifecycle(s) = "KNOWN_NOT_STARTED"
      BY <1>4 DEF Lifecycle
    <2>2. pend # Cell(o, "SIDE_EFFECT_STARTED")
      BY <1>4, <2>1 DEF Cell
    <2> QED BY <1>4, <2>1, <2>2 DEF SettlementRefused
  <1> QED BY <1>2, <1>3, <1>4

\* The two settlements that need no knowledge of the outcome.
LEMMA OutcomeFree ==
    /\ Conservative \in Settlements /\ Lifecycle(Conservative) = "SIDE_EFFECT_STARTED"
    /\ Lifecycle(KnownZero) = "KNOWN_NOT_STARTED"
    /\ \A r : ValidSettlement(Conservative, r) /\ ValidSettlement(KnownZero, r)
  BY ConservativeAllowed DEF Conservative, KnownZero, Lifecycle, ValidSettlement

\* Evidence of an operation that has it settles the operation.
LEMMA EvidenceSettles ==
    ASSUME CapInv, NEW o \in Ops, book.evidence[o] # None
    PROVE  /\ book.evidence[o] \in Settlements /\ book.res[o] # None
           /\ book.cell[o] # None
           /\ JoinStatus(book) # "AWAITING_ADMISSION" =>
                ~SettlementRefused(None, book, o, book.evidence[o])
  <1>1. /\ book.evidence[o] \in Settlements /\ book.cell[o] = Lifecycle(book.evidence[o])
        /\ ValidSettlement(book.evidence[o], book.res[o])
        /\ book.cell[o] # None => book.res[o] # None
    BY DEF CapInv, BookFits, Books, ChainFits
  <1>2. book.cell[o] # None
    BY <1>1, SettlementFields, NothingIsNothing
  <1> QED BY <1>1, <1>2, NotRefused

\* Records that are their fields.
LEMMA RecordsRebuilt ==
    ASSUME NEW d \in Records
    PROVE  /\ d.kind = "CELL" => d = Cell(d.subject, d.state)
           /\ d.kind = "EVIDENCE" => d = Evidence(d.subject, d.settlement)
           /\ d.kind = "EVENT" => d = Event(d.subject)
  BY DEF Records, Cell, Evidence, Event

\* A pending record of an operation is the next record of a settlement that
\* is not refused.
LEMMA PendSettles ==
    ASSUME CapInv, pend # None, pend.kind \notin {"RESERVATION", "ADMISSION"},
           pend.subject \in Ops
    PROVE  \E s \in Settlements :
             /\ book.res[pend.subject] # None
             /\ pend = SettlementRecord(book, pend.subject, s)
             /\ ~SettlementRefused(None, book, pend.subject, s)
  <1> DEFINE o == pend.subject
  <1>1. /\ pend \in Records /\ Accepts(book, pend) /\ book \in Books
        /\ ChainFits(book) /\ ContinuesUnit(book, pend) /\ pend.kind \in RecordKinds
        /\ pend.kind = "CELL" /\ pend.state = "KNOWN_NOT_STARTED" => KnownZero \in Settlements
        /\ JoinStatus(book) # "AWAITING_ADMISSION"
    BY AwaitedIsQuiet, AcceptsByKind, RecordFields
       DEF CapInv, PendFits, Fitting, BookFits
  <1>2. CASE pend.kind = "CELL"
    <2>1. book.res[o] # None /\ book.cell[o] = None /\ pend.state \in Lifecycles
      BY <1>1, <1>2, AcceptsByKind, RecordFields DEF AcceptsCell
    <2>2. book.evidence[o] = None
      BY <1>1, <2>1, CellPrecedesEvidence
    <2>3. PICK s \in Settlements : Lifecycle(s) = pend.state /\ s \in {Conservative, KnownZero}
      BY <1>1, <1>2, <2>1, OutcomeFree DEF Lifecycles
    <2>4. s.basis \in {"KNOWN_NOT_STARTED_ZERO", "CONSERVATIVE_RESERVATION_UPPER"}
      BY <2>3 DEF Conservative, KnownZero
    <2>5. pend = Cell(o, Lifecycle(s))
      BY <1>1, <1>2, <2>3, RecordsRebuilt
    <2>6. SettlementRecord(book, o, s) = Cell(o, Lifecycle(s))
      BY <1>1, <2>1, SettlementRecordByStage, CellPrecedesEvidence DEF ChainFits
    <2>7. ValidSettlement(s, book.res[o])
      BY <2>3, OutcomeFree
    <2>8. ~SettlementRefused(None, book, o, s)
      BY <1>1, <2>1, <2>2, <2>4, <2>5, <2>7, NotRefused
    <2> QED BY <2>1, <2>5, <2>6, <2>8
  <1>3. CASE pend.kind = "EVIDENCE"
    <2> DEFINE s == pend.settlement
    <2>1. /\ s \in Settlements /\ book.cell[o] = Lifecycle(s) /\ book.evidence[o] = None
          /\ ValidSettlement(s, book.res[o])
      BY <1>1, <1>3, AcceptsByKind, RecordFields DEF AcceptsEvidence
    <2>2. book.cell[o] # None /\ book.res[o] # None
      BY <1>1, <2>1, SettlementFields, NothingIsNothing DEF ChainFits
    <2>3. pend = Evidence(o, s)
      BY <1>1, <1>3, RecordsRebuilt
    <2>4. SettlementRecord(book, o, s) = Evidence(o, s)
      BY <1>1, <2>1, <2>2, SettlementRecordByStage DEF ChainFits
    <2>5. ~SettlementRefused(None, book, o, s)
      BY <1>1, <2>1, NotRefused
    <2> QED BY <2>1, <2>2, <2>3, <2>4, <2>5
  <1>4. CASE pend.kind \in {"SETTLEMENT", "RECEIPT", "EVENT", "SNAPSHOT"}
    <2> DEFINE s == book.evidence[o]
    <2>1. /\ pend.kind = "SETTLEMENT" =>
               s # None /\ o \notin book.settled /\ pend = Settlement(book, o)
          /\ pend.kind = "RECEIPT" =>
               o \in book.settled \ book.receipts /\ pend = Receipt(book, o)
          /\ pend.kind = "EVENT" => o \in book.receipts \ book.events
          /\ pend.kind = "SNAPSHOT" =>
               o \in book.events \ book.snapshots /\ pend = Snapshot(book, o)
      BY <1>1, AcceptsByKind, RejectionIsNoOperation
         DEF AcceptsSettlement, AcceptsReceipt, AcceptsEvent, AcceptsSnapshot
    <2>2. s # None /\ (pend.kind \in {"EVENT", "SNAPSHOT"} => o \in book.settled \cap book.receipts)
      BY <1>1, <1>4, <2>1 DEF ChainFits
    <2>3. s \in Settlements /\ book.res[o] # None /\ book.cell[o] # None
          /\ ~SettlementRefused(None, book, o, s)
      BY <1>1, <2>2, EvidenceSettles
    <2>4. pend.kind = "EVENT" => pend = Event(o)
      BY <1>1, RecordsRebuilt
    <2>5. pend = SettlementRecord(book, o, s)
      <3>1. CASE pend.kind = "SETTLEMENT"
        BY <1>1, <2>1, <2>3, <3>1, SettlementRecordByStage DEF ChainFits
      <3>2. CASE pend.kind = "RECEIPT"
        BY <1>1, <2>1, <2>2, <2>3, <3>2 DEF SettlementRecord, ChainFits
      <3>3. CASE pend.kind = "EVENT"
        BY <1>1, <2>1, <2>2, <2>3, <2>4, <3>3 DEF SettlementRecord
      <3>4. CASE pend.kind = "SNAPSHOT"
        BY <1>1, <2>1, <2>2, <2>3, <3>4 DEF SettlementRecord
      <3> QED BY <1>4, <3>1, <3>2, <3>3, <3>4
    <2> QED BY <2>3, <2>5
  <1> QED BY <1>1, <1>2, <1>3, <1>4 DEF RecordKinds

\* Every pending record is the next one of some legal call.
LEMMA PendResumes ==
    ASSUME CapInv, pend # None
    PROVE  \/ \E r \in Requests : pend = Reservation(book, r)
           \/ IsLocal(rejection) /\ pend = RejectionRecord(book)
           \/ \E o \in Ops, s \in Settlements :
                /\ book.res[o] # None /\ pend = SettlementRecord(book, o, s)
                /\ ~SettlementRefused(None, book, o, s)
  <1>1. /\ pend \in Records /\ Accepts(book, pend) /\ ChainFits(book)
        /\ ContinuesUnit(book, pend) /\ pend.subject \in Subjects
        /\ pend.kind \in RecordKinds
        /\ pend.subject = CapRejection => book.admission # None
    BY AcceptsByKind, RecordFields DEF CapInv, PendFits, Fitting, BookFits
  <1>2. CASE pend.kind \in {"RESERVATION", "ADMISSION"}
    <2>1. pend = Reservation(book, pend.req) /\ pend.req \in Requests
      BY <1>1, <1>2, AcceptsByKind, RecordFields DEF AcceptsReservation
    <2> QED BY <2>1
  <1>3. CASE pend.kind \notin {"RESERVATION", "ADMISSION"} /\ pend.subject \in Ops
    BY <1>3, PendSettles
  <1>4. CASE pend.kind \notin {"RESERVATION", "ADMISSION"} /\ pend.subject = CapRejection
    <2>1. IsLocal(rejection) /\ book.admission # None
      BY <1>1, <1>4 DEF CapInv, GateFits
    <2>2. pend.kind \in {"RECEIPT", "EVENT", "SNAPSHOT"}
      BY <1>1, <1>4, RecordFields, RejectionIsNoOperation DEF RecordKinds
    <2>3. CASE pend.kind = "RECEIPT"
      <3>1. CapRejection \notin book.receipts /\ pend = Receipt(book, CapRejection)
        BY <1>1, <1>4, <2>3, AcceptsByKind DEF AcceptsReceipt
      <3> QED BY <1>1, <2>1, <3>1 DEF RejectionRecord, ChainFits
    <2>4. CASE pend.kind = "EVENT"
      <3>1. CapRejection \in book.receipts \ book.events /\ pend = Event(CapRejection)
        BY <1>1, <1>4, <2>4, AcceptsByKind, RecordsRebuilt DEF AcceptsEvent
      <3> QED BY <2>1, <3>1 DEF RejectionRecord
    <2>5. CASE pend.kind = "SNAPSHOT"
      <3>1. /\ CapRejection \in book.receipts /\ CapRejection \in book.events
            /\ pend = Snapshot(book, CapRejection)
        BY <1>1, <1>4, <2>5, AcceptsByKind DEF AcceptsSnapshot, ChainFits
      <3> QED BY <2>1, <3>1 DEF RejectionRecord
    <2> QED BY <2>1, <2>2, <2>3, <2>4, <2>5
  <1> QED BY <1>1, <1>2, <1>3, <1>4 DEF Subjects

\* Every unfinished unit is the rejection's, or some settlement continues it.
LEMMA FrontierResumes ==
    ASSUME CapInv, NEW f \in Frontier(book), f[2] # CapRejection
    PROVE  \E s \in Settlements :
             /\ ~SettlementRefused(None, book, f[2], s)
             /\ pend \in {None, SettlementRecord(book, f[2], s)}
  <1>1. /\ book \in Books /\ ChainFits(book)
        /\ JoinStatus(book) # "AWAITING_ADMISSION"
    BY AwaitedIsQuiet DEF CapInv, BookFits
  <1>2. /\ f[1] \in {"CELL", "EVIDENCE", "SETTLEMENT", "RECEIPT", "EVENT"} /\ f[2] \in Ops
        /\ f[1] = "CELL" => book.cell[f[2]] # None /\ book.evidence[f[2]] = None
        /\ f[1] # "CELL" => book.evidence[f[2]] # None
    <2>1. book.settled \subseteq Ops /\ book.receipts \subseteq Subjects
      BY <1>1 DEF Books
    <2> QED BY <1>1, <2>1, FrontierByStage DEF ChainFits, Subjects
  <1>3. CASE pend # None
    <2>1. pend.kind = Follower[f[1]] /\ pend.subject = f[2]
      BY <1>3, AcceptsByKind DEF CapInv, PendFits, Fitting, ContinuesUnit
    <2>2. pend.kind \notin {"RESERVATION", "ADMISSION"}
      BY <1>2, <2>1 DEF Follower
    <2> QED BY <1>2, <1>3, <2>1, <2>2, PendSettles
  <1>4. CASE pend = None /\ f[1] # "CELL"
    BY <1>1, <1>2, <1>4, EvidenceSettles
  <1>5. CASE pend = None /\ f[1] = "CELL"
    <2>1. book.cell[f[2]] \in Lifecycles
      BY <1>1, <1>2, <1>5 DEF Books
    <2>2. PICK s \in Settlements :
            Lifecycle(s) = book.cell[f[2]] /\ s \in {Conservative, KnownZero}
      BY <1>1, <1>2, <2>1, OutcomeFree DEF Lifecycles, ChainFits
    <2>3. ValidSettlement(s, book.res[f[2]])
      BY <2>2, OutcomeFree
    <2> QED BY <1>1, <1>2, <1>5, <2>2, <2>3, NotRefused
  <1> QED BY <1>3, <1>4, <1>5

-----------------------------------------------------------------------------
(* The ledger                                                              *)

\* What a record changes of the four fields the ledger is read from.
Moved(c, b, d) ==
    /\ c.res = IF d.kind = "RESERVATION" THEN [b.res EXCEPT ![d.subject] = d.req] ELSE b.res
    /\ c.cell = IF d.kind = "CELL" THEN [b.cell EXCEPT ![d.subject] = d.state] ELSE b.cell
    /\ c.evidence = IF d.kind = "EVIDENCE"
                      THEN [b.evidence EXCEPT ![d.subject] = d.settlement] ELSE b.evidence
    /\ c.settled = IF d.kind = "SETTLEMENT" THEN b.settled \cup {d.subject} ELSE b.settled

LEMMA AddedMoves ==
    ASSUME NEW b \in Books, NEW d \in Records
    PROVE  Moved(Added(b, d), b, d) /\ Moved(Applied(b, d), b, d)
  <1>1. d.kind \in RecordKinds
    BY RecordFields
  <1>2. CASE d.kind = "RESERVATION"
    BY <1>2 DEF Moved, Added, Applied, Books
  <1>3. CASE d.kind = "ADMISSION"
    BY <1>3 DEF Moved, Added, Applied, Books
  <1>4. CASE d.kind = "CELL"
    BY <1>4 DEF Moved, Added, Applied, Books
  <1>5. CASE d.kind = "EVIDENCE"
    BY <1>5 DEF Moved, Added, Applied, Books
  <1>6. CASE d.kind = "SETTLEMENT"
    BY <1>6 DEF Moved, Added, Applied, Books
  <1>7. CASE d.kind = "RECEIPT"
    BY <1>7 DEF Moved, Added, Applied, Books
  <1>8. CASE d.kind = "EVENT"
    BY <1>8 DEF Moved, Added, Applied, Books
  <1>9. CASE d.kind = "SNAPSHOT"
    BY <1>9 DEF Moved, Added, Applied, Books
  <1> QED BY <1>1, <1>2, <1>3, <1>4, <1>5, <1>6, <1>7, <1>8, <1>9 DEF RecordKinds

\* The operations of a path in the ledger, while no append is pending.
LEMMA LedgerSets ==
    ASSUME CapInv, pend = None, NEW path
    PROVE  /\ Ledger!Unspent(path) = Unsettled(book, path)
           /\ Ledger!Spent(path) = SettledOn(book, path)
  <1>1. Entered = book /\ ChainFits(book) /\ book \in Books
    BY DEF Entered, CapInv, BookFits
  <1>2. ASSUME NEW o \in book.settled
        PROVE  /\ o \in Ops /\ book.res[o] # None
               /\ Charge(book.evidence[o], book.res[o]) \in Nat
    <2>1. o \in Ops /\ o \in SettledOn(book, book.res[o].path)
      BY <1>1 DEF Books, SettledOn
    <2> QED BY <1>1, <2>1, TermsWeigh DEF Weighs, Costs
  <1>3. Ledger!On(path) = {o \in Ops : book.res[o] # None /\ book.res[o].path = path}
    BY <1>1 DEF Ledger!On
  <1>4. Ledger!Unspent(path) = Unsettled(book, path)
    BY <1>1, <1>2, <1>3, NothingIsNothing DEF Ledger!Unspent, Unsettled
  <1>5. Ledger!Spent(path) = SettledOn(book, path)
    BY <1>2, <1>3, <1>4 DEF Ledger!Spent, Unsettled, SettledOn
  <1> QED BY <1>4, <1>5

\* The folds of the ledger are the totals of the book.
LEMMA LedgerOutstanding ==
    ASSUME CapInv, pend = None, NEW path \in Paths
    PROVE  Ledger!Outstanding(path) = book.outstanding[path]
  <1> DEFINE S == Ledger!Unspent(path)  w == Uppers(book)
             Solves(g) == g = [s \in SUBSET S |->
                IF s = {} THEN 0 ELSE Entered.res[Pick(s)].upper + g[s \ {Pick(s)}]]
  <1>1. Entered = book /\ ChainFits(book) /\ book \in Books /\ OutstandingFits(book, path)
    BY DEF Entered, CapInv, BookFits, TotalsFit
  <1>2. Weighs(w, S) /\ S \subseteq Ops /\ S = Unsettled(book, path)
    BY <1>1, TermsWeigh, LedgerSets
  <1>3. \A s \in SUBSET S : s # {} => w[Pick(s)] = Entered.res[Pick(s)].upper
    BY <1>1, <1>2, PickIsElement DEF Uppers
  <1>4. Ledger!Outstanding(path) = (CHOOSE g : Solves(g))[S]
    BY DEF Ledger!Outstanding, Ledger!MapThenSumSet, Ledger!MapThenFoldSet, Pick
  <1>5. \A g : Solves(g) <=> Sums(g, w, S)
    BY <1>3 DEF Sums
  <1> HIDE DEF Solves, S
  <1>6. \E g : Solves(g)
    BY <1>2, <1>5, SumsExist
  <1>7. Solves(CHOOSE g : Solves(g))
    BY <1>6
  <1>8. IsSum(Ledger!Outstanding(path), w, S)
    BY <1>4, <1>5, <1>7 DEF IsSum
  <1> QED BY <1>1, <1>2, <1>8, SumUnique DEF OutstandingFits, Weighs

LEMMA LedgerCharged ==
    ASSUME CapInv, pend = None, NEW path \in Paths
    PROVE  Ledger!Charged(path) = book.charged[path]
  <1> DEFINE S == Ledger!Spent(path)  w == Costs(book)
             spent == [o \in Ops |-> IF o \in Entered.settled
                                     THEN Charge(Entered.evidence[o], Entered.res[o])
                                     ELSE None]
             Solves(g) == g = [s \in SUBSET S |->
                IF s = {} THEN 0 ELSE spent[Pick(s)] + g[s \ {Pick(s)}]]
  <1>1. /\ Entered = book /\ ChainFits(book) /\ book \in Books /\ ChargedFits(book, path)
        /\ book.charged[path] \in Nat
    BY DEF Entered, CapInv, BookFits, TotalsFit, Books
  <1>2. Weighs(w, S) /\ S \subseteq Ops /\ S = SettledOn(book, path)
    BY <1>1, TermsWeigh, LedgerSets
  <1>3. \A o \in S : w[o] = spent[o]
    BY <1>1, <1>2 DEF Costs, SettledOn
  <1>4. CASE path \in MaxPaths
    <2>1. Ledger!Charged(path) = Max({0} \cup {spent[o] : o \in S})
      BY <1>4 DEF Ledger!Charged, Ledger!Max, Max
    <2> HIDE DEF spent, S
    <2>2. {spent[o] : o \in S} = {w[o] : o \in S}
      BY <1>3
    <2> DEFINE T == {0} \cup {w[o] : o \in S}
    <2>3. /\ book.charged[path] \in T /\ T \subseteq Nat
          /\ \A y \in T : book.charged[path] >= y
      BY <1>1, <1>2, <1>4 DEF ChargedFits, IsPeak, Weighs
    <2> DEFINE n == book.charged[path]
    <2> HIDE DEF T
    <2>4. Max(T) \in T /\ \A y \in T : Max(T) >= y
      BY <2>3 DEF Max
    <2> DEFINE m == Max(T)
    <2>5. m \in Nat /\ n \in Nat /\ m >= n /\ n >= m
      BY <2>3, <2>4
    <2> HIDE DEF m, n
    <2>6. m = n
      BY <2>5
    <2> QED BY <2>1, <2>2, <2>6 DEF T, m, n
  <1>5. CASE path \notin MaxPaths
    <2>1. Ledger!Charged(path) = (CHOOSE g : Solves(g))[S]
      BY <1>5 DEF Ledger!Charged, Ledger!MapThenSumSet, Ledger!MapThenFoldSet, Pick
    <2> HIDE DEF spent
    <2>2. \A s \in SUBSET S : s # {} => w[Pick(s)] = spent[Pick(s)]
      BY <1>3, PickIsElement
    <2>3. \A g : Solves(g) <=> Sums(g, w, S)
      BY <2>2 DEF Sums
    <2> HIDE DEF Solves, S
    <2>4. \E g : Solves(g)
      BY <1>2, <2>3, SumsExist
    <2>5. Solves(CHOOSE g : Solves(g))
      BY <2>4
    <2>6. IsSum(Ledger!Charged(path), w, S)
      BY <2>1, <2>3, <2>5 DEF IsSum
    <2> QED BY <1>1, <1>2, <1>5, <2>6, SumUnique DEF ChargedFits, Weighs
  <1> QED BY <1>4, <1>5

\* A charge beyond the reservation is an overrun, and poisons the owner.
LEMMA CleanLedger ==
    ASSUME CapInv, pend = None, ~Poisoned(book)
    PROVE  ~Ledger!Overrun
  <1>1. Entered = book /\ ChainFits(book) /\ book \in Books /\ OverrunFits(book)
    BY DEF Entered, CapInv, BookFits
  <1>2. ASSUME NEW o \in Ops, o \in book.settled
        PROVE  ~(Charge(book.evidence[o], book.res[o]) > book.res[o].upper)
    <2> DEFINE s == book.evidence[o]  r == book.res[o]
    <2>1. s # None /\ ValidSettlement(s, r) /\ s \in Settlements /\ r # None
      BY <1>1, <1>2, UnreservedIsBlank DEF ChainFits, Books
    <2>2. r \in Requests
      BY <1>1, <2>1 DEF Books
    <2>3. s.basis # "OBSERVED_OVERRUN"
      BY <1>1, <2>1 DEF OverrunFits, Poisoned
    <2>4. s.basis \in Bases /\ s.value \in Nat /\ r.upper \in Nat
      BY <2>1, <2>2, SettlementFields, RequestFields
    <2> HIDE DEF s, r
    <2>5. ~(Charge(s, r) > r.upper)
      BY <2>1, <2>3, <2>4 DEF Bases, ValidSettlement, Charge
    <2> QED BY <2>5 DEF s, r
  <1> QED BY <1>1, <1>2 DEF Ledger!Overrun

\* What a step does to the journal, and what is asked of a new reservation and
\* of a new start.
Untouched == book' = book /\ pend' = pend
Entering(d) ==
    /\ pend = None /\ pend' = d /\ book' = book
    /\ d.kind = "RESERVATION" => GateOpen /\ ~NotAdmissible(book, d.req)
    /\ d.kind = "CELL" /\ d.state = "SIDE_EFFECT_STARTED" => GateOpen /\ ~Poisoned(book)
Journals ==
    /\ rejection' = rejection
    /\ Untouched \/ Publishes \/ \E d \in Records : Entering(d)

LEMMA AppendsJournals ==
    ASSUME CapInv, NEW p, NEW d \in Records, NEW next, Appends(p, d, next),
           rejection' = rejection,
           pend = None /\ ContinuesUnit(book, d) =>
             /\ d.kind = "RESERVATION" => GateOpen /\ ~NotAdmissible(book, d.req)
             /\ d.kind = "CELL" /\ d.state = "SIDE_EFFECT_STARTED" =>
                  GateOpen /\ ~Poisoned(book)
    PROVE  Journals
  <1>1. d # None
    BY NothingIsNothing
  <1> QED BY <1>1 DEF Appends, Refuses, Journals, Untouched, Publishes, Entering, journal

LEMMA ReserveJournals ==
    ASSUME CapInv, NEW p \in Procs, Reserve(p)
    PROVE  Journals
  <1> DEFINE r == call[p].req  d == Reservation(book, r)
  <1>1. /\ r \in Requests /\ GateOpen /\ rejection' = rejection
    BY ProcFacts DEF Reserve, CallFits, gate
  <1>2. CASE UNCHANGED journal
    BY <1>1, <1>2 DEF Journals, Untouched, journal
  <1>3. CASE ~NotAdmissible(book, r) /\ d.kind = "RESERVATION" /\ Appends(p, d, "work")
    <2>1. d \in Records /\ d.req = r
      BY <1>1, ProcFacts, ReservationIsRecord
    <2> HIDE DEF d
    <2> QED BY <1>1, <1>3, <2>1, AppendsJournals
  <1> QED BY <1>2, <1>3 DEF Reserve, Refuses

\* A rejection appends its admission and its unit, no reservation and no start.
LEMMA RecordRejectionJournals ==
    ASSUME CapInv, NEW p \in Procs, RecordRejection(p)
    PROVE  Journals
  <1> DEFINE d == RejectionRecord(book)
  <1>1. /\ IsLocal(rejection) /\ rejection' = rejection
    BY ProcFacts DEF RecordRejection, CallFits, gate
  <1>2. CASE UNCHANGED journal
    BY <1>1, <1>2 DEF Journals, Untouched, journal
  <1>3. CASE Appends(p, d, "work")
    <2>1. d \in Records /\ d.kind \notin {"RESERVATION", "CELL"}
      <3>1. CASE book.admission = None
        <4>1. d = Reservation(book, rejection.req)
          BY <3>1 DEF RejectionRecord, CapInv, BookFits, AdmissionFits
        <4> QED BY <1>1, <3>1, <4>1, ProcFacts, FrozenIsAdmission, ReservationIsRecord
      <3>2. CASE book.admission # None
        <4>1. d \in {Receipt(book, CapRejection), Event(CapRejection),
                     Snapshot(book, CapRejection)}
          BY <3>2 DEF RejectionRecord
        <4> QED BY <4>1, ProcFacts, UnitIsRecord DEF Subjects
      <3> QED BY <3>1, <3>2
    <2> HIDE DEF d
    <2> QED BY <1>1, <1>3, <2>1, AppendsJournals
  <1> QED BY <1>2, <1>3 DEF RecordRejection, Refuses

LEMMA RecoverPendingJournals ==
    ASSUME CapInv, NEW p \in Procs, RecoverPending(p)
    PROVE  Journals
  <1> DEFINE d == Reservation(book, call[p].req)
  <1>1. call[p].req \in Requests /\ rejection' = rejection
    BY ProcFacts DEF RecoverPending, CallFits, gate
  <1>2. CASE UNCHANGED journal
    BY <1>1, <1>2 DEF Journals, Untouched, journal
  <1>3. CASE pend = d /\ Appends(p, d, "finish")
    <2>1. d \in Records /\ d # None
      BY <1>1, ProcFacts, ReservationIsRecord, NothingIsNothing
    <2> HIDE DEF d
    <2> QED BY <1>1, <1>3, <2>1, AppendsJournals
  <1> QED BY <1>2, <1>3 DEF RecoverPending, Refuses

LEMMA HoldSideEffectJournals ==
    ASSUME CapInv, NEW p \in Procs, HoldSideEffect(p)
    PROVE  Journals
  <1> DEFINE o == call[p].op  d == Cell(o, "SIDE_EFFECT_STARTED")
  <1>1. /\ o \in Ops /\ rejection' = rejection /\ GateOpen
    BY ProcFacts DEF HoldSideEffect, CallFits, LocksFit, InGate, SharedFits, gate
  <1>2. CASE UNCHANGED journal
    BY <1>1, <1>2 DEF Journals, Untouched, journal
  <1>3. CASE ~Poisoned(book) /\ Appends(p, d, "enter")
    <2>1. d \in Records /\ d.kind = "CELL"
      BY <1>1 DEF Cell, Records, Lifecycles
    <2> HIDE DEF d
    <2> QED BY <1>1, <1>3, <2>1, AppendsJournals
  <1> QED BY <1>2, <1>3 DEF HoldSideEffect, Refuses

\* A settlement announces no start: it takes up one that is pending.
LEMMA SettleJournals ==
    ASSUME CapInv, NEW p \in Procs, Settle(p)
    PROVE  Journals
  <1> DEFINE o == call[p].op  s == call[p].settlement  d == SettlementRecord(book, o, s)
  <1>1. /\ o \in Ops /\ s \in Settlements /\ rejection' = rejection /\ Lifecycle(s) \in Lifecycles
        /\ book \in Books /\ ChainFits(book)
    BY ProcFacts, SettlementFields DEF Settle, CallFits, gate, CapInv, BookFits
  <1>2. CASE UNCHANGED journal
    BY <1>1, <1>2 DEF Journals, Untouched, journal
  <1>3. CASE ~SettlementRefused(p, book, o, s) /\ Appends(p, d, "work")
    <2>1. /\ \/ /\ book.cell[o] = None /\ d = Cell(o, Lifecycle(s))
                /\ d.kind = "CELL" /\ d.state = Lifecycle(s)
             \/ d.kind \notin {"RESERVATION", "CELL"}
          /\ d \in Records
      <3>1. \/ book.cell[o] = None /\ d = Cell(o, Lifecycle(s))
            \/ d = Evidence(o, s)
            \/ book.evidence[o] # None /\ d = Settlement(book, o)
            \/ d \in {Receipt(book, o), Event(o), Snapshot(book, o)}
        BY <1>1, SettlementRecordByStage
      <3> HIDE DEF d
      <3> QED BY <1>1, <3>1, OperationIsRecord, SettlementIsRecord, UnitIsRecord DEF Subjects
    <2>2. pend = None => ~(book.cell[o] = None /\ Lifecycle(s) = "SIDE_EFFECT_STARTED")
      <3>1. Cell(o, "SIDE_EFFECT_STARTED") # None
        BY <1>1, OperationIsRecord, NothingIsNothing DEF Lifecycles
      <3> QED BY <1>3, <3>1 DEF SettlementRefused
    <2> HIDE DEF d
    <2> QED BY <1>1, <1>3, <2>1, <2>2, AppendsJournals
  <1> QED BY <1>2, <1>3 DEF Settle, Refuses

\* Every step changes the journal or closes the gate, never both.
LEMMA StepJournals ==
    ASSUME CapInv, [CapNext]_capVars
    PROVE  Journals \/ (Untouched /\ GateOpen /\ rejection' # None)
  <1>1. CASE UNCHANGED capVars
    BY <1>1 DEF capVars, journal, gate, Journals, Untouched
  <1>2. ASSUME NEW p \in Procs, Runs(p)
        PROVE  Journals \/ (Untouched /\ GateOpen /\ rejection' # None)
    <2>1. CASE \/ NextStage(p) \/ AcquireOwner(p) \/ Synchronize(p) \/ Lookup(p)
               \/ FinishPending(p) \/ RecoverExact(p) \/ EnterBody(p) \/ LeaveBody(p)
               \/ Replay(p)
      BY <2>1 DEF NextStage, ReplayGate, AcquireOwner, Synchronize, Lookup, FinishPending,
         RecoverExact, EnterBody, LeaveBody, Replay, journal, gate, Journals, Untouched
    <2>2. CASE Acknowledge(p)
      BY <2>2 DEF Acknowledge, Slot!Acknowledge, journal, gate, Journals, Untouched
    <2>3. CASE Recover(p)
      BY <2>3 DEF Recover, gate, Journals, Untouched, Publishes
    <2>4. CASE CommitRejection(p)
      <3>1. /\ Untouched /\ rejection = None
            /\ rejection' = Local(call[p].req, Candidate(book, call[p].req))
            /\ call[p].req \in Requests /\ book \in Books
        BY <2>4, ProcFacts DEF CommitRejection, Slot!Reject, journal, Untouched, CallFits
      <3>2. rejection' \in Locals
        BY <3>1, ReservationIsRecord DEF Local, Locals
      <3> QED BY <3>1, <3>2, NothingIsNothing DEF GateOpen
    <2> QED BY <1>2, <2>1, <2>2, <2>3, <2>4, ReserveJournals, RecordRejectionJournals,
               RecoverPendingJournals, HoldSideEffectJournals, SettleJournals
            DEF Runs, Acquires
  <1>3. ASSUME NEW p \in Procs, CallFails(p) \/ Crash(p)
        PROVE  Journals
    BY <1>3 DEF CallFails, Crash, journal, gate, Journals, Untouched
  <1>4. ASSUME NEW p \in Procs, NEW r \in Requests, AdmissionGate(p, r)
        PROVE  Journals
    BY <1>4 DEF AdmissionGate, journal, gate, Journals, Untouched
  <1>5. ASSUME NEW p \in Procs, NEW o \in Ops, SideEffectGate(p, o)
        PROVE  Journals
    BY <1>5 DEF SideEffectGate, journal, gate, Journals, Untouched
  <1>6. ASSUME NEW p \in Procs, NEW c \in JoinedCalls, JoinGate(p, c) \/ GuardedCall(p, c)
        PROVE  Journals
    BY <1>6 DEF JoinGate, ReplayGate, GuardedCall, journal, gate, Journals, Untouched
  <1>7. CASE ExternalRejects
    BY <1>7, ExternalIsOther DEF ExternalRejects, Slot!Reject, journal, Untouched, GateOpen
  <1>8. CASE ExternalAcknowledges
    BY <1>8 DEF ExternalAcknowledges, Slot!Acknowledge, journal, Journals, Untouched
  <1> QED BY <1>1, <1>2, <1>3, <1>4, <1>5, <1>6, <1>7, <1>8 DEF CapNext

\* Every step is a step of the ledger.
Started(b) == {o \in Ops : b.cell[o] = "SIDE_EFFECT_STARTED"}
Spending(b) ==
    [o \in Ops |-> IF o \in b.settled THEN Charge(b.evidence[o], b.res[o]) ELSE None]

LEMMA LedgerRests ==
    ASSUME Entered'.res = Entered.res, Started(Entered') = Started(Entered),
           Spending(Entered') = Spending(Entered), (rejection # None)' = (rejection # None)
    PROVE  UNCHANGED Ledger!ledgerVars
  BY DEF Ledger!ledgerVars, Started, Spending

\* A record that enters the book is one its replay takes.
LEMMA EnteringMoves ==
    ASSUME CapInv, CapInv', NEW d \in Records, Entering(d)
    PROVE  /\ Entered = book /\ Moved(Entered', book, d) /\ Fitting(book, d)
           /\ book \in Books /\ ChainFits(book)
  <1>1. pend' # None /\ Entered = book /\ Entered' = Added(book, d)
    BY NothingIsNothing DEF Entering, Entered
  <1>2. Fitting(book, d)
    BY <1>1 DEF Entering, CapInv, PendFits
  <1> QED BY <1>1, <1>2, AddedMoves DEF CapInv, BookFits

\* A reservation is an admission under the cap.
LEMMA ReservationAdmits ==
    ASSUME CapInv, CapInv', NEW d \in Records, Entering(d), d.kind = "RESERVATION",
           rejection' = rejection
    PROVE  d.req \in Requests /\ Ledger!Admit(d.req)
  <1> DEFINE r == d.req
  <1>1. /\ Entered = book /\ Moved(Entered', book, d) /\ Fitting(book, d)
        /\ book \in Books /\ ChainFits(book) /\ pend = None
        /\ GateOpen /\ ~NotAdmissible(book, r)
    BY EnteringMoves DEF Entering
  <1>2. /\ r \in Requests /\ r.op \in Ops /\ d.subject = r.op
        /\ r.path \in Paths /\ r.upper \in Nat
    BY <1>1, RecordFields, RequestFields DEF Fitting
  <1>3. book.res[r.op] = None /\ ~Exposed(book, r) /\ d = Reservation(book, r)
    BY <1>1, <1>2, AcceptsByKind DEF Fitting, AcceptsReservation
  <1>4. Candidate(book, r) <= Cap[r.path]
    <2>1. Candidate(book, r) \in Nat /\ Cap[r.path] \in Nat
      BY <1>1, <1>2, ReservationIsRecord, CapsNat
    <2>2. ~(Candidate(book, r) > Cap[r.path])
      BY <1>1, <1>2, <1>3, ReservationIsRecord
    <2> QED BY <2>1, <2>2
  <1>5. Ledger!Fits(r)
    <2>1. /\ Ledger!Outstanding(r.path) = book.outstanding[r.path]
          /\ Ledger!Charged(r.path) = book.charged[r.path]
      BY <1>1, <1>2, LedgerOutstanding, LedgerCharged
    <2>2. r.path \in MaxPaths =>
            /\ book.outstanding[r.path] = 0
            /\ Max({book.charged[r.path], r.upper}) <= Cap[r.path]
      BY <1>3, <1>4 DEF Candidate, Exposed
    <2>3. r.path \notin MaxPaths =>
            book.charged[r.path] + book.outstanding[r.path] + r.upper <= Cap[r.path]
      BY <1>4 DEF Candidate
    <2> QED BY <2>1, <2>2, <2>3 DEF Ledger!Fits, Max, Ledger!Max
  <1>6. ~Ledger!Overrun
    BY <1>1, CleanLedger DEF NotAdmissible
  <1>7. /\ Entered'.res = [Entered.res EXCEPT ![r.op] = r]
        /\ Entered'.cell = book.cell /\ Entered'.evidence = book.evidence
        /\ Entered'.settled = book.settled
    BY <1>1, <1>2 DEF Moved
  <1>8. r.op \notin book.settled
    BY <1>1, <1>2, <1>3, UnreservedIsBlank DEF ChainFits
  <1>9. Started(Entered') = Started(Entered) /\ Spending(Entered') = Spending(Entered)
    BY <1>1, <1>2, <1>7, <1>8 DEF Started, Spending, Books
  <1> HIDE DEF r
  <1>10. Ledger!Admit(r)
    BY <1>1, <1>3, <1>5, <1>6, <1>7, <1>9 DEF Ledger!Admit, Started, Spending, GateOpen
  <1> QED BY <1>2, <1>10 DEF r

\* A native cell of a started effect is its start, any other leaves the ledger.
LEMMA CellStarts ==
    ASSUME CapInv, CapInv', NEW d \in Records, Entering(d), d.kind = "CELL",
           rejection' = rejection
    PROVE  UNCHANGED Ledger!ledgerVars \/ (d.subject \in Ops /\ Ledger!Start(d.subject))
  <1> DEFINE o == d.subject
  <1>1. /\ Entered = book /\ Moved(Entered', book, d) /\ Fitting(book, d)
        /\ book \in Books /\ ChainFits(book) /\ pend = None
    BY EnteringMoves DEF Entering
  <1>2. o \in Ops /\ d.state \in Lifecycles
    BY RecordFields
  <1>3. book.res[o] # None /\ book.cell[o] = None
    BY <1>1, AcceptsByKind DEF Fitting, AcceptsCell
  <1>4. o \notin book.settled
    BY <1>1, <1>2, <1>3, SettlementFields, NothingIsNothing DEF ChainFits, Books
  <1>5. /\ Entered'.res = book.res /\ Spending(Entered') = Spending(Entered)
        /\ Entered'.cell = [book.cell EXCEPT ![o] = d.state]
    BY <1>1 DEF Moved, Spending
  <1>6. CASE d.state = "KNOWN_NOT_STARTED"
    <2>1. Started(Entered') = Started(Entered)
      BY <1>1, <1>2, <1>3, <1>5, <1>6, NothingIsNothing DEF Started, Books, Lifecycles
    <2> QED BY <1>1, <1>5, <2>1, LedgerRests
  <1>7. CASE d.state = "SIDE_EFFECT_STARTED"
    <2>1. GateOpen /\ ~Ledger!Overrun
      BY <1>1, <1>7, CleanLedger DEF Entering
    <2>2. Started(Entered') = Started(Entered) \cup {o} /\ o \notin Started(Entered)
      BY <1>1, <1>2, <1>3, <1>5, <1>7, NothingIsNothing DEF Started, Books, Lifecycles
    <2>3. Spending(Entered)[o] = None
      BY <1>1, <1>2, <1>4 DEF Spending
    <2> HIDE DEF o
    <2>4. Ledger!Start(o)
      BY <1>1, <1>3, <1>5, <2>1, <2>2, <2>3 DEF Ledger!Start, Started, Spending, GateOpen
    <2> QED BY <1>2, <2>4 DEF o
  <1> QED BY <1>2, <1>6, <1>7 DEF Lifecycles

\* A settlement spends what its evidence says.
LEMMA SettlementSpends ==
    ASSUME CapInv, CapInv', NEW d \in Records, Entering(d), d.kind = "SETTLEMENT",
           rejection' = rejection
    PROVE  /\ d.subject \in Ops
           /\ \E charge \in {s.value : s \in Settlements} \cup {r.upper : r \in Requests} :
                Ledger!Spend(d.subject, charge)
  <1> DEFINE o == d.subject  charge == Charge(book.evidence[o], book.res[o])
  <1>1. /\ Entered = book /\ Moved(Entered', book, d) /\ Fitting(book, d)
        /\ book \in Books /\ ChainFits(book)
    BY EnteringMoves DEF Entering
  <1>2. o \in Ops
    BY RecordFields
  <1>3. book.evidence[o] # None /\ o \notin book.settled
    BY <1>1, AcceptsByKind DEF Fitting, AcceptsSettlement
  <1>4. /\ book.evidence[o] \in Settlements /\ book.res[o] \in Requests
        /\ book.res[o] # None /\ book.cell[o] = Lifecycle(book.evidence[o])
        /\ ValidSettlement(book.evidence[o], book.res[o])
    BY <1>1, <1>2, <1>3, UnreservedIsBlank DEF ChainFits, Books
  <1>5. charge \in {s.value : s \in Settlements} \cup {r.upper : r \in Requests}
    BY <1>4 DEF Charge
  <1>6. o \notin Started(book) => charge = 0
    BY <1>2, <1>4, SettlementFields DEF Started, Lifecycle, Charge, ValidSettlement, Bases
  <1>7. /\ Entered'.res = book.res /\ Entered'.cell = book.cell
        /\ Entered'.evidence = book.evidence /\ Entered'.settled = book.settled \cup {o}
    BY <1>1 DEF Moved
  <1>8. /\ Started(Entered') = Started(Entered) /\ Spending(Entered)[o] = None
        /\ Spending(Entered') = [Spending(Entered) EXCEPT ![o] = charge]
    BY <1>1, <1>2, <1>3, <1>7 DEF Started, Spending
  <1> DEFINE Charges == {s.value : s \in Settlements} \cup {r.upper : r \in Requests}
  <1>9. ASSUME NEW c \in Charges, c = charge
        PROVE  Ledger!Spend(o, c)
    <2> HIDE DEF o, charge, Charges
    <2> QED BY <1>1, <1>4, <1>6, <1>7, <1>8, <1>9 DEF Ledger!Spend, Started, Spending
  <1>10. \E c \in Charges : Ledger!Spend(o, c)
    <2> HIDE DEF o, charge
    <2>1. PICK c \in Charges : c = charge
      BY <1>5
    <2> QED BY <1>9, <2>1
  <1> QED BY <1>2, <1>10

\* The other records leave the ledger.
LEMMA OthersRest ==
    ASSUME CapInv, CapInv', NEW d \in Records, Entering(d),
           d.kind \notin {"RESERVATION", "CELL", "SETTLEMENT"}, rejection' = rejection
    PROVE  UNCHANGED Ledger!ledgerVars
  <1>1. /\ Entered = book /\ Moved(Entered', book, d) /\ Fitting(book, d)
        /\ book \in Books /\ ChainFits(book)
    BY EnteringMoves DEF Entering
  <1>2. /\ Entered'.res = book.res /\ Entered'.settled = book.settled
        /\ Started(Entered') = Started(Entered)
    BY <1>1 DEF Moved, Started
  <1>3. \A o \in book.settled : Entered'.evidence[o] = book.evidence[o]
    <2>1. CASE d.kind = "EVIDENCE"
      <3>1. book.evidence[d.subject] = None
        BY <1>1, <2>1, AcceptsByKind DEF Fitting, AcceptsEvidence
      <3>2. d.subject \notin book.settled
        BY <1>1, <3>1 DEF ChainFits, Books
      <3> QED BY <1>1, <2>1, <3>2 DEF Moved, Books
    <2> QED BY <1>1, <2>1 DEF Moved
  <1>4. Spending(Entered') = Spending(Entered)
    BY <1>1, <1>2, <1>3 DEF Spending
  <1> QED BY <1>1, <1>2, <1>4, LedgerRests

\* A published record counted already.
LEMMA PublishingRests ==
    ASSUME CapInv, CapInv', Publishes, rejection' = rejection
    PROVE  UNCHANGED Ledger!ledgerVars
  <1>1. /\ pend # None /\ pend \in Records /\ pend' = None /\ book' = Applied(book, pend)
        /\ book \in Books
    BY DEF Publishes, CapInv, CapTypeOK
  <1>2. Entered = Added(book, pend) /\ Entered' = Applied(book, pend)
    BY <1>1 DEF Entered
  <1>3. Moved(Entered, book, pend) /\ Moved(Entered', book, pend)
    BY <1>1, <1>2, AddedMoves
  <1>4. /\ Entered'.res = Entered.res /\ Entered'.cell = Entered.cell
        /\ Entered'.evidence = Entered.evidence /\ Entered'.settled = Entered.settled
    BY <1>3 DEF Moved
  <1> QED BY <1>4, LedgerRests DEF Started, Spending

LEMMA LedgerSteps ==
    ASSUME CapInv, CapInv', [CapNext]_capVars
    PROVE  [Ledger!LedgerNext]_(Ledger!ledgerVars)
  <1>1. CASE Untouched
    <2>1. Entered' = Entered
      BY <1>1 DEF Untouched, Entered
    <2>2. CASE rejection' = rejection
      BY <2>1, <2>2, LedgerRests
    <2>3. CASE GateOpen /\ rejection' # None
      <3>1. Ledger!Close
        BY <2>1, <2>3 DEF Ledger!Close, GateOpen
      <3> QED BY <3>1 DEF Ledger!LedgerNext
    <2> QED BY <2>2, <2>3, StepJournals DEF Journals
  <1>2. CASE Publishes /\ rejection' = rejection
    BY <1>2, PublishingRests
  <1>3. ASSUME NEW d \in Records, Entering(d), rejection' = rejection
        PROVE  [Ledger!LedgerNext]_(Ledger!ledgerVars)
    <2>1. CASE d.kind = "RESERVATION"
      BY <1>3, <2>1, ReservationAdmits DEF Ledger!LedgerNext
    <2>2. CASE d.kind = "CELL"
      BY <1>3, <2>2, CellStarts DEF Ledger!LedgerNext
    <2>3. CASE d.kind = "SETTLEMENT"
      BY <1>3, <2>3, SettlementSpends DEF Ledger!LedgerNext
    <2>4. CASE d.kind \notin {"RESERVATION", "CELL", "SETTLEMENT"}
      BY <1>3, <2>4, OthersRest
    <2> QED BY <2>1, <2>2, <2>3, <2>4
  <1> QED BY <1>1, <1>2, <1>3, StepJournals DEF Journals

LEMMA LedgerInits ==
    ASSUME CapInit
    PROVE  Ledger!LedgerInit
  BY NothingIsNothing DEF CapInit, Ledger!LedgerInit, Entered, InitialBook, Lifecycles

-----------------------------------------------------------------------------
(* Theorems                                                                *)

\* The inductive invariant, whatever the calls, their interleaving and the
\* crashes.
THEOREM CapInvariant == CapSpec => []CapInv
  <1>1. CapInit => CapInv
    BY InitFits
  <1>2. CapInv /\ [CapNext]_capVars => CapInv'
    BY NextFits
  <1> QED BY <1>1, <1>2, PTL DEF CapSpec

\* Types: the totals of the journal never become negative.
THEOREM CapTypesCorrect == CapSpec => []CapTypeOK
  <1>1. CapInv => CapTypeOK
    BY DEF CapInv
  <1> QED BY <1>1, CapInvariant, PTL

\* Wherever a crash leaves gate and journal, _validate_owner_gate_join finds
\* one of the states it explains, with and without the pending append.
THEOREM JoinsExplainable == CapSpec => []JoinExplainable
  <1>1. CapInv => JoinExplainable
    BY NoConflict DEF JoinExplainable
  <1> QED BY <1>1, CapInvariant, PTL

\* Whatever a crash leaves unfinished some legal call can finish, the replay
\* refuses no journal, and a started effect is on record.
THEOREM OwnerResumable == CapSpec => []AlwaysResumable
  <1>1. CapInv => JournalReplays /\ PerformedRecorded
    BY EffectiveFits DEF CapInv, BookFits, JournalReplays
  <1>2. CapInv => AlwaysResumable
    BY <1>1, PendResumes, FrontierResumes DEF AlwaysResumable
  <1> QED BY <1>2, CapInvariant, PTL

\* The body of hold_h1_shared_cap_owner_v3_side_effect is entered at most once
\* for an operation, through every crash and retry.
THEOREM EffectsOnce == CapSpec => EffectOnce
  <1>1. ASSUME CapInv, [CapNext]_capVars, NEW p \in Procs, guard'[p] # guard[p]
        PROVE  guard'[p] \notin performed
    <2>1. PICK q \in Procs : \/ EnterBody(q)
                             \/ guard' = [guard EXCEPT ![q] = None]
      <3>1. ASSUME NEW q \in Procs, Runs(q)
            PROVE  EnterBody(q) \/ LeaveBody(q) \/ guard' = guard
        BY <3>1 DEF Runs, Acquires, NextStage, ReplayGate, Acknowledge, AcquireOwner,
           Recover, Reserve, CommitRejection, RecordRejection, Synchronize, Lookup,
           RecoverPending, FinishPending, RecoverExact, HoldSideEffect, Settle, Replay
      <3>2. ASSUME NEW q \in Procs, NEW r \in Requests, AdmissionGate(q, r)
            PROVE  guard' = guard
        BY <3>2 DEF AdmissionGate
      <3>3. ASSUME NEW q \in Procs, NEW o \in Ops, SideEffectGate(q, o)
            PROVE  guard' = guard
        BY <3>3 DEF SideEffectGate
      <3>4. ASSUME NEW q \in Procs, NEW c \in JoinedCalls, JoinGate(q, c) \/ GuardedCall(q, c)
            PROVE  guard' = guard
        BY <3>4 DEF JoinGate, ReplayGate, GuardedCall
      <3>5. ASSUME NEW q \in Procs, CallFails(q)
            PROVE  guard' = guard
        BY <3>5 DEF CallFails
      <3>6. ASSUME ExternalRejects \/ ExternalAcknowledges \/ UNCHANGED capVars
            PROVE  guard' = guard
        BY <3>6 DEF ExternalRejects, ExternalAcknowledges, capVars
      <3> QED BY <1>1, <3>1, <3>2, <3>3, <3>4, <3>5, <3>6 DEF CapNext, LeaveBody, Crash
    <2>2. CASE EnterBody(q)
      <3>1. guard' = [guard EXCEPT ![q] = call[q].op] /\ call[q].op \notin performed
        BY <1>1, <2>2, ProcFacts DEF EnterBody, CallFits
      <3> QED BY <1>1, <3>1, ProcFacts DEF ProcTypeOK
    <2>3. CASE guard' = [guard EXCEPT ![q] = None]
      <3>1. None \notin performed
        BY <1>1, NothingIsNothing DEF CapInv, CapTypeOK
      <3> QED BY <1>1, <2>3, <3>1, ProcFacts DEF ProcTypeOK
    <2> QED BY <2>1, <2>2, <2>3
  <1>2. CapInv /\ [CapNext]_capVars =>
          [\A p \in Procs : guard'[p] # guard[p] => guard'[p] \notin performed]_capVars
    BY <1>1
  <1> QED BY <1>2, CapInvariant, PTL DEF CapSpec, EffectOnce

\* The owner keeps what the ledger promises: every operation is admitted once
\* and under the hard caps of its path, started once, charged once and for what
\* never started nothing, and nothing is admitted or started once the gate is
\* rejected, whatever crashes come between the records.
THEOREM OwnerImplementsLedger == CapSpec => ImplementsLedger
  <1>1. CapInit => Ledger!LedgerInit
    BY LedgerInits
  <1>2. CapInv /\ CapInv' /\ [CapNext]_capVars => [Ledger!LedgerNext]_(Ledger!ledgerVars)
    BY LedgerSteps
  <1> QED BY <1>1, <1>2, CapInvariant, PTL DEF CapSpec, ImplementsLedger, Ledger!LedgerSpec
=============================================================================
