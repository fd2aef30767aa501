--------------------------- MODULE QuotientProofs ---------------------------
(***************************************************************************)
(* Safety of the quotient side of the system.  First the refinement of a   *)
(* partition, for every grammar, every base encoder, every set of          *)
(* candidates and every budget; then the audit of an abstract policy, for  *)
(* every finite kernel, labelling, partition, query, horizon and tolerance.*)
(***************************************************************************)
EXTENDS QuotientRefinement, QuotientAudit, FiniteSetTheorems, SequenceTheorems,
        WellFoundedInduction, TLAPS

\* State s is where the name of cell c says its members are.
Agrees(c, s) ==
    /\ encoder[s] = BaseCell(c.base)
    /\ \A i \in DOMAIN c.branches : Holds[c.branches[i][1]][s] = c.branches[i][2]

\* Cell d was made out of cell c by one split or more.
Below(d, c) ==
    /\ d.base = c.base
    /\ Len(c.branches) < Len(d.branches)
    /\ \A i \in 1..Len(c.branches) : d.branches[i] = c.branches[i]

\* A cell whose children were evaluated has been split, and something of it is
\* left below: it never comes back.
EvaluatedAreGone ==
    \A c \in DOMAIN evaluated : \E s \in States : Below(partition[s], c)

TreeTypes ==
    /\ encoder \in [States -> {BaseCell(b) : b \in BaseCells}]
    /\ partition \in [States -> Cells]
    /\ DOMAIN path \subseteq Cells /\ \A c \in DOMAIN path : path[c] \subseteq Predicates
    /\ DOMAIN evaluated \subseteq Cells

TreeFits ==
    /\ TreeTypes
    /\ encoder \in BaseEncoders
    /\ CellsFollowTheirPaths
    /\ EvaluatedAreGone

-----------------------------------------------------------------------------
(* Cells and their children                                                *)

\* A child is its parent with one branch more.
LEMMA ChildFacts ==
    ASSUME NEW c \in Cells, NEW p \in Predicates, NEW b \in BOOLEAN
    PROVE  /\ Child(c, p, b) \in Cells
           /\ Child(c, p, b).base = c.base
           /\ Len(c.branches) \in Nat
           /\ DOMAIN c.branches = 1..Len(c.branches)
           /\ DOMAIN Child(c, p, b).branches = 1..(Len(c.branches) + 1)
           /\ Len(Child(c, p, b).branches) = Len(c.branches) + 1
           /\ \A i \in 1..Len(c.branches) :
                 Child(c, p, b).branches[i] = c.branches[i]
           /\ Child(c, p, b).branches[Len(c.branches) + 1] = <<p, b>>
  <1>1. c.branches \in Seq(Branches) /\ c.base \in BaseCells
    BY DEF Cells
  <1>2. <<p, b>> \in Branches
    BY DEF Branches
  <1>3. /\ Child(c, p, b).base = c.base
        /\ Child(c, p, b).branches = Append(c.branches, <<p, b>>)
        /\ Child(c, p, b) \in [base : {c.base}, branches : {Append(c.branches, <<p, b>>)}]
    BY DEF Child, Cells
  <1>4. Append(c.branches, <<p, b>>) \in Seq(Branches)
    BY <1>1, <1>2
  <1>5. Child(c, p, b) \in Cells
    BY <1>1, <1>3, <1>4 DEF Cells
  <1>6. /\ Len(c.branches) \in Nat
        /\ DOMAIN c.branches = 1..Len(c.branches)
        /\ Len(Append(c.branches, <<p, b>>)) = Len(c.branches) + 1
        /\ DOMAIN Append(c.branches, <<p, b>>) = 1..(Len(c.branches) + 1)
        /\ \A i \in 1..Len(c.branches) : Append(c.branches, <<p, b>>)[i] = c.branches[i]
        /\ Append(c.branches, <<p, b>>)[Len(c.branches) + 1] = <<p, b>>
    BY <1>1, <1>2
  <1> QED BY <1>3, <1>5, <1>6

\* The two children of a cell differ.
LEMMA ChildrenDiffer ==
    ASSUME NEW c \in Cells, NEW p \in Predicates
    PROVE  Child(c, p, TRUE) # Child(c, p, FALSE)
  <1>1. Child(c, p, TRUE).branches[Len(c.branches) + 1] = <<p, TRUE>>
    BY ChildFacts
  <1>2. Child(c, p, FALSE).branches[Len(c.branches) + 1] = <<p, FALSE>>
    BY ChildFacts
  <1>3. <<p, TRUE>>[2] # <<p, FALSE>>[2]
    OBVIOUS
  <1> QED BY <1>1, <1>2, <1>3

\* A state is in its child's place exactly if it is in the parent's and
\* answers the predicate as the branch says.
LEMMA ChildAgrees ==
    ASSUME NEW c \in Cells, NEW p \in Predicates, NEW b \in BOOLEAN,
           NEW s \in States
    PROVE  Agrees(Child(c, p, b), s) <=> Agrees(c, s) /\ Holds[p][s] = b
  <1> DEFINE d == Child(c, p, b)
             n == Len(c.branches)
  <1>1. /\ d.base = c.base /\ n \in Nat
        /\ DOMAIN c.branches = 1..n /\ DOMAIN d.branches = 1..(n + 1)
        /\ \A i \in 1..n : d.branches[i] = c.branches[i]
        /\ d.branches[n + 1] = <<p, b>>
    BY ChildFacts
  <1> HIDE DEF d, n
  <1>2. ASSUME Agrees(d, s) PROVE Agrees(c, s) /\ Holds[p][s] = b
    <2>1. Holds[d.branches[n + 1][1]][s] = d.branches[n + 1][2]
      BY <1>1, <1>2 DEF Agrees
    <2>2. \A i \in 1..n : Holds[d.branches[i][1]][s] = d.branches[i][2]
      <3>1. \A i \in 1..n : i \in DOMAIN d.branches
        BY <1>1
      <3> QED BY <1>2, <3>1 DEF Agrees
    <2> QED BY <1>1, <1>2, <2>1, <2>2 DEF Agrees
  <1>3. ASSUME Agrees(c, s), Holds[p][s] = b PROVE Agrees(d, s)
    <2>1. ASSUME NEW i \in 1..(n + 1)
          PROVE  Holds[d.branches[i][1]][s] = d.branches[i][2]
      <3>1. CASE i = n + 1 BY <1>1, <1>3, <3>1
      <3>2. CASE i \in 1..n BY <1>1, <1>3, <3>2 DEF Agrees
      <3> QED BY <1>1, <3>1, <3>2
    <2> QED BY <1>1, <1>3, <2>1 DEF Agrees
  <1> QED BY <1>2, <1>3 DEF d

\* What lies below a cell agrees with it.
LEMMA BelowAgrees ==
    ASSUME NEW c \in Cells, NEW d \in Cells, NEW s \in States,
           Below(d, c), Agrees(d, s)
    PROVE  Agrees(c, s)
  <1>1. /\ c.branches \in Seq(Branches) /\ d.branches \in Seq(Branches)
    BY DEF Cells
  <1>2. /\ DOMAIN c.branches = 1..Len(c.branches)
        /\ DOMAIN d.branches = 1..Len(d.branches)
        /\ Len(c.branches) \in Nat /\ Len(d.branches) \in Nat
    BY <1>1
  <1>3. \A i \in 1..Len(c.branches) : i \in DOMAIN d.branches
    BY <1>2 DEF Below
  <1> QED BY <1>2, <1>3 DEF Below, Agrees

\* The members of a cell of the partition are the states that agree with it.
LEMMA MembersAgree ==
    ASSUME TreeFits, NEW c \in CellIds(partition), NEW s \in States
    PROVE  partition[s] = c <=> Agrees(c, s)
  <1>1. Members(partition, c) = {t \in States : Agrees(c, t)}
    BY DEF TreeFits, CellsFollowTheirPaths, Agrees
  <1> QED BY <1>1 DEF Members

\* No state is in a child of a cell that is still there, nor below it.
LEMMA ChildIsNew ==
    ASSUME TreeFits, NEW c \in CellIds(partition), NEW p \in Predicates,
           NEW b \in BOOLEAN, NEW s \in States
    PROVE  /\ partition[s] # Child(c, p, b)
           /\ ~Below(partition[s], Child(c, p, b))
           /\ ~Below(partition[s], c)
  <1>1. c \in Cells /\ partition[s] \in Cells /\ partition[s] \in CellIds(partition)
    BY DEF TreeFits, TreeTypes, CellIds
  <1>2. Agrees(partition[s], s)
    BY <1>1, MembersAgree
  <1>3. Child(c, p, b) \in Cells /\ Len(Child(c, p, b).branches) = Len(c.branches) + 1
        /\ Len(c.branches) \in Nat
    BY <1>1, ChildFacts
  <1>4. ~Below(c, c) /\ ~Below(c, Child(c, p, b)) /\ c # Child(c, p, b)
    BY <1>3 DEF Below
  <1>5. ASSUME Agrees(c, s) PROVE FALSE \/ partition[s] = c
    BY <1>5, MembersAgree
  <1>6. CASE partition[s] = c
    BY <1>4, <1>6
  <1>7. CASE ~Agrees(c, s)
    <2>1. ~Agrees(Child(c, p, b), s)
      BY <1>1, <1>7, ChildAgrees
    <2> QED BY <1>1, <1>2, <1>3, <1>7, <2>1, BelowAgrees
  <1> QED BY <1>5, <1>6, <1>7

-----------------------------------------------------------------------------
(* An accepted split                                                       *)

\* attempt_split accepts what is not a duplicate and parts the cell.
LEMMA AcceptedFacts ==
    ASSUME NEW c, NEW p, SplitStatus(c, p) = "SPLIT_ACCEPTED"
    PROVE  /\ p \notin PredicatePath(c)
           /\ \A b \in BOOLEAN : \E s \in States : partition[s] = c /\ Holds[p][s] = b
  <1>1. /\ p \notin PredicatePath(c)
        /\ {} \notin ChildSignature(c, p)
    BY DEF SplitStatus
  <1>2. Block(partition, c, p, TRUE) # {} /\ Block(partition, c, p, FALSE) # {}
    BY <1>1 DEF ChildSignature
  <1>3. \A b \in BOOLEAN : Block(partition, c, p, b) # {}
    BY <1>2
  <1> QED BY <1>1, <1>3 DEF Block, Members

\* replace_cell moves the members of the cell and nobody else.
LEMMA SplitMoves ==
    ASSUME TreeFits, NEW c \in CellIds(partition), NEW p \in Predicates,
           Split(c, p)
    PROVE  /\ partition' \in [States -> Cells]
           /\ \A s \in States : Holds[p][s] \in BOOLEAN
           /\ \A s \in States : partition[s] = c => partition'[s] = Child(c, p, Holds[p][s])
           /\ \A s \in States : partition[s] # c => partition'[s] = partition[s]
  <1>1. c \in Cells /\ partition \in [States -> Cells]
    BY DEF TreeFits, TreeTypes, CellIds
  <1>2. \A s \in States : Holds[p][s] \in BOOLEAN
    BY GrammarAssumption
  <1>3. \A s \in States : Child(c, p, Holds[p][s]) \in Cells
    BY <1>1, <1>2, ChildFacts
  <1>4. partition' = [s \in States |-> IF partition[s] = c THEN Child(c, p, Holds[p][s])
                                                           ELSE partition[s]]
    BY DEF Split, ReplaceCell
  <1> QED BY <1>1, <1>2, <1>3, <1>4

\* One cell goes, its two children come.
LEMMA SplitCells ==
    ASSUME TreeFits, NEW c \in CellIds(partition), NEW p \in Predicates,
           SplitStatus(c, p) = "SPLIT_ACCEPTED", Split(c, p)
    PROVE  CellIds(partition') =
             (CellIds(partition) \ {c}) \cup {Child(c, p, TRUE), Child(c, p, FALSE)}
  <1>1. /\ \A s \in States : Holds[p][s] \in BOOLEAN
        /\ \A s \in States : partition[s] = c => partition'[s] = Child(c, p, Holds[p][s])
        /\ \A s \in States : partition[s] # c => partition'[s] = partition[s]
    BY SplitMoves
  <1>2. ASSUME NEW s \in States
        PROVE  partition'[s] \in (CellIds(partition) \ {c})
                                   \cup {Child(c, p, TRUE), Child(c, p, FALSE)}
    <2>1. CASE partition[s] = c
      <3>1. Holds[p][s] = TRUE \/ Holds[p][s] = FALSE
        BY <1>1
      <3> QED BY <1>1, <2>1, <3>1
    <2>2. CASE partition[s] # c
      BY <1>1, <2>2 DEF CellIds
    <2> QED BY <2>1, <2>2
  <1>3. ASSUME NEW b \in BOOLEAN PROVE Child(c, p, b) \in CellIds(partition')
    <2>1. PICK s \in States : partition[s] = c /\ Holds[p][s] = b
      BY AcceptedFacts
    <2> QED BY <1>1, <2>1 DEF CellIds
  <1>4. ASSUME NEW d \in CellIds(partition), d # c PROVE d \in CellIds(partition')
    <2>1. PICK s \in States : partition[s] = d
      BY DEF CellIds
    <2> QED BY <1>1, <1>4, <2>1 DEF CellIds
  <1>5. CellIds(partition') \subseteq (CellIds(partition) \ {c})
                                        \cup {Child(c, p, TRUE), Child(c, p, FALSE)}
    BY <1>2 DEF CellIds
  <1>6. Child(c, p, TRUE) \in CellIds(partition') /\ Child(c, p, FALSE) \in CellIds(partition')
    BY <1>3
  <1> QED BY <1>4, <1>5, <1>6

\* What CellsFollowTheirPaths says of one cell.
CellFits(c) ==
    /\ Members(partition, c) = {s \in States : Agrees(c, s)}
    /\ PredicatePath(c) = BasePath[c.base] \cup {c.branches[i][1] : i \in DOMAIN c.branches}
    /\ \A i, j \in DOMAIN c.branches : c.branches[i][1] = c.branches[j][1] => i = j

\* CellsFollowTheirPaths, cell by cell.
LEMMA CellByCell == CellsFollowTheirPaths <=> \A c \in CellIds(partition) : CellFits(c)
  BY DEF CellsFollowTheirPaths, CellFits, Agrees

\* A split leaves every other cell what it was.
LEMMA OthersFit ==
    ASSUME TreeFits, NEW c \in CellIds(partition), NEW p \in Predicates,
           Split(c, p), UNCHANGED encoder,
           NEW d \in CellIds(partition), d # c
    PROVE  CellFits(d)'
  <1> DEFINE kids == {Child(c, p, FALSE), Child(c, p, TRUE)}
  <1>1. CellFits(d)
    BY CellByCell DEF TreeFits
  <1>2. d \notin kids
    <2>1. PICK s \in States : partition[s] = d
      BY DEF CellIds
    <2> QED BY <2>1, ChildIsNew
  <1>3. \A s \in States : partition'[s] = d <=> partition[s] = d
    <2>1. \A s \in States : partition[s] = c => partition'[s] \in kids
      <3>1. \A s \in States : Holds[p][s] = TRUE \/ Holds[p][s] = FALSE
        BY SplitMoves
      <3> QED BY ZenonT(30), <3>1, SplitMoves
    <2>2. \A s \in States : partition[s] # c => partition'[s] = partition[s]
      BY SplitMoves
    <2> QED BY <1>2, <2>1, <2>2, d # c
  <1>4. Members(partition, d)' = Members(partition, d)
    BY <1>3 DEF Members
  <1>5. PredicatePath(d)' = PredicatePath(d)
    BY <1>2 DEF PredicatePath, Split, ExtendPath
  <1>6. \A s \in States : Agrees(d, s)' <=> Agrees(d, s)
    BY DEF Agrees
  <1> QED BY <1>1, <1>4, <1>5, <1>6 DEF CellFits

\* A child is what its parent was, and one predicate more.
LEMMA ChildFits ==
    ASSUME TreeFits, NEW c \in CellIds(partition), NEW p \in Predicates,
           SplitStatus(c, p) = "SPLIT_ACCEPTED", Split(c, p), UNCHANGED encoder,
           NEW b \in BOOLEAN
    PROVE  CellFits(Child(c, p, b))'
  <1> DEFINE d == Child(c, p, b)
             n == Len(c.branches)
  <1>1. c \in Cells
    BY DEF TreeFits, TreeTypes, CellIds
  <1>2. /\ d.base = c.base /\ n \in Nat
        /\ DOMAIN c.branches = 1..n /\ DOMAIN d.branches = 1..(n + 1)
        /\ \A i \in 1..n : d.branches[i] = c.branches[i]
        /\ d.branches[n + 1] = <<p, b>>
    BY <1>1, ChildFacts
  <1>3. CellFits(c) /\ p \notin PredicatePath(c)
    BY CellByCell, AcceptedFacts DEF TreeFits
  <1>4. ASSUME NEW s \in States PROVE partition'[s] = d <=> Agrees(d, s)
    <2>1. Agrees(d, s) <=> partition[s] = c /\ Holds[p][s] = b
      BY <1>1, ChildAgrees, MembersAgree
    <2>2. CASE partition[s] # c
      BY <2>1, <2>2, SplitMoves, ChildIsNew
    <2>3. CASE partition[s] = c
      <3>1. partition'[s] = Child(c, p, Holds[p][s])
        BY <2>3, SplitMoves
      <3>2. Holds[p][s] \in BOOLEAN
        BY SplitMoves
      <3>3. CASE Holds[p][s] = b
        BY <2>1, <2>3, <3>1, <3>3
      <3>4. CASE Holds[p][s] # b
        <4>1. Child(c, p, Holds[p][s]) # d
          BY <1>1, <3>2, <3>4, ChildrenDiffer
        <4> QED BY <2>1, <3>1, <3>4, <4>1
      <3> QED BY <3>3, <3>4
    <2> QED BY <2>2, <2>3
  <1>5. \A s \in States : Agrees(d, s)' <=> Agrees(d, s)
    BY DEF Agrees
  <1>6. Members(partition, d)' = {s \in States : Agrees(d, s)'}
    BY <1>4, <1>5 DEF Members
  <1>7. PredicatePath(d)' = PredicatePath(c) \cup {p}
    <2>1. b = TRUE \/ b = FALSE
      OBVIOUS
    <2> QED BY <2>1 DEF PredicatePath, Split, ExtendPath
  <1> HIDE DEF d, n
  <1>8. {d.branches[i][1] : i \in DOMAIN d.branches} =
           {c.branches[i][1] : i \in DOMAIN c.branches} \cup {p}
    <2>1. \A i \in DOMAIN d.branches : i \in 1..n \/ i = n + 1
      BY <1>2
    <2>2. \A i \in DOMAIN c.branches : i \in DOMAIN d.branches /\ i \in 1..n
      BY <1>2
    <2>3. n + 1 \in DOMAIN d.branches /\ d.branches[n + 1][1] = p
      BY <1>2
    <2> QED BY <1>2, <2>1, <2>2, <2>3
  <1>9. ASSUME NEW i \in DOMAIN d.branches, NEW j \in DOMAIN d.branches,
               d.branches[i][1] = d.branches[j][1]
        PROVE  i = j
    <2>1. \A k \in 1..n : c.branches[k][1] # p
      BY <1>2, <1>3 DEF CellFits
    <2>2. (i \in 1..n \/ i = n + 1) /\ (j \in 1..n \/ j = n + 1)
      BY <1>2
    <2>3. CASE i \in 1..n /\ j \in 1..n
      BY <1>2, <1>3, <1>9, <2>3 DEF CellFits
    <2>4. CASE i = n + 1 \/ j = n + 1
      BY SMTT(30), <1>2, <1>9, <2>1, <2>2, <2>4
    <2> QED BY <2>2, <2>3, <2>4
  <1>10. PredicatePath(d)' = BasePath[d.base] \cup {d.branches[i][1] : i \in DOMAIN d.branches}
    BY <1>2, <1>3, <1>7, <1>8 DEF CellFits
  <1> QED BY <1>6, <1>9, <1>10 DEF CellFits, d

\* An accepted split keeps the tree in order.
LEMMA SplitFits ==
    ASSUME TreeFits, NEW c \in CellIds(partition), NEW p \in Predicates,
           SplitStatus(c, p) = "SPLIT_ACCEPTED", Split(c, p), UNCHANGED encoder
    PROVE  TreeFits'
  <1> DEFINE kids == {Child(c, p, FALSE), Child(c, p, TRUE)}
  <1>1. c \in Cells /\ kids \subseteq Cells
    <2>1. c \in Cells
      BY DEF TreeFits, TreeTypes, CellIds
    <2>2. Child(c, p, FALSE) \in Cells /\ Child(c, p, TRUE) \in Cells
      BY <2>1, ChildFacts
    <2> QED BY <2>1, <2>2
  <1>2. DOMAIN evaluated' = DOMAIN evaluated \cup {c}
    BY DEF Split, RememberSignature
  <1>3. DOMAIN path' = DOMAIN path \cup kids
    BY DEF Split, ExtendPath
  <1>4. \A d \in DOMAIN path' : path'[d] \subseteq Predicates
    <2>1. PredicatePath(c) \subseteq Predicates
      BY DEF PredicatePath, TreeFits, TreeTypes
    <2>2. ASSUME NEW d \in DOMAIN path' PROVE path'[d] \subseteq Predicates
      <3>1. CASE d \in kids
        BY <2>1, <2>2, <3>1 DEF Split, ExtendPath
      <3>2. CASE d \notin kids
        BY <1>3, <2>2, <3>2 DEF Split, ExtendPath, TreeFits, TreeTypes
      <3> QED BY <3>1, <3>2
    <2> QED BY <2>2
  <1>5. TreeTypes'
    BY <1>1, <1>2, <1>3, <1>4, SplitMoves DEF TreeFits, TreeTypes
  <1>6. CellsFollowTheirPaths'
    <2>1. \A d \in CellIds(partition') : CellFits(d)'
      BY ZenonT(30), SplitCells, OthersFit, ChildFits
    <2>2. CellIds(partition)' = CellIds(partition')
      BY DEF CellIds
    <2> QED BY <2>1, <2>2 DEF CellsFollowTheirPaths, CellFits, Agrees
  <1>7. EvaluatedAreGone'
    <2>1. ASSUME NEW s \in States, partition[s] = c
          PROVE  /\ Below(partition'[s], c)
                 /\ \A d \in Cells : Below(c, d) => Below(partition'[s], d)
      <3> DEFINE e == partition'[s]
      <3>1. /\ e.base = c.base /\ Len(c.branches) \in Nat
            /\ Len(e.branches) = Len(c.branches) + 1
            /\ \A i \in 1..Len(c.branches) : e.branches[i] = c.branches[i]
        BY <1>1, <2>1, SplitMoves, ChildFacts
      <3>2. \A d \in Cells : Len(d.branches) \in Nat
        BY DEF Cells
      <3> HIDE DEF e
      <3>3. Below(e, c)
        BY <3>1 DEF Below
      <3>4. \A d \in Cells : Below(c, d) => Below(e, d)
        BY <3>1, <3>2 DEF Below
      <3> QED BY <3>3, <3>4 DEF e
    <2>2. ASSUME NEW d \in DOMAIN evaluated'
          PROVE  \E s \in States : Below(partition'[s], d)
      <3>1. CASE d = c
        <4>1. PICK s \in States : partition[s] = c
          BY DEF CellIds
        <4> QED BY <2>1, <3>1, <4>1
      <3>2. CASE d # c
        <4>1. d \in DOMAIN evaluated /\ d \in Cells
          BY <1>2, <2>2, <3>2 DEF TreeFits, TreeTypes
        <4>2. PICK s \in States : Below(partition[s], d)
          BY <4>1 DEF TreeFits, EvaluatedAreGone
        <4>3. CASE partition[s] = c
          BY <2>1, <4>1, <4>2, <4>3
        <4>4. CASE partition[s] # c
          BY <4>2, <4>4, SplitMoves
        <4> QED BY <4>3, <4>4
      <3> QED BY <3>1, <3>2
    <2> QED BY <2>2 DEF EvaluatedAreGone, Below
  <1>8. (encoder \in BaseEncoders)'
    BY DEF TreeFits, BaseEncoders, BaseCell
  <1> QED BY <1>5, <1>6, <1>7, <1>8 DEF TreeFits

\* A separating predicate is accepted in every state of the tree.
LEMMA SeparatorAccepted ==
    ASSUME TreeFits, NEW c \in CellIds(partition), NEW w \in Witnesses(c),
           NEW p \in Predicates, Separates(w, p)
    PROVE  SplitStatus(c, p) = "SPLIT_ACCEPTED"
  <1>1. w # Nothing /\ w \subseteq States /\ w \subseteq Members(partition, c)
    BY GrammarAssumption DEF Witnesses, Members
  <1>2. PICK l \in w, r \in w : Holds[p][l] # Holds[p][r]
    BY <1>1 DEF Separates
  <1>3. /\ l \in States /\ r \in States
        /\ partition[l] = c /\ partition[r] = c
        /\ Agrees(c, l) /\ Agrees(c, r)
    BY <1>1, <1>2, MembersAgree DEF Members
  <1>4. CellFits(c)
    BY CellByCell DEF TreeFits
  <1>5. p \notin BasePath[c.base]
    <2>1. encoder[l] = encoder[r] /\ encoder[l].base = c.base
      BY <1>3 DEF Agrees, BaseCell
    <2>2. \A q \in BasePath[encoder[l].base] : Holds[q][l] = Holds[q][r]
      BY <1>3, <2>1 DEF TreeFits, BaseEncoders
    <2> QED BY <1>2, <2>1, <2>2
  <1>6. p \notin {c.branches[i][1] : i \in DOMAIN c.branches}
    BY <1>2, <1>3 DEF Agrees
  <1>7. p \notin PredicatePath(c)
    BY <1>4, <1>5, <1>6 DEF CellFits
  <1>8. {} \notin ChildSignature(c, p)
    <2>1. Holds[p][l] \in BOOLEAN /\ Holds[p][r] \in BOOLEAN
      BY <1>3, GrammarAssumption
    <2>2. \A b \in BOOLEAN : Holds[p][l] = b \/ Holds[p][r] = b
      BY <1>2, <2>1
    <2>3. \A b \in BOOLEAN : Block(partition, c, p, b) # {}
      BY <1>3, <2>2 DEF Block, Members
    <2> QED BY <2>3 DEF ChildSignature
  <1>9. Evaluated(c) = {}
    <2>1. c \notin DOMAIN evaluated
      BY ChildIsNew DEF TreeFits, EvaluatedAreGone
    <2> QED BY <2>1 DEF Evaluated
  <1> QED BY <1>7, <1>8, <1>9 DEF SplitStatus

-----------------------------------------------------------------------------
(* Counting cells                                                          *)

\* A partition of finitely many states has finitely many cells.
LEMMA CellsFinite == ASSUME NEW part \in [States -> Cells] PROVE IsFiniteSet(CellIds(part))
  <1>1. part \in Surjection(States, CellIds(part))
    <2>1. part \in [States -> CellIds(part)]
      BY DEF CellIds
    <2> QED BY <2>1 DEF Surjection, CellIds
  <1> QED BY <1>1, FS_Surjection, GrammarAssumption

\* An accepted split adds one cell.
LEMMA SplitAddsOne ==
    ASSUME TreeFits, NEW c \in CellIds(partition), NEW p \in Predicates,
           SplitStatus(c, p) = "SPLIT_ACCEPTED", Split(c, p)
    PROVE  Cardinality(CellIds(partition')) = Cardinality(CellIds(partition)) + 1
  <1> DEFINE cells == CellIds(partition)
             rest == cells \ {c}
             yes == Child(c, p, TRUE)
             no == Child(c, p, FALSE)
  <1>1. c \in Cells /\ partition \in [States -> Cells]
    BY DEF TreeFits, TreeTypes, CellIds
  <1>2. IsFiniteSet(cells)
    BY <1>1, CellsFinite
  <1>3. yes \notin cells /\ no \notin cells /\ yes # no
    <2>1. \A s \in States : partition[s] # yes /\ partition[s] # no
      BY ChildIsNew
    <2> QED BY <1>1, <2>1, ChildrenDiffer DEF CellIds
  <1>4. CellIds(partition') = (rest \cup {yes}) \cup {no}
    BY SplitCells
  <1>5. IsFiniteSet(rest) /\ Cardinality(rest) = Cardinality(cells) - 1
    BY <1>2, FS_RemoveElement
  <1> HIDE DEF yes, no, cells
  <1>6. /\ IsFiniteSet(rest \cup {yes})
        /\ Cardinality(rest \cup {yes}) = Cardinality(rest) + 1
    BY <1>3, <1>5, FS_AddElement
  <1>7. Cardinality((rest \cup {yes}) \cup {no}) = Cardinality(rest \cup {yes}) + 1
    BY <1>3, <1>6, FS_AddElement
  <1>8. Cardinality(cells) \in Nat
    BY <1>2, FS_CardinalityType
  <1> QED BY <1>4, <1>5, <1>6, <1>7, <1>8 DEF cells

-----------------------------------------------------------------------------
(* The ranking                                                             *)

\* Comparing quotients by cross multiplication is transitive.
LEMMA QuotientOrder ==
    ASSUME NEW a \in Int, NEW b \in Int, NEW c \in Int,
           NEW x \in Nat \ {0}, NEW y \in Nat \ {0}, NEW z \in Nat \ {0},
           a * y >= b * x, b * z >= c * y
    PROVE  /\ a * z >= c * x
           /\ a * z = c * x => a * y = b * x /\ b * z = c * y
  <1> DEFINE ay == a * y
             bx == b * x
             bz == b * z
             cy == c * y
             az == a * z
             cx == c * x
  <1>1. /\ ay \in Int /\ bx \in Int /\ bz \in Int
        /\ cy \in Int /\ az \in Int /\ cx \in Int
    OBVIOUS
  <1>2. /\ ay * z = az * y /\ bx * z = bz * x /\ cy * x = cx * y
    OBVIOUS
  <1> HIDE DEF ay, bx, bz, cy, az, cx
  <1>3. \A m, n \in Int, k \in Nat \ {0} : m > n => m * k > n * k
    OBVIOUS
  <1>4. \A m, n \in Int, k \in Nat \ {0} : m >= n => m * k >= n * k
    OBVIOUS
  <1>5. ay * z >= bx * z /\ bz * x >= cy * x
    BY <1>1, <1>4 DEF ay, bx, bz, cy
  <1>6. az * y >= cx * y
    BY <1>1, <1>2, <1>5
  <1>7. az >= cx
    BY <1>1, <1>3, <1>6
  <1>8. ASSUME az = cx PROVE ay = bx /\ bz = cy
    <2>1. ay * z = bx * z /\ bz * x = cy * x
      BY <1>1, <1>2, <1>5, <1>8
    <2> QED BY <1>1, <1>3, <1>5, <2>1 DEF ay, bx, bz, cy
  <1> QED BY <1>7, <1>8 DEF ay, bx, bz, cy, az, cx

\* What a candidate is made of.
LEMMA CandidateFacts ==
    ASSUME NEW c \in Candidates
    PROVE  /\ c.pred \in Predicates /\ c.pred \in Nat /\ c.reduction \in Int
           /\ c.pairs \in Nat /\ c.failure \in Int /\ c.cost \in Nat \ {0}
  BY CandidateAssumption, GrammarAssumption

\* The ranking key orders the candidates strictly.
LEMMA RankOrder ==
    ASSUME NEW c \in Candidates, NEW d \in Candidates, NEW e \in Candidates
    PROVE  /\ ~RankBefore(c, c)
           /\ RankBefore(c, d) /\ RankBefore(d, e) => RankBefore(c, e)
           /\ c # d => RankBefore(c, d) \/ RankBefore(d, c)
  <1> DEFINE score(x, y) == x.reduction * y.cost
  <1>1. \A x, y \in Candidates :
          /\ score(x, y) \in Int
          /\ x.pred \in Nat /\ x.pairs \in Nat /\ x.failure \in Int /\ x.cost \in Nat
    BY CandidateFacts
  <1>2. ASSUME score(c, d) >= score(d, c), score(d, e) >= score(e, d)
        PROVE  /\ score(c, e) >= score(e, c)
               /\ score(c, e) = score(e, c) =>
                    score(c, d) = score(d, c) /\ score(d, e) = score(e, d)
    <2>1. /\ c.reduction \in Int /\ d.reduction \in Int /\ e.reduction \in Int
          /\ c.cost \in Nat \ {0} /\ d.cost \in Nat \ {0} /\ e.cost \in Nat \ {0}
      BY CandidateFacts
    <2>2. /\ c.reduction * d.cost >= d.reduction * c.cost
          /\ d.reduction * e.cost >= e.reduction * d.cost
      BY <1>2
    <2>3. /\ c.reduction * e.cost >= e.reduction * c.cost
          /\ c.reduction * e.cost = e.reduction * c.cost =>
               /\ c.reduction * d.cost = d.reduction * c.cost
               /\ d.reduction * e.cost = e.reduction * d.cost
      <3> DEFINE i == c.reduction
                 j == d.reduction
                 k == e.reduction
                 x == c.cost
                 y == d.cost
                 z == e.cost
      <3>1. /\ i \in Int /\ j \in Int /\ k \in Int
            /\ x \in Nat \ {0} /\ y \in Nat \ {0} /\ z \in Nat \ {0}
            /\ i * y >= j * x /\ j * z >= k * y
        BY <2>1, <2>2
      <3> HIDE DEF i, j, k, x, y, z
      <3>2. i * z >= k * x /\ (i * z = k * x => i * y = j * x /\ j * z = k * y)
        BY <3>1, QuotientOrder
      <3> QED BY <3>2 DEF i, j, k, x, y, z
    <2> QED BY <2>3
  <1>3. ASSUME score(c, d) = score(d, c), score(d, e) = score(e, d)
        PROVE  score(c, e) = score(e, c)
    <2>1. score(c, e) >= score(e, c)
      BY <1>1, <1>2, <1>3
    <2>2. score(e, c) >= score(c, e)
      BY <1>1, <1>3, CandidateFacts, QuotientOrder
    <2> QED BY <1>1, <2>1, <2>2
  <1>4. c # d /\ c.pred = d.pred /\ c.pairs = d.pairs /\ c.failure = d.failure
          /\ c.cost = d.cost => c.reduction # d.reduction
    BY CandidateAssumption
  <1>5. c.cost = d.cost /\ score(c, d) = score(d, c) => c.reduction = d.reduction
    <2>1. \A m, n \in Int, k \in Nat \ {0} : m * k = n * k => m = n
      OBVIOUS
    <2> QED BY <2>1, CandidateFacts
  <1>6. RankBefore(c, d) <=>
          \/ score(c, d) > score(d, c)
          \/ /\ score(c, d) = score(d, c)
             /\ \/ c.pairs > d.pairs
                \/ c.pairs = d.pairs /\ c.failure > d.failure
                \/ c.pairs = d.pairs /\ c.failure = d.failure /\ c.cost < d.cost
                \/ c.pairs = d.pairs /\ c.failure = d.failure /\ c.cost = d.cost
                   /\ c.pred < d.pred
    BY DEF RankBefore
  <1>7. RankBefore(d, e) <=>
          \/ score(d, e) > score(e, d)
          \/ /\ score(d, e) = score(e, d)
             /\ \/ d.pairs > e.pairs
                \/ d.pairs = e.pairs /\ d.failure > e.failure
                \/ d.pairs = e.pairs /\ d.failure = e.failure /\ d.cost < e.cost
                \/ d.pairs = e.pairs /\ d.failure = e.failure /\ d.cost = e.cost
                   /\ d.pred < e.pred
    BY DEF RankBefore
  <1>8. RankBefore(c, e) <=>
          \/ score(c, e) > score(e, c)
          \/ /\ score(c, e) = score(e, c)
             /\ \/ c.pairs > e.pairs
                \/ c.pairs = e.pairs /\ c.failure > e.failure
                \/ c.pairs = e.pairs /\ c.failure = e.failure /\ c.cost < e.cost
                \/ c.pairs = e.pairs /\ c.failure = e.failure /\ c.cost = e.cost
                   /\ c.pred < e.pred
    BY DEF RankBefore
  <1>9. RankBefore(d, c) <=>
          \/ score(d, c) > score(c, d)
          \/ /\ score(d, c) = score(c, d)
             /\ \/ d.pairs > c.pairs
                \/ d.pairs = c.pairs /\ d.failure > c.failure
                \/ d.pairs = c.pairs /\ d.failure = c.failure /\ d.cost < c.cost
                \/ d.pairs = c.pairs /\ d.failure = c.failure /\ d.cost = c.cost
                   /\ d.pred < c.pred
    BY DEF RankBefore
  <1>10. ~RankBefore(c, c)
    BY <1>1 DEF RankBefore
  <1> HIDE DEF score
  <1>11. ASSUME RankBefore(c, d), RankBefore(d, e) PROVE RankBefore(c, e)
    <2>1. score(c, d) >= score(d, c) /\ score(d, e) >= score(e, d)
      BY <1>1, <1>6, <1>7, <1>11
    <2>2. CASE score(c, d) = score(d, c) /\ score(d, e) = score(e, d)
      BY <1>1, <1>3, <1>6, <1>7, <1>8, <1>11, <2>2
    <2>3. CASE score(c, d) # score(d, c) \/ score(d, e) # score(e, d)
      BY <1>1, <1>2, <1>8, <2>1, <2>3
    <2> QED BY <2>2, <2>3
  <1>12. ASSUME c # d PROVE RankBefore(c, d) \/ RankBefore(d, c)
    BY <1>1, <1>4, <1>5, <1>6, <1>9, <1>12
  <1> QED BY <1>10, <1>11, <1>12

\* Positions in the ranking are distinct, so that no more candidates are
\* reached than the evaluation budget has left.
LEMMA ReachedBound ==
    ASSUME NEW S \in SUBSET Candidates, NEW spent \in Nat
    PROVE  /\ IsFiniteSet(S) /\ IsFiniteSet(Reached(S, spent))
           /\ \A c \in S : Position(c, S) \in Nat \ {0}
           /\ spent <= MaxEvaluations =>
                Cardinality(Reached(S, spent)) <= MaxEvaluations - spent
           /\ Cardinality(Reached(S, spent)) \in Nat
  <1> DEFINE before(c) == {d \in S : RankBefore(d, c)}
             R == Reached(S, spent)
             k == MaxEvaluations - spent
  <1>1. IsFiniteSet(S)
    BY CandidateAssumption, FS_Subset
  <1>2. R \in SUBSET S /\ IsFiniteSet(R) /\ Cardinality(R) \in Nat
    <2>1. R \in SUBSET S
      BY DEF Reached
    <2> QED BY <1>1, <2>1, FS_Subset, FS_CardinalityType
  <1>3. \A c \in S : IsFiniteSet(before(c)) /\ Cardinality(before(c)) \in Nat
                     /\ Position(c, S) = 1 + Cardinality(before(c))
    <2>1. \A c \in S : before(c) \in SUBSET S
      OBVIOUS
    <2> QED BY <1>1, <2>1, FS_Subset, FS_CardinalityType DEF Position
  <1>4. ASSUME NEW c \in S, NEW d \in S, RankBefore(c, d)
        PROVE  Position(c, S) < Position(d, S)
    <2>1. before(c) \subseteq before(d)
      <3>1. ASSUME NEW e \in S, RankBefore(e, c) PROVE RankBefore(e, d)
        BY <1>4, <3>1, RankOrder
      <3> QED BY <3>1
    <2>2. c \in before(d) /\ c \notin before(c)
      BY <1>4, RankOrder
    <2>3. /\ Cardinality(before(c)) <= Cardinality(before(d))
          /\ Cardinality(before(d)) = Cardinality(before(c)) => before(d) = before(c)
      <3> HIDE DEF before
      <3> QED BY <1>3, <2>1, FS_Subset
    <2> HIDE DEF before
    <2> QED BY <1>3, <2>2, <2>3
  <1>5. \A c, d \in S : Position(c, S) = Position(d, S) => c = d
    <2>1. ASSUME NEW c \in S, NEW d \in S, c # d PROVE Position(c, S) # Position(d, S)
      <3>1. RankBefore(c, d) \/ RankBefore(d, c)
        BY <2>1, RankOrder
      <3> HIDE DEF before
      <3> QED BY <1>3, <1>4, <3>1
    <2> QED BY <2>1
  <1>6. \A c \in S : Position(c, S) \in Nat \ {0}
    <2> HIDE DEF before
    <2> QED BY <1>3
  <1>7. ASSUME spent <= MaxEvaluations PROVE Cardinality(R) <= k
    <2> DEFINE f == [c \in R |-> Position(c, S)]
    <2>1. k \in Nat
      BY <1>7, BudgetAssumption
    <2>2. f \in [R -> 1..k]
      <3>1. \A c \in R : c \in S /\ Position(c, S) <= k
        BY DEF Reached
      <3> HIDE DEF R, k
      <3> QED BY <1>6, <2>1, <3>1
    <2>3. f \in Injection(R, 1..k)
      <3> HIDE DEF R, k
      <3> QED BY <1>2, <1>5, <2>2 DEF Injection, IsInjective
    <2>4. IsFiniteSet(1..k) /\ Cardinality(1..k) = k
      <3> HIDE DEF k
      <3> QED BY <2>1, FS_Interval
    <2> HIDE DEF f, R, k
    <2> QED BY <2>3, <2>4, FS_Injection
  <1> QED BY <1>1, <1>2, <1>6, <1>7

-----------------------------------------------------------------------------
(* The inductive invariant                                                 *)

CountersFit ==
    /\ counters \in [leaves : Nat, accepted : Nat, rate : Nat,
                     evaluations : Nat, fallbacks : Nat]
    /\ probes \in Nat
    /\ result \in [status : Statuses, witness : {Nothing} \cup SUBSET States]

RefinementInv ==
    /\ TreeFits
    /\ CountersFit
    /\ BudgetsExact
    /\ WitnessAnswered

\* The construction starts in order.
LEMMA InitFits == Init => RefinementInv
  <1> SUFFICES ASSUME Init PROVE RefinementInv
    OBVIOUS
  <1> USE DEF Init
  <1>1. /\ \A b \in BaseCells : BaseCell(b) \in Cells /\ BaseCell(b).base = b
                                /\ BaseCell(b).branches = <<>>
        /\ DOMAIN <<>> = {}
    BY DEF BaseCell, Cells
  <1>2. encoder \in [States -> {BaseCell(b) : b \in BaseCells}] /\ encoder \in BaseEncoders
    BY DEF BaseEncoders
  <1>3. \A s \in States : \E b \in BaseCells : encoder[s] = BaseCell(b)
    BY <1>2
  <1>4. ASSUME NEW c \in CellIds(partition)
        PROVE  /\ c \in Cells /\ c.base \in BaseCells /\ c = BaseCell(c.base)
               /\ c.branches = <<>> /\ path[c] = BasePath[c.base]
               /\ c \in DOMAIN path
    <2>1. PICK s \in States : c = encoder[s]
      BY DEF CellIds
    <2>2. PICK b \in BaseCells : c = BaseCell(b)
      BY <1>3, <2>1
    <2> QED BY <1>1, <2>2
  <1>5. TreeTypes
    <2>1. partition \in [States -> Cells]
      BY <1>1, <1>2, <1>3
    <2>2. DOMAIN path = CellIds(partition)
      OBVIOUS
    <2>3. \A c \in DOMAIN path : c \in Cells /\ path[c] \subseteq Predicates
      BY <1>4, <2>2, GrammarAssumption
    <2>4. DOMAIN evaluated = {}
      OBVIOUS
    <2> QED BY <1>2, <2>1, <2>3, <2>4 DEF TreeTypes
  <1>6. CellsFollowTheirPaths
    BY <1>1, <1>4 DEF CellsFollowTheirPaths, Members, PredicatePath
  <1>7. EvaluatedAreGone
    BY DEF EvaluatedAreGone
  <1>8. TreeFits
    BY <1>2, <1>5, <1>6, <1>7 DEF TreeFits
  <1>9. Cardinality(CellIds(encoder)) \in Nat
    BY <1>5, CellsFinite, FS_CardinalityType DEF TreeTypes
  <1>10. CountersFit
    BY <1>9, BudgetAssumption DEF CountersFit, Statuses
  <1>11. BudgetsExact
    BY <1>9, BudgetAssumption DEF BudgetsExact
  <1>12. WitnessAnswered
    BY DEF WitnessAnswered
  <1> QED BY <1>8, <1>10, <1>11, <1>12 DEF RefinementInv

\* A call that leaves the partition and the tracker alone keeps the tree.
LEMMA TreeStays ==
    ASSUME TreeFits, UNCHANGED <<encoder, partition, trackerVars>>
    PROVE  TreeFits' /\ \A c, p : SplitStatus(c, p)' = SplitStatus(c, p)
  <1>1. /\ CellIds(partition)' = CellIds(partition)
        /\ \A c : Members(partition, c)' = Members(partition, c)
        /\ \A c : PredicatePath(c)' = PredicatePath(c)
        /\ \A c : Evaluated(c)' = Evaluated(c)
    BY DEF CellIds, Members, PredicatePath, Evaluated, trackerVars
  <1>2. \A c, p : ChildSignature(c, p)' = ChildSignature(c, p)
    BY DEF ChildSignature, Block, Members
  <1>3. \A c, p : SplitStatus(c, p)' = SplitStatus(c, p)
    BY <1>1, <1>2 DEF SplitStatus
  <1>4. CellsFollowTheirPaths'
    BY <1>1 DEF TreeFits, CellsFollowTheirPaths
  <1>5. TreeTypes' /\ (encoder \in BaseEncoders)' /\ EvaluatedAreGone'
    BY DEF TreeFits, TreeTypes, BaseEncoders, EvaluatedAreGone, Below, trackerVars
  <1> QED BY <1>3, <1>4, <1>5 DEF TreeFits

\* ... and what the last result says of its witness.
LEMMA WitnessStays ==
    ASSUME RefinementInv, UNCHANGED <<encoder, partition, trackerVars, result>>
    PROVE  WitnessAnswered'
  <1>1. \A c, p : SplitStatus(c, p)' = SplitStatus(c, p)
    BY TreeStays DEF RefinementInv
  <1>2. /\ CellIds(partition)' = CellIds(partition)
        /\ \A c : Members(partition, c)' = Members(partition, c)
    BY DEF CellIds, Members
  <1> QED BY <1>1, <1>2 DEF RefinementInv, WitnessAnswered

\* What only counts must keep.
LEMMA CountsStay ==
    ASSUME RefinementInv, UNCHANGED <<encoder, partition>>,
           counters'.leaves = counters.leaves, counters'.accepted = counters.accepted,
           counters'.rate = counters.rate,
           counters'.evaluations <= MaxEvaluations, counters'.fallbacks <= MaxFallbacks
    PROVE  BudgetsExact'
  BY DEF RefinementInv, BudgetsExact, CellIds

-----------------------------------------------------------------------------
(* Steps                                                                   *)

Refines ==
    /\ \A s, t \in States : partition'[s] = partition'[t] => partition[s] = partition[t]
    /\ Cardinality(CellIds(partition')) <= Cardinality(CellIds(partition)) + 1

\* A partition that stays is no coarser.
LEMMA StaysRefines == ASSUME TreeFits, UNCHANGED partition PROVE Refines
  <1>1. Cardinality(CellIds(partition)) \in Nat
    BY CellsFinite, FS_CardinalityType DEF TreeFits, TreeTypes
  <1> QED BY <1>1 DEF Refines

\* An accepted split merges nothing.
LEMMA SplitRefines ==
    ASSUME TreeFits, NEW c \in CellIds(partition), NEW p \in Predicates,
           SplitStatus(c, p) = "SPLIT_ACCEPTED", Split(c, p)
    PROVE  Refines
  <1>1. Cardinality(CellIds(partition)) \in Nat
    BY CellsFinite, FS_CardinalityType DEF TreeFits, TreeTypes
  <1>2. \A s, t \in States : partition[s] = c /\ partition[t] # c => partition'[s] # partition'[t]
    BY SplitMoves, ChildIsNew
  <1>3. \A s, t \in States : partition'[s] = partition'[t] => partition[s] = partition[t]
    BY <1>2, SplitMoves
  <1> QED BY <1>1, <1>3, SplitAddsOne DEF Refines

\* The accepting branch of the loop.
LEMMA AcceptFits ==
    ASSUME RefinementInv, NEW cell \in CellIds(partition), NEW c \in Candidates,
           NEW witness \in Witnesses(cell) \cup {Nothing},
           Separates(witness, c.pred), ~TreeIsFull, RateFits(c),
           SplitStatus(cell, c.pred) = "SPLIT_ACCEPTED",
           NEW spent \in Nat, NEW place \in Nat, spent + place <= MaxEvaluations,
           Split(cell, c.pred), UNCHANGED encoder, probes' = 0,
           counters' = AcceptedCounters(c, spent, place),
           Answer("SPLIT_ACCEPTED", witness)
    PROVE  RefinementInv' /\ Refines
  <1> DEFINE p == c.pred
  <1>1. p \in Predicates /\ c.cost \in Nat
    BY CandidateFacts
  <1>2. TreeFits
    BY DEF RefinementInv
  <1>3. TreeFits' /\ Refines
    BY <1>1, <1>2, SplitFits, SplitRefines
  <1>4. witness = Nothing \/ witness \subseteq Members(partition, cell)
    BY DEF Witnesses
  <1>5. counters \in [leaves : Nat, accepted : Nat, rate : Nat,
                      evaluations : Nat, fallbacks : Nat]
    BY DEF RefinementInv, CountersFit
  <1>6. /\ counters'.leaves = counters.leaves + 1
        /\ counters'.accepted = counters.accepted + 1
        /\ counters'.rate = counters.rate + c.cost
        /\ counters'.evaluations = spent + place
        /\ counters'.fallbacks = counters.fallbacks
        /\ counters' \in [leaves : Nat, accepted : Nat, rate : Nat,
                          evaluations : Nat, fallbacks : Nat]
    <2>1. /\ counters.leaves + 1 \in Nat /\ counters.accepted + 1 \in Nat
          /\ counters.rate + c.cost \in Nat /\ spent + place \in Nat
      BY <1>1, <1>5
    <2> QED BY <1>5, <2>1 DEF AcceptedCounters
  <1>7. CountersFit'
    BY <1>4, <1>6 DEF CountersFit, Answer, Statuses, Members
  <1>8. BudgetsExact'
    <2>1. Cardinality(CellIds(partition)') = Cardinality(CellIds(partition)) + 1
      <3>1. CellIds(partition)' = CellIds(partition')
        BY DEF CellIds
      <3> QED BY <1>1, <1>2, <3>1, SplitAddsOne
    <2>2. CellIds(encoder)' = CellIds(encoder)
      BY DEF CellIds
    <2>3. Cardinality(CellIds(encoder)) \in Nat
      <3>1. encoder \in [States -> Cells]
        <4>1. \A b \in BaseCells : BaseCell(b) \in Cells
          BY DEF BaseCell, Cells
        <4> QED BY <1>2, <4>1 DEF TreeFits, TreeTypes
      <3> QED BY <3>1, CellsFinite, FS_CardinalityType
    <2>4. BudgetsExact /\ counters.leaves < MaxLeaves
          /\ counters.accepted < MaxAcceptedSplits
          /\ counters.rate + c.cost <= RateBudget
      BY <1>5, BudgetAssumption DEF RefinementInv, TreeIsFull, RateFits
    <2> QED BY <1>5, <1>6, <2>1, <2>2, <2>3, <2>4, BudgetAssumption DEF BudgetsExact
  <1>9. WitnessAnswered'
    <2>1. CASE witness = Nothing
      BY <2>1 DEF WitnessAnswered, Answer
    <2>2. CASE witness # Nothing
      <3>1. PICK l \in witness, r \in witness : Holds[p][l] # Holds[p][r]
        BY <2>2 DEF Separates
      <3>2. l \in States /\ r \in States /\ partition[l] = cell /\ partition[r] = cell
        BY <1>4, <2>2, <3>1 DEF Members
      <3>3. partition'[l] # partition'[r]
        <4>1. partition'[l] = Child(cell, p, Holds[p][l])
              /\ partition'[r] = Child(cell, p, Holds[p][r])
          BY <1>1, <1>2, <3>2, SplitMoves
        <4>2. Holds[p][l] \in BOOLEAN /\ Holds[p][r] \in BOOLEAN
          BY <1>1, <1>2, <3>2, SplitMoves
        <4>3. cell \in Cells
          BY <1>2 DEF TreeFits, TreeTypes, CellIds
        <4> QED BY <1>1, <3>1, <4>1, <4>2, <4>3, ChildrenDiffer
      <3>4. result'.witness = witness /\ result'.status = "SPLIT_ACCEPTED"
        BY DEF Answer
      <3> QED BY <3>1, <3>3, <3>4 DEF WitnessAnswered, Members
    <2> QED BY <2>1, <2>2
  <1> QED BY <1>3, <1>7, <1>8, <1>9 DEF RefinementInv

\* A call that hands back what it was given, with another status.
LEMMA HandsBack ==
    ASSUME RefinementInv, NEW cell \in CellIds(partition),
           NEW witness \in Witnesses(cell) \cup {Nothing},
           NEW spent \in Nat, spent <= MaxEvaluations,
           NEW reply \in Statuses, reply # "SPLIT_ACCEPTED",
           reply = "RATE_BUDGET_EXHAUSTED" =>
              \E p \in Predicates : Separates(witness, p),
           UNCHANGED <<encoder, partition, trackerVars>>, probes' = 0,
           counters' = [counters EXCEPT !.evaluations = spent],
           Answer(reply, witness)
    PROVE  RefinementInv' /\ Refines
  <1>1. TreeFits' /\ \A c, p : SplitStatus(c, p)' = SplitStatus(c, p)
    BY TreeStays DEF RefinementInv
  <1>2. Refines
    BY StaysRefines DEF RefinementInv
  <1>3. /\ counters' \in [leaves : Nat, accepted : Nat, rate : Nat,
                          evaluations : Nat, fallbacks : Nat]
        /\ counters'.leaves = counters.leaves /\ counters'.accepted = counters.accepted
        /\ counters'.rate = counters.rate /\ counters'.evaluations = spent
        /\ counters'.fallbacks = counters.fallbacks
    BY DEF RefinementInv, CountersFit
  <1>4. BudgetsExact'
    <2>1. counters'.fallbacks <= MaxFallbacks
      BY <1>3 DEF RefinementInv, BudgetsExact
    <2> QED BY <1>3, <2>1, CountsStay
  <1>5. result'.status = reply /\ result'.witness = witness
    BY DEF Answer
  <1>6. CountersFit'
    <2>1. witness \in {Nothing} \cup SUBSET States
      BY DEF Witnesses, Members
    <2>2. result' \in [status : Statuses, witness : {Nothing} \cup SUBSET States]
      BY <2>1 DEF Answer
    <2> QED BY <1>3, <2>2 DEF CountersFit
  <1>7. WitnessAnswered'
    <2>1. CASE witness = Nothing
      BY <1>5, <2>1 DEF WitnessAnswered
    <2>2. CASE witness # Nothing
      <3>1. witness \in Witnesses(cell) /\ witness \subseteq Members(partition, cell)
        BY <2>2 DEF Witnesses
      <3>2. \A p \in Predicates : Separates(witness, p) => SplitStatus(cell, p)' = "SPLIT_ACCEPTED"
        BY <1>1, <3>1, SeparatorAccepted DEF RefinementInv
      <3>3. CellIds(partition)' = CellIds(partition)
            /\ Members(partition, cell)' = Members(partition, cell)
        BY DEF CellIds, Members
      <3>4. \A p : Separates(result.witness, p)' <=> Separates(witness, p)
        BY <1>5 DEF Separates
      <3>5. reply = "RATE_BUDGET_EXHAUSTED" =>
              \E p \in Predicates : Separates(result.witness, p)'
                                    /\ SplitStatus(cell, p)' = "SPLIT_ACCEPTED"
        BY <3>2, <3>4
      <3> QED BY <1>5, <3>1, <3>3, <3>5 DEF WitnessAnswered
    <2> QED BY <2>1, <2>2
  <1> QED BY <1>1, <1>2, <1>4, <1>6, <1>7 DEF RefinementInv

\* The loop of refine_once.
LEMMA SearchFits ==
    ASSUME RefinementInv, NEW cell \in CellIds(partition),
           NEW witness \in Witnesses(cell) \cup {Nothing},
           NEW separating \in SUBSET Candidates, separating # {},
           \A c \in separating : Separates(witness, c.pred),
           NEW width, NEW spent \in Nat, spent <= MaxEvaluations, ~TreeIsFull,
           SearchSplit(cell, separating, witness, width, spent),
           UNCHANGED encoder, probes' = 0
    PROVE  RefinementInv' /\ Refines
  <1> DEFINE reached == Reached(separating, spent)
             accepted == {c \in reached : Splits(cell, c, width)}
  <1>1. /\ \A c \in separating : Position(c, separating) \in Nat
        /\ Cardinality(reached) \in Nat /\ Cardinality(reached) <= MaxEvaluations - spent
    BY ReachedBound
  <1>2. CASE accepted # {}
    <2>1. PICK c \in accepted :
            /\ Split(cell, c.pred)
            /\ counters' = AcceptedCounters(c, spent, Position(c, separating))
            /\ Answer("SPLIT_ACCEPTED", witness)
      BY <1>2 DEF SearchSplit
    <2>2. c \in separating /\ Position(c, separating) <= MaxEvaluations - spent
      BY DEF Reached
    <2>3. RateFits(c) /\ SplitStatus(cell, c.pred) = "SPLIT_ACCEPTED"
      BY DEF Splits
    <2>4. Position(c, separating) \in Nat /\ spent + Position(c, separating) <= MaxEvaluations
      BY <1>1, <2>2, BudgetAssumption
    <2>5. c \in Candidates /\ Separates(witness, c.pred)
      BY <2>2
    <2> HIDE DEF accepted, reached
    <2> QED BY <2>1, <2>3, <2>4, <2>5, AcceptFits
  <1>3. CASE accepted = {}
    <2> DEFINE reply == IF reached # separating THEN "REFINEMENT_BUDGET_EXHAUSTED"
                         ELSE IF \A c \in separating : QualityPasses(c, width)
                                                       /\ ~RateFits(c)
                              THEN "RATE_BUDGET_EXHAUSTED"
                              ELSE "ALL_SPLITS_REJECTED"
    <2>1. /\ UNCHANGED <<partition, trackerVars>>
          /\ counters' = [counters EXCEPT !.evaluations = spent + Cardinality(reached)]
          /\ Answer(reply, witness)
      BY <1>3 DEF SearchSplit
    <2>2. reply \in Statuses /\ reply # "SPLIT_ACCEPTED"
      BY DEF Statuses
    <2>3. \E p \in Predicates : Separates(witness, p)
      BY CandidateFacts
    <2> HIDE DEF reply, reached
    <2>4. spent + Cardinality(reached) \in Nat /\ spent + Cardinality(reached) <= MaxEvaluations
      BY <1>1, BudgetAssumption
    <2>5. UNCHANGED <<encoder, partition, trackerVars>>
      BY <2>1
    <2> QED BY <2>1, <2>2, <2>3, <2>4, <2>5, HandsBack
  <1> QED BY <1>2, <1>3

\* refine_once, whatever the caller knows and has charged.
LEMMA RefineOnceFits ==
    ASSUME RefinementInv, NEW verdict \in Verdicts, NEW cell \in CellIds(partition),
           NEW witness \in Witnesses(cell) \cup {Nothing},
           NEW candidates \in SUBSET Candidates,
           NEW width, NEW spent \in Nat, spent <= MaxEvaluations,
           RefineOnce(verdict, cell, witness, candidates, width, spent)
    PROVE  RefinementInv' /\ Refines
  <1> DEFINE separating == {c \in candidates : Separates(witness, c.pred)}
  <1>1. UNCHANGED encoder /\ probes' = 0
    BY DEF RefineOnce
  <1>2. ASSUME NEW reply \in Statuses, reply # "SPLIT_ACCEPTED",
               reply # "RATE_BUDGET_EXHAUSTED", ReturnEarly(reply, witness, spent)
        PROVE  RefinementInv' /\ Refines
    <2>1. /\ counters' = [counters EXCEPT !.evaluations = spent]
          /\ Answer(reply, witness)
          /\ UNCHANGED <<encoder, partition, trackerVars>>
      BY <1>1, <1>2 DEF ReturnEarly
    <2> QED BY <1>1, <1>2, <2>1, HandsBack
  <1>3. CASE verdict # "UNCERTIFIED" /\ ReturnEarly(verdict, witness, spent)
    BY <1>2, <1>3 DEF Verdicts, Statuses
  <1>4. CASE ReturnEarly("REFINEMENT_BUDGET_EXHAUSTED", witness, spent)
    BY <1>2, <1>4 DEF Statuses
  <1>5. CASE ReturnEarly("NO_SEPARATING_PREDICATE", witness, spent)
    BY <1>2, <1>5 DEF Statuses
  <1>6. CASE ~TreeIsFull /\ separating # {} /\ SearchSplit(cell, separating, witness, width, spent)
    <2>1. separating \in SUBSET Candidates /\ \A c \in separating : Separates(witness, c.pred)
      OBVIOUS
    <2> HIDE DEF separating
    <2> QED BY <1>1, <1>6, <2>1, SearchFits
  <1> QED BY <1>3, <1>4, <1>5, <1>6 DEF RefineOnce

\* A committed probe is charged within the budget and accepted.
LEMMA CommitAccepts ==
    ASSUME RefinementInv, CommitProbe
    PROVE  RefinementInv' /\ Refines /\ (TreeIsFull \/ result'.status = "SPLIT_ACCEPTED")
  <1>1. /\ counters.evaluations \in Nat /\ probes \in Nat /\ probes > 0
        /\ counters.evaluations + probes <= MaxEvaluations
    BY DEF RefinementInv, CountersFit, CommitProbe
  <1>2. Precharged \in Nat /\ Precharged < MaxEvaluations
    BY <1>1, BudgetAssumption DEF Precharged
  <1>3. PICK cell \in CellIds(partition), width \in Widths, c \in Candidates :
          \E witness \in Witnesses(cell) :
             /\ Separates(witness, c.pred)
             /\ QualityPasses(c, width) /\ RateFits(c)
             /\ RefineOnce("UNCERTIFIED", cell, witness, {c}, width, Precharged)
    BY DEF CommitProbe
  <1>4. PICK witness \in Witnesses(cell) :
          /\ Separates(witness, c.pred)
          /\ QualityPasses(c, width) /\ RateFits(c)
          /\ RefineOnce("UNCERTIFIED", cell, witness, {c}, width, Precharged)
    BY <1>3
  <1>5. RefinementInv' /\ Refines
    <2>1. "UNCERTIFIED" \in Verdicts /\ {c} \in SUBSET Candidates
          /\ witness \in Witnesses(cell) \cup {Nothing} /\ Precharged <= MaxEvaluations
      BY <1>2, BudgetAssumption DEF Verdicts
    <2> HIDE DEF Precharged
    <2> QED BY <1>2, <1>4, <2>1, RefineOnceFits
  <1>6. ASSUME ~TreeIsFull PROVE result'.status = "SPLIT_ACCEPTED"
    <2>1. {d \in {c} : Separates(witness, d.pred)} = {c}
      BY <1>4
    <2>2. SearchSplit(cell, {c}, witness, width, Precharged)
      BY <1>4, <1>6, <2>1 DEF RefineOnce
    <2>3. Position(c, {c}) = 1
      <3>1. {d \in {c} : RankBefore(d, c)} = {}
        BY RankOrder
      <3> QED BY <3>1, FS_EmptySet DEF Position
    <2>4. c \in Reached({c}, Precharged)
      BY <1>2, <2>3, BudgetAssumption DEF Reached
    <2>5. Splits(cell, c, width)
      BY <1>4, SeparatorAccepted, CandidateFacts DEF RefinementInv, Splits
    <2>6. {d \in Reached({c}, Precharged) : Splits(cell, d, width)} # {}
      BY <2>4, <2>5
    <2> QED BY <2>2, <2>6 DEF SearchSplit, Answer
  <1> QED BY <1>5, <1>6

\* An inventory that was not probed.
LEMMA RefineFits == ASSUME RefinementInv, Refine PROVE RefinementInv' /\ Refines
  <1>1. counters.evaluations \in Nat /\ counters.evaluations <= MaxEvaluations
    BY DEF RefinementInv, CountersFit, BudgetsExact
  <1>2. PICK cell \in CellIds(partition), width \in Widths,
             candidates \in SUBSET Candidates, verdict \in Verdicts :
          \E witness \in Witnesses(cell) \cup {Nothing} :
             RefineOnce(verdict, cell, witness, candidates, width, counters.evaluations)
    BY DEF Refine
  <1>3. PICK witness \in Witnesses(cell) \cup {Nothing} :
             RefineOnce(verdict, cell, witness, candidates, width, counters.evaluations)
    BY <1>2
  <1> QED BY <1>1, <1>3, RefineOnceFits

\* A probe leaves the live tracker alone.
LEMMA ProbeFits ==
    ASSUME RefinementInv, NEW cell, NEW witness, NEW p, Probe(cell, witness, p)
    PROVE  RefinementInv' /\ Refines /\ probes' # 0
  <1>1. /\ UNCHANGED <<encoder, partition, trackerVars, counters, result>>
        /\ probes \in Nat /\ probes' = probes + 1
    BY DEF Probe, RefinementInv, CountersFit
  <1>2. UNCHANGED <<encoder, partition, trackerVars>> /\ UNCHANGED <<encoder, partition>>
        /\ UNCHANGED <<encoder, partition, trackerVars, result>>
    BY <1>1
  <1>3. TreeFits' /\ Refines
    BY <1>2, TreeStays, StaysRefines DEF RefinementInv
  <1>4. CountersFit'
    BY <1>1 DEF RefinementInv, CountersFit
  <1>5. BudgetsExact'
    <2>1. counters.evaluations <= MaxEvaluations /\ counters.fallbacks <= MaxFallbacks
      BY DEF RefinementInv, BudgetsExact
    <2> QED BY <1>1, <1>2, <2>1, CountsStay
  <1>6. WitnessAnswered'
    BY <1>2, WitnessStays
  <1> QED BY <1>1, <1>3, <1>4, <1>5, <1>6 DEF RefinementInv

\* A ground fallback is counted within its bound.
LEMMA FallbackFits ==
    ASSUME RefinementInv, RecordGroundFallback
    PROVE  RefinementInv' /\ Refines /\ UNCHANGED probes
  <1>1. UNCHANGED <<encoder, partition, trackerVars>> /\ UNCHANGED <<encoder, partition>>
        /\ UNCHANGED probes
    BY DEF RecordGroundFallback
  <1>2. TreeFits' /\ Refines
    BY <1>1, TreeStays, StaysRefines DEF RefinementInv
  <1>3. counters \in [leaves : Nat, accepted : Nat, rate : Nat,
                      evaluations : Nat, fallbacks : Nat]
        /\ probes \in Nat
        /\ counters.evaluations <= MaxEvaluations /\ counters.fallbacks <= MaxFallbacks
    BY DEF RefinementInv, CountersFit, BudgetsExact
  <1>4. /\ counters' \in [leaves : Nat, accepted : Nat, rate : Nat,
                          evaluations : Nat, fallbacks : Nat]
        /\ counters'.leaves = counters.leaves /\ counters'.accepted = counters.accepted
        /\ counters'.rate = counters.rate
        /\ counters'.evaluations <= MaxEvaluations /\ counters'.fallbacks <= MaxFallbacks
    BY <1>3, BudgetAssumption DEF RecordGroundFallback
  <1>5. /\ result' \in [status : Statuses, witness : {Nothing} \cup SUBSET States]
        /\ result'.witness = Nothing
    <2>1. result \in [status : Statuses, witness : {Nothing} \cup SUBSET States]
      BY DEF RefinementInv, CountersFit
    <2>2. "GROUND_FALLBACK" \in Statuses /\ "REFINEMENT_BUDGET_EXHAUSTED" \in Statuses
      BY DEF Statuses
    <2>3. CASE result' = [result EXCEPT !.status = "REFINEMENT_BUDGET_EXHAUSTED",
                                        !.witness = Nothing]
      BY <2>1, <2>2, <2>3
    <2>4. CASE result' = [result EXCEPT !.status = "GROUND_FALLBACK", !.witness = Nothing]
      BY <2>1, <2>2, <2>4
    <2> QED BY <2>3, <2>4 DEF RecordGroundFallback
  <1>6. CountersFit'
    BY <1>1, <1>3, <1>4, <1>5 DEF CountersFit
  <1>7. BudgetsExact'
    BY <1>1, <1>4, CountsStay
  <1>8. WitnessAnswered'
    BY <1>5 DEF WitnessAnswered
  <1> QED BY <1>1, <1>2, <1>6, <1>7, <1>8 DEF RefinementInv

\* Every step keeps the invariant, refines and accepts a committed probe.
LEMMA StepFits ==
    ASSUME RefinementInv, [Next]_refinementVars
    PROVE  /\ RefinementInv' /\ Refines
           /\ probes > 0 /\ probes' = 0 =>
                TreeIsFull \/ result'.status = "SPLIT_ACCEPTED"
  <1>1. CASE \E cell \in CellIds(partition), p \in Predicates :
               \E witness \in Witnesses(cell) : Probe(cell, witness, p)
    BY <1>1, ProbeFits
  <1>2. CASE Refine
    BY <1>2, RefineFits DEF Refine
  <1>3. CASE CommitProbe
    BY <1>3, CommitAccepts
  <1>4. CASE RecordGroundFallback
    BY <1>4, FallbackFits
  <1>5. CASE UNCHANGED refinementVars
    <2>1. UNCHANGED <<encoder, partition, trackerVars>> /\ UNCHANGED <<encoder, partition>>
          /\ UNCHANGED <<encoder, partition, trackerVars, result>>
          /\ UNCHANGED <<counters, probes, result>>
      BY <1>5 DEF refinementVars, trackerVars
    <2>2. TreeFits' /\ Refines
      BY <2>1, TreeStays, StaysRefines DEF RefinementInv
    <2>3. CountersFit'
      BY <2>1 DEF RefinementInv, CountersFit
    <2>4. BudgetsExact'
      <3>1. counters.evaluations <= MaxEvaluations /\ counters.fallbacks <= MaxFallbacks
        BY DEF RefinementInv, BudgetsExact
      <3> QED BY <2>1, <3>1, CountsStay
    <2>5. WitnessAnswered'
      BY <2>1, WitnessStays
    <2>6. ~(probes > 0 /\ probes' = 0)
      BY <2>1
    <2> QED BY <2>2, <2>3, <2>4, <2>5, <2>6 DEF RefinementInv
  <1> QED BY <1>1, <1>2, <1>3, <1>4, <1>5 DEF Next

-----------------------------------------------------------------------------
(* Theorems                                                                *)

\* The inductive invariant of the refinement holds in every reachable state.
THEOREM RefinementInvariant == RefinementSpec => []RefinementInv
  <1>1. RefinementInv /\ [Next]_refinementVars => RefinementInv'
    BY StepFits
  <1> QED BY <1>1, InitFits, PTL DEF RefinementSpec

\* Partitions, tracker and counters keep their types: no charge of the
\* construction loops makes a counter negative.
THEOREM RefinementTypeCorrect == RefinementSpec => []RefinementTypeOK
  <1>1. RefinementInv => RefinementTypeOK
    BY DEF RefinementInv, TreeFits, TreeTypes, CountersFit, RefinementTypeOK
  <1> QED BY <1>1, RefinementInvariant, PTL

\* Whatever mixture of probes, refinements and fallbacks spends them, the
\* counters are exact and no budget of refine_once is exceeded.
THEOREM BudgetsStayExact == RefinementSpec => []BudgetsExact
  <1>1. RefinementInv => BudgetsExact
    BY DEF RefinementInv
  <1> QED BY <1>1, RefinementInvariant, PTL

\* A cell of the partition is what its base cell and its predicate path say.
THEOREM CellsAreTheirPaths == RefinementSpec => []CellsFollowTheirPaths
  <1>1. RefinementInv => CellsFollowTheirPaths
    BY DEF RefinementInv, TreeFits
  <1> QED BY <1>1, RefinementInvariant, PTL

\* attempt_split never turns a separating predicate away as a duplicate.
THEOREM SeparatorsAlwaysSplit == RefinementSpec => []SeparatorsSplit
  <1>1. RefinementInv => SeparatorsSplit
    BY SeparatorAccepted DEF RefinementInv, SeparatorsSplit
  <1> QED BY <1>1, RefinementInvariant, PTL

\* What refine_once says of the witness is true of the partition it returns.
THEOREM WitnessesAnswered == RefinementSpec => []WitnessAnswered
  <1>1. RefinementInv => WitnessAnswered
    BY DEF RefinementInv
  <1> QED BY <1>1, RefinementInvariant, PTL

\* No call merges cells, and none adds more than one.
THEOREM PartitionOnlyRefines == RefinementSpec => OnlyRefines
  <1>1. RefinementInv /\ [Next]_refinementVars =>
          [/\ \A s, t \in States :
                 partition'[s] = partition'[t] => partition[s] = partition[t]
           /\ Cardinality(CellIds(partition')) <= Cardinality(CellIds(partition)) + 1]_refinementVars
    BY StepFits DEF Refines
  <1> QED BY <1>1, RefinementInvariant, PTL DEF RefinementSpec, OnlyRefines

\* The construction loop's committed probe is accepted unless the tree is full.
THEOREM CommittedProbesAccepted == RefinementSpec => CommittedProbesSplit
  <1>1. RefinementInv /\ [Next]_refinementVars =>
          [probes > 0 /\ probes' = 0 =>
             TreeIsFull \/ result'.status = "SPLIT_ACCEPTED"]_refinementVars
    BY StepFits
  <1> QED BY <1>1, RefinementInvariant, PTL DEF RefinementSpec, CommittedProbesSplit

-----------------------------------------------------------------------------
(* Sums over finite sets                                                   *)

\* The recursion SumFunctionOnSet unfolds to.
Pick(s) == CHOOSE x \in s : TRUE
Sums(f, w, S) ==
    f = [s \in SUBSET S |-> IF s = {} THEN 0 ELSE w[Pick(s)] + f[s \ {Pick(s)}]]
Weighs(w, S) == IsFiniteSet(S) /\ \A x \in S : w[x] \in Int

\* Every set of naturals that is not empty has a least element.
LEMMA LeastNat ==
    ASSUME NEW T, T \subseteq Nat, T # {}
    PROVE  \E n \in T : \A m \in T : ~(m < n)
  <1>1. PICK n \in T : \A m \in T : <<m, n>> \notin OpToRel(<, Nat)
    BY NatLessThanWellFounded, WFMin
  <1> QED BY <1>1 DEF OpToRel

\* A smallest subset among those that are bad.
LEMMA LeastSubset ==
    ASSUME NEW S, IsFiniteSet(S), NEW Bad, Bad \subseteq SUBSET S, Bad # {}
    PROVE  \E s \in Bad : \A r \in SUBSET s : r # s => r \notin Bad
  <1>1. \A s \in SUBSET S : IsFiniteSet(s) /\ Cardinality(s) \in Nat
    BY FS_Subset, FS_CardinalityType
  <1> DEFINE T == {Cardinality(s) : s \in Bad}
  <1>2. T \subseteq Nat /\ T # {}
    BY <1>1
  <1>3. PICK n \in T : \A m \in T : ~(m < n)
    BY <1>2, LeastNat
  <1>4. PICK s \in Bad : Cardinality(s) = n
    BY <1>3
  <1>5. ASSUME NEW r \in SUBSET s, r # s, r \in Bad PROVE FALSE
    <2>1. Cardinality(r) < Cardinality(s)
      BY <1>1, <1>5, FS_Subset
    <2>2. Cardinality(r) \in T
      BY <1>5
    <2> QED BY <1>3, <1>4, <2>1, <2>2
  <1> QED BY <1>4, <1>5

\* The element SumFunctionOnSet takes out of a set is in it.
LEMMA PickIsElement ==
    ASSUME NEW s, s # {}
    PROVE  Pick(s) \in s
  BY DEF Pick

\* The recursion has a solution, built up from the smaller subsets.
LEMMA SumsExist ==
    ASSUME NEW w, NEW S, Weighs(w, S)
    PROVE  \E f : Sums(f, w, S)
  <1> DEFINE Step(f) == [s \in SUBSET S |->
                           IF s = {} THEN 0 ELSE w[Pick(s)] + f[s \ {Pick(s)}]]
             Solves(f, n) == \A s \in SUBSET S : Cardinality(s) <= n => f[s] = Step(f)[s]
             T == {n \in Nat : ~ \E f : Solves(f, n)}
  <1>1. \A s \in SUBSET S : IsFiniteSet(s) /\ Cardinality(s) \in Nat
                            /\ Cardinality(s) <= Cardinality(S)
    BY FS_Subset, FS_CardinalityType DEF Weighs
  <1>2. T = {}
    <2> SUFFICES ASSUME T # {} PROVE FALSE
      OBVIOUS
    <2>1. PICK n \in T : \A m \in T : ~(m < n)
      BY LeastNat
    <2>2. CASE n = 0
      <3> DEFINE f == [s \in SUBSET S |-> 0]
      <3>1. ASSUME NEW s \in SUBSET S, Cardinality(s) <= 0 PROVE f[s] = Step(f)[s]
        <4>1. s = {}
          BY <1>1, <3>1, FS_EmptySet
        <4> QED BY <4>1
      <3>2. Solves(f, 0)
        BY <3>1
      <3> QED BY <2>1, <2>2, <3>2
    <2>3. CASE n # 0
      <3>1. n \in Nat /\ n - 1 \in Nat /\ n - 1 < n
        BY <2>1, <2>3
      <3>2. n - 1 \notin T
        BY <2>1, <3>1
      <3>3. PICK f : Solves(f, n - 1)
        BY <3>1, <3>2
      <3> DEFINE g == Step(f)
      <3>4. ASSUME NEW s \in SUBSET S, Cardinality(s) <= n PROVE g[s] = Step(g)[s]
        <4>1. CASE s = {}
          BY <4>1
        <4>2. CASE s # {}
          <5> DEFINE r == s \ {Pick(s)}
          <5>1. Pick(s) \in s /\ r \in SUBSET S
            BY <4>2, PickIsElement
          <5>2. Cardinality(r) = Cardinality(s) - 1
            BY <1>1, <5>1, FS_RemoveElement
          <5>3. Cardinality(r) <= n - 1
            BY <1>1, <3>1, <3>4, <5>1, <5>2
          <5>4. f[r] = g[r]
            BY <3>3, <5>1, <5>3
          <5>5. g[s] = w[Pick(s)] + f[r] /\ Step(g)[s] = w[Pick(s)] + g[r]
            BY <4>2
          <5> QED BY <5>4, <5>5
        <4> QED BY <4>1, <4>2
      <3>5. Solves(g, n)
        BY <3>4
      <3> QED BY <2>1, <3>5
    <2> QED BY <2>2, <2>3
  <1>3. Cardinality(S) \in Nat
    BY <1>1
  <1>4. PICK f : Solves(f, Cardinality(S))
    BY <1>2, <1>3
  <1>5. \A s \in SUBSET S : f[s] = Step(f)[s]
    BY <1>1, <1>4
  <1> DEFINE g == Step(f)
  <1>6. \A s \in SUBSET S : g[s] = f[s] /\ s \ {Pick(s)} \in SUBSET S
    BY <1>5
  <1>7. g = Step(g)
    <2>1. ASSUME NEW s \in SUBSET S PROVE Step(f)[s] = Step(g)[s]
      <3> HIDE DEF g
      <3> QED BY <1>6
    <2> HIDE DEF g
    <2> QED BY <2>1 DEF g
  <1> HIDE DEF g
  <1> QED BY <1>7 DEF Sums

\* Its value does not depend on the order in which elements are taken.
LEMMA SumsRemove ==
    ASSUME NEW w, NEW S, Weighs(w, S), NEW f, Sums(f, w, S), NEW s \in SUBSET S
    PROVE  /\ f[s] \in Int /\ (s = {} => f[s] = 0)
           /\ \A x \in s : f[s] = w[x] + f[s \ {x}]
  <1> DEFINE Good(t) == f[t] \in Int /\ \A x \in t : f[t] = w[x] + f[t \ {x}]
             Bad == {t \in SUBSET S : ~Good(t)}
  <1>1. \A t \in SUBSET S : f[t] = IF t = {} THEN 0 ELSE w[Pick(t)] + f[t \ {Pick(t)}]
    BY DEF Sums
  <1>2. Bad = {}
    <2> SUFFICES ASSUME Bad # {} PROVE FALSE
      OBVIOUS
    <2>1. PICK t \in Bad : \A r \in SUBSET t : r # t => r \notin Bad
      BY LeastSubset DEF Weighs
    <2>2. /\ t \in SUBSET S /\ ~Good(t) /\ \A x \in t : w[x] \in Int
          /\ \A r \in SUBSET t : r # t => Good(r)
      BY <2>1 DEF Weighs
    <2> HIDE DEF Bad
    <2>3. CASE t = {}
      <3>1. f[t] = 0
        BY <1>1, <2>2, <2>3
      <3> QED BY <2>2, <2>3, <3>1
    <2>4. CASE t # {}
      <3> DEFINE y == Pick(t)
      <3>1. y \in t /\ f[t] = w[y] + f[t \ {y}] /\ w[y] \in Int
        BY <1>1, <2>2, <2>4, PickIsElement
      <3> HIDE DEF y
      <3>2. Good(t \ {y})
        BY <2>2, <3>1
      <3>3. f[t] \in Int
        BY <3>1, <3>2
      <3>4. ASSUME NEW x \in t, x # y PROVE f[t] = w[x] + f[t \ {x}]
        <4> DEFINE r == (t \ {y}) \ {x}
        <4>1. Good(t \ {x}) /\ Good(r)
          BY <2>2, <3>1
        <4>2. x \in t \ {y} /\ y \in t \ {x} /\ r = (t \ {x}) \ {y}
          BY <3>1, <3>4
        <4>3. f[t \ {y}] = w[x] + f[r] /\ f[t \ {x}] = w[y] + f[r] /\ f[r] \in Int
          BY <3>2, <4>1, <4>2
        <4> HIDE DEF r
        <4>4. w[x] \in Int
          BY <2>2
        <4> QED BY <3>1, <4>3, <4>4
      <3>5. Good(t)
        BY <3>1, <3>3, <3>4
      <3> QED BY <2>2, <3>5
    <2> QED BY <2>3, <2>4
  <1> HIDE DEF Good
  <1>3. Good(s)
    BY <1>2
  <1> QED BY <1>1, <1>3 DEF Good

\* It depends on the values on the set alone.
LEMMA SumsAgree ==
    ASSUME NEW w, NEW v, NEW S, IsFiniteSet(S), NEW f, Sums(f, w, S), NEW g, Sums(g, v, S),
           \A x \in S : w[x] = v[x]
    PROVE  f[S] = g[S]
  <1> DEFINE Bad == {t \in SUBSET S : f[t] # g[t]}
  <1>1. \A t \in SUBSET S :
          /\ f[t] = IF t = {} THEN 0 ELSE w[Pick(t)] + f[t \ {Pick(t)}]
          /\ g[t] = IF t = {} THEN 0 ELSE v[Pick(t)] + g[t \ {Pick(t)}]
    BY DEF Sums
  <1>2. Bad = {}
    <2> SUFFICES ASSUME Bad # {} PROVE FALSE
      OBVIOUS
    <2>1. PICK t \in Bad : \A r \in SUBSET t : r # t => r \notin Bad
      BY LeastSubset
    <2>2. t # {} /\ Pick(t) \in t
      BY <1>1, <2>1, PickIsElement
    <2>3. f[t \ {Pick(t)}] = g[t \ {Pick(t)}] /\ w[Pick(t)] = v[Pick(t)]
      BY <2>1, <2>2
    <2> QED BY <1>1, <2>1, <2>2, <2>3
  <1> QED BY <1>2

\* A solution for a set is one for its subsets.
LEMMA SumsRestrict ==
    ASSUME NEW w, NEW S, NEW f, Sums(f, w, S), NEW R \in SUBSET S
    PROVE  Sums([s \in SUBSET R |-> f[s]], w, R)
  <1>1. \A s \in SUBSET R :
          /\ s \in SUBSET S /\ s \ {Pick(s)} \in SUBSET R
          /\ f[s] = IF s = {} THEN 0 ELSE w[Pick(s)] + f[s \ {Pick(s)}]
    BY DEF Sums
  <1> QED BY <1>1 DEF Sums

\* What is needed of a sum: any element may be taken out first.
LEMMA SumIs ==
    ASSUME NEW w, NEW S, Weighs(w, S)
    PROVE  /\ SumFunctionOnSet(w, {}) = 0
           /\ \A T \in SUBSET S :
                /\ SumFunctionOnSet(w, T) \in Int
                /\ \A x \in T : SumFunctionOnSet(w, T) = w[x] + SumFunctionOnSet(w, T \ {x})
  <1>1. PICK f : Sums(f, w, S)
    BY SumsExist
  <1>2. ASSUME NEW T \in SUBSET S PROVE SumFunctionOnSet(w, T) = f[T]
    <2> DEFINE g == CHOOSE h : Sums(h, w, T)
               r == [s \in SUBSET T |-> f[s]]
    <2>1. IsFiniteSet(T) /\ Sums(r, w, T)
      <3>1. IsFiniteSet(T)
        BY FS_Subset DEF Weighs
      <3>2. Sums(r, w, T)
        BY <1>1, SumsRestrict
      <3> QED BY <3>1, <3>2
    <2>2. Sums(g, w, T)
      <3> HIDE DEF r
      <3> QED BY <2>1
    <2>3. SumFunctionOnSet(w, T) = g[T]
      BY DEF SumFunctionOnSet, FoldFunctionOnSet, MapThenFoldSet, Sums, Pick
    <2> HIDE DEF g
    <2>4. g[T] = r[T]
      <3> HIDE DEF r
      <3> QED BY <2>1, <2>2, SumsAgree
    <2> QED BY <2>3, <2>4
  <1>3. \A T \in SUBSET S : /\ f[T] \in Int /\ (T = {} => f[T] = 0)
                            /\ \A x \in T : f[T] = w[x] + f[T \ {x}]
    BY <1>1, SumsRemove
  <1>4. SumFunctionOnSet(w, {}) = 0
    BY <1>2, <1>3
  <1>5. ASSUME NEW T \in SUBSET S
        PROVE  /\ SumFunctionOnSet(w, T) \in Int
               /\ \A x \in T : SumFunctionOnSet(w, T) = w[x] + SumFunctionOnSet(w, T \ {x})
    <2>1. \A x \in T : T \ {x} \in SUBSET S
      OBVIOUS
    <2> QED BY <1>2, <1>3, <2>1
  <1> QED BY <1>4, <1>5

\* A sum grows with its terms.
LEMMA SumMonotone ==
    ASSUME NEW v, NEW w, NEW S, Weighs(v, S), Weighs(w, S), \A x \in S : v[x] <= w[x]
    PROVE  SumFunctionOnSet(v, S) <= SumFunctionOnSet(w, S)
  <1> DEFINE Good(T) == SumFunctionOnSet(v, T) <= SumFunctionOnSet(w, T)
             Bad == {T \in SUBSET S : ~Good(T)}
  <1>1. SUFFICES Bad = {}
    <2>1. S \notin Bad /\ S \in SUBSET S
      BY <1>1
    <2> QED BY <2>1
  <1>2. SUFFICES ASSUME Bad # {} PROVE FALSE
    OBVIOUS
  <1>3. PICK T \in Bad : \A r \in SUBSET T : r # T => r \notin Bad
    <2> HIDE DEF Bad
    <2>1. Bad \subseteq SUBSET S /\ IsFiniteSet(S)
      BY DEF Bad, Weighs
    <2> QED BY <1>2, <2>1, LeastSubset
  <1>4. T \in SUBSET S /\ ~Good(T)
    BY <1>3
  <1>5. T # {}
    BY <1>4, SumIs
  <1>6. PICK x \in T : TRUE
    BY <1>5
  <1>7. Good(T \ {x})
    BY <1>3, <1>4, <1>6
  <1>8. /\ SumFunctionOnSet(v, T) = v[x] + SumFunctionOnSet(v, T \ {x})
        /\ SumFunctionOnSet(w, T) = w[x] + SumFunctionOnSet(w, T \ {x})
        /\ SumFunctionOnSet(v, T \ {x}) \in Int /\ SumFunctionOnSet(w, T \ {x}) \in Int
        /\ v[x] \in Int /\ w[x] \in Int /\ v[x] <= w[x]
    BY <1>4, <1>6, SumIs DEF Weighs
  <1> QED BY <1>4, <1>7, <1>8

\* The sum of a sum of two terms
LEMMA SumPlus ==
    ASSUME NEW u, NEW v, NEW w, NEW S, Weighs(v, S), Weighs(w, S),
           \A x \in S : u[x] = v[x] + w[x]
    PROVE  /\ Weighs(u, S)
           /\ SumFunctionOnSet(u, S) = SumFunctionOnSet(v, S) + SumFunctionOnSet(w, S)
  <1> DEFINE Good(T) == SumFunctionOnSet(u, T) = SumFunctionOnSet(v, T) + SumFunctionOnSet(w, T)
             Bad == {T \in SUBSET S : ~Good(T)}
  <1>1. Weighs(u, S)
    BY DEF Weighs
  <1>2. Bad = {}
    <2> SUFFICES ASSUME Bad # {} PROVE FALSE
      OBVIOUS
    <2>1. PICK T \in Bad : \A r \in SUBSET T : r # T => r \notin Bad
      <3> HIDE DEF Bad
      <3>1. Bad \subseteq SUBSET S /\ IsFiniteSet(S)
        BY DEF Bad, Weighs
      <3> QED BY <3>1, LeastSubset
    <2>2. T \in SUBSET S /\ ~Good(T)
      BY <2>1
    <2>3. T # {}
      <3>1. /\ SumFunctionOnSet(u, {}) = 0 /\ SumFunctionOnSet(v, {}) = 0
            /\ SumFunctionOnSet(w, {}) = 0
        BY <1>1, SumIs
      <3> QED BY <2>2, <3>1
    <2>4. PICK x \in T : TRUE
      BY <2>3
    <2>5. Good(T \ {x})
      BY <2>1, <2>2, <2>4
    <2>6. /\ SumFunctionOnSet(u, T) = u[x] + SumFunctionOnSet(u, T \ {x})
          /\ SumFunctionOnSet(v, T) = v[x] + SumFunctionOnSet(v, T \ {x})
          /\ SumFunctionOnSet(w, T) = w[x] + SumFunctionOnSet(w, T \ {x})
          /\ SumFunctionOnSet(v, T \ {x}) \in Int /\ SumFunctionOnSet(w, T \ {x}) \in Int
          /\ v[x] \in Int /\ w[x] \in Int /\ u[x] = v[x] + w[x]
      <3>1. T \ {x} \in SUBSET S /\ x \in S
        BY <2>2, <2>4
      <3>2. SumFunctionOnSet(u, T) = u[x] + SumFunctionOnSet(u, T \ {x})
        BY <1>1, <2>2, <2>4, SumIs
      <3>3. /\ SumFunctionOnSet(v, T) = v[x] + SumFunctionOnSet(v, T \ {x})
            /\ SumFunctionOnSet(v, T \ {x}) \in Int
        BY <2>2, <2>4, <3>1, SumIs
      <3>4. /\ SumFunctionOnSet(w, T) = w[x] + SumFunctionOnSet(w, T \ {x})
            /\ SumFunctionOnSet(w, T \ {x}) \in Int
        BY <2>2, <2>4, <3>1, SumIs
      <3>5. v[x] \in Int /\ w[x] \in Int /\ u[x] = v[x] + w[x]
        BY <3>1 DEF Weighs
      <3> QED BY <3>2, <3>3, <3>4, <3>5
    <2> QED BY <2>2, <2>5, <2>6
  <1>3. S \notin Bad /\ S \in SUBSET S
    BY <1>2
  <1> QED BY <1>1, <1>3

\* A sum with at most one term that is not zero
LEMMA SumPoint ==
    ASSUME NEW w, NEW S, Weighs(w, S), NEW d \in S, \A x \in S : x # d => w[x] = 0
    PROVE  SumFunctionOnSet(w, S) = w[d]
  <1> DEFINE R == S \ {d}
             Bad == {T \in SUBSET R : SumFunctionOnSet(w, T) # 0}
  <1>1. Bad = {}
    <2> SUFFICES ASSUME Bad # {} PROVE FALSE
      OBVIOUS
    <2>1. PICK T \in Bad : \A r \in SUBSET T : r # T => r \notin Bad
      <3> HIDE DEF Bad
      <3>1. Bad \subseteq SUBSET R /\ IsFiniteSet(R)
        BY FS_RemoveElement DEF Bad, Weighs
      <3> QED BY <3>1, LeastSubset
    <2>2. T # {}
      BY <2>1, SumIs
    <2>3. PICK x \in T : TRUE
      BY <2>2
    <2>4. SumFunctionOnSet(w, T \ {x}) = 0
      BY <2>1, <2>3
    <2>5. SumFunctionOnSet(w, T) = w[x] + SumFunctionOnSet(w, T \ {x}) /\ w[x] = 0
      BY <2>1, <2>3, SumIs
    <2> QED BY <2>1, <2>4, <2>5
  <1>2. SumFunctionOnSet(w, R) = 0
    BY <1>1
  <1>3. SumFunctionOnSet(w, S) = w[d] + SumFunctionOnSet(w, R) /\ w[d] \in Int
    BY SumIs DEF Weighs
  <1> QED BY <1>2, <1>3

-----------------------------------------------------------------------------
(* Stages and extrema                                                      *)

\* Induction over the steps remaining
LEMMA StageInduction ==
    ASSUME NEW H \in Nat, NEW T, 0 \in T, \A n \in 1..H : n - 1 \in T => n \in T
    PROVE  0..H \subseteq T
  <1> DEFINE Bad == {n \in 0..H : n \notin T}
  <1>1. SUFFICES ASSUME Bad # {} PROVE FALSE
    OBVIOUS
  <1>2. PICK n \in Bad : \A m \in Bad : ~(m < n)
    <2>1. Bad \subseteq Nat
      OBVIOUS
    <2> HIDE DEF Bad
    <2> QED BY <1>1, <2>1, LeastNat
  <1>3. n # 0 /\ n \in 0..H /\ n \notin T
    BY <1>2
  <1>4. n \in 1..H /\ n - 1 \in 0..H /\ n - 1 < n
    BY <1>3
  <1>5. n - 1 \in T
    BY <1>2, <1>4
  <1> QED BY <1>3, <1>4, <1>5

\* A recursion over the steps remaining whose values stay in V has a solution.
StaysIn(G, H, V) == \A n \in 1..H, v \in V : G[n][v] \in V
Recursion(f, b, G, H) == f[0] = b /\ \A n \in 1..H : f[n] = G[n][f[n - 1]]

\* A stage-by-stage recursion over 0..H has a solution that stays in V.
LEMMA StagesExist ==
    ASSUME NEW H \in Nat, NEW V, NEW b \in V, NEW G, StaysIn(G, H, V)
    PROVE  \E f \in [0..H -> V] : Recursion(f, b, G, H)
  <1> DEFINE T == {k \in 0..H : \E f \in [0..H -> V] :
                     f[0] = b /\ \A n \in 1..k : f[n] = G[n][f[n - 1]]}
  <1>1. 0 \in T
    <2> DEFINE f == [i \in 0..H |-> b]
    <2>1. f \in [0..H -> V] /\ f[0] = b
      OBVIOUS
    <2> HIDE DEF f
    <2>2. 1..0 = {} /\ 0 \in 0..H
      OBVIOUS
    <2>3. \A n \in 1..0 : f[n] = G[n][f[n - 1]]
      BY <2>2
    <2> QED BY <2>1, <2>2, <2>3
  <1>2. ASSUME NEW k \in 1..H, k - 1 \in T PROVE k \in T
    <2>1. PICK f \in [0..H -> V] :
             f[0] = b /\ \A n \in 1..(k - 1) : f[n] = G[n][f[n - 1]]
      BY <1>2
    <2> DEFINE g == [f EXCEPT ![k] = G[k][f[k - 1]]]
    <2>2. k - 1 \in 0..H /\ k \in 0..H /\ f[k - 1] \in V
      BY <1>2
    <2>3. G[k][f[k - 1]] \in V
      BY <2>2 DEF StaysIn
    <2>4. g \in [0..H -> V] /\ g[0] = b
      BY <2>1, <2>3
    <2>5. ASSUME NEW n \in 1..k PROVE g[n] = G[n][g[n - 1]]
      <3>1. g[n - 1] = f[n - 1]
        BY <2>2
      <3>2. CASE n = k
        BY <2>2, <3>1, <3>2
      <3>3. CASE n # k
        <4>1. n \in 1..(k - 1) /\ g[n] = f[n]
          BY <2>2, <3>3
        <4> QED BY <2>1, <3>1, <4>1
      <3> QED BY <3>2, <3>3
    <2> HIDE DEF g
    <2> QED BY <2>2, <2>4, <2>5
  <1>3. H \in T
    <2> HIDE DEF T
    <2> QED BY <1>1, <1>2, StageInduction
  <1> QED BY <1>3 DEF Recursion

\* One of finitely many integers is the greatest, and one the least.
LEMMA Extrema ==
    ASSUME NEW S, IsFiniteSet(S), S # {}, NEW f, \A x \in S : f[x] \in Int
    PROVE  /\ \E x \in S : \A y \in S : f[x] >= f[y]
           /\ \E x \in S : \A y \in S : f[x] <= f[y]
  <1> DEFINE Good(T) == /\ \E x \in T : \A y \in T : f[x] >= f[y]
                        /\ \E x \in T : \A y \in T : f[x] <= f[y]
             Bad == {T \in SUBSET S : T # {} /\ ~Good(T)}
  <1>1. SUFFICES ASSUME Bad # {} PROVE FALSE
    <2>1. S \notin Bad
      BY <1>1
    <2> QED BY <2>1
  <1>2. PICK T \in Bad : \A r \in SUBSET T : r # T => r \notin Bad
    <2>1. Bad \subseteq SUBSET S
      OBVIOUS
    <2> HIDE DEF Bad
    <2> QED BY <1>1, <2>1, LeastSubset
  <1>3. T \in SUBSET S /\ T # {} /\ ~Good(T)
    BY <1>2
  <1>4. PICK x \in T : TRUE
    BY <1>3
  <1>5. CASE T = {x}
    <2>1. f[x] \in Int
      BY <1>3, <1>4
    <2>2. Good({x})
      BY <2>1
    <2> QED BY <1>3, <1>5, <2>2
  <1>6. CASE T # {x}
    <2>1. Good(T \ {x})
      <3>1. T \ {x} \in SUBSET T /\ T \ {x} # T /\ T \ {x} # {} /\ T \ {x} \in SUBSET S
        BY <1>3, <1>4, <1>6
      <3>2. T \ {x} \notin Bad
        <4> HIDE DEF Bad
        <4> QED BY <1>2, <3>1
      <3> HIDE DEF Good
      <3> QED BY <3>1, <3>2
    <2>2. PICK m \in T \ {x} : \A y \in T \ {x} : f[m] >= f[y]
      BY <2>1
    <2>3. PICK n \in T \ {x} : \A y \in T \ {x} : f[n] <= f[y]
      BY <2>1
    <2>4. \A y \in T : f[y] \in Int
      BY <1>3
    <2>5. \E z \in T : \A y \in T : f[z] >= f[y]
      <3>1. CASE f[m] >= f[x]
        BY <1>4, <2>2, <2>4, <3>1
      <3>2. CASE ~(f[m] >= f[x])
        BY <1>4, <2>2, <2>4, <3>2
      <3> QED BY <3>1, <3>2
    <2>6. \E z \in T : \A y \in T : f[z] <= f[y]
      <3>1. CASE f[n] <= f[x]
        BY <1>4, <2>3, <2>4, <3>1
      <3>2. CASE ~(f[n] <= f[x])
        BY <1>4, <2>3, <2>4, <3>2
      <3> QED BY <3>1, <3>2
    <2> QED BY <1>3, <2>5, <2>6
  <1> QED BY <1>5, <1>6

\* Max is the greatest element of a set that has one ...
LEMMA MaxOf ==
    ASSUME NEW X, NEW m \in X, \A y \in X : m >= y
    PROVE  Max(X) \in X /\ \A y \in X : Max(X) >= y
  BY DEF Max

\* ... and Min the least.
LEMMA MinOf ==
    ASSUME NEW X, NEW m \in X, \A y \in X : m <= y
    PROVE  Min(X) \in X /\ \A y \in X : Min(X) <= y
  BY DEF Min

-----------------------------------------------------------------------------
(* Outcomes and realizations                                               *)

\* What an evaluation is made of; the two unit laws the arithmetic needs.
Values == [known : BOOLEAN, reward : Int, failure : Int]

\* A stage's unit is an integer.
LEMMA UnitType ==
    ASSUME NEW n \in Nat
    PROVE  Unit(n) \in Int
  BY DEF Unit, Scale

\* The outcomes of an action are typed, and the actions of a state finitely many.
LEMMA ActionFacts ==
    ASSUME kernel \in Kernels, NEW s \in GroundStates
    PROVE  /\ IsFiniteSet(Actions(s))
           /\ s \in Terminal => Actions(s) = {}
           /\ \A a \in Actions(s), i \in 1..2 : kernel[s][a][i] \in Outcomes
  <1>1. CASE s \in Terminal
    BY <1>1, FS_EmptySet DEF Actions
  <1>2. CASE s \notin Terminal
    <2>1. s \in DOMAIN kernel
      BY <1>2, KernelAssumption
    <2>2. IsFiniteSet(DOMAIN kernel[s]) /\ kernel[s] \in [DOMAIN kernel[s] -> [1..2 -> Outcomes]]
      BY <2>1, KernelAssumption
    <2>3. \A a \in DOMAIN kernel[s], i \in 1..2 : kernel[s][a][i] \in Outcomes
      BY <2>2
    <2> QED BY <1>2, <2>2, <2>3 DEF Actions
  <1> QED BY <1>1, <1>2

\* A label's one or two actions, and its four equally likely outcomes
Taken(s, l) == Pick(Matches(s, l))
Also(s, l) == IF Matches(s, l) = {Taken(s, l)} THEN Taken(s, l)
              ELSE Pick(Matches(s, l) \ {Taken(s, l)})
Drawn(s, l, j) ==
    IF j = 1 THEN kernel[s][Taken(s, l)][1]
    ELSE IF j = 2 THEN kernel[s][Taken(s, l)][2]
    ELSE IF j = 3 THEN kernel[s][Also(s, l)][1]
    ELSE kernel[s][Also(s, l)][2]
Four(F, s, l) ==
    F[Drawn(s, l, 1)] + F[Drawn(s, l, 2)] + F[Drawn(s, l, 3)] + F[Drawn(s, l, 4)]

\* Label l can be taken at s.
Takes(s, l) == s \in GroundStates /\ l \in Labels /\ l \in SemanticActions(s)

\* The concretizer of a label a state can take is one ground action or two.
LEMMA MatchFacts ==
    ASSUME kernel \in Kernels, NEW s, NEW l, Takes(s, l)
    PROVE  /\ Matches(s, l) = {Taken(s, l), Also(s, l)}
           /\ Matches(s, l) \subseteq Actions(s)
           /\ IsFiniteSet(Matches(s, l))
           /\ Cardinality(Matches(s, l)) = IF Taken(s, l) = Also(s, l) THEN 1 ELSE 2
  <1> DEFINE M == Matches(s, l)
             a == Taken(s, l)
             b == Also(s, l)
  <1>1. M \subseteq Actions(s) /\ M # {}
    BY DEF Takes, SemanticActions, Matches
  <1>2. IsFiniteSet(M)
    BY <1>1, ActionFacts, FS_Subset DEF Takes
  <1>3. Cardinality(M) <= 2
    <2>1. s \notin Terminal
      BY <1>1 DEF Actions
    <2>2. s \in DOMAIN kernel
      BY <2>1, KernelAssumption DEF Takes
    <2>3. M = {x \in DOMAIN kernel[s] : LabelOf[s][x] = l}
      BY <2>1 DEF Matches, Actions
    <2> QED BY <2>2, <2>3, AuditAssumption DEF Takes
  <1>4. a \in M
    BY <1>1, PickIsElement DEF Taken
  <1>5. Cardinality(M \ {a}) = Cardinality(M) - 1 /\ IsFiniteSet(M \ {a}) /\ Cardinality(M) \in Nat
    BY <1>2, <1>4, FS_RemoveElement, FS_CardinalityType
  <1>6. CASE M = {a}
    <2>1. b = a
      BY <1>6 DEF Also
    <2>2. Cardinality(M) = 1
      BY <1>6, FS_Singleton
    <2> QED BY <1>1, <1>2, <1>6, <2>1, <2>2
  <1>7. CASE M # {a}
    <2>1. b = Pick(M \ {a}) /\ M \ {a} # {}
      BY <1>4, <1>7 DEF Also
    <2>2. b \in M \ {a}
      BY <2>1, PickIsElement
    <2>3. Cardinality(M \ {a}) # 0
      BY <1>5, <2>1, FS_EmptySet
    <2>4. Cardinality(M \ {a}) = 1 /\ Cardinality(M) = 2
      <3>1. Cardinality(M \ {a}) \in Nat
        BY <1>5, FS_CardinalityType
      <3> QED BY <1>3, <1>5, <2>3, <3>1
    <2>5. PICK y : M \ {a} = {y}
      BY <1>5, <2>4, FS_Singleton
    <2>6. M = {a, b} /\ a # b
      BY <1>4, <2>2, <2>5
    <2> QED BY <1>1, <1>2, <2>4, <2>6
  <1> QED BY <1>6, <1>7

\* The four outcomes are outcomes of the label's actions, and all of them.
LEMMA DrawnFacts ==
    ASSUME kernel \in Kernels, NEW s, NEW l, Takes(s, l)
    PROVE  /\ \A j \in 1..4 : \E a \in Matches(s, l), i \in 1..2 : Drawn(s, l, j) = kernel[s][a][i]
           /\ \A a \in Matches(s, l), i \in 1..2 : \E j \in 1..4 : Drawn(s, l, j) = kernel[s][a][i]
           /\ \A j \in 1..4 : Drawn(s, l, j) \in Outcomes
  <1>1. Matches(s, l) = {Taken(s, l), Also(s, l)} /\ Matches(s, l) \subseteq Actions(s)
    BY MatchFacts
  <1>2. \A j \in 1..4 : \E a \in Matches(s, l), i \in 1..2 : Drawn(s, l, j) = kernel[s][a][i]
    BY <1>1 DEF Drawn
  <1>3. ASSUME NEW a \in Matches(s, l), NEW i \in 1..2
        PROVE  \E j \in 1..4 : Drawn(s, l, j) = kernel[s][a][i]
    <2>1. /\ Drawn(s, l, 1) = kernel[s][Taken(s, l)][1] /\ Drawn(s, l, 2) = kernel[s][Taken(s, l)][2]
          /\ Drawn(s, l, 3) = kernel[s][Also(s, l)][1] /\ Drawn(s, l, 4) = kernel[s][Also(s, l)][2]
      BY DEF Drawn
    <2>2. CASE a = Taken(s, l) /\ i = 1
      BY <2>1, <2>2
    <2>3. CASE a = Taken(s, l) /\ i = 2
      BY <2>1, <2>3
    <2>4. CASE a = Also(s, l) /\ i = 1
      BY <2>1, <2>4
    <2>5. CASE a = Also(s, l) /\ i = 2
      BY <2>1, <2>5
    <2> QED BY <1>1, <2>2, <2>3, <2>4, <2>5
  <1>4. \A j \in 1..4 : Drawn(s, l, j) \in Outcomes
    BY <1>1, <1>2, ActionFacts DEF Takes
  <1> QED BY <1>2, <1>3, <1>4

\* The concretizer's mean of two outcomes' mean is the mean of the four.
LEMMA Realized ==
    ASSUME kernel \in Kernels, NEW s, NEW l, Takes(s, l), NEW F, \A o \in Outcomes : F[o] \in Int
    PROVE  /\ Four(F, s, l) \in Int
           /\ SumFunction([a \in Matches(s, l) |-> 2 * (F[kernel[s][a][1]] + F[kernel[s][a][2]])])
                \div Cardinality(Matches(s, l)) = Four(F, s, l)
  <1> DEFINE M == Matches(s, l)
             a == Taken(s, l)
             b == Also(s, l)
             w == [x \in M |-> 2 * (F[kernel[s][x][1]] + F[kernel[s][x][2]])]
             p == F[kernel[s][a][1]] + F[kernel[s][a][2]]
             q == F[kernel[s][b][1]] + F[kernel[s][b][2]]
  <1>1. M = {a, b} /\ M \subseteq Actions(s) /\ IsFiniteSet(M)
        /\ Cardinality(M) = IF a = b THEN 1 ELSE 2
    BY MatchFacts
  <1>2. \A x \in M : F[kernel[s][x][1]] \in Int /\ F[kernel[s][x][2]] \in Int
    BY <1>1, ActionFacts DEF Takes
  <1>3. p \in Int /\ q \in Int /\ a \in M /\ b \in M
    BY <1>1, <1>2
  <1>4. Four(F, s, l) = p + q
    <2>1. Four(F, s, l) = F[kernel[s][a][1]] + F[kernel[s][a][2]] + F[kernel[s][b][1]] + F[kernel[s][b][2]]
      BY DEF Four, Drawn
    <2> QED BY <1>2, <1>3, <2>1
  <1>5. Weighs(w, M) /\ DOMAIN w = M /\ w[a] = 2 * p /\ w[b] = 2 * q
    BY <1>1, <1>2, <1>3 DEF Weighs
  <1>6. SumFunction(w) = SumFunctionOnSet(w, M)
    BY <1>5 DEF SumFunction
  <1> HIDE DEF w, M, a, b, p, q
  <1>7. SumFunctionOnSet(w, M) = w[a] + SumFunctionOnSet(w, M \ {a})
    BY <1>3, <1>5, SumIs
  <1>8. CASE a = b
    <2>1. M \ {a} = {} /\ p = q
      BY <1>1, <1>8 DEF p, q
    <2>2. SumFunctionOnSet(w, M) = 2 * p
      <3>1. SumFunctionOnSet(w, M \ {a}) = 0
        BY <1>5, <2>1, SumIs
      <3> QED BY <1>3, <1>5, <1>7, <3>1
    <2>3. (2 * p) \div 1 = p + q
      BY <1>3, <2>1
    <2>4. SumFunction(w) \div Cardinality(M) = p + q
      BY <1>1, <1>6, <1>8, <2>2, <2>3
    <2> QED BY <1>3, <1>4, <2>4 DEF w, M
  <1>9. CASE a # b
    <2>1. M \ {a} = {b} /\ b \in {b} /\ {b} \ {b} = {} /\ {b} \in SUBSET M
      BY <1>1, <1>9
    <2>2. SumFunctionOnSet(w, {b}) = w[b] + SumFunctionOnSet(w, {}) /\ SumFunctionOnSet(w, {}) = 0
      BY <1>5, <2>1, SumIs
    <2>3. SumFunctionOnSet(w, M) = 2 * p + 2 * q
      <3>1. SumFunctionOnSet(w, M \ {a}) = SumFunctionOnSet(w, {b})
        BY <2>1
      <3> QED BY <1>3, <1>5, <1>7, <2>2, <3>1
    <2>4. (2 * p + 2 * q) \div 2 = p + q
      BY <1>3
    <2>5. SumFunction(w) \div Cardinality(M) = p + q
      BY <1>1, <1>6, <1>9, <2>3, <2>4
    <2> QED BY <1>3, <1>4, <2>5 DEF w, M
  <1> QED BY <1>8, <1>9

\* The indicator of a successor cell, and what it contributes to an expectation
Hits(p, d, c) == IF p /\ d = c THEN 1 ELSE 0

\* The mass of one outcome, summed over the cells, falls into its own cell only.
LEMMA SumHits ==
    ASSUME NEW C, IsFiniteSet(C), NEW x, \A c \in C : x[c] \in Int,
           NEW p \in BOOLEAN, NEW d, p => d \in C
    PROVE  /\ Weighs([c \in C |-> Hits(p, d, c) * x[c]], C)
           /\ SumFunctionOnSet([c \in C |-> Hits(p, d, c) * x[c]], C) = IF p THEN x[d] ELSE 0
  <1> DEFINE w == [c \in C |-> Hits(p, d, c) * x[c]]
  <1>1. \A c \in C : w[c] = IF p /\ d = c THEN x[c] ELSE 0
    BY DEF Hits
  <1> HIDE DEF w
  <1>2. Weighs(w, C)
    BY <1>1 DEF Weighs
  <1>3. CASE p
    <2>1. d \in C /\ w[d] = x[d] /\ \A c \in C : c # d => w[c] = 0
      BY <1>1, <1>3
    <2>2. SumFunctionOnSet(w, C) = x[d]
      BY <1>2, <2>1, SumPoint
    <2> QED BY <1>2, <1>3, <2>2 DEF w
  <1>4. CASE ~p /\ C = {}
    <2>1. SumFunctionOnSet(w, C) = 0
      BY <1>2, <1>4, SumIs
    <2> QED BY <1>2, <1>4, <2>1 DEF w
  <1>5. CASE ~p /\ C # {}
    <2>1. PICK e \in C : TRUE
      BY <1>5
    <2>2. w[e] = 0 /\ \A c \in C : c # e => w[c] = 0
      BY <1>1, <1>5, <2>1
    <2>3. SumFunctionOnSet(w, C) = 0
      BY <1>2, <2>1, <2>2, SumPoint
    <2> QED BY <1>2, <1>5, <2>3 DEF w
  <1> QED BY <1>3, <1>4, <1>5

\* A sum of four terms is the sum of the four sums.
LEMMA SumPlusFour ==
    ASSUME NEW C, NEW e1, NEW e2, NEW e3, NEW e4,
           Weighs(e1, C), Weighs(e2, C), Weighs(e3, C), Weighs(e4, C),
           NEW w, \A c \in C : w[c] = e1[c] + e2[c] + e3[c] + e4[c]
    PROVE  SumFunctionOnSet(w, C) = SumFunctionOnSet(e1, C) + SumFunctionOnSet(e2, C)
                                    + SumFunctionOnSet(e3, C) + SumFunctionOnSet(e4, C)
  <1> DEFINE u == [c \in C |-> e1[c] + e2[c]]
             v == [c \in C |-> u[c] + e3[c]]
  <1>1. /\ \A c \in C : u[c] = e1[c] + e2[c]
        /\ \A c \in C : v[c] = u[c] + e3[c]
    OBVIOUS
  <1>2. \A c \in C : w[c] = v[c] + e4[c]
    BY DEF Weighs
  <1> HIDE DEF u, v
  <1>3. Weighs(u, C) /\ SumFunctionOnSet(u, C) = SumFunctionOnSet(e1, C) + SumFunctionOnSet(e2, C)
    BY <1>1, SumPlus
  <1>4. Weighs(v, C) /\ SumFunctionOnSet(v, C) = SumFunctionOnSet(u, C) + SumFunctionOnSet(e3, C)
    BY <1>1, <1>3, SumPlus
  <1>5. SumFunctionOnSet(w, C) = SumFunctionOnSet(v, C) + SumFunctionOnSet(e4, C)
    BY <1>2, <1>4, SumPlus
  <1> QED BY <1>3, <1>4, <1>5

\* The expectation over successor cells is the mean over the four outcomes.
LEMMA SumFour ==
    ASSUME NEW C, IsFiniteSet(C), NEW x, \A c \in C : x[c] \in Int,
           NEW p \in [1..4 -> BOOLEAN], NEW d, \A j \in 1..4 : p[j] => d[j] \in C,
           NEW w, \A c \in C : w[c] = (Hits(p[1], d[1], c) + Hits(p[2], d[2], c)
                                       + Hits(p[3], d[3], c) + Hits(p[4], d[4], c)) * x[c]
    PROVE  SumFunctionOnSet(w, C) = (IF p[1] THEN x[d[1]] ELSE 0) + (IF p[2] THEN x[d[2]] ELSE 0)
                                    + (IF p[3] THEN x[d[3]] ELSE 0) + (IF p[4] THEN x[d[4]] ELSE 0)
  <1> DEFINE e1 == [c \in C |-> Hits(p[1], d[1], c) * x[c]]
             e2 == [c \in C |-> Hits(p[2], d[2], c) * x[c]]
             e3 == [c \in C |-> Hits(p[3], d[3], c) * x[c]]
             e4 == [c \in C |-> Hits(p[4], d[4], c) * x[c]]
  <1>1. /\ Weighs(e1, C) /\ SumFunctionOnSet(e1, C) = IF p[1] THEN x[d[1]] ELSE 0
        /\ Weighs(e2, C) /\ SumFunctionOnSet(e2, C) = IF p[2] THEN x[d[2]] ELSE 0
        /\ Weighs(e3, C) /\ SumFunctionOnSet(e3, C) = IF p[3] THEN x[d[3]] ELSE 0
        /\ Weighs(e4, C) /\ SumFunctionOnSet(e4, C) = IF p[4] THEN x[d[4]] ELSE 0
    <2>1. ASSUME NEW j \in 1..4
          PROVE  /\ Weighs([c \in C |-> Hits(p[j], d[j], c) * x[c]], C)
                 /\ SumFunctionOnSet([c \in C |-> Hits(p[j], d[j], c) * x[c]], C)
                      = IF p[j] THEN x[d[j]] ELSE 0
      <3> DEFINE q == p[j]  e == d[j]
      <3>1. q \in BOOLEAN /\ (q => e \in C)
        OBVIOUS
      <3> HIDE DEF q, e
      <3>2. /\ Weighs([c \in C |-> Hits(q, e, c) * x[c]], C)
            /\ SumFunctionOnSet([c \in C |-> Hits(q, e, c) * x[c]], C) = IF q THEN x[e] ELSE 0
        BY <3>1, SumHits
      <3> QED BY <3>2 DEF q, e
    <2> QED BY <2>1
  <1>2. ASSUME NEW c \in C PROVE w[c] = e1[c] + e2[c] + e3[c] + e4[c]
    <2>1. /\ Hits(p[1], d[1], c) \in Int /\ Hits(p[2], d[2], c) \in Int
          /\ Hits(p[3], d[3], c) \in Int /\ Hits(p[4], d[4], c) \in Int /\ x[c] \in Int
      BY DEF Hits
    <2>2. \A a, b, g, h, y \in Int : (a + b + g + h) * y = a * y + b * y + g * y + h * y
      OBVIOUS
    <2>3. e1[c] + e2[c] + e3[c] + e4[c] = Hits(p[1], d[1], c) * x[c] + Hits(p[2], d[2], c) * x[c]
                                          + Hits(p[3], d[3], c) * x[c] + Hits(p[4], d[4], c) * x[c]
      OBVIOUS
    <2> QED BY <2>1, <2>2, <2>3
  <1> HIDE DEF e1, e2, e3, e4
  <1>3. SumFunctionOnSet(w, C) = SumFunctionOnSet(e1, C) + SumFunctionOnSet(e2, C)
                                 + SumFunctionOnSet(e3, C) + SumFunctionOnSet(e4, C)
    BY <1>1, <1>2, SumPlusFour
  <1> QED BY <1>1, <1>3

\* The cells of a partition are finitely many, finite and not empty.
LEMMA BlockFacts ==
    ASSUME NEW part, IsPartition(part)
    PROVE  /\ IsFiniteSet(BlocksOf(part))
           /\ \A s \in GroundStates : part[s] \in BlocksOf(part) /\ s \in part[s]
           /\ \A c \in BlocksOf(part) : /\ c # {} /\ c \subseteq GroundStates /\ IsFiniteSet(c)
                                        /\ \A s \in c : part[s] = c
  <1>1. part \in Surjection(GroundStates, BlocksOf(part))
    BY DEF Surjection, BlocksOf, IsPartition
  <1>2. IsFiniteSet(BlocksOf(part))
    BY <1>1, FS_Surjection, KernelAssumption
  <1>3. \A s \in GroundStates : part[s] \in BlocksOf(part) /\ s \in part[s]
    BY DEF BlocksOf, IsPartition
  <1>4. ASSUME NEW c \in BlocksOf(part)
        PROVE  /\ c # {} /\ c \subseteq GroundStates /\ IsFiniteSet(c)
               /\ \A s \in c : part[s] = c
    <2>1. PICK t \in GroundStates : c = part[t]
      BY DEF BlocksOf
    <2>2. c # {} /\ c \subseteq GroundStates /\ \A s \in c : part[s] = c
      BY <2>1 DEF IsPartition
    <2>3. IsFiniteSet(c)
      BY <2>2, FS_Subset, KernelAssumption
    <2> QED BY <2>2, <2>3
  <1> QED BY <1>2, <1>3, <1>4

-----------------------------------------------------------------------------
(* One stage, by its four outcomes                                         *)

\* What an outcome is worth, and what it risks, when a state is worth x[state]
Pay(n, x) ==
    [o \in Outcomes |-> o.reward * Unit(n - 1) + (IF Stopped(o) THEN 0 ELSE x[o.next])]
Risk(n, x) ==
    [o \in Outcomes |-> IF o.failure THEN Unit(n - 1)
                        ELSE IF Stopped(o) THEN 0 ELSE x[o.next]]

\* What an outcome pays or risks, continued by integers, is an integer.
LEMMA PayTypes ==
    ASSUME NEW n \in 1..Horizon, NEW x, \A s \in GroundStates : x[s] \in Int
    PROVE  \A o \in Outcomes : Pay(n, x)[o] \in Int /\ Risk(n, x)[o] \in Int
  <1>1. n - 1 \in Nat
    BY QueryAssumption
  <1>2. Unit(n - 1) \in Int
    BY <1>1, UnitType
  <1>3. \A o \in Outcomes : o.next \in GroundStates /\ o.reward \in Int
    BY DEF Outcomes
  <1>4. ASSUME NEW o \in Outcomes PROVE o.reward * Unit(n - 1) \in Int
    BY <1>2, <1>3
  <1> QED BY <1>2, <1>3, <1>4 DEF Pay, Risk

\* Of two evaluations, the one greater at the successors is worth more.
LEMMA FourMonotone ==
    ASSUME kernel \in Kernels, NEW s, NEW l, Takes(s, l),
           NEW F, NEW G, \A o \in Outcomes : F[o] \in Int /\ G[o] \in Int,
           \A j \in 1..4 : F[Drawn(s, l, j)] <= G[Drawn(s, l, j)]
    PROVE  Four(F, s, l) <= Four(G, s, l)
  <1>1. \A j \in 1..4 : F[Drawn(s, l, j)] \in Int /\ G[Drawn(s, l, j)] \in Int
    BY DrawnFacts
  <1>2. 1 \in 1..4 /\ 2 \in 1..4 /\ 3 \in 1..4 /\ 4 \in 1..4
    OBVIOUS
  <1> QED BY <1>1, <1>2 DEF Four

\* An outcome is worth more when the state it leads to is.
LEMMA PayMonotone ==
    ASSUME NEW n \in 1..Horizon, NEW o \in Outcomes,
           NEW x, NEW y, \A s \in GroundStates : x[s] \in Int /\ y[s] \in Int,
           Stopped(o) \/ x[o.next] <= y[o.next]
    PROVE  Pay(n, x)[o] <= Pay(n, y)[o] /\ Risk(n, x)[o] <= Risk(n, y)[o]
  <1>1. n - 1 \in Nat
    BY QueryAssumption
  <1>2. Unit(n - 1) \in Int
    BY <1>1, UnitType
  <1>3. o.next \in GroundStates /\ o.reward \in Int
    BY DEF Outcomes
  <1>4. o.reward * Unit(n - 1) \in Int
    BY <1>2, <1>3
  <1> QED BY <1>2, <1>3, <1>4 DEF Pay, Risk

\* The three numbers of a realization, by its four outcomes
Rewards == [o \in Outcomes |-> o.reward]
Failures == [o \in Outcomes |-> IF o.failure THEN 1 ELSE 0]
Into(part, c) == [o \in Outcomes |-> IF ~Stopped(o) /\ part[o.next] = c THEN 1 ELSE 0]

\* Each entry of a realization is a mean over the four outcomes of the label.
LEMMA RealizationIs ==
    ASSUME kernel \in Kernels, NEW part, NEW s, NEW l, Takes(s, l)
    PROVE  LET z == Realization(part, s, l)
           IN  /\ z.reward = Four(Rewards, s, l)
               /\ z.failure = Four(Failures, s, l)
               /\ DOMAIN z.successor = BlocksOf(part)
               /\ \A c \in BlocksOf(part) : z.successor[c] = Four(Into(part, c), s, l)
  <1> DEFINE z == Realization(part, s, l)
             M == Matches(s, l)
  <1>1. \A a \in M, i \in 1..2 : kernel[s][a][i] \in Outcomes
    BY MatchFacts, ActionFacts DEF Takes
  <1>2. \A a \in M : kernel[s][a][1] \in Outcomes /\ kernel[s][a][2] \in Outcomes
    BY <1>1
  <1>3. z.reward = Four(Rewards, s, l)
    <2>1. \A o \in Outcomes : Rewards[o] \in Int
      BY DEF Rewards, Outcomes
    <2>2. [a \in M |-> 2 * (kernel[s][a][1].reward + kernel[s][a][2].reward)]
            = [a \in M |-> 2 * (Rewards[kernel[s][a][1]] + Rewards[kernel[s][a][2]])]
      BY <1>2 DEF Rewards
    <2>3. z.reward = SumFunction([a \in M |-> 2 * (kernel[s][a][1].reward + kernel[s][a][2].reward)])
                       \div Cardinality(M)
      BY DEF Realization, OverRealization, OverOutcomes
    <2> QED BY <2>1, <2>2, <2>3, Realized
  <1>4. z.failure = Four(Failures, s, l)
    <2> DEFINE f(o) == IF o.failure THEN 1 ELSE 0
    <2>1. \A o \in Outcomes : Failures[o] \in Int
      BY DEF Failures
    <2>2. [a \in M |-> 2 * (f(kernel[s][a][1]) + f(kernel[s][a][2]))]
            = [a \in M |-> 2 * (Failures[kernel[s][a][1]] + Failures[kernel[s][a][2]])]
      BY <1>2 DEF Failures
    <2>3. z.failure = SumFunction([a \in M |-> 2 * (f(kernel[s][a][1]) + f(kernel[s][a][2]))])
                       \div Cardinality(M)
      BY DEF Realization, OverRealization, OverOutcomes
    <2> HIDE DEF f
    <2> QED BY <2>1, <2>2, <2>3, Realized
  <1>5. ASSUME NEW c \in BlocksOf(part) PROVE z.successor[c] = Four(Into(part, c), s, l)
    <2> DEFINE f(o) == IF ~Stopped(o) /\ part[o.next] = c THEN 1 ELSE 0
    <2>1. \A o \in Outcomes : Into(part, c)[o] \in Int
      BY DEF Into
    <2>2. [a \in M |-> 2 * (f(kernel[s][a][1]) + f(kernel[s][a][2]))]
            = [a \in M |-> 2 * (Into(part, c)[kernel[s][a][1]] + Into(part, c)[kernel[s][a][2]])]
      BY <1>2 DEF Into
    <2>3. z.successor[c] = SumFunction([a \in M |-> 2 * (f(kernel[s][a][1]) + f(kernel[s][a][2]))])
                             \div Cardinality(M)
      BY DEF Realization, OverRealization, OverOutcomes
    <2> HIDE DEF f
    <2> QED BY <2>1, <2>2, <2>3, Realized
  <1>6. DOMAIN z.successor = BlocksOf(part)
    BY DEF Realization
  <1> QED BY <1>3, <1>4, <1>5, <1>6

\* A cell is a possible successor iff one of the four outcomes goes there.
LEMMA SuccessorIs ==
    ASSUME kernel \in Kernels, NEW part, NEW s, NEW l, Takes(s, l), NEW c \in BlocksOf(part)
    PROVE  Realization(part, s, l).successor[c] > 0 <=>
             \E j \in 1..4 : ~Stopped(Drawn(s, l, j)) /\ part[Drawn(s, l, j).next] = c
  <1>1. Realization(part, s, l).successor[c] = Four(Into(part, c), s, l)
    BY RealizationIs
  <1>2. \A j \in 1..4 : Into(part, c)[Drawn(s, l, j)] =
                          IF ~Stopped(Drawn(s, l, j)) /\ part[Drawn(s, l, j).next] = c THEN 1 ELSE 0
    BY DrawnFacts DEF Into
  <1> DEFINE q(j) == ~Stopped(Drawn(s, l, j)) /\ part[Drawn(s, l, j).next] = c
  <1>3. Four(Into(part, c), s, l) = (IF q(1) THEN 1 ELSE 0) + (IF q(2) THEN 1 ELSE 0)
                                    + (IF q(3) THEN 1 ELSE 0) + (IF q(4) THEN 1 ELSE 0)
    BY <1>2 DEF Four
  <1>4. (\E j \in 1..4 : q(j)) <=> (q(1) \/ q(2) \/ q(3) \/ q(4))
    <2> HIDE DEF q
    <2>1. 1..4 = {1, 2, 3, 4}
      OBVIOUS
    <2> QED BY <2>1
  <1> HIDE DEF q
  <1>5. Four(Into(part, c), s, l) > 0 <=> (q(1) \/ q(2) \/ q(3) \/ q(4))
    BY <1>3
  <1>6. Realization(part, s, l).successor[c] > 0 <=> \E j \in 1..4 : q(j)
    BY <1>1, <1>4, <1>5
  <1> QED BY <1>6 DEF q

\* The value a bound of every cell gives to its states
OnStates(part, x) == [s \in GroundStates |-> x[part[s]]]
RewardsOf(x) == [i \in DOMAIN x |-> x[i].reward]
FailuresOf(x) == [i \in DOMAIN x |-> x[i].failure]

\* The expectation over the successor cells of x
LEMMA SuccessorSum ==
    ASSUME kernel \in Kernels, NEW part, IsPartition(part), NEW s, NEW l, Takes(s, l),
           NEW x \in [BlocksOf(part) -> Int], NEW w,
           \A c \in BlocksOf(part) : w[c] = Realization(part, s, l).successor[c] * x[c]
    PROVE  SumFunctionOnSet(w, BlocksOf(part)) =
             Four([o \in Outcomes |-> IF Stopped(o) THEN 0 ELSE x[part[o.next]]], s, l)
  <1> DEFINE C == BlocksOf(part)
             o1 == Drawn(s, l, 1)
             o2 == Drawn(s, l, 2)
             o3 == Drawn(s, l, 3)
             o4 == Drawn(s, l, 4)
             F == [o \in Outcomes |-> IF Stopped(o) THEN 0 ELSE x[part[o.next]]]
  <1>1. o1 \in Outcomes /\ o2 \in Outcomes /\ o3 \in Outcomes /\ o4 \in Outcomes
    BY DrawnFacts
  <1>2. \A o \in Outcomes : part[o.next] \in C
    BY BlockFacts DEF Outcomes
  <1>3. \A c \in C : w[c] = (Hits(~Stopped(o1), part[o1.next], c) + Hits(~Stopped(o2), part[o2.next], c)
                             + Hits(~Stopped(o3), part[o3.next], c)
                             + Hits(~Stopped(o4), part[o4.next], c)) * x[c]
    <2> SUFFICES ASSUME NEW c \in C
                 PROVE  Four(Into(part, c), s, l) =
                          Hits(~Stopped(o1), part[o1.next], c) + Hits(~Stopped(o2), part[o2.next], c)
                          + Hits(~Stopped(o3), part[o3.next], c)
                          + Hits(~Stopped(o4), part[o4.next], c)
      BY RealizationIs
    <2>1. \A o \in Outcomes : Into(part, c)[o] = Hits(~Stopped(o), part[o.next], c)
      BY DEF Into, Hits
    <2> QED BY <1>1, <2>1 DEF Four
  <1>4. IsFiniteSet(C) /\ \A c \in C : x[c] \in Int
    BY BlockFacts
  <1>6. /\ F[o1] = IF ~Stopped(o1) THEN x[part[o1.next]] ELSE 0
        /\ F[o2] = IF ~Stopped(o2) THEN x[part[o2.next]] ELSE 0
        /\ F[o3] = IF ~Stopped(o3) THEN x[part[o3.next]] ELSE 0
        /\ F[o4] = IF ~Stopped(o4) THEN x[part[o4.next]] ELSE 0
    BY <1>1
  <1>7. Four(F, s, l) = F[o1] + F[o2] + F[o3] + F[o4]
    BY DEF Four
  <1>8. /\ part[o1.next] \in C /\ part[o2.next] \in C /\ part[o3.next] \in C /\ part[o4.next] \in C
    BY <1>1, <1>2
  <1> DEFINE p == [j \in 1..4 |-> ~Stopped(Drawn(s, l, j))]
             d == [j \in 1..4 |-> part[Drawn(s, l, j).next]]
  <1>9. /\ p \in [1..4 -> BOOLEAN] /\ \A j \in 1..4 : p[j] => d[j] \in C
        /\ \A c \in C : w[c] = (Hits(p[1], d[1], c) + Hits(p[2], d[2], c)
                                + Hits(p[3], d[3], c) + Hits(p[4], d[4], c)) * x[c]
        /\ Four(F, s, l) = (IF p[1] THEN x[d[1]] ELSE 0) + (IF p[2] THEN x[d[2]] ELSE 0)
                           + (IF p[3] THEN x[d[3]] ELSE 0) + (IF p[4] THEN x[d[4]] ELSE 0)
    <2>1. \A j \in 1..4 : Drawn(s, l, j) \in Outcomes
      BY DrawnFacts
    <2>2. /\ p[1] = ~Stopped(o1) /\ p[2] = ~Stopped(o2) /\ p[3] = ~Stopped(o3) /\ p[4] = ~Stopped(o4)
          /\ d[1] = part[o1.next] /\ d[2] = part[o2.next] /\ d[3] = part[o3.next]
          /\ d[4] = part[o4.next]
      OBVIOUS
    <2>3. p \in [1..4 -> BOOLEAN] /\ \A j \in 1..4 : p[j] => d[j] \in C
      BY <1>2, <2>1
    <2> HIDE DEF C, F, o1, o2, o3, o4, p, d
    <2> QED BY <1>3, <1>6, <1>7, <2>2, <2>3
  <1> HIDE DEF C, F, p, d
  <1>10. SumFunctionOnSet(w, C) = Four(F, s, l)
    BY <1>4, <1>9, SumFour
  <1> QED BY <1>10 DEF C, F

\* The mean is linear.
LEMMA FourCombine ==
    ASSUME kernel \in Kernels, NEW s, NEW l, Takes(s, l), NEW F, NEW G, NEW H, NEW u \in Int,
           \A o \in Outcomes : F[o] \in Int /\ G[o] \in Int /\ H[o] = F[o] * u + G[o]
    PROVE  Four(H, s, l) = Four(F, s, l) * u + Four(G, s, l)
  <1> DEFINE f(j) == F[Drawn(s, l, j)]
             g(j) == G[Drawn(s, l, j)]
  <1>1. \A j \in 1..4 : f(j) \in Int /\ g(j) \in Int /\ H[Drawn(s, l, j)] = f(j) * u + g(j)
    BY DrawnFacts
  <1>2. /\ f(1) \in Int /\ f(2) \in Int /\ f(3) \in Int /\ f(4) \in Int
        /\ g(1) \in Int /\ g(2) \in Int /\ g(3) \in Int /\ g(4) \in Int
    BY <1>1
  <1>3. Four(H, s, l) = (f(1) * u + g(1)) + (f(2) * u + g(2)) + (f(3) * u + g(3)) + (f(4) * u + g(4))
    BY <1>1 DEF Four
  <1>4. Four(F, s, l) = f(1) + f(2) + f(3) + f(4) /\ Four(G, s, l) = g(1) + g(2) + g(3) + g(4)
    BY DEF Four
  <1>5. \A a, b, c, d \in Int : (a + b + c + d) * u = a * u + b * u + c * u + d * u
    OBVIOUS
  <1>6. f(1) * u \in Int /\ f(2) * u \in Int /\ f(3) * u \in Int /\ f(4) * u \in Int
    BY <1>2
  <1>7. Four(F, s, l) * u = f(1) * u + f(2) * u + f(3) * u + f(4) * u
    BY <1>2, <1>4, <1>5
  <1> HIDE DEF f, g
  <1> QED BY <1>2, <1>3, <1>4, <1>6, <1>7

\* A realization continued by the bounds of its successor cells is the mean of
\* its four outcomes, each continued by the bounds of the cell it falls into.
LEMMA ContinuedIs ==
    ASSUME kernel \in Kernels, NEW part, IsPartition(part), NEW s, NEW l, Takes(s, l),
           NEW n \in 1..Horizon, NEW next \in [BlocksOf(part) -> Values]
    PROVE  Continued(Realization(part, s, l), n, next) =
             [known |-> TRUE,
              reward |-> Four(Pay(n, OnStates(part, RewardsOf(next))), s, l),
              failure |-> Four(Risk(n, OnStates(part, FailuresOf(next))), s, l)]
  <1> DEFINE C == BlocksOf(part)
             z == Realization(part, s, l)
             x == RewardsOf(next)
             y == FailuresOf(next)
             u == Unit(n - 1)
             Gx == [o \in Outcomes |-> IF Stopped(o) THEN 0 ELSE x[part[o.next]]]
             Gy == [o \in Outcomes |-> IF Stopped(o) THEN 0 ELSE y[part[o.next]]]
             wx == [c \in C |-> z.successor[c] * next[c].reward]
             wy == [c \in C |-> z.successor[c] * next[c].failure]
  <1>1. x \in [C -> Int] /\ y \in [C -> Int]
    BY DEF RewardsOf, FailuresOf, Values
  <1>2. \A c \in C : x[c] = next[c].reward /\ y[c] = next[c].failure
    BY DEF RewardsOf, FailuresOf
  <1>3. u \in Int
    <2>1. n - 1 \in Nat
      BY QueryAssumption
    <2> QED BY <2>1, UnitType
  <1>4. \A o \in Outcomes : o.next \in GroundStates /\ part[o.next] \in C /\ o.reward \in Int
                            /\ o.failure \in BOOLEAN
    BY BlockFacts DEF Outcomes
  <1>5. \A c \in C : wx[c] = z.successor[c] * x[c] /\ wy[c] = z.successor[c] * y[c]
    BY <1>2
  <1>6. DOMAIN z.successor = C /\ z.reward = Four(Rewards, s, l) /\ z.failure = Four(Failures, s, l)
    BY RealizationIs
  <1>7. SumFunction(wx) = SumFunctionOnSet(wx, C) /\ SumFunction(wy) = SumFunctionOnSet(wy, C)
    BY DEF SumFunction
  <1>8. Continued(z, n, next) = [known |-> TRUE, reward |-> z.reward * u + SumFunction(wx),
                                 failure |-> z.failure * u + SumFunction(wy)]
    BY <1>6 DEF Continued
  <1>9. SumFunctionOnSet(wx, C) = Four(Gx, s, l)
    <2> HIDE DEF wx, x
    <2> QED BY <1>1, <1>5, SuccessorSum
  <1>10. SumFunctionOnSet(wy, C) = Four(Gy, s, l)
    <2> HIDE DEF wy, y
    <2> QED BY <1>1, <1>5, SuccessorSum
  <1>11. Four(Pay(n, OnStates(part, x)), s, l) = Four(Rewards, s, l) * u + Four(Gx, s, l)
    <2>1. \A o \in Outcomes : Rewards[o] \in Int /\ Gx[o] \in Int
      BY <1>1, <1>4 DEF Rewards
    <2>2. \A o \in Outcomes : Pay(n, OnStates(part, x))[o] = Rewards[o] * u + Gx[o]
      <3> HIDE DEF x
      <3> QED BY <1>4 DEF Pay, OnStates, Rewards
    <2> HIDE DEF Gx, u, x
    <2> QED BY <1>3, <2>1, <2>2, FourCombine
  <1>12. Four(Risk(n, OnStates(part, y)), s, l) = Four(Failures, s, l) * u + Four(Gy, s, l)
    <2>1. \A o \in Outcomes : Failures[o] \in Int /\ Gy[o] \in Int
      BY <1>1, <1>4 DEF Failures
    <2>2. ASSUME NEW o \in Outcomes
          PROVE  Risk(n, OnStates(part, y))[o] = Failures[o] * u + Gy[o]
      <3> HIDE DEF y, u
      <3>1. /\ Risk(n, OnStates(part, y))[o] = IF o.failure THEN u
                                              ELSE IF Stopped(o) THEN 0 ELSE y[part[o.next]]
            /\ Failures[o] = IF o.failure THEN 1 ELSE 0
            /\ Gy[o] = IF Stopped(o) THEN 0 ELSE y[part[o.next]]
        BY <1>4 DEF Risk, OnStates, Failures, u
      <3>2. y[part[o.next]] \in Int
        BY <1>1, <1>4
      <3>3. CASE o.failure
        <4>1. Stopped(o)
          BY <3>3 DEF Stopped
        <4> QED BY <1>3, <3>1, <3>3, <4>1
      <3>4. CASE ~o.failure
        BY <1>3, <3>1, <3>2, <3>4
      <3> QED BY <3>3, <3>4
    <2> HIDE DEF Gy, u, y
    <2> QED BY <1>3, <2>1, <2>2, FourCombine
  <1> HIDE DEF wx, wy, x, y, z, u, Gx, Gy, C
  <1>13. Continued(z, n, next) = [known |-> TRUE, reward |-> Four(Pay(n, OnStates(part, x)), s, l),
                                  failure |-> Four(Risk(n, OnStates(part, y)), s, l)]
    BY <1>6, <1>7, <1>8, <1>9, <1>10, <1>11, <1>12
  <1> QED BY <1>13 DEF x, y, z

\* What the lifted policy earns at a state where it can be executed
LEMMA LiftedIs ==
    ASSUME kernel \in Kernels, NEW s, NEW l, Takes(s, l), NEW n \in 1..Horizon, NEW next,
           \A t \in GroundStates : next[t] \in Values
    PROVE  /\ OverRealization(s, l, LAMBDA o :
                o.reward * Unit(n - 1) + (IF Stopped(o) THEN 0 ELSE next[o.next].reward))
                = Four(Pay(n, [t \in GroundStates |-> next[t].reward]), s, l)
           /\ OverRealization(s, l, LAMBDA o :
                IF o.failure THEN Unit(n - 1)
                ELSE IF Stopped(o) THEN 0 ELSE next[o.next].failure)
                = Four(Risk(n, [t \in GroundStates |-> next[t].failure]), s, l)
  <1> DEFINE M == Matches(s, l)
             x == [t \in GroundStates |-> next[t].reward]
             y == [t \in GroundStates |-> next[t].failure]
             f(o) == o.reward * Unit(n - 1) + (IF Stopped(o) THEN 0 ELSE next[o.next].reward)
             g(o) == IF o.failure THEN Unit(n - 1)
                     ELSE IF Stopped(o) THEN 0 ELSE next[o.next].failure
  <1>1. \A a \in M : kernel[s][a][1] \in Outcomes /\ kernel[s][a][2] \in Outcomes
    BY MatchFacts, ActionFacts DEF Takes
  <1>2. \A t \in GroundStates : x[t] \in Int /\ y[t] \in Int
    BY DEF Values
  <1>3. \A o \in Outcomes : Pay(n, x)[o] \in Int /\ Risk(n, y)[o] \in Int
    <2> HIDE DEF x, y
    <2> QED BY <1>2, PayTypes
  <1>4. \A o \in Outcomes : f(o) = Pay(n, x)[o] /\ g(o) = Risk(n, y)[o]
    BY DEF Pay, Risk, Outcomes
  <1>5. /\ OverRealization(s, l, f) = SumFunction([a \in M |-> 2 * (f(kernel[s][a][1]) + f(kernel[s][a][2]))])
                                       \div Cardinality(M)
        /\ OverRealization(s, l, g) = SumFunction([a \in M |-> 2 * (g(kernel[s][a][1]) + g(kernel[s][a][2]))])
                                       \div Cardinality(M)
    BY DEF OverRealization, OverOutcomes
  <1>6. /\ [a \in M |-> 2 * (f(kernel[s][a][1]) + f(kernel[s][a][2]))]
             = [a \in M |-> 2 * (Pay(n, x)[kernel[s][a][1]] + Pay(n, x)[kernel[s][a][2]])]
        /\ [a \in M |-> 2 * (g(kernel[s][a][1]) + g(kernel[s][a][2]))]
             = [a \in M |-> 2 * (Risk(n, y)[kernel[s][a][1]] + Risk(n, y)[kernel[s][a][2]])]
    <2> HIDE DEF f, g, x, y
    <2> QED BY <1>1, <1>4
  <1>7. /\ SumFunction([a \in M |-> 2 * (Pay(n, x)[kernel[s][a][1]] + Pay(n, x)[kernel[s][a][2]])])
             \div Cardinality(M) = Four(Pay(n, x), s, l)
        /\ SumFunction([a \in M |-> 2 * (Risk(n, y)[kernel[s][a][1]] + Risk(n, y)[kernel[s][a][2]])])
             \div Cardinality(M) = Four(Risk(n, y), s, l)
    <2> HIDE DEF x, y
    <2> QED BY <1>3, Realized
  <1>8. /\ OverRealization(s, l, f) = Four(Pay(n, x), s, l)
        /\ OverRealization(s, l, g) = Four(Risk(n, y), s, l)
    BY <1>5, <1>6, <1>7
  <1> QED BY <1>8

-----------------------------------------------------------------------------
(* The stages of the unrestricted bound and of the best reward             *)

\* What one ground action offers a state, and what a state is offered
ActionPay(n, x, s, a) == 2 * (Pay(n, x)[kernel[s][a][1]] + Pay(n, x)[kernel[s][a][2]])
Offers(n, x, s) ==
    IF Actions(s) = {} THEN {0} ELSE {ActionPay(n, x, s, a) : a \in Actions(s)}

\* The offers of a state are integers with a greatest one.
LEMMA OfferFacts ==
    ASSUME kernel \in Kernels, NEW n \in 1..Horizon, NEW s \in GroundStates,
           NEW x, \A t \in GroundStates : x[t] \in Int
    PROVE  /\ Offers(n, x, s) \subseteq Int
           /\ Max(Offers(n, x, s)) \in Offers(n, x, s)
           /\ \A v \in Offers(n, x, s) : v <= Max(Offers(n, x, s))
  <1>1. \A o \in Outcomes : Pay(n, x)[o] \in Int
    BY PayTypes
  <1>2. \A a \in Actions(s) : ActionPay(n, x, s, a) \in Int
    BY <1>1, ActionFacts DEF ActionPay
  <1>3. Offers(n, x, s) \subseteq Int
    BY <1>2 DEF Offers
  <1>4. \E m \in Offers(n, x, s) : \A v \in Offers(n, x, s) : m >= v
    <2>1. CASE Actions(s) = {}
      BY <2>1 DEF Offers
    <2>2. CASE Actions(s) # {}
      <3> DEFINE f == [a \in Actions(s) |-> ActionPay(n, x, s, a)]
      <3>1. \A a \in Actions(s) : f[a] \in Int /\ f[a] = ActionPay(n, x, s, a)
        BY <1>2
      <3> HIDE DEF f
      <3>2. PICK a \in Actions(s) : \A b \in Actions(s) : f[a] >= f[b]
        BY <2>2, <3>1, ActionFacts, Extrema
      <3>3. f[a] \in Offers(n, x, s) /\ \A v \in Offers(n, x, s) : f[a] >= v
        BY <2>2, <3>1, <3>2 DEF Offers
      <3> QED BY <3>3
    <2> QED BY <2>1, <2>2
  <1>5. PICK m \in Offers(n, x, s) : \A v \in Offers(n, x, s) : m >= v
    BY <1>4
  <1>6. Max(Offers(n, x, s)) \in Offers(n, x, s)
        /\ \A v \in Offers(n, x, s) : Max(Offers(n, x, s)) >= v
    BY <1>5, MaxOf
  <1>7. \A v \in Offers(n, x, s) : v \in Int /\ Max(Offers(n, x, s)) \in Int
    BY <1>3, <1>6
  <1> QED BY <1>3, <1>6, <1>7

\* The candidates of the code are the offers.
LEMMA UpperOffers ==
    ASSUME kernel \in Kernels, NEW part, NEW n, NEW next, NEW s \in GroundStates
    PROVE  UpperCandidates(part, s, n, next) = Offers(n, OnStates(part, next), s)
  <1>1. \A a \in Actions(s) : kernel[s][a][1] \in Outcomes /\ kernel[s][a][2] \in Outcomes
    BY ActionFacts
  <1>2. \A o \in Outcomes : Pay(n, OnStates(part, next))[o] =
          o.reward * Unit(n - 1) + (IF Stopped(o) THEN 0 ELSE next[part[o.next]])
    BY DEF Pay, OnStates, Outcomes
  <1>3. CASE Actions(s) = {}
    BY <1>3 DEF UpperCandidates, Offers
  <1>4. CASE Actions(s) # {}
    <2>1. {OverOutcomes(s, a, LAMBDA o : o.reward * Unit(n - 1)
                                         + (IF Stopped(o) THEN 0 ELSE next[part[o.next]])) :
             a \in Actions(s)} = Offers(n, OnStates(part, next), s)
      BY <1>1, <1>2, <1>4 DEF OverOutcomes, Offers, ActionPay
    <2> QED BY <1>4, <2>1 DEF UpperCandidates
  <1> QED BY <1>3, <1>4

\* So are the candidates of the best reward.
LEMMA BestOffers ==
    ASSUME kernel \in Kernels, NEW n, NEW next, NEW s \in GroundStates
    PROVE  BestStage(n, next)[s] = Max(Offers(n, next, s))
  <1>1. \A a \in Actions(s) : kernel[s][a][1] \in Outcomes /\ kernel[s][a][2] \in Outcomes
    BY ActionFacts
  <1>2. \A o \in Outcomes : Pay(n, next)[o] =
          o.reward * Unit(n - 1) + (IF Stopped(o) THEN 0 ELSE next[o.next])
    BY DEF Pay
  <1>3. CASE Actions(s) = {}
    <2>1. 0 \in {0} /\ \A y \in {0} : 0 >= y
      OBVIOUS
    <2>2. Max({0}) \in {0}
      BY <2>1, MaxOf
    <2> QED BY <1>3, <2>2 DEF BestStage, Offers
  <1>4. CASE Actions(s) # {}
    <2>1. {OverOutcomes(s, a, LAMBDA o : o.reward * Unit(n - 1)
                                         + (IF Stopped(o) THEN 0 ELSE next[o.next])) :
             a \in Actions(s)} = Offers(n, next, s)
      BY <1>1, <1>2, <1>4 DEF OverOutcomes, Offers, ActionPay
    <2> QED BY <1>4, <2>1 DEF BestStage
  <1> QED BY <1>3, <1>4

\* A cell's bound is the greatest offer of its states.
LEMMA UpperStageFacts ==
    ASSUME kernel \in Kernels, NEW part, IsPartition(part), NEW n \in 1..Horizon,
           NEW next \in [BlocksOf(part) -> Int]
    PROVE  /\ UpperStage(part, n, next) \in [BlocksOf(part) -> Int]
           /\ \A c \in BlocksOf(part) :
                /\ \E s \in c : UpperStage(part, n, next)[c] \in Offers(n, OnStates(part, next), s)
                /\ \A s \in c : \A v \in Offers(n, OnStates(part, next), s) :
                     v <= UpperStage(part, n, next)[c]
  <1> DEFINE x == OnStates(part, next)
  <1>1. \A t \in GroundStates : x[t] \in Int
    BY BlockFacts DEF OnStates
  <1> HIDE DEF x
  <1>2. ASSUME NEW c \in BlocksOf(part)
        PROVE  /\ UpperStage(part, n, next)[c] \in Int
               /\ \E s \in c : UpperStage(part, n, next)[c] \in Offers(n, x, s)
               /\ \A s \in c : \A v \in Offers(n, x, s) : v <= UpperStage(part, n, next)[c]
    <2> DEFINE U == UNION {Offers(n, x, s) : s \in c}
               f == [s \in c |-> Max(Offers(n, x, s))]
    <2>1. c # {} /\ c \subseteq GroundStates /\ IsFiniteSet(c)
      BY BlockFacts
    <2>2. UNION {UpperCandidates(part, s, n, next) : s \in c} = U
      BY <2>1, UpperOffers DEF x
    <2>3. UpperStage(part, n, next)[c] = Max(U)
      BY <2>2 DEF UpperStage
    <2>4. \A s \in c : /\ f[s] \in Offers(n, x, s) /\ Offers(n, x, s) \subseteq Int
                       /\ \A v \in Offers(n, x, s) : v <= f[s]
      BY <1>1, <2>1, OfferFacts
    <2>5. \A s \in c : f[s] \in Int
      BY <2>4
    <2> HIDE DEF f
    <2>6. PICK s \in c : \A t \in c : f[s] >= f[t]
      BY <2>1, <2>5, Extrema
    <2>7. f[s] \in U /\ \A v \in U : f[s] >= v
      <3>1. ASSUME NEW v \in U PROVE f[s] >= v
        <4>1. PICK t \in c : v \in Offers(n, x, t)
          OBVIOUS
        <4>2. v <= f[t] /\ f[s] >= f[t] /\ v \in Int /\ f[t] \in Int /\ f[s] \in Int
          BY <2>4, <2>5, <2>6, <4>1
        <4> QED BY <4>2
      <3> QED BY <2>4, <3>1
    <2>8. Max(U) \in U /\ \A v \in U : Max(U) >= v
      BY <2>7, MaxOf
    <2>9. U \subseteq Int
      BY <2>4
    <2>10. \A v \in U : v <= Max(U)
      BY <2>8, <2>9
    <2> QED BY <2>3, <2>8, <2>9, <2>10
  <1>3. UpperStage(part, n, next) \in [BlocksOf(part) -> Int]
    BY <1>2 DEF UpperStage
  <1> QED BY <1>2, <1>3 DEF x

\* The stages of the unrestricted bound
LEMMA UpperStages ==
    ASSUME kernel \in Kernels, NEW part, IsPartition(part)
    PROVE  LET U == UpperEnvelope(part)
           IN  /\ \A n \in 0..Horizon : U[n] \in [BlocksOf(part) -> Int]
               /\ U[0] = [c \in BlocksOf(part) |-> 0]
               /\ \A n \in 1..Horizon : U[n] = UpperStage(part, n, U[n - 1])
  <1> DEFINE V == [BlocksOf(part) -> Int]
             b == [c \in BlocksOf(part) |-> 0]
             G == [n \in 1..Horizon |-> [v \in V |-> UpperStage(part, n, v)]]
             Solves(f) == f = [n \in 0..Horizon |-> IF n = 0 THEN b
                                                    ELSE UpperStage(part, n, f[n - 1])]
             U == UpperEnvelope(part)
  <1>1. b \in V /\ Horizon \in Nat
    BY QueryAssumption
  <1>2. \A n \in 1..Horizon, v \in V : UpperStage(part, n, v) \in V
    BY UpperStageFacts
  <1> HIDE DEF V, b
  <1>3. StaysIn(G, Horizon, V)
    BY <1>2 DEF StaysIn
  <1>4. \A n \in 1..Horizon, v \in V : G[n][v] = UpperStage(part, n, v)
    OBVIOUS
  <1> HIDE DEF G
  <1>5. PICK f \in [0..Horizon -> V] : Recursion(f, b, G, Horizon)
    BY <1>1, <1>3, StagesExist
  <1>6. Solves(f)
    <2>1. ASSUME NEW n \in 0..Horizon
          PROVE  f[n] = IF n = 0 THEN b ELSE UpperStage(part, n, f[n - 1])
      <3>1. CASE n = 0
        BY <1>5, <3>1 DEF Recursion
      <3>2. CASE n # 0
        <4>1. n \in 1..Horizon /\ n - 1 \in 0..Horizon
          BY <1>1, <3>2
        <4>2. f[n - 1] \in V
          BY <1>5, <4>1
        <4> QED BY <1>4, <1>5, <3>2, <4>1, <4>2 DEF Recursion
      <3> QED BY <3>1, <3>2
    <2> QED BY <2>1
  <1>7. U = CHOOSE g : Solves(g)
    BY DEF UpperEnvelope, b
  <1>8. Solves(U)
    <2> HIDE DEF Solves
    <2> QED BY <1>6, <1>7
  <1> HIDE DEF U
  <1>9. U[0] = b /\ \A n \in 1..Horizon : U[n] = UpperStage(part, n, U[n - 1])
    BY <1>1, <1>8
  <1> DEFINE T == {n \in 0..Horizon : U[n] \in V}
  <1>10. 0 \in T
    BY <1>1, <1>9
  <1>11. \A n \in 1..Horizon : n - 1 \in T => n \in T
    BY <1>1, <1>2, <1>9
  <1>12. 0..Horizon \subseteq T
    <2> HIDE DEF T
    <2> QED BY <1>1, <1>10, <1>11, StageInduction
  <1> QED BY <1>9, <1>12 DEF V, U, b

\* The stages of the best reward
LEMMA BestStages ==
    ASSUME kernel \in Kernels
    PROVE  /\ \A n \in 0..Horizon : BestRewards[n] \in [GroundStates -> Int]
           /\ BestRewards[0] = [s \in GroundStates |-> 0]
           /\ \A n \in 1..Horizon : BestRewards[n] = BestStage(n, BestRewards[n - 1])
  <1> DEFINE V == [GroundStates -> Int]
             b == [s \in GroundStates |-> 0]
             G == [n \in 1..Horizon |-> [v \in V |-> BestStage(n, v)]]
             Solves(f) == f = [n \in 0..Horizon |-> IF n = 0 THEN b ELSE BestStage(n, f[n - 1])]
             U == BestRewards
  <1>1. b \in V /\ Horizon \in Nat
    BY QueryAssumption
  <1>2. ASSUME NEW n \in 1..Horizon, NEW v \in V PROVE BestStage(n, v) \in V
    <2>1. \A s \in GroundStates : BestStage(n, v)[s] \in Int
      <3>1. \A t \in GroundStates : v[t] \in Int
        OBVIOUS
      <3> QED BY <3>1, BestOffers, OfferFacts
    <2> QED BY <2>1 DEF BestStage
  <1> HIDE DEF V, b
  <1>3. StaysIn(G, Horizon, V)
    BY <1>2 DEF StaysIn
  <1>4. \A n \in 1..Horizon, v \in V : G[n][v] = BestStage(n, v)
    OBVIOUS
  <1> HIDE DEF G
  <1>5. PICK f \in [0..Horizon -> V] : Recursion(f, b, G, Horizon)
    BY <1>1, <1>3, StagesExist
  <1>6. Solves(f)
    <2>1. ASSUME NEW n \in 0..Horizon
          PROVE  f[n] = IF n = 0 THEN b ELSE BestStage(n, f[n - 1])
      <3>1. CASE n = 0
        BY <1>5, <3>1 DEF Recursion
      <3>2. CASE n # 0
        <4>1. n \in 1..Horizon /\ n - 1 \in 0..Horizon
          BY <1>1, <3>2
        <4>2. f[n - 1] \in V
          BY <1>5, <4>1
        <4> QED BY <1>4, <1>5, <3>2, <4>1, <4>2 DEF Recursion
      <3> QED BY <3>1, <3>2
    <2> QED BY <2>1
  <1>7. U = CHOOSE g : Solves(g)
    BY DEF BestRewards, b
  <1>8. Solves(U)
    <2> HIDE DEF Solves
    <2> QED BY <1>6, <1>7
  <1> HIDE DEF U
  <1>9. U[0] = b /\ \A n \in 1..Horizon : U[n] = BestStage(n, U[n - 1])
    BY <1>1, <1>8
  <1> DEFINE T == {n \in 0..Horizon : U[n] \in V}
  <1>10. 0 \in T
    BY <1>1, <1>9
  <1>11. \A n \in 1..Horizon : n - 1 \in T => n \in T
    BY <1>1, <1>2, <1>9
  <1>12. 0..Horizon \subseteq T
    <2> HIDE DEF T
    <2> QED BY <1>1, <1>10, <1>11, StageInduction
  <1> QED BY <1>9, <1>12 DEF V, U, b

-----------------------------------------------------------------------------
(* The stages of the policy's bounds                                       *)

\* The worst of finitely many values bounds each and is attained by some.
LEMMA WorstFacts ==
    ASSUME NEW X, IsFiniteSet(X), X # {}, X \subseteq Values
    PROVE  /\ Worst(X) \in Values /\ Worst(X).known
           /\ \A v \in X : Worst(X).reward <= v.reward /\ v.failure <= Worst(X).failure
           /\ \E v \in X : Worst(X).reward = v.reward
           /\ \E v \in X : Worst(X).failure = v.failure
  <1> DEFINE r == [v \in X |-> v.reward]
             f == [v \in X |-> v.failure]
             R == {v.reward : v \in X}
             F == {v.failure : v \in X}
  <1>1. \A v \in X : v.reward \in Int /\ v.failure \in Int /\ r[v] = v.reward /\ f[v] = v.failure
    BY DEF Values
  <1> HIDE DEF r, f
  <1>2. PICK p \in X : \A v \in X : r[p] <= r[v]
    BY <1>1, Extrema
  <1>3. PICK q \in X : \A v \in X : f[q] >= f[v]
    <2>1. \A v \in X : f[v] \in Int
      BY <1>1
    <2> QED BY <2>1, Extrema
  <1>4. p.reward \in R /\ \A y \in R : p.reward <= y
    BY <1>1, <1>2
  <1>5. q.failure \in F /\ \A y \in F : q.failure >= y
    BY <1>1, <1>3
  <1>6. Min(R) \in R /\ \A y \in R : Min(R) <= y
    BY <1>4, MinOf
  <1>7. Max(F) \in F /\ \A y \in F : Max(F) >= y
    BY <1>5, MaxOf
  <1>8. R \subseteq Int /\ F \subseteq Int
    BY <1>1
  <1>9. Worst(X) = [known |-> TRUE, reward |-> Min(R), failure |-> Max(F)]
    BY DEF Worst
  <1>10. Worst(X) \in Values /\ Worst(X).known /\ Worst(X).reward = Min(R) /\ Worst(X).failure = Max(F)
    BY <1>6, <1>7, <1>8, <1>9 DEF Values
  <1>11. \A v \in X : Min(R) <= v.reward /\ v.failure <= Max(F)
    BY <1>1, <1>6, <1>7, <1>8
  <1> QED BY <1>6, <1>7, <1>10, <1>11

\* The two values that are no mean
LEMMA ZeroFacts ==
    /\ Zero \in Values /\ Zero.known /\ Zero.reward = 0 /\ Zero.failure = 0
    /\ Undefined \in Values /\ ~Undefined.known
  BY DEF Zero, Undefined, Values

\* The image of a finite set
LEMMA FiniteImage ==
    ASSUME NEW S, IsFiniteSet(S), NEW f, DOMAIN f = S, f = [x \in S |-> f[x]]
    PROVE  IsFiniteSet({f[x] : x \in S})
  <1>1. f \in Surjection(S, {f[x] : x \in S})
    BY DEF Surjection
  <1> QED BY <1>1, FS_Surjection

\* The mean, over the four outcomes, of the bounds of the cells
CellPay(part, n, next, s, l) == Four(Pay(n, OnStates(part, RewardsOf(next))), s, l)
CellRisk(part, n, next, s, l) == Four(Risk(n, OnStates(part, FailuresOf(next))), s, l)

\* All the cells s may move to under l are known to next.
KnownAfter(part, next, s, l) ==
    \A j \in 1..4 : Stopped(Drawn(s, l, j)) \/ next[part[Drawn(s, l, j).next]].known

\* The bounds of the cells, read at the states, are integers.
LEMMA StateFunctions ==
    ASSUME NEW part, IsPartition(part), NEW next \in [BlocksOf(part) -> Values]
    PROVE  \A s \in GroundStates :
             /\ OnStates(part, RewardsOf(next))[s] \in Int
             /\ OnStates(part, RewardsOf(next))[s] = next[part[s]].reward
             /\ OnStates(part, FailuresOf(next))[s] \in Int
             /\ OnStates(part, FailuresOf(next))[s] = next[part[s]].failure
  <1>1. \A s \in GroundStates : part[s] \in BlocksOf(part)
    BY BlockFacts
  <1>2. \A c \in BlocksOf(part) : next[c].reward \in Int /\ next[c].failure \in Int
    BY DEF Values
  <1> QED BY <1>1, <1>2 DEF OnStates, RewardsOf, FailuresOf

\* So are the means over them.
LEMMA CellTypes ==
    ASSUME kernel \in Kernels, NEW part, IsPartition(part), NEW n \in 1..Horizon,
           NEW next \in [BlocksOf(part) -> Values], NEW s, NEW l, Takes(s, l)
    PROVE  CellPay(part, n, next, s, l) \in Int /\ CellRisk(part, n, next, s, l) \in Int
  <1> DEFINE x == OnStates(part, RewardsOf(next))
             y == OnStates(part, FailuresOf(next))
  <1>1. \A t \in GroundStates : x[t] \in Int /\ y[t] \in Int
    BY StateFunctions
  <1> HIDE DEF x, y
  <1>2. \A o \in Outcomes : Pay(n, x)[o] \in Int /\ Risk(n, y)[o] \in Int
    BY <1>1, PayTypes
  <1>3. Four(Pay(n, x), s, l) \in Int /\ Four(Risk(n, y), s, l) \in Int
    BY <1>2, Realized
  <1> QED BY <1>3 DEF CellPay, CellRisk, x, y

\* The active members of a cell can take each of its labels.
LEMMA MembersTake ==
    ASSUME NEW part, IsPartition(part), NEW c \in BlocksOf(part), NEW l \in CellActions(c)
    PROVE  /\ ActiveMembers(c) # {} /\ IsFiniteSet(ActiveMembers(c))
           /\ \A s \in ActiveMembers(c) : Takes(s, l)
  <1>1. c \subseteq GroundStates /\ IsFiniteSet(c) /\ ActiveMembers(c) \subseteq c
    BY BlockFacts DEF ActiveMembers
  <1>2. IsFiniteSet(ActiveMembers(c))
    BY <1>1, FS_Subset
  <1> QED BY <1>1, <1>2 DEF CellActions, Takes

\* A cell's bounds under a label: known iff they are so wherever a member may
\* go, and then the worst of its members, a terminal one being worth nothing.
LEMMA CellBoundFacts ==
    ASSUME kernel \in Kernels, NEW part, IsPartition(part), NEW n \in 1..Horizon,
           NEW next \in [BlocksOf(part) -> Values],
           NEW c \in BlocksOf(part), NEW l \in CellActions(c)
    PROVE  LET v == CellBound(part, c, l, n, next)
           IN  /\ v \in Values
               /\ v.known <=> \A s \in ActiveMembers(c) : KnownAfter(part, next, s, l)
               /\ v.known =>
                    /\ \A s \in ActiveMembers(c) : /\ v.reward <= CellPay(part, n, next, s, l)
                                                   /\ CellRisk(part, n, next, s, l) <= v.failure
                    /\ c \cap Terminal # {} => v.reward <= 0 /\ 0 <= v.failure
                    /\ \/ \E s \in ActiveMembers(c) : v.reward = CellPay(part, n, next, s, l)
                       \/ c \cap Terminal # {} /\ v.reward = 0
                    /\ \/ \E s \in ActiveMembers(c) : v.failure = CellRisk(part, n, next, s, l)
                       \/ c \cap Terminal # {} /\ v.failure = 0
  <1> DEFINE A == ActiveMembers(c)
             zs == {Realization(part, s, l) : s \in A}
             v == CellBound(part, c, l, n, next)
             f == [s \in A |-> Continued(Realization(part, s, l), n, next)]
             Z == IF c \cap Terminal # {} THEN {Zero} ELSE {}
             X == {Continued(z, n, next) : z \in zs} \cup Z
             Unknown == \E z \in zs, d \in BlocksOf(part) : z.successor[d] > 0 /\ ~next[d].known
  <1>1. A # {} /\ IsFiniteSet(A) /\ \A s \in A : Takes(s, l)
    BY MembersTake
  <1>2. \A s \in A : f[s] = [known |-> TRUE, reward |-> CellPay(part, n, next, s, l),
                             failure |-> CellRisk(part, n, next, s, l)]
    BY <1>1, ContinuedIs DEF CellPay, CellRisk
  <1>3. \A s \in A : CellPay(part, n, next, s, l) \in Int /\ CellRisk(part, n, next, s, l) \in Int
    BY <1>1, CellTypes
  <1>4. \A s \in A : /\ f[s] \in Values /\ f[s].reward = CellPay(part, n, next, s, l)
                     /\ f[s].failure = CellRisk(part, n, next, s, l)
    <2> HIDE DEF f, A
    <2> SUFFICES ASSUME NEW s \in A
                 PROVE  /\ f[s] \in Values /\ f[s].reward = CellPay(part, n, next, s, l)
                        /\ f[s].failure = CellRisk(part, n, next, s, l)
      OBVIOUS
    <2> DEFINE p == CellPay(part, n, next, s, l)  q == CellRisk(part, n, next, s, l)
    <2>1. f[s] = [known |-> TRUE, reward |-> p, failure |-> q] /\ p \in Int /\ q \in Int
      BY <1>2, <1>3
    <2> HIDE DEF p, q
    <2>2. f[s] \in Values /\ f[s].reward = p /\ f[s].failure = q
      BY <2>1 DEF Values
    <2> QED BY <2>2 DEF p, q
  <1>5. X = {f[s] : s \in A} \cup Z
    OBVIOUS
  <1>6. v = IF Unknown THEN Undefined ELSE Worst(X)
    BY DEF CellBound
  <1>7. ~Unknown <=> \A s \in A : KnownAfter(part, next, s, l)
    <2>1. ASSUME NEW s \in A
          PROVE  (\E d \in BlocksOf(part) : Realization(part, s, l).successor[d] > 0 /\ ~next[d].known)
                   <=> ~KnownAfter(part, next, s, l)
      <3>1. Takes(s, l)
        BY <1>1
      <3>2. \A d \in BlocksOf(part) : Realization(part, s, l).successor[d] > 0 <=>
              \E j \in 1..4 : ~Stopped(Drawn(s, l, j)) /\ part[Drawn(s, l, j).next] = d
        BY <3>1, SuccessorIs
      <3>3. \A j \in 1..4 : part[Drawn(s, l, j).next] \in BlocksOf(part)
        BY <3>1, DrawnFacts, BlockFacts DEF Outcomes
      <3> QED BY <3>2, <3>3 DEF KnownAfter
    <2>2. Unknown <=> \E s \in A : \E d \in BlocksOf(part) :
                        Realization(part, s, l).successor[d] > 0 /\ ~next[d].known
      OBVIOUS
    <2> QED BY <2>1, <2>2
  <1>8. IsFiniteSet(X) /\ X # {} /\ X \subseteq Values
    <2>1. IsFiniteSet({f[s] : s \in A})
      <3>1. DOMAIN f = A /\ f = [s \in A |-> f[s]]
        OBVIOUS
      <3> HIDE DEF f
      <3> QED BY <1>1, <3>1, FiniteImage
    <2>2. IsFiniteSet(Z)
      BY FS_EmptySet, FS_Singleton
    <2>3. IsFiniteSet({f[s] : s \in A} \cup Z)
      <3> HIDE DEF f, Z
      <3> QED BY <2>1, <2>2, FS_Union
    <2>4. {f[s] : s \in A} \subseteq Values /\ {f[s] : s \in A} # {} /\ Z \subseteq Values
      BY <1>1, <1>4, ZeroFacts
    <2> HIDE DEF X, Z, f
    <2> QED BY <1>5, <2>3, <2>4
  <1> HIDE DEF X
  <1>9. /\ Worst(X) \in Values /\ Worst(X).known
        /\ \A u \in X : Worst(X).reward <= u.reward /\ u.failure <= Worst(X).failure
        /\ \E u \in X : Worst(X).reward = u.reward
        /\ \E u \in X : Worst(X).failure = u.failure
    BY <1>8, WorstFacts
  <1> HIDE DEF f, Unknown, v
  <1>10. v \in Values /\ (v.known <=> ~Unknown)
    BY <1>6, <1>9, ZeroFacts
  <1>11. ASSUME v.known
         PROVE  /\ \A s \in A : /\ v.reward <= CellPay(part, n, next, s, l)
                                /\ CellRisk(part, n, next, s, l) <= v.failure
                /\ c \cap Terminal # {} => v.reward <= 0 /\ 0 <= v.failure
                /\ \/ \E s \in A : v.reward = CellPay(part, n, next, s, l)
                   \/ c \cap Terminal # {} /\ v.reward = 0
                /\ \/ \E s \in A : v.failure = CellRisk(part, n, next, s, l)
                   \/ c \cap Terminal # {} /\ v.failure = 0
    <2>1. v = Worst(X)
      BY <1>6, <1>10, <1>11
    <2>2. \A u \in X : (\E s \in A : u = f[s]) \/ (c \cap Terminal # {} /\ u = Zero)
      BY <1>5
    <2>3. /\ \A s \in A : v.reward <= f[s].reward /\ f[s].failure <= v.failure
          /\ c \cap Terminal # {} => v.reward <= 0 /\ 0 <= v.failure
      <3>1. \A s \in A : f[s] \in X
        BY <1>5
      <3>2. c \cap Terminal # {} => Zero \in X
        BY <1>5
      <3> QED BY <1>9, <2>1, <3>1, <3>2, ZeroFacts
    <2>4. \/ \E s \in A : v.reward = f[s].reward
          \/ c \cap Terminal # {} /\ v.reward = 0
      BY <1>9, <2>1, <2>2, ZeroFacts
    <2>5. \/ \E s \in A : v.failure = f[s].failure
          \/ c \cap Terminal # {} /\ v.failure = 0
      BY <1>9, <2>1, <2>2, ZeroFacts
    <2> QED BY <1>4, <2>3, <2>4, <2>5
  <1> HIDE DEF A
  <1>12. /\ v \in Values
         /\ v.known <=> \A s \in A : KnownAfter(part, next, s, l)
    BY <1>7, <1>10
  <1> QED BY <1>11, <1>12 DEF v, A

\* What the bounds of a cell may be: its members are terminal, nothing is known
\* of it, or the policy has a label for it.
LEMMA BoundCases ==
    ASSUME NEW part, NEW pol, NEW n, NEW next, NEW c \in BlocksOf(part)
    PROVE  LET v == BoundStage(part, pol, n, next)[c]
           IN  \/ c \subseteq Terminal /\ v = Zero
               \/ ~(c \subseteq Terminal) /\ v = Undefined
               \/ /\ ~(c \subseteq Terminal)
                  /\ <<n, c>> \in DOMAIN pol /\ pol[<<n, c>>] \in CellActions(c)
                  /\ v = CellBound(part, c, pol[<<n, c>>], n, next)
  BY DEF BoundStage

\* A stage of the policy's bounds has a value for every cell.
LEMMA BoundStageType ==
    ASSUME kernel \in Kernels, NEW part, IsPartition(part), NEW pol, NEW n \in 1..Horizon,
           NEW next \in [BlocksOf(part) -> Values]
    PROVE  BoundStage(part, pol, n, next) \in [BlocksOf(part) -> Values]
  <1>1. ASSUME NEW c \in BlocksOf(part) PROVE BoundStage(part, pol, n, next)[c] \in Values
    <2>1. CASE <<n, c>> \in DOMAIN pol /\ pol[<<n, c>>] \in CellActions(c)
               /\ BoundStage(part, pol, n, next)[c] = CellBound(part, c, pol[<<n, c>>], n, next)
      BY <2>1, CellBoundFacts
    <2>2. CASE BoundStage(part, pol, n, next)[c] \in {Zero, Undefined}
      BY <2>2, ZeroFacts
    <2> QED BY <2>1, <2>2, BoundCases
  <1> QED BY <1>1 DEF BoundStage

\* The stages of the policy's bounds
LEMMA BoundStages ==
    ASSUME kernel \in Kernels, NEW part, IsPartition(part), NEW pol
    PROVE  LET U == PolicyBounds(part, pol)
           IN  /\ \A n \in 0..Horizon : U[n] \in [BlocksOf(part) -> Values]
               /\ U[0] = [c \in BlocksOf(part) |-> Zero]
               /\ \A n \in 1..Horizon : U[n] = BoundStage(part, pol, n, U[n - 1])
  <1> DEFINE V == [BlocksOf(part) -> Values]
             b == [c \in BlocksOf(part) |-> Zero]
             G == [n \in 1..Horizon |-> [v \in V |-> BoundStage(part, pol, n, v)]]
             Solves(f) == f = [n \in 0..Horizon |-> IF n = 0 THEN b
                                                    ELSE BoundStage(part, pol, n, f[n - 1])]
             U == PolicyBounds(part, pol)
  <1>1. b \in V /\ Horizon \in Nat
    BY QueryAssumption, ZeroFacts
  <1>2. \A n \in 1..Horizon, v \in V : BoundStage(part, pol, n, v) \in V
    BY BoundStageType
  <1> HIDE DEF V, b
  <1>3. StaysIn(G, Horizon, V)
    BY <1>2 DEF StaysIn
  <1>4. \A n \in 1..Horizon, v \in V : G[n][v] = BoundStage(part, pol, n, v)
    OBVIOUS
  <1> HIDE DEF G
  <1>5. PICK f \in [0..Horizon -> V] : Recursion(f, b, G, Horizon)
    BY <1>1, <1>3, StagesExist
  <1>6. Solves(f)
    <2>1. ASSUME NEW n \in 0..Horizon
          PROVE  f[n] = IF n = 0 THEN b ELSE BoundStage(part, pol, n, f[n - 1])
      <3>1. CASE n = 0
        BY <1>5, <3>1 DEF Recursion
      <3>2. CASE n # 0
        <4>1. n \in 1..Horizon /\ n - 1 \in 0..Horizon
          BY <1>1, <3>2
        <4>2. f[n - 1] \in V
          BY <1>5, <4>1
        <4> QED BY <1>4, <1>5, <3>2, <4>1, <4>2 DEF Recursion
      <3> QED BY <3>1, <3>2
    <2> QED BY <2>1
  <1>7. U = CHOOSE g : Solves(g)
    BY DEF PolicyBounds, b
  <1>8. Solves(U)
    <2> HIDE DEF Solves
    <2> QED BY <1>6, <1>7
  <1> HIDE DEF U
  <1>9. U[0] = b /\ \A n \in 1..Horizon : U[n] = BoundStage(part, pol, n, U[n - 1])
    BY <1>1, <1>8
  <1> DEFINE T == {n \in 0..Horizon : U[n] \in V}
  <1>10. 0 \in T
    BY <1>1, <1>9
  <1>11. \A n \in 1..Horizon : n - 1 \in T => n \in T
    BY <1>1, <1>2, <1>9
  <1>12. 0..Horizon \subseteq T
    <2> HIDE DEF T
    <2> QED BY <1>1, <1>10, <1>11, StageInduction
  <1> QED BY <1>9, <1>12 DEF V, U, b

-----------------------------------------------------------------------------
(* The stages of the lifted policy                                         *)

\* A label of a state can be taken there.
LEMMA SemanticTaken ==
    ASSUME kernel \in Kernels, NEW s \in GroundStates, NEW l \in SemanticActions(s)
    PROVE  Takes(s, l)
  <1>1. PICK a \in Actions(s) : l = LabelOf[s][a]
    BY DEF SemanticActions
  <1>2. s \notin Terminal /\ a \in DOMAIN kernel[s]
    BY DEF Actions
  <1>3. s \in DOMAIN kernel
    BY <1>2, KernelAssumption
  <1>4. l \in Labels
    BY <1>1, <1>2, <1>3, AuditAssumption
  <1> QED BY <1>4 DEF Takes

\* Every state s may move to under l is known to next.
KnownStates(next, s, l) ==
    \A j \in 1..4 : Stopped(Drawn(s, l, j)) \/ next[Drawn(s, l, j).next].known

\* The lifted policy at a state: nothing to do, nothing known, or the mean of
\* the four outcomes of its label.
LEMMA LiftedCases ==
    ASSUME kernel \in Kernels, NEW part, NEW pol, NEW n \in 1..Horizon,
           NEW next \in [GroundStates -> Values], NEW s \in GroundStates
    PROVE  LET v == LiftedStage(part, pol, n, next)[s]
               d == <<n, part[s]>>
           IN  /\ v \in Values
               /\ Actions(s) = {} => v = Zero
               /\ Actions(s) # {} =>
                    /\ v.known <=> /\ d \in DOMAIN pol /\ pol[d] \in SemanticActions(s)
                                   /\ KnownStates(next, s, pol[d])
                    /\ v.known =>
                         /\ v.reward = Four(Pay(n, RewardsOf(next)), s, pol[d])
                         /\ v.failure = Four(Risk(n, FailuresOf(next)), s, pol[d])
  <1> DEFINE v == LiftedStage(part, pol, n, next)[s]
             d == <<n, part[s]>>
             x == [t \in GroundStates |-> next[t].reward]
             y == [t \in GroundStates |-> next[t].failure]
             Bad == \E a \in Matches(s, pol[d]), i \in 1..2 :
                       ~Stopped(kernel[s][a][i]) /\ ~next[kernel[s][a][i].next].known
             r == OverRealization(s, pol[d], LAMBDA o :
                    o.reward * Unit(n - 1) + (IF Stopped(o) THEN 0 ELSE next[o.next].reward))
             f == OverRealization(s, pol[d], LAMBDA o :
                    IF o.failure THEN Unit(n - 1)
                    ELSE IF Stopped(o) THEN 0 ELSE next[o.next].failure)
  <1>1. v = IF Actions(s) = {} THEN Zero
            ELSE IF d \notin DOMAIN pol \/ pol[d] \notin SemanticActions(s) \/ Bad THEN Undefined
            ELSE [known |-> TRUE, reward |-> r, failure |-> f]
    BY DEF LiftedStage
  <1>2. CASE Actions(s) = {}
    BY <1>1, <1>2, ZeroFacts
  <1>3. CASE Actions(s) # {} /\ ~(d \in DOMAIN pol /\ pol[d] \in SemanticActions(s))
    <2>1. v = Undefined
      BY <1>1, <1>3
    <2> QED BY <1>3, <2>1, ZeroFacts
  <1>4. CASE Actions(s) # {} /\ d \in DOMAIN pol /\ pol[d] \in SemanticActions(s)
    <2>1. Takes(s, pol[d])
      BY <1>4, SemanticTaken
    <2>2. Bad <=> ~KnownStates(next, s, pol[d])
      <3>1. /\ \A j \in 1..4 : \E a \in Matches(s, pol[d]), i \in 1..2 : Drawn(s, pol[d], j) = kernel[s][a][i]
            /\ \A a \in Matches(s, pol[d]), i \in 1..2 : \E j \in 1..4 : Drawn(s, pol[d], j) = kernel[s][a][i]
        BY <2>1, DrawnFacts
      <3>2. ASSUME Bad PROVE ~KnownStates(next, s, pol[d])
        <4>1. PICK a \in Matches(s, pol[d]), i \in 1..2 :
                 ~Stopped(kernel[s][a][i]) /\ ~next[kernel[s][a][i].next].known
          BY <3>2
        <4>2. PICK j \in 1..4 : Drawn(s, pol[d], j) = kernel[s][a][i]
          BY <3>1
        <4> QED BY <4>1, <4>2 DEF KnownStates
      <3>3. ASSUME ~KnownStates(next, s, pol[d]) PROVE Bad
        <4>1. PICK j \in 1..4 : ~Stopped(Drawn(s, pol[d], j)) /\ ~next[Drawn(s, pol[d], j).next].known
          BY <3>3 DEF KnownStates
        <4>2. PICK a \in Matches(s, pol[d]), i \in 1..2 : Drawn(s, pol[d], j) = kernel[s][a][i]
          BY <3>1
        <4> QED BY <4>1, <4>2
      <3> QED BY <3>2, <3>3
    <2>3. r = Four(Pay(n, x), s, pol[d]) /\ f = Four(Risk(n, y), s, pol[d])
      <3>1. \A t \in GroundStates : next[t] \in Values
        OBVIOUS
      <3> QED BY <2>1, <3>1, LiftedIs
    <2>4. r \in Int /\ f \in Int
      <3>1. \A t \in GroundStates : x[t] \in Int /\ y[t] \in Int
        BY DEF Values
      <3> HIDE DEF x, y
      <3>2. \A o \in Outcomes : Pay(n, x)[o] \in Int /\ Risk(n, y)[o] \in Int
        BY <3>1, PayTypes
      <3>3. Four(Pay(n, x), s, pol[d]) \in Int /\ Four(Risk(n, y), s, pol[d]) \in Int
        BY <2>1, <3>2, Realized
      <3> HIDE DEF r, f
      <3> QED BY <2>3, <3>3
    <2>5. v = IF Bad THEN Undefined ELSE [known |-> TRUE, reward |-> r, failure |-> f]
      BY <1>1, <1>4
    <2> HIDE DEF v, r, f, Bad, x, y, d
    <2>6. v \in Values /\ (v.known <=> ~Bad) /\ (v.known => v.reward = r /\ v.failure = f)
      <3>1. CASE Bad
        BY <2>5, <3>1, ZeroFacts
      <3>2. CASE ~Bad
        BY <2>4, <2>5, <3>2 DEF Values
      <3> QED BY <3>1, <3>2
    <2>7. /\ v \in Values /\ Actions(s) # {}
          /\ v.known <=> d \in DOMAIN pol /\ pol[d] \in SemanticActions(s) /\ KnownStates(next, s, pol[d])
          /\ v.known => v.reward = Four(Pay(n, x), s, pol[d]) /\ v.failure = Four(Risk(n, y), s, pol[d])
      BY <1>4, <2>2, <2>3, <2>6
    <2>8. x = RewardsOf(next) /\ y = FailuresOf(next)
      BY DEF x, y, RewardsOf, FailuresOf
    <2> QED BY <2>7, <2>8 DEF v, d
  <1> QED BY <1>2, <1>3, <1>4

\* Where the lifted policy is known to act
LEMMA LiftedKnown ==
    ASSUME kernel \in Kernels, NEW part, NEW pol, NEW n \in 1..Horizon,
           NEW next \in [GroundStates -> Values], NEW s \in GroundStates, Actions(s) # {},
           LiftedStage(part, pol, n, next)[s].known
    PROVE  LET l == pol[<<n, part[s]>>]
           IN  /\ l \in SemanticActions(s) /\ KnownStates(next, s, l)
               /\ LiftedStage(part, pol, n, next)[s].reward = Four(Pay(n, RewardsOf(next)), s, l)
  <1> DEFINE v == LiftedStage(part, pol, n, next)[s]
             d == <<n, part[s]>>
             p == d \in DOMAIN pol
             q == pol[d] \in SemanticActions(s)
             k == KnownStates(next, s, pol[d])
             r == v.reward = Four(Pay(n, RewardsOf(next)), s, pol[d])
             f == v.failure = Four(Risk(n, FailuresOf(next)), s, pol[d])
  <1>1. (v.known <=> p /\ q /\ k) /\ (v.known => r /\ f)
    BY LiftedCases
  <1>2. v.known
    OBVIOUS
  <1> HIDE DEF v, p, q, k, r, f
  <1>3. q /\ k /\ r
    BY <1>1, <1>2
  <1> QED BY <1>3 DEF q, k, r, v

\* The stages of the lifted policy
LEMMA LiftedStages ==
    ASSUME kernel \in Kernels, NEW part, NEW pol
    PROVE  LET U == LiftedValues(part, pol)
           IN  /\ \A n \in 0..Horizon : U[n] \in [GroundStates -> Values]
               /\ U[0] = [s \in GroundStates |-> Zero]
               /\ \A n \in 1..Horizon : U[n] = LiftedStage(part, pol, n, U[n - 1])
  <1> DEFINE V == [GroundStates -> Values]
             b == [s \in GroundStates |-> Zero]
             G == [n \in 1..Horizon |-> [v \in V |-> LiftedStage(part, pol, n, v)]]
             Solves(f) == f = [n \in 0..Horizon |-> IF n = 0 THEN b
                                                    ELSE LiftedStage(part, pol, n, f[n - 1])]
             U == LiftedValues(part, pol)
  <1>1. b \in V /\ Horizon \in Nat
    BY QueryAssumption, ZeroFacts
  <1>2. ASSUME NEW n \in 1..Horizon, NEW v \in V PROVE LiftedStage(part, pol, n, v) \in V
    <2>1. \A s \in GroundStates : LiftedStage(part, pol, n, v)[s] \in Values
      BY LiftedCases
    <2> QED BY <2>1 DEF LiftedStage
  <1> HIDE DEF V, b
  <1>3. StaysIn(G, Horizon, V)
    BY <1>2 DEF StaysIn
  <1>4. \A n \in 1..Horizon, v \in V : G[n][v] = LiftedStage(part, pol, n, v)
    OBVIOUS
  <1> HIDE DEF G
  <1>5. PICK f \in [0..Horizon -> V] : Recursion(f, b, G, Horizon)
    BY <1>1, <1>3, StagesExist
  <1>6. Solves(f)
    <2>1. ASSUME NEW n \in 0..Horizon
          PROVE  f[n] = IF n = 0 THEN b ELSE LiftedStage(part, pol, n, f[n - 1])
      <3>1. CASE n = 0
        BY <1>5, <3>1 DEF Recursion
      <3>2. CASE n # 0
        <4>1. n \in 1..Horizon /\ n - 1 \in 0..Horizon
          BY <1>1, <3>2
        <4>2. f[n - 1] \in V
          BY <1>5, <4>1
        <4> QED BY <1>4, <1>5, <3>2, <4>1, <4>2 DEF Recursion
      <3> QED BY <3>1, <3>2
    <2> QED BY <2>1
  <1>7. U = CHOOSE g : Solves(g)
    BY DEF LiftedValues, b
  <1>8. Solves(U)
    <2> HIDE DEF Solves
    <2> QED BY <1>6, <1>7
  <1> HIDE DEF U
  <1>9. U[0] = b /\ \A n \in 1..Horizon : U[n] = LiftedStage(part, pol, n, U[n - 1])
    BY <1>1, <1>8
  <1> DEFINE T == {n \in 0..Horizon : U[n] \in V}
  <1>10. 0 \in T
    BY <1>1, <1>9
  <1>11. \A n \in 1..Horizon : n - 1 \in T => n \in T
    BY <1>1, <1>2, <1>9
  <1>12. 0..Horizon \subseteq T
    <2> HIDE DEF T
    <2> QED BY <1>1, <1>10, <1>11, StageInduction
  <1> QED BY <1>9, <1>12 DEF V, U, b

-----------------------------------------------------------------------------
(* The audit brackets the truth, stage by stage                            *)

Lower(part, pol, n, s) == PolicyBounds(part, pol)[n][part[s]]
Lifted(part, pol, n, s) == LiftedValues(part, pol)[n][s]
Upper(part, n, s) == UpperEnvelope(part)[n][part[s]]

Brackets(part, pol, n, s) ==
    /\ Lower(part, pol, n, s).known =>
         /\ Lifted(part, pol, n, s).known
         /\ Lower(part, pol, n, s).reward <= Lifted(part, pol, n, s).reward
         /\ Lifted(part, pol, n, s).failure <= Lower(part, pol, n, s).failure
    /\ Lifted(part, pol, n, s).known => Lifted(part, pol, n, s).reward <= BestRewards[n][s]
    /\ BestRewards[n][s] <= Upper(part, n, s)

\* A label's mean is at most its better action.
LEMMA FourAtMost ==
    ASSUME kernel \in Kernels, NEW s, NEW l, Takes(s, l), NEW n \in 1..Horizon,
           NEW x, \A t \in GroundStates : x[t] \in Int
    PROVE  Four(Pay(n, x), s, l) <= Max(Offers(n, x, s))
  <1> DEFINE a == Taken(s, l)
             b == Also(s, l)
             p == Pay(n, x)[kernel[s][a][1]] + Pay(n, x)[kernel[s][a][2]]
             q == Pay(n, x)[kernel[s][b][1]] + Pay(n, x)[kernel[s][b][2]]
             m == Max(Offers(n, x, s))
  <1>1. a \in Actions(s) /\ b \in Actions(s)
    BY MatchFacts
  <1>2. /\ Pay(n, x)[kernel[s][a][1]] \in Int /\ Pay(n, x)[kernel[s][a][2]] \in Int
        /\ Pay(n, x)[kernel[s][b][1]] \in Int /\ Pay(n, x)[kernel[s][b][2]] \in Int
    BY <1>1, ActionFacts, PayTypes DEF Takes
  <1>3. Four(Pay(n, x), s, l) = p + q
    <2>1. Four(Pay(n, x), s, l) = Pay(n, x)[kernel[s][a][1]] + Pay(n, x)[kernel[s][a][2]]
                                  + Pay(n, x)[kernel[s][b][1]] + Pay(n, x)[kernel[s][b][2]]
      BY DEF Four, Drawn
    <2> QED BY <1>2, <2>1
  <1>4. 2 * p \in Offers(n, x, s) /\ 2 * q \in Offers(n, x, s)
    BY <1>1 DEF Offers, ActionPay
  <1>5. 2 * p <= m /\ 2 * q <= m /\ m \in Int
    BY <1>4, OfferFacts DEF Takes
  <1>6. p \in Int /\ q \in Int
    BY <1>2
  <1> HIDE DEF p, q, m
  <1>7. p + q <= m
    BY <1>5, <1>6
  <1> QED BY <1>3, <1>7 DEF m

\* A state that is offered more is worth more.
LEMMA OffersMonotone ==
    ASSUME kernel \in Kernels, NEW s \in GroundStates, NEW n \in 1..Horizon,
           NEW x, NEW y, \A t \in GroundStates : x[t] \in Int /\ y[t] \in Int /\ x[t] <= y[t]
    PROVE  \A v \in Offers(n, x, s) : \E u \in Offers(n, y, s) : v <= u
  <1>1. CASE Actions(s) = {}
    BY <1>1 DEF Offers
  <1>2. CASE Actions(s) # {}
    <2> SUFFICES ASSUME NEW v \in Offers(n, x, s) PROVE \E u \in Offers(n, y, s) : v <= u
      OBVIOUS
    <2>1. PICK a \in Actions(s) : v = ActionPay(n, x, s, a)
      BY <1>2 DEF Offers
    <2> DEFINE o1 == kernel[s][a][1]
               o2 == kernel[s][a][2]
    <2>2. o1 \in Outcomes /\ o2 \in Outcomes
      BY ActionFacts
    <2>3. \A o \in Outcomes : o.next \in GroundStates
      BY DEF Outcomes
    <2>4. Pay(n, x)[o1] <= Pay(n, y)[o1] /\ Pay(n, x)[o2] <= Pay(n, y)[o2]
      BY <2>2, <2>3, PayMonotone
    <2>5. /\ Pay(n, x)[o1] \in Int /\ Pay(n, y)[o1] \in Int
          /\ Pay(n, x)[o2] \in Int /\ Pay(n, y)[o2] \in Int
      BY <2>2, PayTypes
    <2>6. ActionPay(n, y, s, a) \in Offers(n, y, s)
      BY <1>2 DEF Offers
    <2>7. ActionPay(n, x, s, a) <= ActionPay(n, y, s, a)
      BY <2>4, <2>5 DEF ActionPay
    <2> QED BY <2>1, <2>6, <2>7
  <1> QED BY <1>1, <1>2

\* Lower bounds: what holds at the successor cells holds at the state.
LEMMA LowerStep ==
    ASSUME kernel \in Kernels, NEW part, IsPartition(part), NEW pol, NEW n \in 1..Horizon,
           NEW B \in [BlocksOf(part) -> Values], NEW L \in [GroundStates -> Values],
           \A t \in GroundStates : B[part[t]].known =>
              L[t].known /\ B[part[t]].reward <= L[t].reward /\ L[t].failure <= B[part[t]].failure,
           NEW s \in GroundStates, BoundStage(part, pol, n, B)[part[s]].known
    PROVE  LET b == BoundStage(part, pol, n, B)[part[s]]
               v == LiftedStage(part, pol, n, L)[s]
           IN  v.known /\ b.reward <= v.reward /\ v.failure <= b.failure
  <1> DEFINE c == part[s]
             d == <<n, c>>
             l == pol[d]
             b == BoundStage(part, pol, n, B)[c]
             v == LiftedStage(part, pol, n, L)[s]
  <1>1. c \in BlocksOf(part) /\ s \in c
    BY BlockFacts
  <1>2. \/ c \subseteq Terminal /\ b = Zero
        \/ /\ ~(c \subseteq Terminal)
           /\ d \in DOMAIN pol /\ l \in CellActions(c) /\ b = CellBound(part, c, l, n, B)
    BY <1>1, BoundCases, ZeroFacts
  <1>3. CASE c \subseteq Terminal /\ b = Zero
    <2>1. Actions(s) = {}
      BY <1>1, <1>3, ActionFacts
    <2>2. v = Zero
      BY <2>1, LiftedCases
    <2> QED BY <1>3, <2>2, ZeroFacts
  <1>4. CASE /\ ~(c \subseteq Terminal)
             /\ d \in DOMAIN pol /\ l \in CellActions(c) /\ b = CellBound(part, c, l, n, B)
    <2>1. /\ \A t \in ActiveMembers(c) : KnownAfter(part, B, t, l)
          /\ \A t \in ActiveMembers(c) : /\ b.reward <= CellPay(part, n, B, t, l)
                                         /\ CellRisk(part, n, B, t, l) <= b.failure
          /\ c \cap Terminal # {} => b.reward <= 0 /\ 0 <= b.failure
          /\ b \in Values
      BY <1>1, <1>4, CellBoundFacts
    <2>2. CASE s \in Terminal
      <3>1. Actions(s) = {}
        BY <2>2, ActionFacts
      <3>2. v = Zero
        BY <3>1, LiftedCases
      <3>3. c \cap Terminal # {}
        BY <1>1, <2>2
      <3> QED BY <2>1, <3>2, <3>3, ZeroFacts
    <2>3. CASE s \notin Terminal
      <3>1. s \in ActiveMembers(c)
        BY <1>1, <2>3 DEF ActiveMembers
      <3>2. Takes(s, l) /\ l \in SemanticActions(s) /\ Actions(s) # {}
        BY <1>1, <1>4, <3>1, MembersTake DEF Takes, SemanticActions
      <3>3. \A j \in 1..4 : Drawn(s, l, j) \in Outcomes /\ Drawn(s, l, j).next \in GroundStates
        BY <3>2, DrawnFacts DEF Outcomes
      <3>4. \A j \in 1..4 : Stopped(Drawn(s, l, j)) \/ B[part[Drawn(s, l, j).next]].known
        BY <2>1, <3>1 DEF KnownAfter
      <3>5. KnownStates(L, s, l)
        BY <3>3, <3>4 DEF KnownStates
      <3> DEFINE xB == OnStates(part, RewardsOf(B))
                 yB == OnStates(part, FailuresOf(B))
                 xL == RewardsOf(L)
                 yL == FailuresOf(L)
      <3>6. v.known /\ v.reward = Four(Pay(n, xL), s, l) /\ v.failure = Four(Risk(n, yL), s, l)
        BY <1>4, <3>2, <3>5, LiftedCases
      <3>7. \A t \in GroundStates : /\ xB[t] \in Int /\ xB[t] = B[part[t]].reward
                                    /\ yB[t] \in Int /\ yB[t] = B[part[t]].failure
        BY StateFunctions
      <3>8. \A t \in GroundStates : /\ xL[t] \in Int /\ xL[t] = L[t].reward
                                    /\ yL[t] \in Int /\ yL[t] = L[t].failure
        BY DEF Values, RewardsOf, FailuresOf
      <3> HIDE DEF xB, yB, xL, yL
      <3>9. \A j \in 1..4 : Stopped(Drawn(s, l, j)) \/
               /\ xB[Drawn(s, l, j).next] <= xL[Drawn(s, l, j).next]
               /\ yL[Drawn(s, l, j).next] <= yB[Drawn(s, l, j).next]
        BY <3>3, <3>4, <3>7, <3>8
      <3>10. \A j \in 1..4 : /\ Pay(n, xB)[Drawn(s, l, j)] <= Pay(n, xL)[Drawn(s, l, j)]
                             /\ Risk(n, yL)[Drawn(s, l, j)] <= Risk(n, yB)[Drawn(s, l, j)]
        BY <3>3, <3>7, <3>8, <3>9, PayMonotone
      <3>11. \A o \in Outcomes : /\ Pay(n, xB)[o] \in Int /\ Pay(n, xL)[o] \in Int
                                 /\ Risk(n, yB)[o] \in Int /\ Risk(n, yL)[o] \in Int
        BY <3>7, <3>8, PayTypes
      <3>12. Four(Pay(n, xB), s, l) <= Four(Pay(n, xL), s, l)
        BY <3>2, <3>10, <3>11, FourMonotone
      <3>13. Four(Risk(n, yL), s, l) <= Four(Risk(n, yB), s, l)
        BY <3>2, <3>10, <3>11, FourMonotone
      <3>14. b.reward <= Four(Pay(n, xB), s, l) /\ Four(Risk(n, yB), s, l) <= b.failure
        BY <2>1, <3>1 DEF CellPay, CellRisk, xB, yB
      <3>15. /\ Four(Pay(n, xB), s, l) \in Int /\ Four(Pay(n, xL), s, l) \in Int
             /\ Four(Risk(n, yB), s, l) \in Int /\ Four(Risk(n, yL), s, l) \in Int
        BY <3>2, <3>11, Realized
      <3>16. b.reward \in Int /\ b.failure \in Int
        BY <2>1 DEF Values
      <3> HIDE DEF b, v
      <3>17. v.known /\ b.reward <= v.reward /\ v.failure <= b.failure
        BY <3>6, <3>12, <3>13, <3>14, <3>15, <3>16
      <3> QED BY <3>17 DEF b, v
    <2> QED BY <2>2, <2>3
  <1> QED BY <1>2, <1>3, <1>4

\* The lifted policy earns at most the best.
LEMMA BestStep ==
    ASSUME kernel \in Kernels, NEW part, NEW pol, NEW n \in 1..Horizon,
           NEW L \in [GroundStates -> Values], NEW m \in [GroundStates -> Int],
           \A t \in GroundStates : L[t].known => L[t].reward <= m[t],
           NEW s \in GroundStates, LiftedStage(part, pol, n, L)[s].known
    PROVE  LiftedStage(part, pol, n, L)[s].reward <= BestStage(n, m)[s]
  <1> DEFINE d == <<n, part[s]>>
             l == pol[d]
             v == LiftedStage(part, pol, n, L)[s]
             xL == RewardsOf(L)
  <1>1. BestStage(n, m)[s] = Max(Offers(n, m, s))
    BY BestOffers
  <1>2. \A t \in GroundStates : m[t] \in Int
    OBVIOUS
  <1>3. CASE Actions(s) = {}
    <2>1. v = Zero /\ Offers(n, m, s) = {0}
      BY <1>3, LiftedCases DEF Offers
    <2>2. Max(Offers(n, m, s)) = 0
      BY <1>2, <2>1, OfferFacts
    <2> QED BY <1>1, <2>1, <2>2, ZeroFacts
  <1>4. CASE Actions(s) # {}
    <2>1. /\ l \in SemanticActions(s) /\ KnownStates(L, s, l)
          /\ v.reward = Four(Pay(n, xL), s, l)
      BY <1>4, LiftedKnown
    <2>2. Takes(s, l)
      BY <2>1, SemanticTaken
    <2>3. \A t \in GroundStates : xL[t] \in Int /\ xL[t] = L[t].reward
      BY DEF Values, RewardsOf
    <2> HIDE DEF xL
    <2>4. \A j \in 1..4 : Drawn(s, l, j) \in Outcomes /\ Drawn(s, l, j).next \in GroundStates
      BY <2>2, DrawnFacts DEF Outcomes
    <2>5. \A j \in 1..4 : Stopped(Drawn(s, l, j)) \/ xL[Drawn(s, l, j).next] <= m[Drawn(s, l, j).next]
      BY <2>1, <2>3, <2>4 DEF KnownStates
    <2>6. \A j \in 1..4 : Pay(n, xL)[Drawn(s, l, j)] <= Pay(n, m)[Drawn(s, l, j)]
      BY <1>2, <2>3, <2>4, <2>5, PayMonotone
    <2>7. \A o \in Outcomes : Pay(n, xL)[o] \in Int /\ Pay(n, m)[o] \in Int
      BY <1>2, <2>3, PayTypes
    <2>8. Four(Pay(n, xL), s, l) <= Four(Pay(n, m), s, l)
      BY <2>2, <2>6, <2>7, FourMonotone
    <2>9. Four(Pay(n, m), s, l) <= Max(Offers(n, m, s))
      BY <1>2, <2>2, FourAtMost
    <2>10. /\ Four(Pay(n, xL), s, l) \in Int /\ Four(Pay(n, m), s, l) \in Int
           /\ Max(Offers(n, m, s)) \in Int
      BY <1>2, <2>2, <2>7, Realized, OfferFacts
    <2> QED BY <1>1, <2>1, <2>8, <2>9, <2>10
  <1> QED BY <1>3, <1>4

\* The unrestricted bound of a cell is above the best of its states.
LEMMA UpperStep ==
    ASSUME kernel \in Kernels, NEW part, IsPartition(part), NEW n \in 1..Horizon,
           NEW m \in [GroundStates -> Int], NEW u \in [BlocksOf(part) -> Int],
           \A t \in GroundStates : m[t] <= u[part[t]], NEW s \in GroundStates
    PROVE  BestStage(n, m)[s] <= UpperStage(part, n, u)[part[s]]
  <1> DEFINE x == OnStates(part, u)
  <1>1. part[s] \in BlocksOf(part) /\ s \in part[s]
    BY BlockFacts
  <1>2. \A t \in GroundStates : m[t] \in Int /\ x[t] \in Int /\ m[t] <= x[t]
    BY BlockFacts DEF OnStates
  <1>3. UpperStage(part, n, u)[part[s]] \in Int
        /\ \A v \in Offers(n, x, s) : v <= UpperStage(part, n, u)[part[s]]
    BY <1>1, UpperStageFacts
  <1> HIDE DEF x
  <1>4. Max(Offers(n, m, s)) \in Offers(n, m, s)
    BY <1>2, OfferFacts
  <1>5. PICK v \in Offers(n, x, s) : Max(Offers(n, m, s)) <= v
    BY <1>2, <1>4, OffersMonotone
  <1>6. Max(Offers(n, m, s)) \in Int /\ v \in Int
    BY <1>2, <1>4, OfferFacts
  <1>7. BestStage(n, m)[s] = Max(Offers(n, m, s))
    BY BestOffers
  <1> QED BY <1>3, <1>5, <1>6, <1>7

\* By induction over the stages: the bounds of a cell bracket the lifted policy at
\* each of its states, and the best reward is between it and the unrestricted bound.
LEMMA BracketsAlways ==
    ASSUME kernel \in Kernels, NEW part, IsPartition(part), NEW pol
    PROVE  \A n \in 0..Horizon, s \in GroundStates : Brackets(part, pol, n, s)
  <1> DEFINE B == PolicyBounds(part, pol)
             L == LiftedValues(part, pol)
             M == BestRewards
             U == UpperEnvelope(part)
             Good(n) == \A s \in GroundStates :
                          /\ B[n][part[s]].known =>
                               /\ L[n][s].known
                               /\ B[n][part[s]].reward <= L[n][s].reward
                               /\ L[n][s].failure <= B[n][part[s]].failure
                          /\ L[n][s].known => L[n][s].reward <= M[n][s]
                          /\ M[n][s] <= U[n][part[s]]
             T == {n \in 0..Horizon : Good(n)}
  <1>1. Horizon \in Nat
    BY QueryAssumption
  <1>2. /\ \A n \in 0..Horizon : B[n] \in [BlocksOf(part) -> Values]
        /\ B[0] = [c \in BlocksOf(part) |-> Zero]
        /\ \A n \in 1..Horizon : B[n] = BoundStage(part, pol, n, B[n - 1])
    BY BoundStages
  <1>3. /\ \A n \in 0..Horizon : L[n] \in [GroundStates -> Values]
        /\ L[0] = [s \in GroundStates |-> Zero]
        /\ \A n \in 1..Horizon : L[n] = LiftedStage(part, pol, n, L[n - 1])
    BY LiftedStages
  <1>4. /\ \A n \in 0..Horizon : M[n] \in [GroundStates -> Int]
        /\ M[0] = [s \in GroundStates |-> 0]
        /\ \A n \in 1..Horizon : M[n] = BestStage(n, M[n - 1])
    BY BestStages
  <1>5. /\ \A n \in 0..Horizon : U[n] \in [BlocksOf(part) -> Int]
        /\ U[0] = [c \in BlocksOf(part) |-> 0]
        /\ \A n \in 1..Horizon : U[n] = UpperStage(part, n, U[n - 1])
    BY UpperStages
  <1>6. \A s \in GroundStates : part[s] \in BlocksOf(part)
    BY BlockFacts
  <1> HIDE DEF B, L, M, U
  <1>7. 0 \in T
    <2>1. Good(0)
      BY <1>2, <1>3, <1>4, <1>5, <1>6, ZeroFacts
    <2> QED BY <1>1, <2>1
  <1>8. ASSUME NEW n \in 1..Horizon, n - 1 \in T PROVE n \in T
    <2>1. n \in 0..Horizon /\ n - 1 \in 0..Horizon /\ Good(n - 1)
      BY <1>1, <1>8
    <2> DEFINE B0 == B[n - 1]  L0 == L[n - 1]  M0 == M[n - 1]  U0 == U[n - 1]
    <2>2. /\ B0 \in [BlocksOf(part) -> Values] /\ L0 \in [GroundStates -> Values]
          /\ M0 \in [GroundStates -> Int] /\ U0 \in [BlocksOf(part) -> Int]
      BY <1>2, <1>3, <1>4, <1>5, <2>1
    <2>3. /\ B[n] = BoundStage(part, pol, n, B0) /\ L[n] = LiftedStage(part, pol, n, L0)
          /\ M[n] = BestStage(n, M0) /\ U[n] = UpperStage(part, n, U0)
      BY <1>2, <1>3, <1>4, <1>5
    <2>4. /\ \A t \in GroundStates : B0[part[t]].known =>
               L0[t].known /\ B0[part[t]].reward <= L0[t].reward /\ L0[t].failure <= B0[part[t]].failure
          /\ \A t \in GroundStates : L0[t].known => L0[t].reward <= M0[t]
          /\ \A t \in GroundStates : M0[t] <= U0[part[t]]
      BY <2>1
    <2> HIDE DEF B0, L0, M0, U0
    <2>5. ASSUME NEW s \in GroundStates
          PROVE  /\ B[n][part[s]].known =>
                      /\ L[n][s].known
                      /\ B[n][part[s]].reward <= L[n][s].reward
                      /\ L[n][s].failure <= B[n][part[s]].failure
                 /\ L[n][s].known => L[n][s].reward <= M[n][s]
                 /\ M[n][s] <= U[n][part[s]]
      <3>1. ASSUME B[n][part[s]].known
            PROVE  /\ L[n][s].known
                   /\ B[n][part[s]].reward <= L[n][s].reward
                   /\ L[n][s].failure <= B[n][part[s]].failure
        BY <2>2, <2>3, <2>4, <3>1, LowerStep
      <3>2. ASSUME L[n][s].known PROVE L[n][s].reward <= M[n][s]
        BY <2>2, <2>3, <2>4, <3>2, BestStep
      <3>3. M[n][s] <= U[n][part[s]]
        BY <2>2, <2>3, <2>4, UpperStep
      <3> QED BY <3>1, <3>2, <3>3
    <2> QED BY <2>1, <2>5
  <1>9. 0..Horizon \subseteq T
    <2> HIDE DEF T
    <2> QED BY <1>1, <1>7, <1>8, StageInduction
  <1>10. \A n \in 0..Horizon : Good(n)
    BY <1>9
  <1> QED BY <1>10 DEF Brackets, Lower, Lifted, Upper, B, L, M, U

-----------------------------------------------------------------------------
(* From the states to an initial distribution                              *)

\* An initial distribution the construction may be asked about
Starts(i) == DOMAIN i \subseteq GroundStates /\ \A s \in DOMAIN i : i[s] \in Nat

\* An expectation is monotone.
LEMMA ExpectedMonotone ==
    ASSUME NEW i, Starts(i), NEW f, NEW g,
           \A s \in DOMAIN i : f[s] \in Int /\ g[s] \in Int /\ f[s] <= g[s]
    PROVE  /\ Expected(i, f) \in Int /\ Expected(i, g) \in Int
           /\ Expected(i, f) <= Expected(i, g)
  <1> DEFINE S == DOMAIN i
             v == [s \in S |-> i[s] * f[s]]
             w == [s \in S |-> i[s] * g[s]]
  <1>1. IsFiniteSet(S)
    BY FS_Subset, KernelAssumption DEF Starts
  <1>2. \A a \in Nat : \A x, y \in Int : x <= y => a * x \in Int /\ a * y \in Int /\ a * x <= a * y
    OBVIOUS
  <1>3. \A s \in S : v[s] \in Int /\ w[s] \in Int /\ v[s] <= w[s]
    BY <1>2 DEF Starts
  <1>4. Expected(i, f) = SumFunctionOnSet(v, S) /\ Expected(i, g) = SumFunctionOnSet(w, S)
    BY DEF Expected, SumFunction
  <1> HIDE DEF v, w, S
  <1>5. Weighs(v, S) /\ Weighs(w, S)
    BY <1>1, <1>3 DEF Weighs
  <1>6. SumFunctionOnSet(v, S) <= SumFunctionOnSet(w, S)
    BY <1>3, <1>5, SumMonotone
  <1>7. SumFunctionOnSet(v, S) \in Int /\ SumFunctionOnSet(w, S) \in Int
    <2>1. S \in SUBSET S
      OBVIOUS
    <2> QED BY <1>5, <2>1, SumIs
  <1> QED BY <1>4, <1>6, <1>7

\* A complete audit brackets the truth.
LEMMA AuditBrackets ==
    ASSUME kernel \in Kernels, NEW part, IsPartition(part), NEW pol, NEW i, Starts(i),
           AuditPolicy(part, pol, i).known
    PROVE  LET a == AuditPolicy(part, pol, i)
               true == EvaluateSemanticPolicy(i, part, pol)
           IN  /\ true.known
               /\ a.reward \in Int /\ a.failure \in Int /\ a.upper \in Int
               /\ true.reward \in Int /\ true.failure \in Int /\ BestReward(i) \in Int
               /\ a.reward <= true.reward /\ true.failure <= a.failure
               /\ true.reward <= BestReward(i) /\ BestReward(i) <= a.upper
  <1> DEFINE S == DOMAIN i
             B == PolicyBounds(part, pol)[Horizon]
             L == LiftedValues(part, pol)[Horizon]
             M == BestRewards[Horizon]
             U == UpperEnvelope(part)[Horizon]
             bv == [s \in S |-> B[part[s]]]
             br == [s \in S |-> bv[s].reward]
             bf == [s \in S |-> bv[s].failure]
             lr == [s \in S |-> L[s].reward]
             lf == [s \in S |-> L[s].failure]
             u == [s \in S |-> U[part[s]]]
             a == AuditPolicy(part, pol, i)
             true == EvaluateSemanticPolicy(i, part, pol)
  <1>1. Horizon \in 0..Horizon
    BY QueryAssumption
  <1>2. /\ B \in [BlocksOf(part) -> Values] /\ L \in [GroundStates -> Values]
        /\ M \in [GroundStates -> Int] /\ U \in [BlocksOf(part) -> Int]
    BY <1>1, BoundStages, LiftedStages, BestStages, UpperStages
  <1>3. \A s \in GroundStates : /\ B[part[s]].known =>
                                     /\ L[s].known /\ B[part[s]].reward <= L[s].reward
                                     /\ L[s].failure <= B[part[s]].failure
                                /\ L[s].known => L[s].reward <= M[s]
                                /\ M[s] <= U[part[s]]
    BY <1>1, BracketsAlways DEF Brackets, Lower, Lifted, Upper
  <1>4. \A s \in S : s \in GroundStates /\ part[s] \in BlocksOf(part)
    BY BlockFacts DEF Starts
  <1> HIDE DEF B, L, M, U
  <1>5. a.known = AtRoot(i, bv).known /\ a.reward = AtRoot(i, bv).reward
        /\ a.failure = AtRoot(i, bv).failure /\ a.upper = Expected(i, u)
    BY DEF AuditPolicy, B, U
  <1>6. AtRoot(i, bv) = IF \E s \in S : ~bv[s].known THEN Undefined
                        ELSE [known |-> TRUE, reward |-> Expected(i, br), failure |-> Expected(i, bf)]
    BY DEF AtRoot
  <1>7. (\A s \in S : bv[s].known) /\ a.reward = Expected(i, br) /\ a.failure = Expected(i, bf)
    <2> HIDE DEF bv, br, bf, a
    <2>1. AtRoot(i, bv).known
      BY <1>5 DEF a
    <2>2. \A s \in S : bv[s].known
      BY <1>6, <2>1, ZeroFacts
    <2> QED BY <1>5, <1>6, <2>2
  <1>8. \A s \in S : L[s].known
    BY <1>3, <1>4, <1>7
  <1>9. true = [known |-> TRUE, reward |-> Expected(i, lr), failure |-> Expected(i, lf)]
    <2>1. true = AtRoot(i, L)
      BY DEF EvaluateSemanticPolicy, L
    <2> QED BY <1>8, <2>1 DEF AtRoot
  <1>10. \A s \in S : /\ br[s] \in Int /\ lr[s] \in Int /\ br[s] <= lr[s]
                      /\ bf[s] \in Int /\ lf[s] \in Int /\ lf[s] <= bf[s]
                      /\ M[s] \in Int /\ lr[s] <= M[s]
                      /\ u[s] \in Int /\ M[s] <= u[s]
    <2> SUFFICES ASSUME NEW s \in S
                 PROVE  /\ br[s] \in Int /\ lr[s] \in Int /\ br[s] <= lr[s]
                        /\ bf[s] \in Int /\ lf[s] \in Int /\ lf[s] <= bf[s]
                        /\ M[s] \in Int /\ lr[s] <= M[s]
                        /\ u[s] \in Int /\ M[s] <= u[s]
      OBVIOUS
    <2>1. B[part[s]] \in Values /\ L[s] \in Values /\ M[s] \in Int /\ U[part[s]] \in Int
      BY <1>2, <1>4
    <2>2. /\ B[part[s]].reward \in Int /\ B[part[s]].failure \in Int
          /\ L[s].reward \in Int /\ L[s].failure \in Int
      BY <2>1 DEF Values
    <2>3. B[part[s]].known /\ L[s].known /\ s \in GroundStates
      BY <1>4, <1>7, <1>8
    <2>4. /\ B[part[s]].reward <= L[s].reward /\ L[s].failure <= B[part[s]].failure
          /\ L[s].reward <= M[s] /\ M[s] <= U[part[s]]
      BY <1>3, <2>3
    <2> QED BY <2>1, <2>2, <2>4
  <1> HIDE DEF bv, br, bf, lr, lf, u, a, S
  <1>11. /\ Expected(i, br) \in Int /\ Expected(i, lr) \in Int /\ Expected(i, br) <= Expected(i, lr)
    BY <1>10, ExpectedMonotone DEF S
  <1>12. /\ Expected(i, bf) \in Int /\ Expected(i, lf) \in Int /\ Expected(i, lf) <= Expected(i, bf)
    BY <1>10, ExpectedMonotone DEF S
  <1>13. Expected(i, M) \in Int /\ Expected(i, lr) <= Expected(i, M)
    BY <1>10, ExpectedMonotone DEF S
  <1>14. Expected(i, u) \in Int /\ Expected(i, M) <= Expected(i, u)
    BY <1>10, ExpectedMonotone DEF S
  <1>15. BestReward(i) = Expected(i, M)
    BY DEF BestReward, M
  <1> HIDE DEF true
  <1>16. true.known /\ true.reward = Expected(i, lr) /\ true.failure = Expected(i, lf)
    BY <1>9
  <1>17. /\ true.known
         /\ a.reward \in Int /\ a.failure \in Int /\ a.upper \in Int
         /\ true.reward \in Int /\ true.failure \in Int /\ BestReward(i) \in Int
         /\ a.reward <= true.reward /\ true.failure <= a.failure
         /\ true.reward <= BestReward(i) /\ BestReward(i) <= a.upper
    BY <1>5, <1>7, <1>11, <1>12, <1>13, <1>14, <1>15, <1>16
  <1> QED BY <1>17 DEF a, true

-----------------------------------------------------------------------------
(* The construction keeps its kernel, so an audit stays what it was.       *)

\* The actions of a state
LEMMA SameActions ==
    ASSUME kernel' = kernel, NEW s
    PROVE  Actions(s)' = Actions(s)
  BY DEF Actions

\* The unrestricted bound
LEMMA SameUpper ==
    ASSUME kernel' = kernel, NEW part
    PROVE  UpperEnvelope(part)' = UpperEnvelope(part)
  <1>1. ASSUME NEW n, NEW next, NEW s
        PROVE  UpperCandidates(part, s, n, next)' = UpperCandidates(part, s, n, next)
    <2> DEFINE f(o) == o.reward * Unit(n - 1) + (IF Stopped(o) THEN 0 ELSE next[part[o.next]])
               X == {2 * (f(kernel[s][a][1]) + f(kernel[s][a][2])) : a \in Actions(s)}
               Y == {2 * (f(kernel'[s][a][1]) + f(kernel'[s][a][2])) : a \in Actions(s)'}
    <2>1. UpperCandidates(part, s, n, next) = IF Actions(s) = {} THEN {0} ELSE X
      BY DEF UpperCandidates, OverOutcomes
    <2>2. UpperCandidates(part, s, n, next)' = IF Actions(s)' = {} THEN {0} ELSE Y
      BY DEF UpperCandidates, OverOutcomes
    <2>3. X = Y
      BY SameActions
    <2> HIDE DEF X, Y
    <2> QED BY <2>1, <2>2, <2>3, SameActions
  <1>2. ASSUME NEW n, NEW next PROVE UpperStage(part, n, next)' = UpperStage(part, n, next)
    BY <1>1 DEF UpperStage
  <1> QED BY <1>2 DEF UpperEnvelope

\* The bounds of a policy
LEMMA SameBounds ==
    ASSUME kernel' = kernel, NEW part, NEW pol
    PROVE  PolicyBounds(part, pol)' = PolicyBounds(part, pol)
  <1>1. ASSUME NEW s, NEW l
        PROVE  /\ SemanticActions(s)' = SemanticActions(s)
               /\ Matches(s, l)' = Matches(s, l)
    BY SameActions DEF SemanticActions, Matches
  <1>2. ASSUME NEW s, NEW l PROVE Realization(part, s, l)' = Realization(part, s, l)
    BY <1>1 DEF Realization, OverRealization, OverOutcomes
  <1>3. ASSUME NEW c PROVE CellActions(c)' = CellActions(c)
    BY <1>1 DEF CellActions
  <1>4. ASSUME NEW c, NEW l, NEW n, NEW next
        PROVE  CellBound(part, c, l, n, next)' = CellBound(part, c, l, n, next)
    BY <1>2 DEF CellBound
  <1>5. ASSUME NEW n, NEW next
        PROVE  BoundStage(part, pol, n, next)' = BoundStage(part, pol, n, next)
    BY <1>3, <1>4 DEF BoundStage
  <1> QED BY <1>5 DEF PolicyBounds

\* The audit
LEMMA SameAudit ==
    ASSUME kernel' = kernel, NEW part, NEW pol, NEW i
    PROVE  AuditPolicy(part, pol, i)' = AuditPolicy(part, pol, i)
  BY SameUpper, SameBounds DEF AuditPolicy

\* The certificate
LEMMA SameCertificate ==
    ASSUME kernel' = kernel, NEW part, NEW pol, NEW q
    PROVE  CombinedCertified(part, pol, q)' = CombinedCertified(part, pol, q)
  BY SameAudit DEF CombinedCertified

-----------------------------------------------------------------------------
(* The invariant of the construction                                       *)

\* A block taken out of a cell leaves a partition, each of whose cells lies in
\* one of the cells before.
LEMMA SplitFacts ==
    ASSUME NEW part, IsPartition(part), NEW c \in BlocksOf(part),
           NEW block \in SUBSET c
    PROVE  /\ IsPartition(SplitBlock(part, block))
           /\ \A s \in GroundStates : SplitBlock(part, block)[s] \subseteq part[s]
  <1> DEFINE fine == SplitBlock(part, block)
  <1>1. PICK r \in GroundStates : c = part[r]
    BY DEF BlocksOf
  <1>2. \A s \in GroundStates : /\ s \in part[s] /\ part[s] \subseteq GroundStates
                                /\ \A t \in part[s] : part[t] = part[s]
    BY DEF IsPartition
  <1>3. \A s \in GroundStates : fine[s] = IF s \in block THEN block ELSE part[s] \ block
    BY DEF SplitBlock
  <1>4. \A s \in block : s \in GroundStates /\ part[s] = c
    BY <1>1, <1>2
  <1>5. fine \in [GroundStates -> SUBSET GroundStates]
    BY <1>2, <1>4 DEF SplitBlock
  <1>6. ASSUME NEW s \in GroundStates
        PROVE  s \in fine[s] /\ fine[s] \subseteq part[s] /\ \A t \in fine[s] : fine[t] = fine[s]
    <2>1. CASE s \in block
      BY <1>2, <1>3, <1>4, <2>1
    <2>2. CASE s \notin block
      <3>1. fine[s] = part[s] \ block
        BY <1>3, <2>2
      <3>2. \A t \in fine[s] : t \in GroundStates /\ t \notin block /\ part[t] = part[s]
        BY <1>2, <3>1
      <3>3. \A t \in fine[s] : fine[t] = part[s] \ block
        BY <1>3, <3>2
      <3> QED BY <1>2, <2>2, <3>1, <3>3
    <2> QED BY <2>1, <2>2
  <1> QED BY <1>5, <1>6 DEF IsPartition

\* The cells partition the states, an audit that is shown is the audit of the
\* policy that was proposed, on the cells it was proposed for, and a certificate
\* was earned by it.
AuditInv ==
    /\ kernel \in Kernels
    /\ query \in [initial : Initials, delta : Deltas]
    /\ IsPartition(blocks)
    /\ Audited => audit = AuditPolicy(blocks, policy, query.initial)
    /\ status = "CERTIFIED" => CombinedCertified(blocks, policy, query)

\* The invariant holds when the models have been built.
LEMMA AuditInitially ==
    ASSUME AuditInit
    PROVE  AuditInv
  BY AuditAssumption DEF AuditInit, AuditInv, Audited

\* What a step does to the invariant's variables
LEMMA AuditSteps ==
    ASSUME AuditInv, [AuditNext]_auditVars
    PROVE  /\ kernel' = kernel /\ query' = query
           /\ \/ /\ blocks' = blocks /\ audit' = AuditPolicy(blocks, policy', query.initial)
                 /\ status' = "CERTIFIED" => CombinedCertified(blocks, policy', query)
              \/ /\ status = "UNCERTIFIED" /\ status' = "BUILT"
                 /\ \E c \in BlocksOf(blocks) : \E block \in SUBSET c :
                      blocks' = SplitBlock(blocks, block)
              \/ blocks' = blocks /\ ~Audited'
              \/ UNCHANGED auditVars
  <1>1. CASE AuditProposal
    BY <1>1 DEF AuditProposal
  <1>2. CASE SplitAndRebuild
    BY <1>2 DEF SplitAndRebuild
  <1>3. CASE GroundFallback
    <2>1. status' \in {"INFEASIBLE_QUERY", "GROUND_FALLBACK"}
      BY <1>3 DEF GroundFallback
    <2> QED BY <1>3, <2>1 DEF GroundFallback, Audited
  <1>4. CASE OracleQuery
    BY <1>4 DEF OracleQuery, Audited
  <1>5. CASE UNCHANGED auditVars
    BY <1>5 DEF auditVars
  <1> QED BY <1>1, <1>2, <1>3, <1>4, <1>5 DEF AuditNext

\* It is kept by the proposal, the split and the two queries of the oracle.
LEMMA AuditStep ==
    ASSUME AuditInv, [AuditNext]_auditVars
    PROVE  AuditInv'
  <1>1. kernel' = kernel /\ query' = query
    BY AuditSteps
  <1>2. kernel' \in Kernels /\ query' \in [initial : Initials, delta : Deltas]
    BY <1>1 DEF AuditInv
  <1>3. /\ AuditPolicy(blocks, policy, query.initial)' = AuditPolicy(blocks', policy', query.initial)
        /\ CombinedCertified(blocks, policy, query)' = CombinedCertified(blocks', policy', query)
    BY <1>1, SameAudit, SameCertificate
  <1>4. CASE /\ blocks' = blocks /\ audit' = AuditPolicy(blocks, policy', query.initial)
             /\ status' = "CERTIFIED" => CombinedCertified(blocks, policy', query)
    BY <1>2, <1>3, <1>4 DEF AuditInv, IsPartition
  <1>5. CASE /\ status' = "BUILT"
             /\ \E c \in BlocksOf(blocks) : \E block \in SUBSET c :
                  blocks' = SplitBlock(blocks, block)
    <2>1. IsPartition(blocks')
      BY <1>5, SplitFacts DEF AuditInv
    <2> QED BY <1>2, <1>5, <2>1 DEF AuditInv, Audited, IsPartition
  <1>6. CASE blocks' = blocks /\ ~Audited'
    BY <1>2, <1>6 DEF AuditInv, Audited, IsPartition
  <1>7. CASE UNCHANGED auditVars
    BY <1>2, <1>3, <1>7 DEF AuditInv, Audited, IsPartition, auditVars
  <1> QED BY <1>4, <1>5, <1>6, <1>7, AuditSteps

\* Throughout a construction the audit on record is that of the proposed policy on
\* the present cells, and a certificate was given for it (phase05.py).
THEOREM AuditInvariant == AuditSpec => []AuditInv
  <1>1. AuditInit => AuditInv
    BY AuditInitially
  <1>2. AuditInv /\ [AuditNext]_auditVars => AuditInv'
    BY AuditStep
  <1> QED BY <1>1, <1>2, PTL DEF AuditSpec

\* The query's distribution and its single states can be audited.
LEMMA StartFacts ==
    ASSUME AuditInv
    PROVE  /\ Starts(query.initial) /\ query.delta \in Int /\ Tolerance \in Int
           /\ \A s \in DOMAIN query.initial : Starts(PointQuery(s))
  <1>1. query.initial \in Initials /\ query.delta \in Deltas
    BY DEF AuditInv
  <1>2. Starts(query.initial)
    BY <1>1, QueryAssumption DEF Starts
  <1>3. \A s \in DOMAIN query.initial : s \in GroundStates
    BY <1>2 DEF Starts
  <1>4. \A s \in GroundStates : Starts(PointQuery(s))
    <2> SUFFICES ASSUME NEW s \in GroundStates PROVE Starts(PointQuery(s))
      OBVIOUS
    <2>1. PointQuery(s) = [x \in {s} |-> 2]
      BY DEF PointQuery
    <2> QED BY <2>1 DEF Starts
  <1>5. query.delta \in Int /\ Tolerance \in Int
    BY <1>1, QueryAssumption, AuditAssumption
  <1> QED BY <1>2, <1>3, <1>4, <1>5

\* A complete audit on record brackets the truth.
LEMMA InvBrackets ==
    ASSUME AuditInv
    PROVE  BoundsBracketTruth
  <1> SUFFICES ASSUME Audited, audit.known
               PROVE  LET true == EvaluateSemanticPolicy(query.initial, blocks, policy)
                      IN  /\ true.known
                          /\ audit.reward <= true.reward /\ true.failure <= audit.failure
                          /\ true.reward <= audit.upper /\ BestReward(query.initial) <= audit.upper
    BY DEF BoundsBracketTruth
  <1> DEFINE true == EvaluateSemanticPolicy(query.initial, blocks, policy)
  <1>1. /\ kernel \in Kernels /\ IsPartition(blocks)
        /\ audit = AuditPolicy(blocks, policy, query.initial)
    BY DEF AuditInv
  <1>2. Starts(query.initial)
    BY StartFacts
  <1>3. AuditPolicy(blocks, policy, query.initial).known
    BY <1>1
  <1>4. /\ true.known
        /\ audit.reward \in Int /\ audit.failure \in Int /\ audit.upper \in Int
        /\ true.reward \in Int /\ true.failure \in Int /\ BestReward(query.initial) \in Int
        /\ audit.reward <= true.reward /\ true.failure <= audit.failure
        /\ true.reward <= BestReward(query.initial) /\ BestReward(query.initial) <= audit.upper
    BY <1>1, <1>2, <1>3, AuditBrackets
  <1> HIDE DEF true
  <1>5. true.reward <= audit.upper
    BY <1>4
  <1> QED BY <1>4, <1>5 DEF true

\* A certified audit of any distribution bounds the loss and the risk.
LEMMA CertifiedFacts ==
    ASSUME kernel \in Kernels, NEW part, IsPartition(part), NEW pol, NEW i, Starts(i),
           NEW delta \in Int, Tolerance \in Int, Certified(AuditPolicy(part, pol, i), delta)
    PROVE  LET true == EvaluateSemanticPolicy(i, part, pol)
           IN  /\ true.known /\ BestReward(i) - true.reward <= Tolerance
               /\ true.failure <= delta
  <1> DEFINE a == AuditPolicy(part, pol, i)
             true == EvaluateSemanticPolicy(i, part, pol)
  <1>1. a.known /\ a.upper - a.reward <= Tolerance /\ a.failure <= delta
    BY DEF Certified
  <1>2. /\ true.known
        /\ a.reward \in Int /\ a.failure \in Int /\ a.upper \in Int
        /\ true.reward \in Int /\ true.failure \in Int /\ BestReward(i) \in Int
        /\ a.reward <= true.reward /\ true.failure <= a.failure
        /\ true.reward <= BestReward(i) /\ BestReward(i) <= a.upper
    BY <1>1, AuditBrackets
  <1> HIDE DEF a, true
  <1>3. true.known /\ BestReward(i) - true.reward <= Tolerance /\ true.failure <= delta
    BY <1>1, <1>2
  <1> QED BY <1>3 DEF true

\* A certificate on record means what it says.
LEMMA InvSound ==
    ASSUME AuditInv
    PROVE  CertificateSound
  <1> SUFFICES ASSUME status = "CERTIFIED",
                      NEW i \in {query.initial} \cup {PointQuery(s) : s \in DOMAIN query.initial}
               PROVE  LET true == EvaluateSemanticPolicy(i, blocks, policy)
                      IN  /\ true.known /\ BestReward(i) - true.reward <= Tolerance
                          /\ true.failure <= query.delta
    BY DEF CertificateSound
  <1>1. kernel \in Kernels /\ IsPartition(blocks) /\ CombinedCertified(blocks, policy, query)
    BY DEF AuditInv
  <1>2. Starts(i) /\ query.delta \in Int /\ Tolerance \in Int
    BY StartFacts
  <1>3. Certified(AuditPolicy(blocks, policy, i), query.delta)
    BY <1>1 DEF CombinedCertified
  <1> QED BY <1>1, <1>2, <1>3, CertifiedFacts

\* audit_abstract_policy, which knows successors by their cells only, brackets what
\* the lifted policy earns and risks on the ground and what any ground policy can
\* earn, for every kernel, labelling, partition, policy and horizon.
THEOREM AuditBracketsTruth == AuditSpec => []BoundsBracketTruth
  <1>1. AuditInv => BoundsBracketTruth
    BY InvBrackets
  <1> QED BY <1>1, AuditInvariant, PTL

\* certify on the combined audits is sound: the lifted policy loses at most the
\* tolerance and fails at most with delta, from the initial distribution and from
\* each of its states, for every kernel, query and tolerance.
THEOREM CertificatesSound == AuditSpec => []CertificateSound
  <1>1. AuditInv => CertificateSound
    BY InvSound
  <1> QED BY <1>1, AuditInvariant, PTL

-----------------------------------------------------------------------------
(* A finer partition                                                       *)

Finer(part, fine) ==
    /\ IsPartition(part) /\ IsPartition(fine)
    /\ \A s \in GroundStates : fine[s] \subseteq part[s]

\* What is known by y is known by x, and no less exactly.
Tighter(x, y) == y.known => x.known /\ y.reward <= x.reward /\ x.failure <= y.failure

\* The members of a fine cell have the same cell before, and the policy that is
\* inherited does in the fine cell what it did there.
LEMMA InheritedFacts ==
    ASSUME NEW part, NEW fine, Finer(part, fine), NEW pol,
           NEW s \in GroundStates, NEW n \in 1..Horizon, <<n, part[s]>> \in DOMAIN pol
    PROVE  /\ \A t \in fine[s] : t \in GroundStates /\ part[t] = part[s]
           /\ <<n, fine[s]>> \in DOMAIN Inherited(pol, part, fine)
           /\ Inherited(pol, part, fine)[<<n, fine[s]>>] = pol[<<n, part[s]>>]
  <1> DEFINE parent(c) == part[CHOOSE t \in c : TRUE]
             D == {e \in (1..Horizon) \X BlocksOf(fine) : <<e[1], parent(e[2])>> \in DOMAIN pol}
             h == Inherited(pol, part, fine)
             d == <<n, fine[s]>>
  <1>1. \A t \in fine[s] : t \in GroundStates /\ part[t] = part[s]
    BY DEF Finer, IsPartition
  <1>2. fine[s] \in BlocksOf(fine) /\ fine[s] # {}
    BY BlockFacts DEF Finer
  <1>3. parent(fine[s]) = part[s]
    <2>1. (CHOOSE t \in fine[s] : TRUE) \in fine[s]
      BY <1>2
    <2> QED BY <1>1, <2>1
  <1>4. h = [e \in D |-> pol[<<e[1], parent(e[2])>>]]
    BY DEF Inherited
  <1> HIDE DEF parent, h
  <1>5. d \in (1..Horizon) \X BlocksOf(fine) /\ d[1] = n /\ d[2] = fine[s]
    BY <1>2
  <1>6. d \in D
    BY <1>3, <1>5
  <1> HIDE DEF D
  <1>7. DOMAIN h = D /\ h[d] = pol[<<d[1], parent(d[2])>>]
    BY <1>4, <1>6
  <1> QED BY <1>1, <1>3, <1>5, <1>6, <1>7 DEF h

\* A member's step is worth more when the cells it may move to are tighter.
LEMMA TighterStep ==
    ASSUME kernel \in Kernels, NEW part, NEW fine, Finer(part, fine), NEW n \in 1..Horizon,
           NEW B \in [BlocksOf(part) -> Values], NEW F \in [BlocksOf(fine) -> Values],
           \A t \in GroundStates : Tighter(F[fine[t]], B[part[t]]),
           NEW s, NEW l, Takes(s, l), KnownAfter(part, B, s, l)
    PROVE  /\ KnownAfter(fine, F, s, l)
           /\ CellPay(part, n, B, s, l) <= CellPay(fine, n, F, s, l)
           /\ CellRisk(fine, n, F, s, l) <= CellRisk(part, n, B, s, l)
  <1> DEFINE xB == OnStates(part, RewardsOf(B))
             yB == OnStates(part, FailuresOf(B))
             xF == OnStates(fine, RewardsOf(F))
             yF == OnStates(fine, FailuresOf(F))
  <1>1. \A j \in 1..4 : Drawn(s, l, j) \in Outcomes /\ Drawn(s, l, j).next \in GroundStates
    BY DrawnFacts DEF Outcomes
  <1>2. \A j \in 1..4 : Stopped(Drawn(s, l, j)) \/ B[part[Drawn(s, l, j).next]].known
    BY DEF KnownAfter
  <1>3. KnownAfter(fine, F, s, l)
    BY <1>1, <1>2 DEF KnownAfter, Tighter
  <1>4. \A t \in GroundStates : /\ xB[t] \in Int /\ xB[t] = B[part[t]].reward
                                /\ yB[t] \in Int /\ yB[t] = B[part[t]].failure
    BY StateFunctions DEF Finer
  <1>5. \A t \in GroundStates : /\ xF[t] \in Int /\ xF[t] = F[fine[t]].reward
                                /\ yF[t] \in Int /\ yF[t] = F[fine[t]].failure
    BY StateFunctions DEF Finer
  <1> HIDE DEF xB, yB, xF, yF
  <1>6. \A j \in 1..4 : Stopped(Drawn(s, l, j)) \/
           /\ xB[Drawn(s, l, j).next] <= xF[Drawn(s, l, j).next]
           /\ yF[Drawn(s, l, j).next] <= yB[Drawn(s, l, j).next]
    BY <1>1, <1>2, <1>4, <1>5 DEF Tighter
  <1>7. \A j \in 1..4 : /\ Pay(n, xB)[Drawn(s, l, j)] <= Pay(n, xF)[Drawn(s, l, j)]
                        /\ Risk(n, yF)[Drawn(s, l, j)] <= Risk(n, yB)[Drawn(s, l, j)]
    BY <1>1, <1>4, <1>5, <1>6, PayMonotone
  <1>8. \A o \in Outcomes : /\ Pay(n, xB)[o] \in Int /\ Pay(n, xF)[o] \in Int
                            /\ Risk(n, yB)[o] \in Int /\ Risk(n, yF)[o] \in Int
    BY <1>4, <1>5, PayTypes
  <1>9. Four(Pay(n, xB), s, l) <= Four(Pay(n, xF), s, l)
    BY <1>7, <1>8, FourMonotone
  <1>10. Four(Risk(n, yF), s, l) <= Four(Risk(n, yB), s, l)
    BY <1>7, <1>8, FourMonotone
  <1> QED BY <1>3, <1>9, <1>10 DEF CellPay, CellRisk, xB, yB, xF, yF

\* The bounds of a fine cell are tighter than those of the cell it lies in.
LEMMA BoundTighter ==
    ASSUME kernel \in Kernels, NEW part, NEW fine, Finer(part, fine), NEW pol,
           NEW n \in 1..Horizon,
           NEW B \in [BlocksOf(part) -> Values], NEW F \in [BlocksOf(fine) -> Values],
           \A t \in GroundStates : Tighter(F[fine[t]], B[part[t]]), NEW s \in GroundStates
    PROVE  Tighter(BoundStage(fine, Inherited(pol, part, fine), n, F)[fine[s]],
                   BoundStage(part, pol, n, B)[part[s]])
  <1> DEFINE h == Inherited(pol, part, fine)
             c == part[s]
             f == fine[s]
             l == pol[<<n, c>>]
             b == BoundStage(part, pol, n, B)[c]
             v == BoundStage(fine, h, n, F)[f]
  <1> SUFFICES ASSUME b.known PROVE v.known /\ b.reward <= v.reward /\ v.failure <= b.failure
    BY DEF Tighter
  <1>1. IsPartition(part) /\ IsPartition(fine) /\ f \subseteq c
    BY DEF Finer
  <1>2. c \in BlocksOf(part) /\ f \in BlocksOf(fine) /\ s \in f /\ f \subseteq GroundStates
    BY <1>1, BlockFacts
  <1>3. \/ c \subseteq Terminal /\ b = Zero
        \/ /\ ~(c \subseteq Terminal)
           /\ <<n, c>> \in DOMAIN pol /\ l \in CellActions(c) /\ b = CellBound(part, c, l, n, B)
    BY <1>2, BoundCases, ZeroFacts
  <1>4. f \subseteq Terminal => v = Zero
    BY <1>2 DEF BoundStage
  <1>5. CASE c \subseteq Terminal /\ b = Zero
    BY <1>1, <1>4, <1>5, ZeroFacts
  <1>6. CASE /\ ~(c \subseteq Terminal)
             /\ <<n, c>> \in DOMAIN pol /\ l \in CellActions(c) /\ b = CellBound(part, c, l, n, B)
    <2>1. /\ b \in Values
          /\ \A t \in ActiveMembers(c) : KnownAfter(part, B, t, l)
          /\ \A t \in ActiveMembers(c) : /\ b.reward <= CellPay(part, n, B, t, l)
                                         /\ CellRisk(part, n, B, t, l) <= b.failure
          /\ c \cap Terminal # {} => b.reward <= 0 /\ 0 <= b.failure
      BY <1>1, <1>2, <1>6, CellBoundFacts
    <2>2. b.reward \in Int /\ b.failure \in Int
      BY <2>1 DEF Values
    <2>3. CASE f \subseteq Terminal
      <3>1. c \cap Terminal # {}
        BY <1>1, <1>2, <2>3
      <3> QED BY <1>4, <2>1, <2>3, <3>1, ZeroFacts
    <2>4. CASE ~(f \subseteq Terminal)
      <3>1. <<n, f>> \in DOMAIN h /\ h[<<n, f>>] = l
        BY <1>6, InheritedFacts
      <3>2. ActiveMembers(f) # {} /\ ActiveMembers(f) \subseteq ActiveMembers(c)
        BY <1>1, <2>4 DEF ActiveMembers
      <3>3. l \in CellActions(f)
        BY <1>6, <3>2 DEF CellActions
      <3>4. v = CellBound(fine, f, l, n, F)
        BY <1>2, <2>4, <3>1, <3>3 DEF BoundStage
      <3>5. \A t \in ActiveMembers(f) : Takes(t, l)
        BY <1>1, <1>2, <3>3, MembersTake
      <3>6. \A t \in ActiveMembers(f) : /\ KnownAfter(fine, F, t, l)
                                        /\ CellPay(part, n, B, t, l) <= CellPay(fine, n, F, t, l)
                                        /\ CellRisk(fine, n, F, t, l) <= CellRisk(part, n, B, t, l)
        BY <2>1, <3>2, <3>5, TighterStep
      <3>7. \A t \in ActiveMembers(f) :
               /\ CellPay(part, n, B, t, l) \in Int /\ CellPay(fine, n, F, t, l) \in Int
               /\ CellRisk(part, n, B, t, l) \in Int /\ CellRisk(fine, n, F, t, l) \in Int
        BY <1>1, <3>5, CellTypes
      <3>8. /\ v \in Values /\ v.known
            /\ \/ \E t \in ActiveMembers(f) : v.reward = CellPay(fine, n, F, t, l)
               \/ f \cap Terminal # {} /\ v.reward = 0
            /\ \/ \E t \in ActiveMembers(f) : v.failure = CellRisk(fine, n, F, t, l)
               \/ f \cap Terminal # {} /\ v.failure = 0
        BY <1>1, <1>2, <3>3, <3>4, <3>6, CellBoundFacts
      <3>9. f \cap Terminal # {} => b.reward <= 0 /\ 0 <= b.failure
        BY <1>1, <2>1
      <3>10. \A t \in ActiveMembers(f) : /\ b.reward <= CellPay(part, n, B, t, l)
                                         /\ CellRisk(part, n, B, t, l) <= b.failure
        BY <2>1, <3>2
      <3> HIDE DEF b, v, l, f, c
      <3>11. \A t \in ActiveMembers(f) : /\ b.reward <= CellPay(fine, n, F, t, l)
                                         /\ CellRisk(fine, n, F, t, l) <= b.failure
        BY <2>2, <3>6, <3>7, <3>10
      <3>12. b.reward <= v.reward
        BY <3>8, <3>9, <3>11
      <3>13. v.failure <= b.failure
        BY <3>8, <3>9, <3>11
      <3> QED BY <3>8, <3>12, <3>13
    <2> QED BY <2>3, <2>4
  <1> QED BY <1>3, <1>5, <1>6

\* So is the unrestricted bound.
LEMMA UpperTighter ==
    ASSUME kernel \in Kernels, NEW part, NEW fine, Finer(part, fine), NEW n \in 1..Horizon,
           NEW u \in [BlocksOf(part) -> Int], NEW w \in [BlocksOf(fine) -> Int],
           \A t \in GroundStates : w[fine[t]] <= u[part[t]], NEW s \in GroundStates
    PROVE  UpperStage(fine, n, w)[fine[s]] <= UpperStage(part, n, u)[part[s]]
  <1> DEFINE x == OnStates(fine, w)
             y == OnStates(part, u)
             p == UpperStage(fine, n, w)[fine[s]]
             q == UpperStage(part, n, u)[part[s]]
  <1>1. IsPartition(part) /\ IsPartition(fine) /\ fine[s] \subseteq part[s]
    BY DEF Finer
  <1>2. part[s] \in BlocksOf(part) /\ fine[s] \in BlocksOf(fine) /\ part[s] \subseteq GroundStates
    BY <1>1, BlockFacts
  <1>3. \A t \in GroundStates : x[t] \in Int /\ y[t] \in Int /\ x[t] <= y[t]
    BY <1>1, BlockFacts DEF OnStates
  <1>4. q \in Int /\ \A t \in part[s] : \A v \in Offers(n, y, t) : v <= q
    BY <1>1, <1>2, UpperStageFacts
  <1>5. p \in Int /\ \E t \in fine[s] : p \in Offers(n, x, t)
    BY <1>1, <1>2, UpperStageFacts
  <1> HIDE DEF x, y, p, q
  <1>6. PICK t \in fine[s] : p \in Offers(n, x, t)
    BY <1>5
  <1>7. t \in part[s] /\ t \in GroundStates
    BY <1>1, <1>2
  <1>8. PICK v \in Offers(n, y, t) : p <= v
    BY <1>3, <1>6, <1>7, OffersMonotone
  <1>9. v \in Int /\ v <= q
    BY <1>3, <1>4, <1>7, OfferFacts
  <1> QED BY <1>4, <1>5, <1>8, <1>9 DEF p, q

\* By induction over the stages: every bound is tighter on the finer partition.
LEMMA AlwaysTighter ==
    ASSUME kernel \in Kernels, NEW part, NEW fine, Finer(part, fine), NEW pol
    PROVE  \A n \in 0..Horizon, s \in GroundStates :
             /\ Tighter(PolicyBounds(fine, Inherited(pol, part, fine))[n][fine[s]],
                        PolicyBounds(part, pol)[n][part[s]])
             /\ UpperEnvelope(fine)[n][fine[s]] <= UpperEnvelope(part)[n][part[s]]
  <1> DEFINE h == Inherited(pol, part, fine)
             B == PolicyBounds(part, pol)
             F == PolicyBounds(fine, h)
             U == UpperEnvelope(part)
             W == UpperEnvelope(fine)
             Good(n) == \A s \in GroundStates : /\ Tighter(F[n][fine[s]], B[n][part[s]])
                                                /\ W[n][fine[s]] <= U[n][part[s]]
             T == {n \in 0..Horizon : Good(n)}
  <1>1. Horizon \in Nat /\ IsPartition(part) /\ IsPartition(fine)
    BY QueryAssumption DEF Finer
  <1>2. /\ \A n \in 0..Horizon : B[n] \in [BlocksOf(part) -> Values]
        /\ B[0] = [c \in BlocksOf(part) |-> Zero]
        /\ \A n \in 1..Horizon : B[n] = BoundStage(part, pol, n, B[n - 1])
    BY <1>1, BoundStages
  <1>3. /\ \A n \in 0..Horizon : F[n] \in [BlocksOf(fine) -> Values]
        /\ F[0] = [c \in BlocksOf(fine) |-> Zero]
        /\ \A n \in 1..Horizon : F[n] = BoundStage(fine, h, n, F[n - 1])
    <2> HIDE DEF h
    <2> QED BY <1>1, BoundStages
  <1>4. /\ \A n \in 0..Horizon : U[n] \in [BlocksOf(part) -> Int]
        /\ U[0] = [c \in BlocksOf(part) |-> 0]
        /\ \A n \in 1..Horizon : U[n] = UpperStage(part, n, U[n - 1])
    BY <1>1, UpperStages
  <1>5. /\ \A n \in 0..Horizon : W[n] \in [BlocksOf(fine) -> Int]
        /\ W[0] = [c \in BlocksOf(fine) |-> 0]
        /\ \A n \in 1..Horizon : W[n] = UpperStage(fine, n, W[n - 1])
    BY <1>1, UpperStages
  <1>6. \A s \in GroundStates : part[s] \in BlocksOf(part) /\ fine[s] \in BlocksOf(fine)
    BY <1>1, BlockFacts
  <1> HIDE DEF B, F, U, W
  <1>7. 0 \in T
    <2>1. Good(0)
      BY <1>2, <1>3, <1>4, <1>5, <1>6, ZeroFacts DEF Tighter
    <2> QED BY <1>1, <2>1
  <1>8. ASSUME NEW n \in 1..Horizon, n - 1 \in T PROVE n \in T
    <2>1. n \in 0..Horizon /\ n - 1 \in 0..Horizon /\ Good(n - 1)
      BY <1>1, <1>8
    <2> DEFINE B0 == B[n - 1]  F0 == F[n - 1]  U0 == U[n - 1]  W0 == W[n - 1]
    <2>2. /\ B0 \in [BlocksOf(part) -> Values] /\ F0 \in [BlocksOf(fine) -> Values]
          /\ U0 \in [BlocksOf(part) -> Int] /\ W0 \in [BlocksOf(fine) -> Int]
      BY <1>2, <1>3, <1>4, <1>5, <2>1
    <2>3. /\ B[n] = BoundStage(part, pol, n, B0) /\ F[n] = BoundStage(fine, h, n, F0)
          /\ U[n] = UpperStage(part, n, U0) /\ W[n] = UpperStage(fine, n, W0)
      BY <1>2, <1>3, <1>4, <1>5
    <2>4. /\ \A t \in GroundStates : Tighter(F0[fine[t]], B0[part[t]])
          /\ \A t \in GroundStates : W0[fine[t]] <= U0[part[t]]
      BY <2>1
    <2> HIDE DEF B0, F0, U0, W0
    <2>5. ASSUME NEW s \in GroundStates
          PROVE  Tighter(F[n][fine[s]], B[n][part[s]]) /\ W[n][fine[s]] <= U[n][part[s]]
      <3>1. Tighter(F[n][fine[s]], B[n][part[s]])
        BY <2>2, <2>3, <2>4, BoundTighter
      <3>2. W[n][fine[s]] <= U[n][part[s]]
        BY <2>2, <2>3, <2>4, UpperTighter
      <3> QED BY <3>1, <3>2
    <2> QED BY <2>1, <2>5
  <1>9. 0..Horizon \subseteq T
    <2> HIDE DEF T
    <2> QED BY <1>1, <1>7, <1>8, StageInduction
  <1>10. \A n \in 0..Horizon : Good(n)
    BY <1>9
  <1> QED BY <1>10 DEF B, F, U, W

\* The audit of the inherited policy on the finer partition
LEMMA AuditTighter ==
    ASSUME kernel \in Kernels, NEW part, NEW fine, Finer(part, fine), NEW pol,
           NEW i, Starts(i), AuditPolicy(part, pol, i).known
    PROVE  LET a == AuditPolicy(part, pol, i)
               finer == AuditPolicy(fine, Inherited(pol, part, fine), i)
           IN  /\ finer.known
               /\ finer.reward >= a.reward /\ finer.failure <= a.failure
               /\ finer.upper <= a.upper
  <1> DEFINE S == DOMAIN i
             h == Inherited(pol, part, fine)
             B == PolicyBounds(part, pol)[Horizon]
             F == PolicyBounds(fine, h)[Horizon]
             U == UpperEnvelope(part)[Horizon]
             W == UpperEnvelope(fine)[Horizon]
             bv == [s \in S |-> B[part[s]]]
             fv == [s \in S |-> F[fine[s]]]
             br == [s \in S |-> bv[s].reward]
             bf == [s \in S |-> bv[s].failure]
             fr == [s \in S |-> fv[s].reward]
             ff == [s \in S |-> fv[s].failure]
             u == [s \in S |-> U[part[s]]]
             w == [s \in S |-> W[fine[s]]]
             a == AuditPolicy(part, pol, i)
             finer == AuditPolicy(fine, h, i)
  <1>1. Horizon \in 0..Horizon /\ IsPartition(part) /\ IsPartition(fine)
    BY QueryAssumption DEF Finer
  <1>2. /\ B \in [BlocksOf(part) -> Values] /\ U \in [BlocksOf(part) -> Int]
        /\ W \in [BlocksOf(fine) -> Int]
    BY <1>1, BoundStages, UpperStages
  <1>3. F \in [BlocksOf(fine) -> Values]
    <2> HIDE DEF h
    <2> QED BY <1>1, BoundStages
  <1>4. \A s \in GroundStates : Tighter(F[fine[s]], B[part[s]]) /\ W[fine[s]] <= U[part[s]]
    BY <1>1, AlwaysTighter
  <1>5. \A s \in S : s \in GroundStates /\ part[s] \in BlocksOf(part) /\ fine[s] \in BlocksOf(fine)
    BY <1>1, BlockFacts DEF Starts
  <1> HIDE DEF B, F, U, W, h
  <1>6. /\ a.known = AtRoot(i, bv).known /\ a.reward = AtRoot(i, bv).reward
        /\ a.failure = AtRoot(i, bv).failure /\ a.upper = Expected(i, u)
    BY DEF AuditPolicy, B, U
  <1>7. /\ finer.known = AtRoot(i, fv).known /\ finer.reward = AtRoot(i, fv).reward
        /\ finer.failure = AtRoot(i, fv).failure /\ finer.upper = Expected(i, w)
    BY DEF AuditPolicy, F, W
  <1>8. AtRoot(i, bv) = IF \E s \in S : ~bv[s].known THEN Undefined
                        ELSE [known |-> TRUE, reward |-> Expected(i, br), failure |-> Expected(i, bf)]
    BY DEF AtRoot
  <1>9. AtRoot(i, fv) = IF \E s \in S : ~fv[s].known THEN Undefined
                        ELSE [known |-> TRUE, reward |-> Expected(i, fr), failure |-> Expected(i, ff)]
    BY DEF AtRoot
  <1>10. (\A s \in S : bv[s].known) /\ a.reward = Expected(i, br) /\ a.failure = Expected(i, bf)
    <2> HIDE DEF bv, br, bf, a
    <2>1. AtRoot(i, bv).known
      BY <1>6 DEF a
    <2>2. \A s \in S : bv[s].known
      BY <1>8, <2>1, ZeroFacts
    <2> QED BY <1>6, <1>8, <2>2
  <1>11. \A s \in S : fv[s].known
    BY <1>4, <1>5, <1>10 DEF Tighter
  <1>12. finer.known /\ finer.reward = Expected(i, fr) /\ finer.failure = Expected(i, ff)
    <2> HIDE DEF fv, fr, ff, finer
    <2> QED BY <1>7, <1>9, <1>11
  <1>13. \A s \in S : /\ br[s] \in Int /\ fr[s] \in Int /\ br[s] <= fr[s]
                      /\ bf[s] \in Int /\ ff[s] \in Int /\ ff[s] <= bf[s]
                      /\ u[s] \in Int /\ w[s] \in Int /\ w[s] <= u[s]
    <2> SUFFICES ASSUME NEW s \in S
                 PROVE  /\ br[s] \in Int /\ fr[s] \in Int /\ br[s] <= fr[s]
                        /\ bf[s] \in Int /\ ff[s] \in Int /\ ff[s] <= bf[s]
                        /\ u[s] \in Int /\ w[s] \in Int /\ w[s] <= u[s]
      OBVIOUS
    <2>1. /\ B[part[s]] \in Values /\ F[fine[s]] \in Values
          /\ U[part[s]] \in Int /\ W[fine[s]] \in Int
      BY <1>2, <1>3, <1>5
    <2>2. /\ B[part[s]].reward \in Int /\ B[part[s]].failure \in Int
          /\ F[fine[s]].reward \in Int /\ F[fine[s]].failure \in Int
      BY <2>1 DEF Values
    <2>3. B[part[s]].known
      BY <1>10
    <2>4. /\ B[part[s]].reward <= F[fine[s]].reward /\ F[fine[s]].failure <= B[part[s]].failure
          /\ W[fine[s]] <= U[part[s]]
      BY <1>4, <1>5, <2>3 DEF Tighter
    <2> QED BY <2>1, <2>2, <2>4
  <1> HIDE DEF bv, fv, br, bf, fr, ff, u, w, a, finer, S
  <1>14. Expected(i, br) \in Int /\ Expected(i, fr) \in Int /\ Expected(i, br) <= Expected(i, fr)
    BY <1>13, ExpectedMonotone DEF S
  <1>15. Expected(i, ff) <= Expected(i, bf)
    BY <1>13, ExpectedMonotone DEF S
  <1>16. Expected(i, w) <= Expected(i, u)
    BY <1>13, ExpectedMonotone DEF S
  <1>17. /\ finer.known
         /\ finer.reward >= a.reward /\ finer.failure <= a.failure
         /\ finer.upper <= a.upper
    BY <1>6, <1>7, <1>10, <1>12, <1>14, <1>15, <1>16
  <1> QED BY <1>17 DEF a, finer, h

\* An accepted split, after which the models are built again, loosens no bound of the
\* policy that was audited and keeps its audit complete.
THEOREM SplitsTighten == AuditSpec => RefinementTightens
  <1> DEFINE Finally == blocks' # blocks /\ audit.known =>
                        LET finer == AuditPolicy(blocks', Inherited(policy, blocks, blocks'),
                                                 query.initial)
                        IN  /\ finer.known
                            /\ finer.reward >= audit.reward /\ finer.failure <= audit.failure
                            /\ finer.upper <= audit.upper
  <1>1. ASSUME AuditInv, [AuditNext]_auditVars PROVE [Finally]_auditVars
    <2> SUFFICES ASSUME blocks' # blocks, audit.known PROVE Finally
      OBVIOUS
    <2>1. /\ status = "UNCERTIFIED"
          /\ \E c \in BlocksOf(blocks) : \E block \in SUBSET c : blocks' = SplitBlock(blocks, block)
      BY <1>1, AuditSteps DEF auditVars
    <2>2. /\ kernel \in Kernels /\ IsPartition(blocks)
          /\ audit = AuditPolicy(blocks, policy, query.initial)
      BY <1>1, <2>1 DEF AuditInv, Audited
    <2>3. Finer(blocks, blocks')
      BY <2>1, <2>2, SplitFacts DEF Finer
    <2>4. Starts(query.initial)
      BY <1>1, StartFacts
    <2>5. AuditPolicy(blocks, policy, query.initial).known
      BY <2>2
    <2> QED BY <2>2, <2>3, <2>4, <2>5, AuditTighter
  <1> QED BY <1>1, AuditInvariant, PTL DEF AuditSpec, RefinementTightens

=============================================================================
