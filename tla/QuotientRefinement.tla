------------------------- MODULE QuotientRefinement -------------------------
(***************************************************************************)
(* Counterexample-guided refinement of a hard partition: Partition         *)
(* (abstraction/partition.py), attempt_split and RefinementTracker         *)
(* (refinement/split.py), Predicate (refinement/predicates.py), refine_once*)
(* and record_ground_fallback (refinement/cegar.py), called one after the  *)
(* other by the construction loops (aliased_safe_chain.py, phase05.py),    *)
(* which probe splits on a clone of the tracker, charge the probes and     *)
(* adopt the partition and the counters of every result.  A loop that      *)
(* raises on a result it does not want has stopped.                        *)
(*                                                                         *)
(* A cell is named as attempt_split names it: its base cell and the        *)
(* branches taken since.  Predicates are numbered in the order of their    *)
(* canonical identifiers.  What the exact audit measures for a candidate   *)
(* (its reductions, its cost) is an input.                                 *)
(***************************************************************************)
EXTENDS Integers, Sequences, FiniteSets

CONSTANTS
    States,              \* the registered ground states
    BaseCells,           \* the identifiers a base encoder may use
    Predicates,          \* the predicate grammar
    Holds,               \* Holds[p][s]: predicate p is true of state s
    BasePath,            \* predicates registered on the path of a base cell
    Candidates,          \* the ranked candidates an audit may produce
    Widths,              \* the audit widths of a parent cell
    Nothing,             \* no witness
    MaxLeaves, MaxAcceptedSplits, RateBudget, MaxEvaluations, MaxFallbacks,
    InitialRate          \* the rate the base encoder has spent

ASSUME GrammarAssumption ==
    /\ IsFiniteSet(States) /\ States # {}
    /\ Predicates \subseteq Nat
    /\ Holds \in [Predicates -> [States -> BOOLEAN]]
    /\ BasePath \in [BaseCells -> SUBSET Predicates]
    /\ \A w \in SUBSET States : w # Nothing
ASSUME CandidateAssumption ==
    /\ IsFiniteSet(Candidates)
    /\ Candidates \subseteq [pred : Predicates, reduction : Int, pairs : Nat,
                             failure : Int, cost : Nat \ {0}]
    /\ Widths \subseteq Nat
ASSUME BudgetAssumption ==
    /\ MaxLeaves \in Nat \ {0} /\ MaxAcceptedSplits \in Nat
    /\ RateBudget \in Nat /\ MaxEvaluations \in Nat /\ MaxFallbacks \in Nat
    /\ InitialRate \in 0..RateBudget

VARIABLES
    encoder,      \* the base partition the construction began with
    partition,    \* assignments: the cell of every state
    path,         \* tracker.path_predicates
    evaluated,    \* tracker.evaluated_child_signatures
    counters,     \* RefinementCounters
    probes,       \* provisional splits evaluated since the last charge
    result        \* the last result, and the call it answered

refinementVars ==
    <<encoder, partition, path, evaluated, counters, probes, result>>
trackerVars == <<path, evaluated>>

-----------------------------------------------------------------------------
(* Partitions                                                              *)

Branches == Predicates \X BOOLEAN
Cells == [base : BaseCells, branches : Seq(Branches)]
BaseCell(b) == [base |-> b, branches |-> <<>>]
Child(cell, p, branch) ==
    [cell EXCEPT !.branches = Append(@, <<p, branch>>)]

CellIds(part) == {part[s] : s \in States}
Members(part, cell) == {s \in States : part[s] = cell}

Block(part, cell, p, branch) ==
    {s \in Members(part, cell) : Holds[p][s] = branch}

\* replace_cell for the two blocks of a predicate
ReplaceCell(part, cell, p) ==
    [s \in States |-> IF part[s] = cell THEN Child(cell, p, Holds[p][s])
                                        ELSE part[s]]

-----------------------------------------------------------------------------
(* attempt_split                                                           *)

PredicatePath(cell) == IF cell \in DOMAIN path THEN path[cell] ELSE {}
Evaluated(cell) == IF cell \in DOMAIN evaluated THEN evaluated[cell] ELSE {}

ChildSignature(cell, p) ==
    {Block(partition, cell, p, FALSE), Block(partition, cell, p, TRUE)}

SplitStatus(cell, p) ==
    IF p \in PredicatePath(cell) THEN "DUPLICATE_PREDICATE"
    ELSE IF {} \in ChildSignature(cell, p) THEN "NO_OP_SPLIT"
    ELSE IF ChildSignature(cell, p) \in Evaluated(cell) THEN "DUPLICATE_PARTITION"
    ELSE "SPLIT_ACCEPTED"

RememberSignature(cell, p) ==
    evaluated' = [c \in DOMAIN evaluated \cup {cell} |->
                    IF c = cell THEN Evaluated(cell) \cup {ChildSignature(cell, p)}
                                ELSE evaluated[c]]

\* Mutant: the children forget the path of their parent.
ExtendPath_Forgets(cell, p) ==
    LET children == {Child(cell, p, FALSE), Child(cell, p, TRUE)}
    IN  path' = [c \in DOMAIN path \cup children |->
                   IF c \in children THEN {p} ELSE path[c]]

ExtendPath(cell, p) ==
    LET children == {Child(cell, p, FALSE), Child(cell, p, TRUE)}
    IN  path' = [c \in DOMAIN path \cup children |->
                   IF c \in children THEN PredicatePath(cell) \cup {p}
                                     ELSE path[c]]

\* An accepted split
Split(cell, p) ==
    /\ RememberSignature(cell, p)
    /\ ExtendPath(cell, p)
    /\ partition' = ReplaceCell(partition, cell, p)

-----------------------------------------------------------------------------
(* rank_split_candidates: the key is (-score, -pairs, -failure, cost, id), *)
(* score being reduction / cost.                                           *)

RankBefore(c, d) ==
    LET score(x, y) == x.reduction * y.cost
        tie == score(c, d) = score(d, c)
    IN  \/ score(c, d) > score(d, c)
        \/ tie /\ c.pairs > d.pairs
        \/ tie /\ c.pairs = d.pairs /\ c.failure > d.failure
        \/ /\ tie /\ c.pairs = d.pairs /\ c.failure = d.failure
           /\ c.cost < d.cost
        \/ /\ tie /\ c.pairs = d.pairs /\ c.failure = d.failure
           /\ c.cost = d.cost /\ c.pred < d.pred

\* The place of c in the ranking of a set of candidates
Position(c, set) == 1 + Cardinality({d \in set : RankBefore(d, c)})

-----------------------------------------------------------------------------
(* refine_once                                                             *)

Separates(witness, p) ==
    witness = Nothing \/ \E l, r \in witness : Holds[p][l] # Holds[p][r]

QualityPasses(c, width) ==
    c.pairs > 0 \/ (width > 0 /\ c.reduction * 5 >= width)

RateFits(c) == counters.rate + c.cost <= RateBudget

\* The candidates the loop reaches before the evaluation budget stops it
Reached(separating, spent) ==
    {c \in separating : Position(c, separating) <= MaxEvaluations - spent}

Splits(cell, c, width) ==
    /\ QualityPasses(c, width) /\ RateFits(c)
    /\ SplitStatus(cell, c.pred) = "SPLIT_ACCEPTED"

Answer(status, witness) == result' = [status |-> status, witness |-> witness]

TreeIsFull == counters.leaves >= MaxLeaves
              \/ counters.accepted >= MaxAcceptedSplits

\* Mutant: the leaf that is replaced by two is not subtracted.
AcceptedCounters_TwoLeaves(c, spent, place) ==
    [counters EXCEPT !.leaves = @ + 2, !.accepted = @ + 1, !.rate = @ + c.cost,
                     !.evaluations = spent + place]

AcceptedCounters(c, spent, place) ==
    [counters EXCEPT !.leaves = @ + 1, !.accepted = @ + 1, !.rate = @ + c.cost,
                     !.evaluations = spent + place]

\* The loop over the separating candidates, in rank order
SearchSplit(cell, separating, witness, width, spent) ==
    LET reached == Reached(separating, spent)
        accepted == {c \in reached : Splits(cell, c, width)}
    IN  IF accepted # {}
        THEN \E c \in accepted :
               /\ \A d \in accepted : ~RankBefore(d, c)
               /\ Split(cell, c.pred)
               /\ counters' = AcceptedCounters(c, spent, Position(c, separating))
               /\ Answer("SPLIT_ACCEPTED", witness)
        ELSE /\ UNCHANGED <<partition, trackerVars>>
             /\ counters' = [counters EXCEPT !.evaluations =
                               spent + Cardinality(reached)]
             /\ Answer(IF reached # separating THEN "REFINEMENT_BUDGET_EXHAUSTED"
                       ELSE IF \A c \in separating : QualityPasses(c, width)
                                                     /\ ~RateFits(c)
                            THEN "RATE_BUDGET_EXHAUSTED"
                            ELSE "ALL_SPLITS_REJECTED",
                       witness)

\* An early return of refine_once: it hands back what it was given.
ReturnEarly(status, witness, spent) ==
    /\ counters' = [counters EXCEPT !.evaluations = spent]
    /\ Answer(status, witness)
    /\ UNCHANGED <<partition, trackerVars>>

\* The pairs an audit finds in a cell
Witnesses(cell) ==
    {w \in SUBSET Members(partition, cell) : Cardinality(w) = 2}

Verdicts == {"INFEASIBLE_QUERY", "CERTIFIED", "UNCERTIFIED"}

\* verdict: what the caller knows of the query
RefineOnce(verdict, cell, witness, candidates, width, spent) ==
    LET separating == {c \in candidates : Separates(witness, c.pred)}
    IN  /\ probes' = 0
        /\ UNCHANGED encoder
        /\ \/ /\ verdict # "UNCERTIFIED"
              /\ ReturnEarly(verdict, witness, spent)
           \/ /\ verdict = "UNCERTIFIED" /\ TreeIsFull
              /\ ReturnEarly("REFINEMENT_BUDGET_EXHAUSTED", witness, spent)
           \/ /\ verdict = "UNCERTIFIED" /\ ~TreeIsFull /\ separating = {}
              /\ ReturnEarly("NO_SEPARATING_PREDICATE", witness, spent)
           \/ /\ verdict = "UNCERTIFIED" /\ ~TreeIsFull /\ separating # {}
              /\ SearchSplit(cell, separating, witness, width, spent)

-----------------------------------------------------------------------------
(* The construction loops                                                  *)

\* Mutant: the provisional split is tried on the live tracker.
Probe_OnLiveTracker(cell, witness, p) ==
    /\ probes < MaxEvaluations
    /\ Separates(witness, p)
    /\ probes' = probes + 1
    /\ IF SplitStatus(cell, p) = "SPLIT_ACCEPTED"
       THEN RememberSignature(cell, p) /\ ExtendPath(cell, p)
       ELSE UNCHANGED trackerVars
    /\ UNCHANGED <<encoder, partition, counters, result>>

\* A provisional split on a clone of the tracker; how many are tried is bounded
\* by MaxEvaluations only to keep the model finite
Probe(cell, witness, p) ==
    /\ probes < MaxEvaluations
    /\ Separates(witness, p)
    /\ probes' = probes + 1
    /\ UNCHANGED <<encoder, partition, trackerVars, counters, result>>

\* Mutant: all of the probes are charged, and refine_once charges one again.
Precharged_AllProbes == counters.evaluations + probes

\* refine_once charges the last of the probes itself.
Precharged == counters.evaluations + probes - 1

\* One ranked inventory, no probes to charge (phase05.py)
Refine ==
    /\ probes = 0
    /\ \E cell \in CellIds(partition), width \in Widths,
          candidates \in SUBSET Candidates, verdict \in Verdicts :
          \E witness \in Witnesses(cell) \cup {Nothing} :
             RefineOnce(verdict, cell, witness, candidates, width,
                        counters.evaluations)

\* The best probe is committed, if all of them fit the evaluation budget.
CommitProbe ==
    /\ probes > 0
    /\ counters.evaluations + probes <= MaxEvaluations
    /\ \E cell \in CellIds(partition), width \in Widths, c \in Candidates :
          \E witness \in Witnesses(cell) :
             /\ Separates(witness, c.pred)
             /\ QualityPasses(c, width) /\ RateFits(c)
             /\ RefineOnce("UNCERTIFIED", cell, witness, {c}, width, Precharged)

RecordGroundFallback ==
    /\ IF counters.fallbacks >= MaxFallbacks
       THEN /\ result' = [result EXCEPT !.status = "REFINEMENT_BUDGET_EXHAUSTED",
                                        !.witness = Nothing]
            /\ UNCHANGED counters
       ELSE /\ counters' = [counters EXCEPT !.fallbacks = @ + 1]
            /\ result' = [result EXCEPT !.status = "GROUND_FALLBACK",
                                        !.witness = Nothing]
    /\ UNCHANGED <<encoder, partition, trackerVars, probes>>

\* A base cell's states agree on the predicates already on its path.
BaseEncoders ==
    {e \in [States -> {BaseCell(b) : b \in BaseCells}] :
       \A s, t \in States : e[s] = e[t] =>
          \A p \in BasePath[e[s].base] : Holds[p][s] = Holds[p][t]}

Init ==
    /\ encoder \in BaseEncoders
    /\ partition = encoder
    /\ path = [c \in CellIds(encoder) |-> BasePath[c.base]]
    /\ evaluated = [c \in {} |-> {}]
    /\ counters = [leaves |-> Cardinality(CellIds(encoder)), accepted |-> 0,
                   rate |-> InitialRate, evaluations |-> 0, fallbacks |-> 0]
    /\ probes = 0
    /\ result = [status |-> "NONE", witness |-> Nothing]

Next ==
    \/ \E cell \in CellIds(partition), p \in Predicates :
          \E witness \in Witnesses(cell) : Probe(cell, witness, p)
    \/ Refine
    \/ CommitProbe
    \/ RecordGroundFallback

RefinementSpec == Init /\ [][Next]_refinementVars

-----------------------------------------------------------------------------
(* Properties                                                              *)

Statuses == {"NONE", "CERTIFIED", "SPLIT_ACCEPTED",
             "NO_SEPARATING_PREDICATE", "ALL_SPLITS_REJECTED",
             "REFINEMENT_BUDGET_EXHAUSTED", "RATE_BUDGET_EXHAUSTED",
             "GROUND_FALLBACK", "INFEASIBLE_QUERY"}

\* Partitions, tracker, counters and results keep their types; no caller's
\* charge makes a counter negative, which RefinementCounters would refuse.
RefinementTypeOK ==
    /\ encoder \in [States -> {BaseCell(b) : b \in BaseCells}]
    /\ partition \in [States -> Cells]
    /\ DOMAIN path \subseteq Cells /\ \A c \in DOMAIN path : path[c] \subseteq Predicates
    /\ DOMAIN evaluated \subseteq Cells
    /\ counters \in [leaves : Nat, accepted : Nat, rate : Nat,
                     evaluations : Nat, fallbacks : Nat]
    /\ probes \in Nat
    /\ result \in [status : Statuses, witness : {Nothing} \cup SUBSET States]

\* The counters a result reports are exact: as many leaves as the partition has
\* cells, one more than the base encoder's for every accepted split, and no
\* budget is ever exceeded whatever mixture of calls spent it.
BudgetsExact ==
    /\ counters.leaves = Cardinality(CellIds(partition))
    /\ counters.leaves = Cardinality(CellIds(encoder)) + counters.accepted
    /\ counters.accepted > 0 => counters.leaves <= MaxLeaves
    /\ counters.accepted <= MaxAcceptedSplits
    /\ counters.rate <= RateBudget
    /\ counters.evaluations <= MaxEvaluations
    /\ counters.fallbacks <= MaxFallbacks

\* A cell's name is its definition: its members are exactly the states of its
\* base cell that answer every predicate on its path as its branches say, so a
\* replay of the recorded splits on the base encoder gives the partition back.
CellsFollowTheirPaths ==
    \A c \in CellIds(partition) :
       /\ Members(partition, c) =
            {s \in States : /\ encoder[s] = BaseCell(c.base)
                            /\ \A i \in DOMAIN c.branches :
                                  Holds[c.branches[i][1]][s] = c.branches[i][2]}
       /\ PredicatePath(c) =
            BasePath[c.base] \cup {c.branches[i][1] : i \in DOMAIN c.branches}
       /\ \A i, j \in DOMAIN c.branches :
             c.branches[i][1] = c.branches[j][1] => i = j

\* A predicate that separates two states of a cell always splits it: neither
\* the inherited path nor the memory of evaluated children, probes included,
\* ever turns a useful separator away as a duplicate.
SeparatorsSplit ==
    \A c \in CellIds(partition) : \A w \in Witnesses(c), p \in Predicates :
       Separates(w, p) => SplitStatus(c, p) = "SPLIT_ACCEPTED"

\* A step separates states or leaves them where they are: no call ever merges
\* two cells, and one call adds at most one cell.
OnlyRefines ==
    [][/\ \A s, t \in States : partition'[s] = partition'[t] => partition[s] = partition[t]
       /\ Cardinality(CellIds(partition')) <= Cardinality(CellIds(partition)) + 1]_refinementVars

\* What a result says of the witness it was asked about is true of the
\* partition it hands back: an accepted split parts the two states, a rate
\* verdict is given only where some separating predicate would have split the
\* cell, and every other answer leaves the two together.
WitnessAnswered ==
    result.witness # Nothing =>
       /\ result.status = "SPLIT_ACCEPTED" =>
             \A c \in CellIds(partition) : ~(result.witness \subseteq Members(partition, c))
       /\ result.status # "SPLIT_ACCEPTED" =>
             \E c \in CellIds(partition) :
                /\ result.witness \subseteq Members(partition, c)
                /\ result.status = "RATE_BUDGET_EXHAUSTED" =>
                      \E p \in Predicates :
                         /\ Separates(result.witness, p)
                         /\ SplitStatus(c, p) = "SPLIT_ACCEPTED"

\* The construction loop never meets "expected an accepted exact split": the
\* probe it selected, after it has charged every probe of the inventory, is
\* accepted unless the tree has no leaf or split left.
CommittedProbesSplit ==
    [][probes > 0 /\ probes' = 0 =>
          TreeIsFull \/ result'.status = "SPLIT_ACCEPTED"]_refinementVars

=============================================================================
