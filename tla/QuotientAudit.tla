---------------------------- MODULE QuotientAudit ----------------------------
(***************************************************************************)
(* Certifying a plan made on a quotient: the exact realization envelope of *)
(* a partition (abstraction/quotient.py), the audit of an abstract policy  *)
(* against every ground behaviour (planning/audit.py), the lift of the     *)
(* policy to the ground (planning/lift.py) and the construction that       *)
(* proposes, audits, splits a cell, audits again and falls back to the     *)
(* ground oracle (phase05.py).                                             *)
(*                                                                         *)
(* A cell is the block of its states.  The nominal model only proposes, and*)
(* the audit must not trust it: a proposal is any abstract policy.  Units  *)
(* are those of GroundPlanning; a label's concretizer is uniform over at   *)
(* most two matching ground actions.                                       *)
(***************************************************************************)
EXTENDS GroundPlanning

CONSTANTS
    Labels,              \* semantic actions
    LabelOf,             \* the label of a ground action at a state
    Partitions,          \* the base partitions of the construction
    Tolerance,           \* regret_tolerance, in root units
    MaxSplits

\* Partition: every state is in its block, which is the block of its states.
IsPartition(part) ==
    /\ part \in [GroundStates -> SUBSET GroundStates]
    /\ \A s \in GroundStates : s \in part[s] /\ \A t \in part[s] : part[t] = part[s]

ASSUME AuditAssumption ==
    /\ \A k \in Kernels : \A s \in DOMAIN k :
          /\ \A a \in DOMAIN k[s] : LabelOf[s][a] \in Labels
          /\ \A l \in Labels : Cardinality({a \in DOMAIN k[s] : LabelOf[s][a] = l}) <= 2
    /\ \A p \in Partitions : IsPartition(p)
    /\ Tolerance \in Nat /\ MaxSplits \in Nat

VARIABLES
    query,        \* the initial distribution and delta
    blocks,       \* the block of every state
    policy,       \* the abstract policy last proposed
    audit,        \* its audit: [known, upper, reward, failure]
    splits,       \* accepted splits
    status        \* what the construction has come to

auditVars == <<kernel, answer, query, blocks, policy, audit, splits, status>>

BlocksOf(part) == {part[s] : s \in GroundStates}

-----------------------------------------------------------------------------
(* build_exact_realization_envelope                                        *)

FailureTargets ==
    {o.next : o \in {p \in UNION {{kernel[s][a][i] : a \in Actions(s), i \in 1..2} :
                                  s \in GroundStates} : p.failure}}

\* _validate_failure_cell_isolation
FailureIsolated(part) == \A t \in FailureTargets : part[t] \subseteq FailureTargets

SemanticActions(s) == {LabelOf[s][a] : a \in Actions(s)}
Matches(s, l) == {a \in Actions(s) : LabelOf[s][a] = l}

\* The sum of f over the concretizer of l and the outcomes of its actions
OverRealization(s, l, f(_)) ==
    SumFunction([a \in Matches(s, l) |-> OverOutcomes(s, a, f)])
      \div Cardinality(Matches(s, l))

ActiveMembers(cell) == cell \ Terminal

\* _available_semantic_actions: common to the active members
CellActions(cell) ==
    {l \in Labels : /\ ActiveMembers(cell) # {}
                    /\ \A s \in ActiveMembers(cell) : l \in SemanticActions(s)}

\* One state's step under a label, its successors known by their cells only
Realization(part, s, l) ==
    [reward |-> OverRealization(s, l, LAMBDA o : o.reward),
     failure |-> OverRealization(s, l, LAMBDA o : IF o.failure THEN 1 ELSE 0),
     successor |-> [c \in BlocksOf(part) |->
                      OverRealization(s, l, LAMBDA o :
                        IF ~Stopped(o) /\ part[o.next] = c THEN 1 ELSE 0)]]

-----------------------------------------------------------------------------
(* audit_abstract_policy                                                   *)

\* Mutant: only labelled behaviour common to the cell is looked at.
UpperCandidates_Semantic(part, s, remaining, next) ==
    IF Actions(s) = {} \/ CellActions(part[s]) = {} THEN {0}
    ELSE {OverRealization(s, l, LAMBDA o :
            o.reward * Unit(remaining - 1) + (IF Stopped(o) THEN 0 ELSE next[part[o.next]])) :
          l \in CellActions(part[s])}

\* What a state of a cell could earn with any ground action
UpperCandidates(part, s, remaining, next) ==
    IF Actions(s) = {} THEN {0}
    ELSE {OverOutcomes(s, a, LAMBDA o :
            o.reward * Unit(remaining - 1) + (IF Stopped(o) THEN 0 ELSE next[part[o.next]])) :
          a \in Actions(s)}

UpperStage(part, remaining, next) ==
    [c \in BlocksOf(part) |->
       Max(UNION {UpperCandidates(part, s, remaining, next) : s \in c})]

\* unrestricted_upper_envelope, for every number of steps remaining
UpperEnvelope(part) ==
    LET upper[remaining \in 0..Horizon] ==
          IF remaining = 0 THEN [c \in BlocksOf(part) |-> 0]
          ELSE UpperStage(part, remaining, upper[remaining - 1])
    IN  upper

\* Mutant: the members are averaged, as in the nominal model.
Worst_Average(values) ==
    [known |-> TRUE,
     reward |-> SumFunction([v \in values |-> v.reward]) \div Cardinality(values),
     failure |-> SumFunction([v \in values |-> v.failure]) \div Cardinality(values)]

Worst(values) ==
    [known |-> TRUE,
     reward |-> Min({v.reward : v \in values}),
     failure |-> Max({v.failure : v \in values})]

\* A realization continued by the bounds of its successor cells
Continued(z, remaining, next) ==
    [known |-> TRUE,
     reward |-> z.reward * Unit(remaining - 1)
                + SumFunction([c \in DOMAIN z.successor |-> z.successor[c] * next[c].reward]),
     failure |-> z.failure * Unit(remaining - 1)
                 + SumFunction([c \in DOMAIN z.successor |->
                                  z.successor[c] * next[c].failure])]

\* The bounds of cell c under label l: Undefined if they are so at a cell it
\* may move to
CellBound(part, c, l, remaining, next) ==
    LET zs == {Realization(part, s, l) : s \in ActiveMembers(c)}
    IN  IF \E z \in zs, d \in BlocksOf(part) : z.successor[d] > 0 /\ ~next[d].known
        THEN Undefined
        ELSE Worst({Continued(z, remaining, next) : z \in zs}
                   \cup (IF c \cap Terminal # {} THEN {Zero} ELSE {}))

\* ... and for an undecided cell or an unavailable label
BoundStage(part, pol, remaining, next) ==
    [c \in BlocksOf(part) |->
       IF c \subseteq Terminal THEN Zero
       ELSE IF <<remaining, c>> \notin DOMAIN pol
               \/ pol[<<remaining, c>>] \notin CellActions(c) THEN Undefined
       ELSE CellBound(part, c, pol[<<remaining, c>>], remaining, next)]

\* bounds, for every number of steps remaining
PolicyBounds(part, pol) ==
    LET bound[remaining \in 0..Horizon] ==
          IF remaining = 0 THEN [c \in BlocksOf(part) |-> Zero]
          ELSE BoundStage(part, pol, remaining, bound[remaining - 1])
    IN  bound

AuditPolicy(part, pol, initial) ==
    LET upper == UpperEnvelope(part)[Horizon]
        bound == PolicyBounds(part, pol)[Horizon]
        root == AtRoot(initial, [s \in DOMAIN initial |-> bound[part[s]]])
    IN  [known |-> root.known, reward |-> root.reward, failure |-> root.failure,
         upper |-> Expected(initial, [s \in DOMAIN initial |-> upper[part[s]]])]

Certified(a, delta) ==
    a.known /\ a.upper - a.reward <= Tolerance /\ a.failure <= delta

PointQuery(s) == [t \in {s} |-> 2]

\* Mutant: the states of the initial distribution are not audited singly.
CombinedCertified_RootOnly(part, pol, q) ==
    Certified(AuditPolicy(part, pol, q.initial), q.delta)

\* The audit of the query and of every state it may start in
CombinedCertified(part, pol, q) ==
    /\ Certified(AuditPolicy(part, pol, q.initial), q.delta)
    /\ \A s \in DOMAIN q.initial :
          Certified(AuditPolicy(part, pol, PointQuery(s)), q.delta)

-----------------------------------------------------------------------------
(* evaluate_semantic_policy: the lifted policy on the ground               *)

LiftedStage(part, pol, remaining, next) ==
    [s \in GroundStates |->
       IF Actions(s) = {} THEN Zero
       ELSE LET d == <<remaining, part[s]>>
            IN  IF d \notin DOMAIN pol \/ pol[d] \notin SemanticActions(s)
                   \/ \E a \in Matches(s, pol[d]), i \in 1..2 :
                         ~Stopped(kernel[s][a][i]) /\ ~next[kernel[s][a][i].next].known
                THEN Undefined
                ELSE [known |-> TRUE,
                      reward |-> OverRealization(s, pol[d], LAMBDA o :
                                   o.reward * Unit(remaining - 1)
                                   + (IF Stopped(o) THEN 0 ELSE next[o.next].reward)),
                      failure |-> OverRealization(s, pol[d], LAMBDA o :
                                   IF o.failure THEN Unit(remaining - 1)
                                   ELSE IF Stopped(o) THEN 0 ELSE next[o.next].failure)]]

LiftedValues(part, pol) ==
    LET value[remaining \in 0..Horizon] ==
          IF remaining = 0 THEN [s \in GroundStates |-> Zero]
          ELSE LiftedStage(part, pol, remaining, value[remaining - 1])
    IN  value

EvaluateSemanticPolicy(initial, part, pol) == AtRoot(initial, LiftedValues(part, pol)[Horizon])

-----------------------------------------------------------------------------
(* The construction                                                        *)

NoAudit == [known |-> FALSE, reward |-> 0, failure |-> 0, upper |-> 0]

AuditInit ==
    /\ kernel \in Kernels /\ answer = NoAnswer
    /\ query \in [initial : Initials, delta : Deltas]
    /\ blocks \in {p \in Partitions : FailureIsolated(p)}
    /\ policy = <<>> /\ audit = NoAudit /\ splits = 0 /\ status = "BUILT"

\* Any label of the cell at the cells that have one; the nominal planner
\* decides only cells it reaches, so that a decision may be missing.
Proposals ==
    LET decidable == {d \in (1..Horizon) \X BlocksOf(blocks) : CellActions(d[2]) # {}}
    IN  UNION {{p \in [dom -> Labels] : \A d \in dom : p[d] \in CellActions(d[2])} :
                dom \in {decidable, {d \in decidable : d[1] = Horizon}}}

AuditProposal ==
    /\ status = "BUILT"
    /\ \E pol \in Proposals :
         /\ policy' = pol
         /\ audit' = AuditPolicy(blocks, pol, query.initial)
         /\ status' = IF CombinedCertified(blocks, pol, query) THEN "CERTIFIED"
                                                                 ELSE "UNCERTIFIED"
    /\ UNCHANGED <<kernel, answer, query, blocks, splits>>

SplitBlock(part, block) ==
    [s \in GroundStates |-> IF s \in block THEN block ELSE part[s] \ block]

\* An accepted split, and the models built again
SplitAndRebuild ==
    /\ status = "UNCERTIFIED" /\ splits < MaxSplits
    /\ \E c \in BlocksOf(blocks) : \E block \in SUBSET c \ {{}, c} :
         blocks' = SplitBlock(blocks, block)
    /\ splits' = splits + 1 /\ status' = "BUILT"
    /\ policy' = <<>> /\ audit' = NoAudit
    /\ UNCHANGED <<kernel, answer, query>>

\* The ground oracle answers the query itself.
GroundFallback ==
    /\ status = "UNCERTIFIED" /\ splits = MaxSplits
    /\ SolveGroundPareto(query.initial, query.delta, Horizon, <<>>)
    /\ status' = IF answer'.selected = NoPoint THEN "INFEASIBLE_QUERY"
                                               ELSE "GROUND_FALLBACK"
    /\ UNCHANGED <<kernel, query, blocks, policy, audit, splits>>

\* The oracle asked on its own, as for the J0 reference, with or without one
\* forced decision.
OracleQuery ==
    /\ status = "BUILT" /\ splits = 0
    /\ \E required \in Requirements(query.initial, OracleHorizon) :
         SolveGroundPareto(query.initial, query.delta * Unit(OracleHorizon - Horizon),
                           OracleHorizon, required)
    /\ status' = "J0"
    /\ UNCHANGED <<kernel, query, blocks, policy, audit, splits>>

AuditNext == AuditProposal \/ SplitAndRebuild \/ GroundFallback \/ OracleQuery
AuditSpec == AuditInit /\ [][AuditNext]_auditVars

-----------------------------------------------------------------------------
(* Properties                                                              *)

BestStage(remaining, next) ==
    [s \in GroundStates |->
       IF Actions(s) = {} THEN 0
       ELSE Max({OverOutcomes(s, a, LAMBDA o :
                   o.reward * Unit(remaining - 1)
                   + (IF Stopped(o) THEN 0 ELSE next[o.next])) :
                 a \in Actions(s)})]

\* The best any ground policy can earn from each state
BestRewards ==
    LET best[remaining \in 0..Horizon] ==
          IF remaining = 0 THEN [s \in GroundStates |-> 0]
          ELSE BestStage(remaining, best[remaining - 1])
    IN  best

BestReward(initial) == Expected(initial, BestRewards[Horizon])

Audited == status \in {"CERTIFIED", "UNCERTIFIED"}

\* A complete audit brackets the truth although it sees successors only as
\* cells: the lifted policy can be executed, earns at least the lower bound and
\* fails at most with the upper one, and no ground policy earns more than U_all;
\* so the audit never raises "upper is below the audited lower bound".
BoundsBracketTruth ==
    Audited /\ audit.known =>
      LET true == EvaluateSemanticPolicy(query.initial, blocks, policy)
      IN  /\ true.known
          /\ audit.reward <= true.reward /\ true.failure <= audit.failure
          /\ true.reward <= audit.upper /\ BestReward(query.initial) <= audit.upper

\* A certificate means what it says, from the initial distribution and from
\* each of its states alone: the lifted policy loses at most the tolerance
\* against the best ground policy and fails with probability at most delta.
CertificateSound ==
    status = "CERTIFIED" =>
      \A initial \in {query.initial} \cup {PointQuery(s) : s \in DOMAIN query.initial} :
        LET true == EvaluateSemanticPolicy(initial, blocks, policy)
        IN  /\ true.known
            /\ BestReward(initial) - true.reward <= Tolerance
            /\ true.failure <= query.delta

\* The policy read on the finer partition: a child does what its parent did.
Inherited(pol, coarse, fine) ==
    LET parent(c) == coarse[CHOOSE s \in c : TRUE]
    IN  [d \in {e \in (1..Horizon) \X BlocksOf(fine) : <<e[1], parent(e[2])>> \in DOMAIN pol} |->
           pol[<<d[1], parent(d[2])>>]]

\* A split never loosens what is known of a policy: audited on the finer
\* partition it is still complete, its reward bound has not fallen, its failure
\* bound has not risen and U_all has not risen.
RefinementTightens ==
    [][blocks' # blocks /\ audit.known =>
         LET finer == AuditPolicy(blocks', Inherited(policy, blocks, blocks'),
                                  query.initial)
         IN  /\ finer.known
             /\ finer.reward >= audit.reward /\ finer.failure <= audit.failure
             /\ finer.upper <= audit.upper]_auditVars
=============================================================================
