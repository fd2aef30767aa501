--------------------------- MODULE GroundPlanning ---------------------------
(***************************************************************************)
(* Exact planning on a finite ground kernel (planning/ground.py and        *)
(* planning/common.py): evaluation of a policy, and the Pareto oracle J0   *)
(* that chooses one action for every state of an occupancy distribution    *)
(* at a time.                                                              *)
(*                                                                         *)
(* Fractions are integers in a unit that shrinks by Scale with every stage.*)
(* A ground action has two equally likely outcomes (the same one twice is  *)
(* a certain outcome); a reward is what the query's weights make of the    *)
(* outcome's features.  The registered goal is never reached by a state of *)
(* a production kernel, so that a state is stopped iff it is terminal.     *)
(***************************************************************************)
EXTENDS Integers, FiniteSets, FiniteSetsExt, Functions, TLC

CONSTANTS
    GroundStates,        \* the registered states
    Terminal,            \* the absorbing ones
    Kernels,             \* step: active state -> ground action -> two outcomes
    Initials,            \* query.initial_distribution, in halves
    Deltas,              \* query.delta, in root units of a query of Horizon
    Horizon,             \* query.horizon of the construction
    OracleHorizon        \* query.horizon of a query to the oracle alone

Outcomes == [next : GroundStates, reward : Int, failure : BOOLEAN, terminal : BOOLEAN]

ASSUME KernelAssumption ==
    /\ IsFiniteSet(GroundStates) /\ Terminal \subseteq GroundStates
    /\ \A k \in Kernels :
          /\ DOMAIN k = GroundStates \ Terminal
          /\ \A s \in DOMAIN k : /\ IsFiniteSet(DOMAIN k[s])
                                /\ k[s] \in [DOMAIN k[s] -> [1..2 -> Outcomes]]
ASSUME QueryAssumption ==
    /\ Deltas \subseteq Nat
    /\ Horizon \in Nat \ {0} /\ OracleHorizon \in Nat /\ OracleHorizon >= Horizon
    /\ \A i \in Initials : /\ DOMAIN i \subseteq GroundStates /\ i \in [DOMAIN i -> Nat]
                           /\ SumFunction(i) = 2

VARIABLES
    kernel,     \* the transition kernel
    answer      \* the last query and its GroundParetoResult

Scale == 4            \* one stage: a half of an outcome, a half of a concretizer
Unit(remaining) == Scale ^ remaining

Actions(s) == IF s \in Terminal THEN {} ELSE DOMAIN kernel[s]
Stopped(o) == o.failure \/ o.terminal \/ o.next \in Terminal

\* The sum of f over the outcomes of an action, each weighing a half
OverOutcomes(s, a, f(_)) == 2 * (f(kernel[s][a][1]) + f(kernel[s][a][2]))

Pairs(horizon) == (1..horizon) \X GroundStates
Zero == [known |-> TRUE, reward |-> 0, failure |-> 0]
Undefined == [known |-> FALSE, reward |-> 0, failure |-> 0]

-----------------------------------------------------------------------------
(* evaluate_ground_policy: Undefined where the policy has no decision      *)

\* What action a at s is worth when the next stage is worth next[state]
Backup(s, a, remaining, next) ==
    IF \E i \in 1..2 : ~Stopped(kernel[s][a][i]) /\ ~next[kernel[s][a][i].next].known
    THEN Undefined
    ELSE [known |-> TRUE,
          reward |-> OverOutcomes(s, a, LAMBDA o :
                       o.reward * Unit(remaining - 1)
                       + (IF Stopped(o) THEN 0 ELSE next[o.next].reward)),
          failure |-> OverOutcomes(s, a, LAMBDA o :
                       IF o.failure THEN Unit(remaining - 1)
                       ELSE IF Stopped(o) THEN 0 ELSE next[o.next].failure)]

StateValues(policy, horizon) ==
    LET value[remaining \in 0..horizon] ==
          [s \in GroundStates |->
             IF remaining = 0 \/ Actions(s) = {} THEN Zero
             ELSE IF <<remaining, s>> \notin DOMAIN policy THEN Undefined
             ELSE Backup(s, policy[<<remaining, s>>], remaining, value[remaining - 1])]
    IN  value[horizon]

\* The expectation of f over an initial distribution
Expected(initial, f) == SumFunction([s \in DOMAIN initial |-> initial[s] * f[s]])

\* The values of the states of an initial distribution, taken together
AtRoot(initial, value) ==
    IF \E s \in DOMAIN initial : ~value[s].known THEN Undefined
    ELSE [known |-> TRUE,
          reward |-> Expected(initial, [s \in DOMAIN initial |-> value[s].reward]),
          failure |-> Expected(initial, [s \in DOMAIN initial |-> value[s].failure])]

EvaluateGroundPolicy(initial, policy, horizon) ==
    AtRoot(initial, StateValues(policy, horizon))

-----------------------------------------------------------------------------
(* reachable_decision_pairs                                                *)

ReachablePairs(initial, horizon) ==
    LET at[remaining \in 0..horizon] ==
          IF remaining = horizon THEN DOMAIN initial
          ELSE {o.next : o \in {p \in UNION {{kernel[s][a][i] : a \in Actions(s), i \in 1..2} :
                                             s \in at[remaining + 1]} : ~Stopped(p)}}
    IN  {pair \in Pairs(horizon) : pair[2] \in at[pair[1]] /\ Actions(pair[2]) # {}}

-----------------------------------------------------------------------------
(* pareto_prune and select_constrained                                     *)

Dominates(p, q) ==
    /\ p.reward >= q.reward /\ p.failure <= q.failure
    /\ p.reward > q.reward \/ p.failure < q.failure

\* One policy is kept of those that reach the same point.
Prune(points) ==
    LET frontier == {p \in points : \A q \in points : ~Dominates(q, p)}
        point(p) == <<p.reward, p.failure>>
    IN  {CHOOSE p \in frontier : point(p) = v : v \in {point(p) : p \in frontier}}

NoPoint == [reward |-> 0, failure |-> -1, policy |-> <<>>]

\* Mutant: the safest point is chosen, not the most rewarding feasible one.
SelectConstrained_Safest(frontier, delta) ==
    LET feasible == {p \in frontier : p.failure <= delta}
    IN  IF feasible = {} THEN NoPoint
        ELSE CHOOSE p \in feasible : \A q \in feasible : p.failure <= q.failure

SelectConstrained(frontier, delta) ==
    LET feasible == {p \in frontier : p.failure <= delta}
    IN  IF feasible = {} THEN NoPoint
        ELSE CHOOSE p \in feasible :
               \A q \in feasible : \/ p.reward > q.reward
                                   \/ p.reward = q.reward /\ p.failure <= q.failure

-----------------------------------------------------------------------------
(* solve_ground_pareto: occupancy_frontier                                 *)

ZeroPoint == [reward |-> 0, failure |-> 0, policy |-> <<>>]

Admissible(required, remaining, s) ==
    IF <<remaining, s>> \in DOMAIN required THEN {required[<<remaining, s>>]}
                                            ELSE Actions(s)

\* The probability of every state: none of the states that are not reached
Occupancies == [GroundStates -> Nat]
Occupancy(initial) ==
    [s \in GroundStates |-> IF s \in DOMAIN initial THEN initial[s] ELSE 0]

Deciders(mass) == {s \in GroundStates : mass[s] > 0 /\ Actions(s) # {}}

\* The immediate reward and failure of action a on the mass at s
Immediate(mass, remaining, s, a) ==
    [reward |-> mass[s] * OverOutcomes(s, a, LAMBDA o : o.reward * Unit(remaining - 1)),
     failure |-> mass[s] * OverOutcomes(s, a, LAMBDA o :
                             IF o.failure THEN Unit(remaining - 1) ELSE 0)]

\* Mutant: states that merge at one successor overwrite each other's mass.
SuccessorMass_Overwrites(mass, choice) ==
    LET into(t) == {s \in DOMAIN choice : \E i \in 1..2 :
                      kernel[s][choice[s]][i].next = t /\ ~Stopped(kernel[s][choice[s]][i])}
        from(t) == CHOOSE s \in into(t) : TRUE
    IN  [t \in GroundStates |->
           IF into(t) = {} THEN 0
           ELSE mass[from(t)] * OverOutcomes(from(t), choice[from(t)], LAMBDA o :
                                  IF o.next = t /\ ~Stopped(o) THEN 1 ELSE 0)]

SuccessorMass(mass, choice) ==
    [t \in GroundStates |->
       SumFunction([s \in DOMAIN choice |->
         mass[s] * OverOutcomes(s, choice[s], LAMBDA o :
                     IF o.next = t /\ ~Stopped(o) THEN 1 ELSE 0)])]

\* A point extended by one decision
Extend(point, remaining, s, a, immediate) ==
    [reward |-> point.reward + immediate.reward,
     failure |-> point.failure + immediate.failure,
     policy |-> (<<remaining, s>> :> a) @@ point.policy]

\* The last stage couples nothing: one state after the other, pruned each time.
LastStage(mass, required) ==
    FoldSet(LAMBDA s, partial :
              Prune({Extend(p, 1, s, a, Immediate(mass, 1, s, a)) :
                       p \in partial, a \in Admissible(required, 1, s)}),
            {ZeroPoint}, Deciders(mass))

\* One action for every decider
JointChoices(mass, required, remaining) ==
    {c \in [Deciders(mass) -> UNION {Admissible(required, remaining, s) : s \in Deciders(mass)}] :
       \A s \in Deciders(mass) : c[s] \in Admissible(required, remaining, s)}

\* A continuation preceded by a joint choice
Precede(mass, remaining, choice, continuation) ==
    FoldSet(LAMBDA s, p :
              Extend(p, remaining, s, choice[s], Immediate(mass, remaining, s, choice[s])),
            continuation, DOMAIN choice)

OccupancyFrontier(initial, horizon, required) ==
    LET frontier[remaining \in 0..horizon, mass \in Occupancies] ==
          IF remaining = 0 \/ Deciders(mass) = {} THEN {ZeroPoint}
          ELSE IF remaining = 1 THEN LastStage(mass, required)
          ELSE Prune(UNION {{Precede(mass, remaining, c, k) :
                               k \in frontier[remaining - 1, SuccessorMass(mass, c)]} :
                             c \in JointChoices(mass, required, remaining)})
    IN  frontier[horizon, Occupancy(initial)]

-----------------------------------------------------------------------------
(* The oracle, asked one query; nothing of it is kept for the next one,    *)
(* since the memo is local to the call                                     *)

\* No requirement, or one decision forced (solve_ground_action_frontier)
Requirements(initial, horizon) ==
    {<<>>} \cup UNION {{(pair :> a) : a \in Actions(pair[2])} :
                        pair \in ReachablePairs(initial, horizon)}

NoAnswer == [frontier |-> {}]
Solved == answer # NoAnswer

SolveGroundPareto(initial, delta, horizon, required) ==
    LET frontier == OccupancyFrontier(initial, horizon, required)
    IN  answer' = [initial |-> initial, delta |-> delta, horizon |-> horizon,
                   required |-> required, frontier |-> frontier,
                   selected |-> SelectConstrained(frontier, delta)]

-----------------------------------------------------------------------------
(* Properties, against the enumeration of every deterministic policy       *)

\* enumerate_deterministic_policies, all forced decisions obeyed
Policies(initial, horizon, required) ==
    {p \in [ReachablePairs(initial, horizon) -> UNION {Actions(s) : s \in GroundStates}] :
       \A pair \in DOMAIN p : p[pair] \in Admissible(required, pair[1], pair[2])}

Points(initial, horizon, required) ==
    {EvaluateGroundPolicy(initial, p, horizon) : p \in Policies(initial, horizon, required)}

\* Choosing jointly over occupancy distributions, merging mass and pruning at
\* every stage loses no trade-off and invents none: the frontier is exactly the
\* set of undominated values of the deterministic Markov policies that obey the
\* required decision, and the policy stored with a point, evaluated on its own,
\* decides every pair it visits and earns exactly that point.
FrontierExact ==
    Solved =>
      LET all == Points(answer.initial, answer.horizon, answer.required)
      IN  /\ {<<p.reward, p.failure>> : p \in answer.frontier} =
                {<<p.reward, p.failure>> : p \in {q \in all : \A x \in all : ~Dominates(x, q)}}
          /\ \A p \in answer.frontier :
                EvaluateGroundPolicy(answer.initial, p.policy, answer.horizon) =
                  [known |-> TRUE, reward |-> p.reward, failure |-> p.failure]

\* The selected point answers the chance-constrained query: nothing is selected
\* exactly when no deterministic policy meets delta, and a selected policy has
\* the greatest reward of those that do, at the least risk for it.
SelectedOptimal ==
    Solved =>
      LET feasible == {p \in Points(answer.initial, answer.horizon, answer.required) :
                         p.failure <= answer.delta}
      IN  /\ (answer.selected = NoPoint) <=> (feasible = {})
          /\ answer.selected # NoPoint =>
               /\ answer.selected.failure <= answer.delta
               /\ \A p \in feasible :
                    \/ answer.selected.reward > p.reward
                    \/ /\ answer.selected.reward = p.reward
                       /\ answer.selected.failure <= p.failure

=============================================================================
