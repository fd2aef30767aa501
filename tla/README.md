# Verification of ACFQP (auditable coarse-to-fine quotient planning)

TLA+ modules for the parts of `src/acfqp/` whose correctness is hard to
establish by testing, the TLC configurations that check them on small
instances, and TLAPS proofs for every value of the constants. `PROJECT.json`
holds the machine-readable index: components, runs, the map from definitions to
source lines, hazards, mutants and theorems. All paths below are relative to
`src/src/acfqp/` unless they say otherwise.

## 1. The system

ACFQP plans on a *quotient* of a finite stochastic kernel: states are merged
into cells, a nominal model on the cells proposes a policy, an exact audit
bounds what that policy does on the ground, and a cell is split where the bounds
are too loose. When no split is left the ground oracle answers. Around this
planner sits the machinery that makes its measurements auditable: caches that
must be cold when they are measured, durable journals, gates and owners that
several processes share, and verifiers that recompute what was written.

### Inventory

| Component | State it keeps | Operations | Hard behaviour | What makes it correct |
|---|---|---|---|---|
| Cache isolation (`sequential_bernoulli_acquisition_v1.py`) | reader and waiter counts, writer identity and depth, per-thread reader depth | `registered_user`, `exclusive_epoch`, both reentrant | threads, `Condition` waits, nesting, signals in a wait | an epoch is alone, counters exact, no lost wakeup, writers served |
| Attempt rejection gate (`construction_k7_h1_attempt_rejection_gate_v1.py`) | `intent.json`, `commit.json`, `ack.json`, a high-water cursor, temporary files, one `flock` | side-effect guard, admission lease, commit, acknowledge, read, recover, snapshot, replay hold; allocation | several processes, a kill between any two writes, retries of what is done | one write-once rejection; no effect after it; replay accepts every crash |
| Quotient refinement (`refinement/`, `abstraction/partition.py`) | partition, tracker of paths and evaluated children, counters | `refine_once`, `attempt_split`, `record_ground_fallback`, probes of the construction loops | long mixtures of legal calls against budgets and memories | budgets exact; cells are what their path says; no useful split refused |
| Ground oracle (`planning/ground.py`, `planning/common.py`) | none between calls | `evaluate_ground_policy`, `solve_ground_pareto`, forced decisions | merging probability mass, pruning at every stage | exactly the Pareto frontier, attained, optimal selection |
| Audit and lift (`planning/audit.py`, `planning/lift.py`, `abstraction/quotient.py`) | none between calls | realization envelope, `U_all`, policy bounds, lifted evaluation | bounds computed from cells must hold for states | bounds bracket the truth; certificates sound |
| Construction (`phase05.py`, `aliased_safe_chain.py`) | partition, tracker, counters, last audit | propose, audit, probe, split, fall back | numbers computed on one partition used on the next | ends within delta; charged exactly once |
| Phase owner (`construction_k7_h1_attempt_execution_phase_owner_v1.py`) | specification, allocation, transition intent, root seal, commit link, cursor, leases | initialize, open, replay, normal lease, attested transition, cleanup lease | crash between seal, record and cursor; forks in a lease body; three nested locks | one transition; no normal work after it; every crash recoverable |
| Cap owner (`construction_k7_h1_shared_cap_owner_v3.py`, `_v4_wal`) | journal of reservations, cells, evidence, settlements, receipts; cursor; payload WAL | reserve, guard a side effect, settle, reject, synchronize, replay, enable the WAL | gate lock before owner lock; rejected while reserving; pending append of a dead process | caps never exceeded; an effect once; gate and journal explainable |
| Campaign attempt journal (`v072_registered_campaign_attempt_journal_v1.py`) | chained events, objects, a manifest | start, append, close, record a failure, verify | two runners, crash or exception between two links | one writer; the verifier's verdict is true |
| Occurrence schedule (`v075_production_campaign_runner_v1.py`) | result slots, failures, process-wide root | submit, collect, finalize | one of several workers fails, interruption of the caller | failures name the culprits; no task under a foreign root |
| Cgroup lease, atomic attempt (`v075_k7_cgroup_lease_v1.py`, `v075_k7_atomic_pidfd_runtime_v1.py`, `v075_k7_parent_atomic_executor_v1.py`) | consumed nonces, leaf, descriptors, child, recorded lifecycle | issue, acquire, clone, supervise, kill, reap, close | exit, deadline and cap race; any system call may fail; signals | nothing left behind silently; success genuine |
| Occurrence transport and routing (`v075_occurrence_cas_transport_v1.py`, `phase3e_occurrence_runner_v1.py`) | chunks, partial packages | publish, merge, close | failure of one stage | prior work not lost |
| Routers, transactions, proof state, memoization | traces, dependency keys, epochs | route, commit, invalidate | stale certificates | only live certificates reused |
| Observer IPC, brokers, native supervisors | processes and kernel objects | frames, system calls | behaviour is the kernel's | mostly outside a model |
| Verifiers and portable authorities | none | recompute documents and hashes | none | equality with what they check |

`PROJECT.json` lists the components one by one, with the files of each and what
is not modelled.

### Interactions

* The construction calls the audit, the refinement and the oracle one after the
  other; they share the partition, the tracker and the counters.
* Readers of the Bernoulli caches and cold-cache epochs meet in the isolation
  lock only.
* Brokers and owners are different processes: they meet in the gate's `flock`
  and its files. Locks nest in one order: phase, gate, owner. The cap owner
  takes the gate before its own lock, the phase owner its own lock before the
  gate and, for a transition, the owner lock last; both read the gate's snapshot
  while they hold it.
* The journals are read back by verifiers and by restarted processes only.
* The executor of an atomic attempt holds a cgroup lease and calls the runtime
  with it; the two share the leaf's descriptor, which the lease closes.

## 2. Modules and their correspondence with the code

### CacheIsolation, MathCache (+ MCMathCache, CacheIsolationProofs)

`_ExactBernoulliCacheIsolationV1`. Variables are its fields
(`active_readers`, `waiting_writers`, `writer_thread_id`, `writer_depth`, the
thread-local `reader_depth`); `frames` is the stack of context managers a thread
is inside, `waiting` says whether a thread is asleep in `Condition.wait()` or
has been notified and has not run yet, `raised` is set when one of the "no
cover" consistency checks would raise. Each `with self._condition` block is one
action, except that `wait()` gives the lock up and re-evaluates its predicate in
a step of its own. `EnterPrimary`, `EnterNested` and `EnterWriterOwned` are the
three ways into `registered_user`; `EnterEpoch`, `ReenterEpoch` and the writer's
wait loop are `exclusive_epoch`. `WaitInterrupted` is an exception raised by a signal
handler inside a wait.

`MathCache` puts the memoized bounds on top of it:
`_outer_confidence_bounds_accounted_v2` step by step (facade, lookup, the body
that enters the isolation a second time for its beta-binomial mass, insertion,
classification), clearing, and the owned occurrences that bracket accesses, cold
or shared. `functools.lru_cache` is modelled as it is used: a miss is counted
before the body, two concurrent computations of one key count two misses, a key
whose body raises is never stored, the oldest entry is evicted. That the last
clearing is skipped on an exception is a disjunct of `EndOccurrence`.

### RejectionSlot, RejectionGate (+ MCRejectionGate, RejectionGateProofs)

`RejectionSlot` is what the gate promises: an empty slot under which effects run,
one rejection that takes it for good while no effect runs, one acknowledgement.
`RejectionGate` is the code: the three records, the cursor with its four states,
temporary files, the `flock` of each process, and a program counter per call.
*Every durable write is a step of its own*; what is read between two writes is
read under the lock and belongs to the step that uses it.

| Action | Code |
|---|---|
| `Start`, `Acquire`, `Release` | a public call, `flock`, the `finally` block |
| `RequireHandle` | `_require_handle`: the cursor must parse; orphan temporary files go, under the exclusive lock |
| `ObserveFails`, `Replayable` | `_observe_gate_locked` refuses the records |
| `AdvanceCursor`, `FinishIntent` | `_replay_gate_locked` |
| `LookForEffect`, `LookForCommit` | the side-effect guard and the shared read |
| `AdmissionDecides`, `LeaseCommit` | the admission lease and a commit through it |
| `CommitReadsIntent`, `LinkCommit` | `_commit_rejection_locked` |
| `AckChecksCommit` | `acknowledge_h1_attempt_rejection_v1` |
| `WriteTemp`, `LinkTemp`, `UnlinkTemp`, `Compare` | publication: temporary file, hard link unless the name exists, unlink, compare |
| `AppendCursor` | `_append_cursor_state_locked` |
| `Crash`, `CrashTearing` | the process is killed between two writes, or inside a cursor append |

A torn cursor closes the gate for good: every later call fails closed. The
specification document of the gate says the same.

### QuotientRefinement (+ MCQuotientRefinement, QuotientProofs)

`refine_once` with its ranking, quality, rate and budget gates; `attempt_split`
with its tracker; `record_ground_fallback`; and the two loops that call them:
one that hands over a ranked inventory (`phase05.py`), one that probes splits on
a clone of the tracker, charges the probes and commits the best
(`aliased_safe_chain.py`). A cell is named as the code names it, by its base cell
and the branches taken; predicates are numbered in the order of their canonical
identifiers, which is what the ranking compares last. What an audit measures for
a candidate is an input. `Probe` is bounded by `MaxEvaluations` to keep the model
finite, `CommitProbe` refuses more probes than the budget as the loop does.

### GroundPlanning

`evaluate_ground_policy`, `reachable_decision_pairs`, `pareto_prune`,
`select_constrained` and the occupancy recursion of `solve_ground_pareto`, also
with one forced decision (`solve_ground_action_frontier`). Fractions are integers
in a unit that shrinks by four with each stage, so that all arithmetic is exact.
An occupancy distribution is a function on all states, 0 where nothing is, and
the frontier a recursive function of the stage and the distribution.

### QuotientAudit (+ MCQuotientAudit, QuotientProofs), on top of GroundPlanning

`build_exact_realization_envelope` with the failure-cell isolation,
`unrestricted_upper_envelope`, the policy bounds and `audit_abstract_policy`,
`evaluate_semantic_policy`, and the construction: propose, audit (the query and
every initial state alone), split, audit again, fall back. The nominal model
proposes and must not be trusted, so a proposal is *any* abstract policy on the
cells' common labels, also one that leaves cells undecided. Every recursion over
the steps remaining is a stage operator (`UpperStage`, `BoundStage`,
`LiftedStage`, `BestStage`) and a recursive function that applies it.

### PhaseSwitch, PhaseOwner (+ MCPhaseOwner, PhaseOwnerProofs)

`PhaseSwitch` is the promise: normal work first, one switch on one transition,
cleanup work afterwards, never two at once. `PhaseOwner` is the code: the
allocation, phase, gate and owner locks, the intent and its hard links (equal
values here), the repairable cursor, leases with their retained gate snapshot,
the attested transition, forks of a lease body. The gate is the slot of
`RejectionSlot`, composed through `INSTANCE`; the cap owner is the length of its
journal. Faults are a kill or an `OSError` at any step, a torn cursor frame, a
left temporary file, and a rolled-back attempt directory (what the root seal is
for). That a cap rejection is attested only under an acknowledged gate is an
assumption on the issuer of attestations.

### CapLedger, CapOwner (+ MCCapOwner, CapOwnerProofs)

`CapLedger` is the promise: one admission, one start and one charge per
operation, totals under hard SUM and MAX caps, nothing new once closed.
`CapOwner` keeps what the journal replays to (`book`, with `ok` false if a record
were refused) and the one announced append (`pend`). Every public call is there:
reserve with its rejection, synchronization, lookup and exact recovery after a
rejected gate; the guarded side effect; settlement inside and outside a guard;
replay. A call is followed from the moment it gets the gate. With a WAL the next
lock holder publishes the pending record, without one only the same request can.
A retry is refused while the cleanup unit of an unrelated operation is
unfinished: that is the behaviour of the code. The id of an evidence source is
folded into the value it settles.

### OwnerLog, OwnerJournal (+ MCOwnerJournal, OwnerJournalProofs)

The files below `CapOwner`: record files, committed and pending links of the
cursor, the WAL directory, its rows and its binding marker, each link, unlink,
mkdir and rmdir one step. A record's identity is the sequence of records it
closes, as its hash covers its predecessor; a WAL directory is known by a fresh
inode. The six settlement records of the activation intent are `UnitLength`
records. `OwnerLog` is what `CapOwner` assumes of them: an append-only log with
one announced record and a switch to the WAL that is never taken back.

### CampaignRunner (+ MCCampaignRunner, CampaignProofs)

`run_v075_production_campaign_v1`: install the root, submit one task per
occurrence, collect in the order of completion, drain the pool, clear the root,
finalize. What a boundary returns is an input: its own or another entry's
result, an unverifiable, an untyped or no result, an exception, a
`BaseException`. The caller is interrupted among the submissions or the futures,
not while the pool shuts down; submission itself does not fail.

### AttemptJournal (+ MCAttemptJournal, CampaignProofs)

The writer with its temporary file, link and unlink, the runner in
`scripts/run_v072_registered_campaign.py` that drives it, and
`verify_attempt_journal_v1` as an operator on the files. Ids are append numbers;
the several objects of one event are one. There is no resume: a directory left
behind is never written again. `finally` removes a temporary file on an
exception, a crash leaves it.

### CgroupLease, AtomicAttempt (+ MCAtomicAttempt, AtomicAttemptProofs)

`CgroupLease` is issue, one-time consumption, creation and removal of the leaf
and `close`; `AtomicAttempt` extends it by the executor and the pidfd runtime,
with the exception handler call by call. The kernel delivers a kill some time
after it was sent; foreign processes enter the leaf; each system call may fail
within a budget. Signals are blocked from the claim until after the clone.
Elsewhere a handler may raise in the main thread, any number of times: at every
step of `acquire`, of the executor and of the runtime, also between a system call
and the assignment of its result and inside `close` before or after `rmdir`. Only
the runtime's exception handler is left out (lines 2252-2307; each `try` in it
swallows or records an interrupt, one between two of them would replace its
work), and the statements of the `finally` of `close` are one step. `exposed`
marks an interrupt at a place where no clause of the code answers for what is
held: between `mkdir` and `created = True`, between a descriptor's system call
and its variable, between the return of `acquire` or of `_prepare_bootstrap` and
the executor's variable, inside a `finally` clause, inside `close` on the path
without a child, and over a cleanup error already on its way.
Whether a zombie still counts in `pids.current` is left open. The deadline may
come at any time.

## 3. Runs

| Run | Bounds | What it shows |
|---|---|---|
| `math` | 2 threads, one interruptible, 3 frames, 3 keys (one always raises), a cache of 1, 2 accesses | an epoch is alone; no check of the lock raises; an occurrence counts exactly its own bodies; a cold one reuses nothing; a waiting writer is served |
| `gate` | 2 processes, 2 rejections, 2 receipts, all 7 calls, 2 kills | serialization of effects and rejection, replayability, truth of answers, the slot, every call ends |
| `refinement` | 4 states, 3 predicates (one a negation), 4 candidates, small budgets | exact budgets, cells equal their paths, no useful split refused |
| `audit` | 36 kernels, 3 partitions, every proposal, every split at horizon 2; every query with at most one forced decision at horizon 3 | bounds bracket, certificates sound, splits tighten; the oracle equals the enumeration of all policies |
| `phase` | 2 processes, 2 specifications, 2 kinds of failure, a gate that is rejected and acknowledged, 2 faults | leases are truthful, files recoverable, answers durable, intents bind the present, the switch |
| `cap` | 2 processes, 2 operations, 3 requests on a SUM and a MAX path, 4 settlements, WAL on and off, an external rejection, 1 fault | explainable joins, resumability, one effect, the ledger |
| `files` | 2 processes, 2 payloads, 1 ordinary record beside the activation, 2 faults | recoverable files, the log, activation converges |
| `campaign` | 2 campaigns, 2 occurrences each, every outcome, interrupts | honest answers, the root outlives its tasks |
| `attempt` | 3 runners, 2 occurrences, 2 checkpoints | one writer, honest journals verify, verdicts are true |
| `attempt_caught` | 1 runner, 1 occurrence | violated: a failure caught inside an append is not preserved |
| `atomic` | main and another thread, 1 request, 1 foreign process, 2 failing calls, signals in the main thread | nothing left silently, success genuine, one leaf per request, attempts end |
| `atomic_typed` | main only, no host fault | violated: a child that dies before its setup record makes `execute` raise |

Why the bounds suffice. Math: a writer and a reader are the two sides, and three
frames are needed for an epoch, a facade and the facade the body enters; a cache
of one entry evicts at the second key. Gate: one process writes while the other
holds a context or is refused; two rejections and two receipts give every
conflict; two kills give a crash of the recovery of a crash. Refinement: four
states and two splits give a split of a child, a predicate inherited from the
base encoder (`BasePath`), one that is the complement of another (the same child
signature in other order), a rate budget that admits some candidates and not
others, and an acceptance boundary hit exactly (1 of 5). Audit: cells alias two
unlike states, mix active and terminal members, or split one state off; three
stages let mass merge at a state and lead back, so that pruning precedes another
stage. Phase: two faults are a crash and a crash of its recovery, or a rollback
after a crash. Cap: two operations exceed the SUM cap together and not alone; one
fault strikes at every step of every call, and what it leaves is met by a second
process. Files: an activation, its crash, and the crash of the attempt that
recovers it. Campaign: with two of each, a result may land in the wrong slot and
a root may be the other's. Attempt: the third runner finds what a crashed first
and a losing second left.

Deadlock is checked in every run but `audit`, where a certified or fallen-back
construction has ended; runs that finish have an explicit step for it. The
deadlock check of `phase` and `cap` is the check of the lock order: a cyclic
wait of two processes would have no successor.

Each property of each passing run has a mutant: a plausible bug in one
definition (defined just before it, marked *Mutant*) under which TLC finds the
property violated.

### Fairness

* `math`: a thread inside an access and a notified thread run (weak fairness);
  work inside a context manager is finite: for each nesting depth some thread
  leaves at that depth (strong fairness; some thread is enough because while a
  writer waits those inside are readers). A thread that nests and leaves without
  end inside its outermost context would starve the writer in any lock.
  `WaitingWriterServed` lets every waiting writer be interrupted instead.
* `gate`: a process inside a call runs (weak fairness of its steps), a context
  body ends, and `flock` grants a lock that is free again and again (strong
  fairness of `Acquire`). `flock` admits shared holders past an exclusive waiter,
  so `CallsEnd` has the premise that there is again and again a moment without
  shared holders; the code gives no more than that. A killed process takes its
  lock with it.
* `files`: the same two, for a call and for the owner lock and the gate lease.
* `atomic`: the parent's steps (each wait has a deadline or a grace period) and
  the delivery of a kill that was sent. Nothing is assumed of the child.
* No liveness is checked of `phase`, `cap`, `campaign` and `attempt`.

### Findings

* `attempt_caught`: the journal module promises to preserve caught failures. An
  exception between an object and its event, or between an event's link and the
  writer's count, is caught and recorded, and the verifier then refuses the whole
  journal.
* `atomic_typed`: the executor's specification promises a typed failure object
  for every failure. A child that dies before its setup record ends in a cleanup
  error instead, because the exception handler probes the leaf through the
  descriptor that the lease has just closed.

Interrupts at the exposed places of `AtomicAttempt` leave what the specification
of the lease says a failed setup must remove ("A setup failure after creation must
remove the leaf", `src/specs/K7_DELEGATED_CGROUP_LEASE.md:40`). A
`KeyboardInterrupt` between `mkdir` (lease, line 1007) and `created = True` leaves
the leaf, because the `finally` clause goes by `created`; between the return of
`acquire` and `lease = acquired` (executor, 1195-1223) leaf and both descriptors
stay; inside `close` on the path without a child (runtime 2014 and 2031) the
`finally` of `close` marks the lease closed, so that the second `close` returns at
once. `execute` then ends with the interrupt alone. `NothingLeftSilently` states
exactly this much: no cleanup error, but never an answer either.

## 4. Proofs

`CacheIsolationProofs` proves for every finite set of threads and every depth:
`IsolationTypeCorrect`, `IsolationExcludes`, `IsolationCountersExact` (which
includes `ChecksNeverRaise`) and, if no thread is interruptible,
`IsolationWakesSleepers`. Exclusion is not inductive:
`IsolationInv` adds `FramesFit`, which says what the stack of a thread looks like
(nested frames over one primary frame for a reader of that depth; an epoch at the
bottom and as many epoch frames as `writer_depth` for the writer; empty for
everybody else) and that readers exist only while there is no writer. From it
each `finally` block's check holds, and the counters follow by one thread joining
or leaving a finite set.

The same module composes this with `MathCache`: `AccountingIsExact`,
`ColdOccurrencesNeverReuse` and `MathCacheIsolated`, for any threads, keys and
cache size. The cache counters are shared, so the class an access reports is not
a fact about them alone; `MathInv` says what ties it down. Since an access read
the counters they have only grown (`AccessFits`), its own entry into the cached
body, which no other thread can make, tells a miss from a hit, and an open access
is the only difference between an occurrence's lookups and its hits and misses
(`AccountFits`). For a cold occurrence `ColdFits` adds that its thread is the
writer of the epoch: nobody else can fill the cache, so all that is in it, or is
about to be, is what the occurrence has computed.

`RejectionGateProofs` proves for any processes, rejections, receipts, calls and
number of kills: `GateTypeCorrect`, `EffectsAndRejectionSerialized`,
`AdmissionAlone`, `CrashesReplayable`, `AnswersStayTrue`, `ContextsExact`,
`RecordsAreWriteOnce` and `GateImplementsSlot`. `GateInv` has four parts: types;
`RecordsFit` (intent before commit before acknowledgement, and *every* cursor
record is the one these determine, torn tail or not); `LocksExclude`; and per
process what its lock, its program point, its context and its last answer imply.
Every action is one lemma. Most actions change no record (`QuietStep`); the
writers hold the exclusive lock, so that nobody else knows more than
"Outside" (`WriterStep`), and only add to the records (`DiskGrows`), which keeps
every other process's answers true. The refinement maps `intent` to the slot's
rejection, the acknowledgement to its receipt and the processes inside a guarded
effect to `active`; the steps that matter are `LinkTemp` (the rejection appears,
no effect can be active because the exclusive lock is held) and `LookForEffect`.

`QuotientProofs` proves first all the properties of the run `refinement`, and
three more, for every finite state set, grammar, base encoder, candidate set and budget:
`RefinementTypeCorrect`, `BudgetsStayExact`, `CellsAreTheirPaths`,
`SeparatorsAlwaysSplit`, `WitnessesAnswered`, `PartitionOnlyRefines` and
`CommittedProbesAccepted`. `CellsFollowTheirPaths` carries the argument: a state
in a child of a cell would agree with the cell's own path, so while a cell is
there its children are new names (`ChildIsNew`), and a split adds exactly one
cell. For `SeparatorsSplit` the invariant adds `EvaluatedAreGone`: a cell with
remembered children has descendants in the partition, so it is never asked again
and the memory never speaks against a separator. The evaluation bound needs that
`rank_split_candidates` is a strict order (`RankOrder`, with quotients compared by
cross multiplication): positions are then distinct and the loop reaches at most
as many candidates as the budget has left (`ReachedBound`).

Its second half is about the audit: `AuditBracketsTruth` (`BoundsBracketTruth`),
`CertificatesSound` (`CertificateSound`) and `SplitsTighten`
(`RefinementTightens`), for every finite state set, kernel, labelling, base
partition, query, horizon, tolerance and number of splits. `AuditInvariant`, which
TLC has also checked on the instance of the run, is what the
construction contributes: the cells partition the states, the audit on record is
that of the proposed policy on the present cells, a certificate was given for
it. The rest is arithmetic over the stages, in this order:

* sums over finite sets (`SumIs`, `SumMonotone`, `SumPlus`, by a least set that
  would be a counterexample) and stage recursions (`StagesExist`,
  `StageInduction`), so that nothing rests on what a recursive function is
  supposed to compute;
* a label at a state is four outcomes of equal weight (`Realized`), and the
  realization the audit keeps, which knows successors by cells, continued by the
  bounds of those cells is the mean of the four outcomes, each continued by the
  bound of the cell it falls into (`ContinuedIs`): here the code merges mass and
  loses the states, and the lemma says what it does not lose;
* one stage: `LowerStep` (the worst member is no better than the lifted policy at
  any member, terminal members included), `BestStep`, `UpperStep`; then
  `BracketsAlways` by induction, `AuditBrackets` at the root;
* for a split, `Finer` cells and the `Inherited` policy: each fine bound is
  attained by a member or by a terminal state, which already bounded the coarse
  cell (`BoundTighter`, `UpperTighter`, `AlwaysTighter`).

That a certificate is about every initial state alone rests on
`CombinedCertified` auditing each of them; a bound on the mixture would not give
it. Assumed of the constants: finitely many states, finitely many typed actions
with two outcomes each, at most two actions of a state for one label (the
arithmetic of the model), base partitions that are partitions.

`PhaseOwnerProofs` proves all the properties of the run `phase`, for any
processes, transitions and faults: `LeasesAreTruthful`, `DirectoryRecoverable`,
`AnswersStayTrue`, `IntentIsAboutThePresent`, `PhaseOwnerImplementsSwitch`.
`PhaseInv` is `DiskFits` (intent, seal, commit link and *every* cursor record
tell of one transition, a torn tail is the record that was due) and per process
which of the three locks it holds where, what its lease retained, how far a
recovery has come, and that a call that may still change the phase has nothing
durable before it (`Before`). The last is what makes the others inductive: a
transition decides on a journal tail and a gate state it read earlier, and
`ChangeFits` keeps both current until `PublishIntent` because the locks are never
let go in between. Other processes are handled once, by `Apart`: a step changes
the files only under the phase lock, the gate only under the gate lock, the
journal tail only under the owner lock. In the refinement the normal leases that have not begun a
transition are `working`, the cleanup leases `cleaning`, and `PublishIntent` is
the switch.

`OwnerJournalProofs` proves `FilesStayRecoverable` and `FilesImplementLog` for any
processes, payloads, settlement records and faults. `OwnerInv` says that the
record files are the set of prefixes of one journal (`HistoryFits`); that the
links of the cursor are at one of the four stages of one append (`CursorFits`);
that the rows are the announced record or what an append leaves before its
announcement or after its end (`RowsFit`); and that marker, intent and directory
name each other. A directory without intent needs an argument of its own, or the
inode of an intent could not be bounded: it is the work of the lock holder in its
admission stage, or every such directory has been paid for by a fault
(`DirectoryFits`). A process knows something of the files only while it holds the
owner lock (`PointFits`): its handle names the directory, and the record it is
about to append still fits the journal. `LogMoves` is what a step may do to the
log: announce, publish, bind or nothing. It is proved with the invariant, action
by action, and the refinement is read off from it.

`CapOwnerProofs` proves all the properties of the run `cap`, for any processes,
operations, paths, caps, requests, settlements and faults: `CapTypesCorrect`,
`JoinsExplainable`, `OwnerResumable`, `EffectsOnce` and `OwnerImplementsLedger`.
`CapInv` has three layers. `BookFits` is about the journal alone: the records of
an operation build on each other (`ChainFits`), at most one unit is unfinished
and it is the one of the head (`UnitFits`), a rejection admission is the head
until its receipt is there (`AdmissionFits`), an overrun is counted
(`OverrunFits`), and the running totals of a path are what the operations on it
add up to (`TotalsFit`). `PendFits` and `GateFits` relate it to the pending
append and to the gate: the pending record is one the replay takes and the call
that announced it could announce; between the rejection of the gate and its
admission the book stays the one the candidate was computed from. `LocksFit` and
`CallFits` say which call is where, under which locks, and what it rests on. A
step either adds one record the replay accepts or leaves the book
(`JournalStepFits`), so that each call is one lemma over the same facts.

The refinement needs the totals to be sums. The provers cannot instantiate the
library's induction theorems, but a least counterexample needs none:
`NatLessThanWellFounded` and `WFMin` give a least size of a set for which a
statement about sums would fail (`LeastNat`, `LeastSubset`), and taking one
element out of it is a contradiction. That way `SumsExist`, `SumUnique`,
`SumRemove`, `SumAdd` and `SumSame` say what a fold over a finite set of operations
yields, `TotalsKept` that every record keeps the totals, and
`LedgerOutstanding` and `LedgerCharged` that the ledger's folds equal the
journal's totals. `StepJournals` then sorts the steps: the journal rests,
publishes what already counted, or gets a new record, with an open gate and a
clean book if it is a reservation or a start; or the gate closes. `LedgerSteps`
reads the ledger's action off the kind of the record. TLC has checked `CapInv`
on the instance of the run as well (1,690,724 states).

`CampaignProofs` proves `RootsOutliveTasks` and `AnswersHonest` for any
campaigns and any number of occurrences. `CampaignInv` binds the installed root
to the one campaign whose schedule is running (`RootFits`), tasks to the stages in
which they may exist (`TasksFit`), and slots, failures and completion order to the
outcomes of the futures collected so far (`CollectionFits`); `active` is the
cardinality of the tasks inside `invoke` and hence the peak is at most the count.
An answer is honest when it is given, and outcomes do not change afterwards.

The same module proves `OneWriter`, `HonestAttemptsVerify` and
`VerdictsTrue` for any runners, occurrences and checkpoints. The verifier is a
recursion over the events on disk, and what a recursion computes cannot be proved
by an induction over its input here. It is proved along the behaviour instead:
`ReplayFits` says that every solution of the verifier's recursion over the
acknowledged events ends in what the writer has in memory (`Summary`), and an
append adds one step to each solution. The other parts say where an append that
was cut short may have left its object, its event and its temporary name
(`FilesFit`), that acknowledged events are on disk under consecutive numbers
(`AckedFits`), and that an event begun and not acknowledged would be accepted and
is true (`PendingFits`): this one carries `VerdictTruthful` over a crash between
the link of an event and its acknowledgement.

`AtomicAttemptProofs` proves `OneLeafEach`, `NothingIsLeftSilently` and
`SuccessIsGenuine` for any callers, requests, output caps, failing system calls,
foreign processes and signals. An attempt interrupted at an exposed place may
leave anything without a cleanup error; that it still never ends with an answer
is an invariant of its own, `ExposedFits` (`ExposureTells`): its exception is
kept from `acquire` or the runtime to the verdict, or replaced by a cleanup
error. `AttemptInv` follows ownership: who holds descriptors and leaf in each
step of `acquire` and of the lease (`LeaseFits`), when the executor has the
lease open (`HoldFits`), when a child may be unreaped (`ChildFits`), and the
lifecycle recorded so far (`RolesFit`). For what must be reported, `HoldFits`
and `ChildFits` carry the debt forward: a leaf or a child the handler could not
deal with is an error of cleanup at every later step up to the verdict. A nonce
is spent by one accepted token, so that one leaf belongs to it.

Assumptions are those of the modules: `None` is no record, no access and no
process; threads, states, candidates and operations are finite, costs are
positive, bounds are natural numbers, there is at least one occurrence. For the
cap owner: a caller may always settle conservatively (`settle` takes any basis),
the rejection of another transaction is not one of this owner's, and a receipt
of the rejection is not a receipt of an operation. All theorems are about
the specifications without fairness, which those of the runs imply.

Types, `CountersExact`, `NoLostWakeup`, `AdmissionDecidesAlone`,
`SnapshotStaysExact`, `CleanupSparesLiveTemps`, `RecordsWriteOnce`,
`WitnessAnswered` and `OnlyRefines` are proved for every instance and therefore
not checked by a run as well.

Only model-checked: everything about liveness (the prover has no fairness), and
the two properties of the oracle, `FrontierExact` and `SelectedOptimal`: they
compare it with the enumeration of all policies, an induction over sets of
policies that are put together choice by choice.

## 5. Not modelled, and why

The package has about 800,000 lines in 578 files. By far the most of them are
versioned contracts, authorities, fixtures, document builders and independent
verifiers: they recompute hashes and compare documents, keep no state and have
nothing that steps, fails or interleaves. The modules above cover the files whose
state survives a call or is shared by threads and processes. Within and around
them:

* Isolation: the probability arithmetic. A writer that is interrupted while it
  waits takes itself off the count but does not notify the readers it held back;
  they are woken by the next notify. `NoLostWakeup` is therefore proved without
  interruption; no document promises it with.
* Gate: allocation of the gate directory (planned), leases inherited through
  `fork`, the role and argument checks of the callers, crash points injected by
  tests, and what a file system may lose at a power failure: a returned `fsync`
  is taken at its word, so a kill is a process kill. The same holds for the
  phase owner, the cap owner and the journals.
* Phase owner: a lease finalized by another thread; a `replay`, `open` or
  `initialize` of the same attempt inside a lease body, which would wait for its
  own lock for ever and which nobody calls. A retried `initialize` parses a torn
  cursor without repairing it and fails closed, while `open` and `replay` repair
  it: so modelled.
* Cap owner: initialization (fails closed when it is repeated), the answers of
  the calls, a record directory restored from an older copy.
* Refinement: hashing and identifiers; duplicates in an inventory are not handed
  over by either loop.
* Oracle and audit: query validation, goals (no state of a production kernel
  reaches one), `lru_cache` sizes, materialized policies, documents and timings.
* Campaign and journal: what a boundary computes; the verifier of a finished run.
* Atomic attempt: trampoline, seccomp and landlock, frame documents, the drain
  timeout, a clone without a pidfd, removal of the leaf by others, interrupts
  inside the runtime's exception handler. After an interrupt between the wait
  that reaped the child and the assignment that notes it, the exception handler
  may kill by a process number that is free again.
* Occurrence routing and transport, dynamic router, proof state and memoization,
  observer IPC: candidates for later modules, see the plan. Native supervisors
  are system calls, verifiers have no state.

## 6. Plan

1. The oracle: that a frontier built stage by stage has the undominated values
   of all policies, with the sums of `QuotientProofs` for the merged mass.
2. `OccurrenceRoute` (`phase3e_occurrence_runner_v1.py`): what a failed stage
   keeps of the work before it. `_verified_control_prefix_v1` derives its
   accounting outside its `try`, so that a package bound to another context would
   make the failure path itself raise; to be settled by the model.
3. `GateAllocation`: initialization and opening of a gate against crashes, and
   that the result satisfies the initial state `RejectionGate` assumes.
4. `OccurrenceTransport`, `RouteProtocol`: chunks and batches of child processes;
   local recovery, second transaction, fallback.
5. A pure module for the behavioural partition against the coarsest stable one.
