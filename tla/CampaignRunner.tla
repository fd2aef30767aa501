--------------------------- MODULE CampaignRunner ---------------------------
(***************************************************************************)
(* The parallel occurrence schedule of a production campaign:              *)
(* v075_production_campaign_runner_v1.py, run_v075_production_campaign_v1. *)
(* A campaign installs the process-wide repository root, submits one task  *)
(* per occurrence to a pool with a thread for each, collects the futures   *)
(* in the order they finish, leaves the pool, clears the root and then     *)
(* finalizes.  Several threads may start campaigns in one process.         *)
(*                                                                         *)
(* Occurrence i is plan entry i.  What the boundary returns is one of      *)
(*   Result(j, s)         an occurrence result for entry j, verifiable iff *)
(*                        s                                                *)
(*   Bare("untyped")      something else                                   *)
(*   Bare("none")         None                                             *)
(*   Bare("exception")    it raised an Exception                           *)
(*   Bare("abort")        it raised a BaseException that is no Exception   *)
(***************************************************************************)
EXTENDS Naturals, FiniteSets, Sequences, SequencesExt

CONSTANTS
    Campaigns,         \* the threads that call run_v075_production_campaign_v1
    OccurrenceCount,   \* EXPECTED_OCCURRENCE_COUNT = REGISTERED_MAX_WORKERS
    NoCampaign,        \* no repository root is installed
    BoundaryOutcomes   \* what an occurrence's boundary may do

ASSUME CountPositive == OccurrenceCount \in Nat \ {0}
ASSUME NoCampaignIsNone == NoCampaign \notin Campaigns

Ordinals == 1..OccurrenceCount
Result(j, sound) == [tag |-> "result", entry |-> j, sound |-> sound]
Bare(tag) == [tag |-> tag, entry |-> 0, sound |-> FALSE]
Typed == {Result(j, s) : j \in Ordinals, s \in BOOLEAN}
Returned == Typed \cup {Bare("untyped"), Bare("none")}
Outcomes == Returned \cup {Bare("exception"), Bare("abort")}

ASSUME OutcomesKnown == BoundaryOutcomes \subseteq Outcomes

VARIABLES
    root,        \* _RUNNER_REPOSITORY_ROOT: whose root is installed
    stage,       \* where each campaign's caller is
    task,        \* the tasks of each campaign
    outcome,     \* what each boundary did, or Bare("unknown")
    active,      \* tasks inside invoke, as counted
    peak,        \* the largest active
    slots,       \* the results by ordinal
    failed,      \* the ordinals whose future raised
    completion,  \* the ordinals in the order they were collected
    aborted,     \* an exception is leaving the with block
    answer       \* how the call ended

poolVars == <<task, outcome, active, peak>>
collectVars == <<slots, failed, completion, aborted>>
campaignVars == <<root, stage, poolVars, collectVars, answer>>

NoAnswer == [kind |-> "none"]

CampaignInit ==
    /\ root = NoCampaign
    /\ stage = [c \in Campaigns |-> "idle"]
    /\ task = [c \in Campaigns |-> [i \in Ordinals |-> "unsubmitted"]]
    /\ outcome = [c \in Campaigns |-> [i \in Ordinals |-> Bare("unknown")]]
    /\ active = [c \in Campaigns |-> 0]
    /\ peak = [c \in Campaigns |-> 0]
    /\ slots = [c \in Campaigns |-> [i \in Ordinals |-> Bare("none")]]
    /\ failed = [c \in Campaigns |-> {}]
    /\ completion = [c \in Campaigns |-> <<>>]
    /\ aborted = [c \in Campaigns |-> FALSE]
    /\ answer = [c \in Campaigns |-> NoAnswer]

Reaches(c, s) == stage' = [stage EXCEPT ![c] = s]
Move(c, i, s) == task' = [task EXCEPT ![c][i] = s]
Answer(c, a) == answer' = [answer EXCEPT ![c] = a] /\ Reaches(c, "ended")

-----------------------------------------------------------------------------
(* The repository root                                                     *)

\* install() precedes the try block: a refused call clears nothing.
Install(c) ==
    /\ stage[c] = "idle"
    /\ \/ /\ root = NoCampaign
          /\ root' = c /\ Reaches(c, "submitting") /\ UNCHANGED answer
       \/ /\ root # NoCampaign
          /\ Answer(c, [kind |-> "refused"]) /\ UNCHANGED root
    /\ UNCHANGED <<poolVars, collectVars>>

-----------------------------------------------------------------------------
(* The pool's threads                                                      *)

\* invoke, up to the boundary
Enter(c, i) ==
    /\ task[c][i] = "queued"
    /\ Move(c, i, "entered")
    /\ active' = [active EXCEPT ![c] = @ + 1]
    /\ peak' = [peak EXCEPT ![c] = IF active[c] + 1 > @ THEN active[c] + 1 ELSE @]
    /\ UNCHANGED <<root, stage, outcome, collectVars, answer>>

\* The boundary asks for the root first, and raises if there is none.
GetRoot(c, i) ==
    /\ task[c][i] = "entered"
    /\ IF root = NoCampaign
         THEN /\ Move(c, i, "returning")
              /\ outcome' = [outcome EXCEPT ![c][i] = Bare("exception")]
         ELSE Move(c, i, "running") /\ UNCHANGED outcome
    /\ UNCHANGED <<root, stage, active, peak, collectVars, answer>>

\* execute_v075_production_occurrence_v1
Boundary(c, i) ==
    /\ task[c][i] = "running"
    /\ Move(c, i, "returning")
    /\ \E o \in BoundaryOutcomes : outcome' = [outcome EXCEPT ![c][i] = o]
    /\ UNCHANGED <<root, stage, active, peak, collectVars, answer>>

\* The finally clause of invoke, and the future's result.
Leave(c, i) ==
    /\ task[c][i] = "returning"
    /\ Move(c, i, "done")
    /\ active' = [active EXCEPT ![c] = @ - 1]
    /\ UNCHANGED <<root, stage, outcome, peak, collectVars, answer>>

-----------------------------------------------------------------------------
(* The caller's thread                                                     *)

\* The dict comprehension of pool.submit
Submit(c) ==
    /\ stage[c] = "submitting"
    /\ \E i \in Ordinals :
          /\ task[c][i] = "unsubmitted"
          /\ \A j \in 1..(i - 1) : task[c][j] # "unsubmitted"
          /\ Move(c, i, "queued")
          /\ IF i = OccurrenceCount THEN Reaches(c, "collecting") ELSE UNCHANGED stage
    /\ UNCHANGED <<root, outcome, active, peak, collectVars, answer>>

\* Mutant: the results are stored in the order they arrive.
Collect_ByArrival(c, i) ==
    /\ stage[c] = "collecting" /\ task[c][i] = "done" /\ i \notin Range(completion[c])
    /\ IF outcome[c][i] = Bare("abort")
         THEN aborted' = [aborted EXCEPT ![c] = TRUE] /\ Reaches(c, "draining")
              /\ UNCHANGED <<slots, failed, completion>>
         ELSE /\ slots' = IF outcome[c][i] \in Returned
                          THEN [slots EXCEPT ![c][Len(completion[c]) + 1] = outcome[c][i]]
                          ELSE slots
              /\ failed' = IF outcome[c][i] = Bare("exception")
                           THEN [failed EXCEPT ![c] = @ \cup {i}] ELSE failed
              /\ completion' = [completion EXCEPT ![c] = Append(@, i)]
              /\ Reaches(c, IF Len(completion[c]) + 1 = OccurrenceCount
                            THEN "draining" ELSE "collecting")
              /\ UNCHANGED aborted
    /\ UNCHANGED <<root, poolVars, answer>>

\* One turn of the loop over as_completed(futures).
Collect(c, i) ==
    /\ stage[c] = "collecting" /\ task[c][i] = "done" /\ i \notin Range(completion[c])
    /\ IF outcome[c][i] = Bare("abort")
         THEN aborted' = [aborted EXCEPT ![c] = TRUE] /\ Reaches(c, "draining")
              /\ UNCHANGED <<slots, failed, completion>>
         ELSE /\ slots' = IF outcome[c][i] \in Returned
                          THEN [slots EXCEPT ![c][i] = outcome[c][i]] ELSE slots
              /\ failed' = IF outcome[c][i] = Bare("exception")
                           THEN [failed EXCEPT ![c] = @ \cup {i}] ELSE failed
              /\ completion' = [completion EXCEPT ![c] = Append(@, i)]
              /\ Reaches(c, IF Len(completion[c]) + 1 = OccurrenceCount
                            THEN "draining" ELSE "collecting")
              /\ UNCHANGED aborted
    /\ UNCHANGED <<root, poolVars, answer>>

\* KeyboardInterrupt reaches the caller among the submissions or the futures.
Interrupt(c) ==
    /\ stage[c] \in {"submitting", "collecting"}
    /\ aborted' = [aborted EXCEPT ![c] = TRUE] /\ Reaches(c, "draining")
    /\ UNCHANGED <<root, poolVars, slots, failed, completion, answer>>

Failure(c, code, ordinals) ==
    [kind |-> "failure", code |-> code, failed |-> ordinals,
     slots |-> slots[c], completion |-> completion[c], peak |-> peak[c]]

Missing(c) == {i \in Ordinals : slots[c][i] = Bare("none")}

\* Mutant: the pool is shut down without waiting.
Drained_Always(c) == TRUE

\* The executor's __exit__ waits for every task that was submitted.
Drained(c) == \A i \in Ordinals : task[c][i] \in {"unsubmitted", "done"}

\* The rest of _run_parallel_schedule_v1 and the finally clause of the caller.
LeavePool(c) ==
    /\ stage[c] = "draining" /\ Drained(c)
    /\ root' = NoCampaign
    /\ \/ aborted[c] /\ Answer(c, [kind |-> "aborted"])
       \/ /\ ~aborted[c] /\ failed[c] # {}
          /\ Answer(c, Failure(c, "RUNNER_THREAD_EXCEPTION", failed[c]))
       \/ /\ ~aborted[c] /\ failed[c] = {} /\ Missing(c) # {}
          /\ Answer(c, Failure(c, "MISSING_THREAD_RESULT", Missing(c)))
       \/ /\ ~aborted[c] /\ failed[c] = {} /\ Missing(c) = {}
          /\ Reaches(c, "finalizing") /\ UNCHANGED answer
    /\ UNCHANGED <<poolVars, collectVars>>

-----------------------------------------------------------------------------
(* _finalize_v075_production_campaign_v1                                   *)

AllTyped(c) == \A i \in Ordinals : slots[c][i] \in Typed

Invalid(c) == {i \in Ordinals : slots[c][i].entry # i}

Distinct(c) == Cardinality({slots[c][i] : i \in Ordinals}) = OccurrenceCount

\* Each result against its plan entry, and all of them distinct.
IdentityFailure(c) ==
    /\ stage[c] = "finalizing"
    /\ \/ /\ ~AllTyped(c)
          /\ Answer(c, Failure(c, "OCCURRENCE_OUTPUT_IDENTITY_FAILURE", Ordinals))
       \/ /\ AllTyped(c) /\ ~(Invalid(c) = {} /\ Distinct(c))
          /\ Answer(c, Failure(c, "OCCURRENCE_OUTPUT_IDENTITY_FAILURE",
                               IF Invalid(c) # {} THEN Invalid(c) ELSE Ordinals))
    /\ UNCHANGED <<root, poolVars, collectVars>>

Identified(c) ==
    stage[c] = "finalizing" /\ AllTyped(c) /\ Invalid(c) = {} /\ Distinct(c)

Unverifiable(c) == {i \in Ordinals : ~slots[c][i].sound}

\* The results are verified one by one: the first bad one is reported.
SemanticFailure(c) ==
    /\ Identified(c)
    /\ \E i \in Unverifiable(c) :
          /\ \A j \in Unverifiable(c) : i <= j
          /\ Answer(c, Failure(c, "OCCURRENCE_SEMANTIC_VERIFICATION_FAILURE", {i}))
    /\ UNCHANGED <<root, poolVars, collectVars>>

\* Reconciliation and the endpoint may find occurrences invalidating, or fail.
EndpointFailure(c) ==
    /\ Identified(c) /\ Unverifiable(c) = {}
    /\ \/ \E bad \in SUBSET Ordinals :
             Answer(c, Failure(c, "PROTOCOL_OR_INTEGRITY_TERMINAL",
                               IF bad = {} THEN Ordinals ELSE bad))
       \/ Answer(c, Failure(c, "CAMPAIGN_RECONCILIATION_OR_ENDPOINT_FAILURE", Ordinals))
    /\ UNCHANGED <<root, poolVars, collectVars>>

IssueRun(c) ==
    /\ Identified(c) /\ Unverifiable(c) = {}
    /\ Answer(c, [kind |-> "run", slots |-> slots[c], completion |-> completion[c],
                  peak |-> peak[c]])
    /\ UNCHANGED <<root, poolVars, collectVars>>

-----------------------------------------------------------------------------
(* Specification                                                           *)

TaskStep(c, i) == Enter(c, i) \/ GetRoot(c, i) \/ Boundary(c, i) \/ Leave(c, i)

CallerStep(c) ==
    \/ Submit(c) \/ (\E i \in Ordinals : Collect(c, i)) \/ LeavePool(c)
    \/ IdentityFailure(c) \/ SemanticFailure(c) \/ EndpointFailure(c) \/ IssueRun(c)

\* Every call has ended.
AllEnded ==
    /\ \A c \in Campaigns : stage[c] = "ended"
    /\ UNCHANGED campaignVars

CampaignNext ==
    \/ \E c \in Campaigns :
          \/ Install(c) \/ Interrupt(c) \/ CallerStep(c)
          \/ \E i \in Ordinals : TaskStep(c, i)
    \/ AllEnded

CampaignSpec == CampaignInit /\ [][CampaignNext]_campaignVars

-----------------------------------------------------------------------------
(* Properties                                                              *)

\* An occurrence never runs under another campaign's repository root, and none
\* fails for want of one: the root outlives every task of its campaign, also
\* when an exception leaves the pool while tasks are still queued.  And it is
\* released at the end of every schedule, whichever way that ends.
RootOutlivesTasks ==
    /\ \A c \in Campaigns :
         (\E i \in Ordinals : task[c][i] \in {"queued", "entered", "running"}) => root = c
    /\ root # NoCampaign => stage[root] \in {"submitting", "collecting", "draining"}

\* The ordinals a failure reports are those at fault: a raised exception, a
\* missing result, a result of another entry and an unverifiable result are
\* each charged to the occurrence whose own boundary produced it.
CulpritsNamed(a, o) ==
    a.kind = "failure" =>
        /\ a.failed # {}
        /\ CASE a.code = "RUNNER_THREAD_EXCEPTION" ->
                  a.failed = {i \in Ordinals : o[i] = Bare("exception")}
             [] a.code = "MISSING_THREAD_RESULT" ->
                  a.failed = {i \in Ordinals : o[i] = Bare("none")}
             [] a.code = "OCCURRENCE_OUTPUT_IDENTITY_FAILURE" ->
                  a.failed = Ordinals \/ a.failed = {i \in Ordinals : o[i].entry # i}
             [] a.code = "OCCURRENCE_SEMANTIC_VERIFICATION_FAILURE" ->
                  \A i \in a.failed : o[i] = Result(i, FALSE)
             [] OTHER -> \A i \in Ordinals : o[i] = Result(i, TRUE)

\* A failure artifact is never malformed, which would hide the failure behind
\* an error of the artifact's constructor: each ordinal completed exactly
\* once, and the peak is within the registered workers.
ArtifactWellFormed(a) ==
    a.kind \in {"failure", "run"} =>
        /\ Len(a.completion) = OccurrenceCount
        /\ Range(a.completion) = Ordinals
        /\ a.peak \in 1..OccurrenceCount

\* A campaign run is issued only when every occurrence was executed, and each
\* slot holds the verified result its own boundary returned for its own entry.
RunGenuine(a, o) ==
    a.kind = "run" =>
        \A i \in Ordinals : a.slots[i] = o[i] /\ o[i] = Result(i, TRUE)

\* What a campaign answers is what happened, in whatever order its futures
\* finish: a failure names its culprits in a well-formed artifact, and a run is
\* made of every occurrence's own verified result.
AnswerHonest ==
    \A c \in Campaigns :
        /\ CulpritsNamed(answer[c], outcome[c])
        /\ ArtifactWellFormed(answer[c])
        /\ RunGenuine(answer[c], outcome[c])
=============================================================================
