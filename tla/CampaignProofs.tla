--------------------------- MODULE CampaignProofs ---------------------------
(***************************************************************************)
(* Safety of the campaigns: of the parallel occurrence schedule of a       *)
(* production campaign, for any number of campaigns and occurrences and    *)
(* whatever their boundaries do, and of the attempt journal of a           *)
(* registered one, for any number of runners, occurrences and checkpoints. *)
(* What the verifier's replay of that journal computes is followed along   *)
(* the behaviour: the invariant says what every solution of its recursion  *)
(* ends in, and one append adds one step to each of them.                  *)
(***************************************************************************)
EXTENDS CampaignRunner, AttemptJournal, FiniteSetTheorems, SequenceTheorems, TLAPS

-----------------------------------------------------------------------------
(* The schedule: the invariant                                             *)

Stages == {"idle", "submitting", "collecting", "draining", "finalizing", "ended"}
Live == {"submitting", "collecting", "draining"}
TaskStates == {"unsubmitted", "queued", "entered", "running", "returning", "done"}
Before == {"unsubmitted", "queued", "entered", "running"}
Inside == {"entered", "running", "returning"}
Unknown == Bare("unknown")

CampaignTypeOK ==
    /\ root \in Campaigns \cup {NoCampaign}
    /\ stage \in [Campaigns -> Stages]
    /\ task \in [Campaigns -> [Ordinals -> TaskStates]]
    /\ outcome \in [Campaigns -> [Ordinals -> Outcomes \cup {Unknown}]]
    /\ active \in [Campaigns -> Nat]
    /\ peak \in [Campaigns -> Nat]
    /\ slots \in [Campaigns -> [Ordinals -> Returned]]
    /\ failed \in [Campaigns -> SUBSET Ordinals]
    /\ completion \in [Campaigns -> Seq(Ordinals)]
    /\ aborted \in [Campaigns -> BOOLEAN]
    /\ answer = [c \in Campaigns |-> answer[c]]

\* The installed root belongs to the one campaign whose schedule is running.
RootFits ==
    /\ root # NoCampaign => stage[root] \in Live
    /\ \A c \in Campaigns : stage[c] \in Live => root = c

\* Tasks exist only while the schedule of their campaign is running.
TasksFit(c) ==
    /\ stage[c] = "idle" => \A i \in Ordinals : task[c][i] = "unsubmitted"
    /\ stage[c] = "collecting" => \A i \in Ordinals : task[c][i] # "unsubmitted"
    /\ stage[c] \notin Live => \A i \in Ordinals : task[c][i] \in {"unsubmitted", "done"}
    /\ \A i \in Ordinals : task[c][i] \in Before <=> outcome[c][i] = Unknown

\* The tasks inside invoke are the ones counted, never more than there are.
CountFits(c) ==
    /\ active[c] = Cardinality({i \in Ordinals : task[c][i] \in Inside})
    /\ peak[c] <= OccurrenceCount
    /\ \A i \in Ordinals : task[c][i] \in Inside \cup {"done"} => peak[c] >= 1

\* Collected is what the futures of the collected ordinals held.
CollectionFits(c) ==
    /\ Cardinality(Range(completion[c])) = Len(completion[c])
    /\ \A i \in Range(completion[c]) :
         task[c][i] = "done" /\ outcome[c][i] # Bare("abort")
    /\ \A i \in Ordinals :
         slots[c][i] = IF i \in Range(completion[c]) /\ outcome[c][i] \in Returned
                       THEN outcome[c][i] ELSE Bare("none")
    /\ failed[c] = {i \in Range(completion[c]) : outcome[c][i] = Bare("exception")}
    /\ stage[c] \in {"idle", "submitting", "collecting", "finalizing"} => ~aborted[c]
    /\ stage[c] = "draining" /\ ~aborted[c] => Len(completion[c]) = OccurrenceCount
    /\ stage[c] = "finalizing" =>
         Len(completion[c]) = OccurrenceCount /\ failed[c] = {} /\ Missing(c) = {}

Honest(a, o) == CulpritsNamed(a, o) /\ ArtifactWellFormed(a) /\ RunGenuine(a, o)

\* The answer is the last thing a call does, and it is honest.
AnswerFits(c) ==
    /\ stage[c] # "ended" => answer[c] = NoAnswer
    /\ Honest(answer[c], outcome[c])

CampaignFits(c) == TasksFit(c) /\ CountFits(c) /\ CollectionFits(c) /\ AnswerFits(c)

CampaignInv ==
    /\ CampaignTypeOK
    /\ RootFits
    /\ \A c \in Campaigns : CampaignFits(c)
-----------------------------------------------------------------------------
(* The schedule: lemmas                                                    *)

\* There is an occurrence, and the occurrences can be counted.
LEMMA OrdinalFacts ==
    /\ IsFiniteSet(Ordinals) /\ Cardinality(Ordinals) = OccurrenceCount
    /\ Ordinals # {} /\ Ordinals \subseteq Nat
  <1>1. OccurrenceCount \in Int /\ OccurrenceCount >= 1 /\ 1 \in Int
    BY CountPositive
  <1>2. IsFiniteSet(1..OccurrenceCount) /\ Cardinality(1..OccurrenceCount) = OccurrenceCount
    BY <1>1, FS_Interval
  <1> QED BY <1>1, <1>2 DEF Ordinals

\* What a boundary may do is told apart by its tag.
LEMMA OutcomeFacts ==
    /\ Unknown \notin Outcomes /\ Bare("none") \in Returned
    /\ Bare("exception") \notin Returned /\ Bare("abort") \notin Returned
    /\ Bare("none") \notin Typed /\ Bare("exception") # Bare("none")
    /\ Bare("exception") \in Outcomes /\ Returned \subseteq Outcomes
    /\ Outcomes = Returned \cup {Bare("exception"), Bare("abort")}
    /\ Typed \subseteq Returned
  <1>1. \A x \in Typed : x.tag = "result"
    BY DEF Typed, Result
  <1>2. \A t : Bare(t).tag = t
    BY DEF Bare
  <1>3. \A x \in Outcomes : x.tag # "unknown"
    BY <1>1, <1>2 DEF Outcomes, Returned
  <1>4. \A x \in Returned : x.tag \notin {"exception", "abort"}
    BY <1>1, <1>2 DEF Returned
  <1> QED BY <1>1, <1>2, <1>3, <1>4 DEF Unknown, Outcomes, Returned

\* A result is determined by its entry and by whether it can be verified.
LEMMA TypedFacts ==
    ASSUME NEW x \in Typed
    PROVE  /\ x.sound => x = Result(x.entry, TRUE)
           /\ ~x.sound => x = Result(x.entry, FALSE)
  <1>1. PICK j \in Ordinals, s \in BOOLEAN : x = Result(j, s)
    BY DEF Typed
  <1>2. x.entry = j /\ x.sound = s
    BY <1>1 DEF Result
  <1> QED BY <1>1, <1>2

\* The range of a sequence that grows by one element.
LEMMA RangeAppend ==
    ASSUME NEW s \in Seq(Ordinals), NEW x \in Ordinals
    PROVE  /\ Range(Append(s, x)) = Range(s) \cup {x}
           /\ Len(Append(s, x)) = Len(s) + 1
           /\ Append(s, x) \in Seq(Ordinals)
  <1>1. /\ Len(s) \in Nat /\ DOMAIN s = 1..Len(s)
        /\ DOMAIN Append(s, x) = 1..(Len(s) + 1)
        /\ \A k \in 1..Len(s) : Append(s, x)[k] = s[k]
        /\ Append(s, x)[Len(s) + 1] = x
    OBVIOUS
  <1>2. 1..(Len(s) + 1) = (1..Len(s)) \cup {Len(s) + 1}
    BY <1>1
  <1>3. Append(s, x) \in Seq(Ordinals) /\ Len(Append(s, x)) = Len(s) + 1
    OBVIOUS
  <1>4. Range(Append(s, x)) = {Append(s, x)[k] : k \in (1..Len(s)) \cup {Len(s) + 1}}
    BY <1>1, <1>2 DEF Range
  <1>5. Range(s) = {s[k] : k \in 1..Len(s)}
    BY <1>1 DEF Range
  <1>6. Range(Append(s, x)) = Range(s) \cup {x}
    BY <1>1, <1>4, <1>5
  <1> QED BY <1>3, <1>6

\* The elements of a completion order are ordinals, and finitely many.
LEMMA RangeFacts ==
    ASSUME NEW s \in Seq(Ordinals)
    PROVE  Range(s) \subseteq Ordinals /\ IsFiniteSet(Range(s))
  <1>1. \A k \in DOMAIN s : s[k] \in Ordinals
    OBVIOUS
  <1>2. Range(s) \subseteq Ordinals
    BY <1>1 DEF Range
  <1> QED BY <1>2, OrdinalFacts, FS_Subset

\* Nothing of campaign d changes.
Same(d) ==
    /\ stage'[d] = stage[d] /\ task'[d] = task[d] /\ outcome'[d] = outcome[d]
    /\ active'[d] = active[d] /\ peak'[d] = peak[d] /\ slots'[d] = slots[d]
    /\ failed'[d] = failed[d] /\ completion'[d] = completion[d]
    /\ aborted'[d] = aborted[d] /\ answer'[d] = answer[d]

\* A campaign of which nothing changes keeps its invariant.
LEMMA SameFits ==
    ASSUME NEW d \in Campaigns, Same(d), CampaignFits(d)
    PROVE  CampaignFits(d)'
  <1>1. TasksFit(d)'
    BY DEF Same, CampaignFits, TasksFit
  <1>2. CountFits(d)'
    BY DEF Same, CampaignFits, CountFits
  <1>3. CollectionFits(d)'
    BY DEF Same, CampaignFits, CollectionFits, Missing
  <1>4. AnswerFits(d)'
    BY DEF Same, CampaignFits, AnswerFits
  <1> QED BY <1>1, <1>2, <1>3, <1>4 DEF CampaignFits

\* A step of one campaign is looked at for that campaign alone.
LEMMA CampaignAssembles ==
    ASSUME CampaignInv, NEW c \in Campaigns,
           CampaignTypeOK', RootFits', CampaignFits(c)',
           \A d \in Campaigns \ {c} : Same(d)
    PROVE  CampaignInv'
  <1>1. \A d \in Campaigns : CampaignFits(d)'
    BY SameFits DEF CampaignInv
  <1> QED BY <1>1 DEF CampaignInv

\* An answer without an artifact says nothing that could be wrong.
LEMMA QuietAnswers ==
    ASSUME NEW o, NEW k \in {"none", "refused", "aborted"}
    PROVE  Honest([kind |-> k], o)
  BY DEF Honest, CulpritsNamed, ArtifactWellFormed, RunGenuine
-----------------------------------------------------------------------------
(* The schedule: the steps of the pool                                     *)

\* Nothing has begun in the initial state.
LEMMA CampaignInitFits == CampaignInit => CampaignInv
  <1> SUFFICES ASSUME CampaignInit PROVE CampaignInv
    OBVIOUS
  <1>1. CampaignTypeOK
    BY OutcomeFacts DEF CampaignInit, CampaignTypeOK, Stages, TaskStates, Unknown
  <1>2. RootFits
    BY DEF CampaignInit, RootFits, Live
  <1>3. ASSUME NEW c \in Campaigns
        PROVE  CampaignFits(c)
    <2>1. TasksFit(c)
      BY DEF CampaignInit, TasksFit, Live, Before, Unknown
    <2>2. {i \in Ordinals : task[c][i] \in Inside} = {}
      BY DEF CampaignInit, Inside
    <2>3. CountFits(c)
      <3>1. /\ active[c] = 0 /\ peak[c] = 0 /\ OccurrenceCount \in Nat
            /\ \A i \in Ordinals : task[c][i] = "unsubmitted"
        BY CountPositive DEF CampaignInit
      <3> QED BY <2>2, <3>1, FS_EmptySet DEF CountFits, Inside
    <2>4. Range(completion[c]) = {} /\ Len(completion[c]) = 0
      BY DEF CampaignInit, Range
    <2>5. CollectionFits(c)
      BY <2>4, FS_EmptySet DEF CampaignInit, CollectionFits
    <2>6. AnswerFits(c)
      BY QuietAnswers DEF CampaignInit, AnswerFits, NoAnswer
    <2> QED BY <2>1, <2>3, <2>5, <2>6 DEF CampaignFits
  <1> QED BY <1>1, <1>2, <1>3 DEF CampaignInv

\* install(): the root is free, or the call is refused.
LEMMA InstallFits ==
    ASSUME CampaignInv, NEW c \in Campaigns, Install(c)
    PROVE  CampaignInv'
  <1> USE DEF CampaignInv
  <1>1. CampaignTypeOK'
    BY DEF Install, CampaignTypeOK, Reaches, Answer, poolVars, collectVars, Stages
  <1>2. \A d \in Campaigns \ {c} : Same(d)
    BY DEF Install, CampaignTypeOK, Reaches, Answer, poolVars, collectVars, Same
  <1>3. RootFits'
    BY NoCampaignIsNone DEF Install, CampaignTypeOK, Reaches, Answer, RootFits, Live
  <1>4. TasksFit(c)' /\ CountFits(c)'
    <2>1. UNCHANGED poolVars /\ stage[c] = "idle"
      BY DEF Install
    <2>2. \A i \in Ordinals : task[c][i] = "unsubmitted"
      BY <2>1 DEF CampaignFits, TasksFit
    <2>3. stage'[c] \in {"submitting", "ended"}
      BY DEF Install, CampaignTypeOK, Reaches, Answer
    <2>4. TasksFit(c)'
      BY <2>1, <2>2, <2>3 DEF poolVars, CampaignFits, TasksFit, Live
    <2> QED BY <2>1, <2>4 DEF poolVars, CampaignFits, CountFits
  <1>5. CollectionFits(c)'
    BY DEF Install, CampaignTypeOK, Reaches, Answer, poolVars, collectVars, CampaignFits,
           CollectionFits
  <1>6. AnswerFits(c)'
    BY QuietAnswers DEF Install, CampaignTypeOK, Reaches, Answer, poolVars, CampaignFits,
       AnswerFits
  <1>7. CampaignFits(c)'
    BY <1>4, <1>5, <1>6 DEF CampaignFits
  <1> QED BY <1>1, <1>2, <1>3, <1>7, CampaignAssembles

\* A task of a running schedule goes on; its future is not yet collected.
LEMMA TaskMoves ==
    ASSUME CampaignInv, NEW c \in Campaigns, NEW i \in Ordinals,
           NEW s \in {"entered", "running", "returning", "done"},
           NEW o \in Outcomes \cup {Unknown},
           task[c][i] \in {"queued", "entered", "running", "returning"},
           Move(c, i, s), outcome' = [outcome EXCEPT ![c][i] = o],
           s \in Before <=> o = Unknown,
           UNCHANGED <<root, stage, collectVars, answer>>,
           active' \in [Campaigns -> Nat], peak' \in [Campaigns -> Nat],
           \A d \in Campaigns \ {c} : active'[d] = active[d] /\ peak'[d] = peak[d],
           CountFits(c)'
    PROVE  CampaignInv'
  <1> USE DEF CampaignInv
  <1>1. CampaignTypeOK'
    BY DEF CampaignTypeOK, Move, collectVars, TaskStates
  <1>2. \A d \in Campaigns \ {c} : Same(d)
    BY DEF CampaignTypeOK, Move, collectVars, Same
  <1>3. RootFits'
    BY DEF RootFits
  <1>4. /\ task'[c][i] = s /\ outcome'[c][i] = o
        /\ \A j \in Ordinals \ {i} : task'[c][j] = task[c][j] /\ outcome'[c][j] = outcome[c][j]
    BY DEF CampaignTypeOK, Move
  <1>5. TasksFit(c) /\ CollectionFits(c) /\ AnswerFits(c)
    BY DEF CampaignFits
  <1>6. stage[c] \in Live /\ stage'[c] = stage[c]
    BY <1>5 DEF TasksFit
  <1>7. TasksFit(c)'
    BY <1>4, <1>5, <1>6 DEF TasksFit, Live
  <1>8. CollectionFits(c)'
    <2>1. /\ completion'[c] = completion[c] /\ slots'[c] = slots[c]
          /\ failed'[c] = failed[c] /\ aborted'[c] = aborted[c]
      BY DEF collectVars
    <2>2. Range(completion[c]) \subseteq Ordinals /\ i \notin Range(completion[c])
      BY <1>5, RangeFacts DEF CampaignTypeOK, CollectionFits
    <2>3. \A j \in Range(completion[c]) :
            task'[c][j] = task[c][j] /\ outcome'[c][j] = outcome[c][j]
      BY <1>4, <2>2
    <2>4. {j \in Range(completion[c]) : outcome'[c][j] = Bare("exception")}
             = {j \in Range(completion[c]) : outcome[c][j] = Bare("exception")}
      BY <2>3
    <2>5. \A j \in Ordinals :
            slots[c][j] = IF j \in Range(completion[c]) /\ outcome'[c][j] \in Returned
                          THEN outcome'[c][j] ELSE Bare("none")
      BY <1>5, <2>3 DEF CollectionFits
    <2> QED BY <1>5, <1>6, <2>1, <2>3, <2>4, <2>5 DEF CollectionFits, Live
  <1>9. AnswerFits(c)'
    BY <1>5, <1>6, QuietAnswers DEF AnswerFits, Live, NoAnswer
  <1> QED BY <1>1, <1>2, <1>3, <1>7, <1>8, <1>9, CampaignAssembles DEF CampaignFits

\* Entering invoke counts a task; there are never more inside than ordinals.
LEMMA EnterFits ==
    ASSUME CampaignInv, NEW c \in Campaigns, NEW i \in Ordinals, Enter(c, i)
    PROVE  CampaignInv'
  <1> DEFINE In == {j \in Ordinals : task[c][j] \in Inside}
  <1>1. /\ task[c][i] = "queued" /\ Move(c, i, "entered")
        /\ active' = [active EXCEPT ![c] = @ + 1]
        /\ peak' = [peak EXCEPT ![c] = IF active[c] + 1 > @ THEN active[c] + 1 ELSE @]
        /\ UNCHANGED <<root, stage, outcome, collectVars, answer>>
    BY DEF Enter
  <1>2. CampaignTypeOK /\ CountFits(c) /\ TasksFit(c)
    BY DEF CampaignInv, CampaignFits
  <1>3. In' = In \cup {i} /\ i \notin In
    BY <1>1, <1>2 DEF CampaignTypeOK, Move, Inside
  <1>4. IsFiniteSet(In) /\ IsFiniteSet(In') /\ Cardinality(In') <= OccurrenceCount
    BY OrdinalFacts, FS_Subset
  <1>5. Cardinality(In') = Cardinality(In) + 1
    BY <1>3, <1>4, FS_AddElement
  <1>6. /\ active[c] = Cardinality(In) /\ active[c] \in Nat /\ peak[c] \in Nat
        /\ OccurrenceCount \in Nat
    BY <1>2, CountPositive DEF CountFits, CampaignTypeOK
  <1>7. active'[c] = Cardinality(In') /\ peak'[c] <= OccurrenceCount /\ peak'[c] >= 1
    BY <1>1, <1>2, <1>4, <1>5, <1>6 DEF CampaignTypeOK, CountFits
  <1>8. CountFits(c)'
    BY <1>7 DEF CountFits
  <1>9. /\ active' \in [Campaigns -> Nat] /\ peak' \in [Campaigns -> Nat]
        /\ \A d \in Campaigns \ {c} : active'[d] = active[d] /\ peak'[d] = peak[d]
    BY <1>1, <1>2 DEF CampaignTypeOK
  <1>10. /\ outcome[c][i] = Unknown
         /\ outcome' = [outcome EXCEPT ![c][i] = Unknown]
    BY <1>1, <1>2 DEF CampaignTypeOK, TasksFit, Before
  <1>11. "entered" \in Before
    BY DEF Before
  <1> HIDE DEF In
  <1> QED BY <1>1, <1>8, <1>9, <1>10, <1>11, TaskMoves

\* Inside invoke the count does not change.
LEMMA InsideMoves ==
    ASSUME CampaignInv, NEW c \in Campaigns, NEW i \in Ordinals,
           NEW s \in {"running", "returning"}, task[c][i] \in Inside,
           Move(c, i, s), UNCHANGED <<active, peak>>
    PROVE  /\ CountFits(c)'
           /\ active' \in [Campaigns -> Nat] /\ peak' \in [Campaigns -> Nat]
           /\ \A d \in Campaigns \ {c} : active'[d] = active[d] /\ peak'[d] = peak[d]
  <1>1. CampaignTypeOK /\ CountFits(c)
    BY DEF CampaignInv, CampaignFits
  <1>2. \A j \in Ordinals : task'[c][j] \in Inside <=> task[c][j] \in Inside
    BY <1>1 DEF CampaignTypeOK, Move, Inside
  <1>3. {j \in Ordinals : task'[c][j] \in Inside} = {j \in Ordinals : task[c][j] \in Inside}
    BY <1>2
  <1>4. \A j \in Ordinals : task'[c][j] = "done" => task[c][j] = "done"
    BY <1>1 DEF CampaignTypeOK, Move, Inside
  <1>5. CountFits(c)'
    BY <1>1, <1>2, <1>3, <1>4 DEF CountFits
  <1> QED BY <1>1, <1>5 DEF CampaignTypeOK

\* The boundary asks for the root.
LEMMA GetRootFits ==
    ASSUME CampaignInv, NEW c \in Campaigns, NEW i \in Ordinals, GetRoot(c, i)
    PROVE  CampaignInv'
  <1>1. task[c][i] = "entered" /\ UNCHANGED <<root, stage, active, peak, collectVars, answer>>
    BY DEF GetRoot
  <1>2. CampaignTypeOK /\ TasksFit(c)
    BY DEF CampaignInv, CampaignFits
  <1>3. CASE root = NoCampaign
    <2>1. /\ Move(c, i, "returning")
          /\ outcome' = [outcome EXCEPT ![c][i] = Bare("exception")]
      BY <1>3 DEF GetRoot
    <2>2. "returning" \notin Before /\ Bare("exception") # Unknown /\ Bare("exception") \in Outcomes
      BY OutcomeFacts DEF Before
    <2> QED BY <1>1, <2>1, <2>2, InsideMoves, TaskMoves DEF Inside
  <1>4. CASE root # NoCampaign
    <2>1. Move(c, i, "running") /\ UNCHANGED outcome
      BY <1>4 DEF GetRoot
    <2>2. outcome[c][i] = Unknown /\ outcome' = [outcome EXCEPT ![c][i] = Unknown]
      BY <1>1, <1>2, <2>1 DEF CampaignTypeOK, TasksFit, Before
    <2>3. "running" \in Before
      BY DEF Before
    <2> QED BY <1>1, <2>1, <2>2, <2>3, InsideMoves, TaskMoves DEF Inside
  <1> QED BY <1>3, <1>4

\* The boundary does something.
LEMMA BoundaryFits ==
    ASSUME CampaignInv, NEW c \in Campaigns, NEW i \in Ordinals, Boundary(c, i)
    PROVE  CampaignInv'
  <1>1. /\ task[c][i] = "running" /\ Move(c, i, "returning")
        /\ UNCHANGED <<root, stage, active, peak, collectVars, answer>>
    BY DEF Boundary
  <1>2. PICK o \in BoundaryOutcomes : outcome' = [outcome EXCEPT ![c][i] = o]
    BY DEF Boundary
  <1>3. o \in Outcomes /\ o # Unknown /\ "returning" \notin Before
    BY OutcomesKnown, OutcomeFacts DEF Before
  <1> QED BY <1>1, <1>2, <1>3, InsideMoves, TaskMoves DEF Inside

\* Leaving invoke takes a task off the count.
LEMMA LeaveFits ==
    ASSUME CampaignInv, NEW c \in Campaigns, NEW i \in Ordinals, Leave(c, i)
    PROVE  CampaignInv'
  <1> DEFINE In == {j \in Ordinals : task[c][j] \in Inside}
  <1>1. /\ task[c][i] = "returning" /\ Move(c, i, "done")
        /\ active' = [active EXCEPT ![c] = @ - 1]
        /\ UNCHANGED <<root, stage, outcome, peak, collectVars, answer>>
    BY DEF Leave
  <1>2. CampaignTypeOK /\ CountFits(c) /\ TasksFit(c)
    BY DEF CampaignInv, CampaignFits
  <1>3. In' = In \ {i} /\ i \in In
    BY <1>1, <1>2 DEF CampaignTypeOK, Move, Inside
  <1>4. IsFiniteSet(In) /\ IsFiniteSet(In')
    BY OrdinalFacts, FS_Subset
  <1>5. Cardinality(In') = Cardinality(In) - 1 /\ Cardinality(In') \in Nat
    BY <1>3, <1>4, FS_RemoveElement, FS_CardinalityType
  <1>6. active[c] = Cardinality(In) /\ active'[c] = Cardinality(In')
    BY <1>1, <1>2, <1>5 DEF CountFits, CampaignTypeOK
  <1>7. peak[c] >= 1
    BY <1>1, <1>2 DEF CountFits, Inside
  <1>8. CountFits(c)'
    BY <1>1, <1>2, <1>6, <1>7 DEF CountFits
  <1>9. /\ active' \in [Campaigns -> Nat] /\ peak' \in [Campaigns -> Nat]
        /\ \A d \in Campaigns \ {c} : active'[d] = active[d] /\ peak'[d] = peak[d]
    BY <1>1, <1>2, <1>5, <1>6 DEF CampaignTypeOK
  <1>10. outcome[c][i] # Unknown /\ outcome[c][i] \in Outcomes \cup {Unknown}
    BY <1>1, <1>2 DEF CampaignTypeOK, TasksFit, Before
  <1>12. outcome' = [outcome EXCEPT ![c][i] = outcome[c][i]]
    BY <1>1, <1>2 DEF CampaignTypeOK
  <1>11. "done" \notin Before
    BY DEF Before
  <1> HIDE DEF In
  <1> QED BY <1>1, <1>8, <1>9, <1>10, <1>11, <1>12, TaskMoves
-----------------------------------------------------------------------------
(* The schedule: the caller's steps                                        *)

\* pool.submit: one more task, none of them collected yet.
LEMMA SubmitFits ==
    ASSUME CampaignInv, NEW c \in Campaigns, Submit(c)
    PROVE  CampaignInv'
  <1> USE DEF CampaignInv
  <1>1. PICK i \in Ordinals :
          /\ task[c][i] = "unsubmitted"
          /\ \A j \in 1..(i - 1) : task[c][j] # "unsubmitted"
          /\ Move(c, i, "queued")
          /\ IF i = OccurrenceCount THEN Reaches(c, "collecting") ELSE UNCHANGED stage
    BY DEF Submit
  <1>2. /\ stage[c] = "submitting"
        /\ UNCHANGED <<root, outcome, active, peak, collectVars, answer>>
    BY DEF Submit
  <1>3. CampaignTypeOK'
    BY <1>1, <1>2 DEF CampaignTypeOK, Move, Reaches, collectVars, Stages, TaskStates
  <1>4. \A d \in Campaigns \ {c} : Same(d)
    BY <1>1, <1>2 DEF CampaignTypeOK, Move, Reaches, collectVars, Same
  <1>5. /\ stage'[c] \in {"submitting", "collecting"}
        /\ stage'[c] = "collecting" => i = OccurrenceCount
    BY <1>1, <1>2 DEF CampaignTypeOK, Reaches
  <1>6. RootFits'
    BY <1>1, <1>2 DEF CampaignTypeOK, Reaches, RootFits, Live
  <1>7. /\ task'[c][i] = "queued"
        /\ \A j \in Ordinals \ {i} : task'[c][j] = task[c][j]
    BY <1>1 DEF CampaignTypeOK, Move
  <1>8. TasksFit(c)'
    <2>1. i = OccurrenceCount => \A j \in Ordinals : task'[c][j] # "unsubmitted"
      BY <1>1, <1>7, CountPositive DEF Ordinals
    <2>2. \A j \in Ordinals : task'[c][j] \in Before <=> outcome'[c][j] = Unknown
      BY <1>1, <1>2, <1>7 DEF CampaignFits, TasksFit, Before
    <2> QED BY <1>5, <2>1, <2>2 DEF TasksFit, Live
  <1>9. CountFits(c)'
    <2>1. {j \in Ordinals : task'[c][j] \in Inside} = {j \in Ordinals : task[c][j] \in Inside}
      BY <1>1, <1>7 DEF Inside
    <2> QED BY <1>1, <1>2, <1>7, <2>1 DEF CampaignFits, CountFits, Inside
  <1>10. CollectionFits(c)'
    <2>1. /\ completion'[c] = completion[c] /\ slots'[c] = slots[c]
          /\ failed'[c] = failed[c] /\ aborted'[c] = aborted[c] /\ outcome'[c] = outcome[c]
      BY <1>2 DEF collectVars
    <2>2. CollectionFits(c) /\ Range(completion[c]) \subseteq Ordinals
      BY RangeFacts DEF CampaignFits, CampaignTypeOK
    <2>3. \A j \in Range(completion[c]) : task'[c][j] = "done"
      BY <1>1, <1>7, <2>2 DEF CollectionFits
    <2> QED BY <1>2, <1>5, <2>1, <2>2, <2>3 DEF CollectionFits
  <1>11. AnswerFits(c)'
    BY <1>2, <1>5 DEF CampaignFits, AnswerFits
  <1> QED BY <1>3, <1>4, <1>6, <1>8, <1>9, <1>10, <1>11, CampaignAssembles DEF CampaignFits

\* What the caller's later steps leave alone: the pool of its campaign.
LEMMA PoolStays ==
    ASSUME CampaignInv, NEW c \in Campaigns, UNCHANGED poolVars,
           stage'[c] = "collecting" => stage[c] = "collecting",
           stage'[c] # "idle",
           stage'[c] \notin Live => \A i \in Ordinals : task[c][i] \in {"unsubmitted", "done"}
    PROVE  TasksFit(c)' /\ CountFits(c)'
  <1>1. TasksFit(c) /\ CountFits(c)
    BY DEF CampaignInv, CampaignFits
  <1> QED BY <1>1 DEF TasksFit, CountFits, poolVars

\* A future's result goes to the slot of its own ordinal.
LEMMA CollectFits ==
    ASSUME CampaignInv, NEW c \in Campaigns, NEW i \in Ordinals, Collect(c, i)
    PROVE  CampaignInv'
  <1> USE DEF CampaignInv
  <1>1. /\ stage[c] = "collecting" /\ task[c][i] = "done" /\ i \notin Range(completion[c])
        /\ UNCHANGED <<root, poolVars, answer>>
    BY DEF Collect
  <1>2. /\ CampaignTypeOK /\ TasksFit(c) /\ CollectionFits(c) /\ AnswerFits(c)
        /\ completion[c] \in Seq(Ordinals)
    BY DEF CampaignFits, CampaignTypeOK
  <1>3. outcome[c][i] \in Outcomes \cup {Unknown} /\ outcome[c][i] # Unknown
    <2>1. outcome[c][i] # Unknown
      BY <1>1, <1>2 DEF TasksFit, Before
    <2>2. outcome[c][i] \in Outcomes \cup {Unknown}
      BY <1>2 DEF CampaignTypeOK
    <2> QED BY <2>1, <2>2
  <1>4. stage' = [stage EXCEPT ![c] = stage'[c]] /\ stage'[c] \in {"collecting", "draining"}
    BY <1>2 DEF Collect, Reaches, CampaignTypeOK
  <1>5. RootFits'
    BY <1>1, <1>4 DEF CampaignTypeOK, RootFits, Live
  <1>6. TasksFit(c)' /\ CountFits(c)'
    BY <1>1, <1>4, PoolStays DEF Live
  <1>7. AnswerFits(c)'
    BY <1>1, <1>2, <1>4 DEF AnswerFits, poolVars
  <1>8. CASE outcome[c][i] = Bare("abort")
    <2>1. /\ aborted' = [aborted EXCEPT ![c] = TRUE] /\ Reaches(c, "draining")
          /\ UNCHANGED <<slots, failed, completion>>
      BY <1>8 DEF Collect
    <2>2. CampaignTypeOK'
      BY <1>1, <1>2, <1>4, <2>1 DEF CampaignTypeOK, poolVars, Stages
    <2>3. \A d \in Campaigns \ {c} : Same(d)
      BY <1>1, <1>2, <1>4, <2>1 DEF CampaignTypeOK, poolVars, Same
    <2>4. CollectionFits(c)'
      BY <1>1, <1>2, <2>1 DEF CollectionFits, CampaignTypeOK, poolVars, Reaches
    <2> QED BY <1>5, <1>6, <1>7, <2>2, <2>3, <2>4, CampaignAssembles DEF CampaignFits
  <1>9. CASE outcome[c][i] # Bare("abort")
    <2>1. /\ slots' = IF outcome[c][i] \in Returned
                      THEN [slots EXCEPT ![c][i] = outcome[c][i]] ELSE slots
          /\ failed' = IF outcome[c][i] = Bare("exception")
                       THEN [failed EXCEPT ![c] = @ \cup {i}] ELSE failed
          /\ completion' = [completion EXCEPT ![c] = Append(@, i)]
          /\ stage'[c] = (IF Len(completion[c]) + 1 = OccurrenceCount
                          THEN "draining" ELSE "collecting")
          /\ UNCHANGED aborted
      BY <1>2, <1>9 DEF Collect, Reaches, CampaignTypeOK
    <2>2. /\ completion'[c] = Append(completion[c], i)
          /\ completion'[c] \in Seq(Ordinals)
          /\ Range(completion'[c]) = Range(completion[c]) \cup {i}
          /\ Len(completion'[c]) = Len(completion[c]) + 1
      BY <1>2, <2>1, RangeAppend DEF CampaignTypeOK
    <2>3. CampaignTypeOK'
      <3>1. slots' \in [Campaigns -> [Ordinals -> Returned]]
        BY <1>2, <2>1 DEF CampaignTypeOK
      <3>2. failed' \in [Campaigns -> SUBSET Ordinals]
        BY <1>2, <2>1 DEF CampaignTypeOK
      <3>3. completion' \in [Campaigns -> Seq(Ordinals)]
        BY <1>2, <2>1, <2>2 DEF CampaignTypeOK
      <3> QED BY ZenonT(30), <1>1, <1>2, <1>4, <2>1, <3>1, <3>2, <3>3 DEF
                 CampaignTypeOK, poolVars, Stages
    <2>4. \A d \in Campaigns \ {c} : Same(d)
      BY <1>1, <1>2, <1>4, <2>1 DEF CampaignTypeOK, poolVars, Same
    <2>5. Cardinality(Range(completion'[c])) = Len(completion'[c])
      BY <1>1, <1>2, <2>2, RangeFacts, FS_AddElement DEF CollectionFits
    <2>6. \A j \in Ordinals :
            slots'[c][j] = IF j \in Range(completion'[c]) /\ outcome[c][j] \in Returned
                           THEN outcome[c][j] ELSE Bare("none")
      BY <1>1, <1>2, <2>1, <2>2 DEF CollectionFits, CampaignTypeOK
    <2>7. failed'[c] = {j \in Range(completion'[c]) : outcome[c][j] = Bare("exception")}
      BY <1>2, <2>1, <2>2 DEF CollectionFits, CampaignTypeOK
    <2>8. CollectionFits(c)'
      <3>1. UNCHANGED <<task, outcome>> /\ ~aborted'[c]
        BY <1>1, <1>2, <2>1 DEF poolVars, CollectionFits
      <3>2. \A j \in Range(completion'[c]) :
              task[c][j] = "done" /\ outcome[c][j] # Bare("abort")
        BY <1>1, <1>2, <1>9, <2>2 DEF CollectionFits
      <3>3. stage'[c] = "draining" => Len(completion'[c]) = OccurrenceCount
        BY <2>1, <2>2
      <3> QED BY <1>4, <2>5, <2>6, <2>7, <3>1, <3>2, <3>3 DEF CollectionFits
    <2> QED BY <1>5, <1>6, <1>7, <2>3, <2>4, <2>8, CampaignAssembles DEF CampaignFits
  <1> QED BY <1>8, <1>9

\* KeyboardInterrupt makes the caller leave the pool.
LEMMA InterruptFits ==
    ASSUME CampaignInv, NEW c \in Campaigns, Interrupt(c)
    PROVE  CampaignInv'
  <1> USE DEF CampaignInv
  <1>1. /\ stage[c] \in {"submitting", "collecting"}
        /\ aborted' = [aborted EXCEPT ![c] = TRUE] /\ Reaches(c, "draining")
        /\ UNCHANGED <<root, poolVars, slots, failed, completion, answer>>
    BY DEF Interrupt
  <1>2. CampaignTypeOK /\ CollectionFits(c) /\ AnswerFits(c)
    BY DEF CampaignFits
  <1>3. CampaignTypeOK'
    BY <1>1, <1>2 DEF CampaignTypeOK, poolVars, Reaches, Stages
  <1>4. \A d \in Campaigns \ {c} : Same(d)
    BY <1>1, <1>2 DEF CampaignTypeOK, poolVars, Reaches, Same
  <1>5. stage'[c] = "draining" /\ aborted'[c]
    BY <1>1, <1>2 DEF CampaignTypeOK, Reaches
  <1>6. RootFits'
    BY <1>1, <1>2 DEF CampaignTypeOK, Reaches, RootFits, Live
  <1>7. TasksFit(c)' /\ CountFits(c)'
    BY <1>1, <1>5, PoolStays DEF Live
  <1>8. CollectionFits(c)'
    BY <1>1, <1>2, <1>5 DEF CollectionFits, poolVars
  <1>9. AnswerFits(c)'
    BY <1>1, <1>2, <1>5 DEF AnswerFits, poolVars
  <1> QED BY <1>3, <1>4, <1>6, <1>7, <1>8, <1>9, CampaignAssembles DEF CampaignFits

\* A full completion order names every ordinal, and each of them has run.
LEMMA AllCollected ==
    ASSUME CampaignInv, NEW c \in Campaigns, Len(completion[c]) = OccurrenceCount
    PROVE  /\ Range(completion[c]) = Ordinals
           /\ peak[c] \in 1..OccurrenceCount
           /\ \A i \in Ordinals :
                outcome[c][i] \in Outcomes /\ outcome[c][i] # Bare("abort")
  <1>1. CampaignTypeOK /\ TasksFit(c) /\ CountFits(c) /\ CollectionFits(c)
    BY DEF CampaignInv, CampaignFits
  <1>2. Range(completion[c]) \subseteq Ordinals
    BY <1>1, RangeFacts DEF CampaignTypeOK
  <1>3. Range(completion[c]) = Ordinals
    BY <1>1, <1>2, OrdinalFacts, FS_Subset DEF CollectionFits
  <1>4. \A i \in Ordinals : task[c][i] = "done" /\ outcome[c][i] # Bare("abort")
    BY <1>1, <1>3 DEF CollectionFits
  <1>5. \A i \in Ordinals :
          outcome[c][i] \in Outcomes \cup {Unknown} /\ outcome[c][i] # Unknown
    <2>1. \A i \in Ordinals : outcome[c][i] # Unknown
      BY <1>1, <1>4 DEF TasksFit, Before
    <2>2. \A i \in Ordinals : outcome[c][i] \in Outcomes \cup {Unknown}
      BY <1>1 DEF CampaignTypeOK
    <2> QED BY <2>1, <2>2
  <1>6. peak[c] >= 1 /\ peak[c] <= OccurrenceCount /\ peak[c] \in Nat
    BY <1>1, <1>4, OrdinalFacts DEF CountFits, CampaignTypeOK
  <1> QED BY <1>3, <1>4, <1>5, <1>6, CountPositive

\* The failure artifact of a complete schedule, up to the ordinals it names.
LEMMA FailureFits ==
    ASSUME CampaignInv, NEW c \in Campaigns, Len(completion[c]) = OccurrenceCount,
           NEW code, NEW ordinals, CulpritsNamed(Failure(c, code, ordinals), outcome[c])
    PROVE  Honest(Failure(c, code, ordinals), outcome[c])
  <1>1. ArtifactWellFormed(Failure(c, code, ordinals))
    BY AllCollected DEF ArtifactWellFormed, Failure
  <1>2. RunGenuine(Failure(c, code, ordinals), outcome[c])
    BY DEF RunGenuine, Failure
  <1> QED BY <1>1, <1>2 DEF Honest

\* The call ends with an honest answer.
LEMMA EndsFits ==
    ASSUME CampaignInv, NEW c \in Campaigns, NEW a, Answer(c, a),
           \/ stage[c] = "draining" /\ Drained(c) /\ root' = NoCampaign
           \/ stage[c] = "finalizing" /\ UNCHANGED root,
           Honest(a, outcome[c]), UNCHANGED <<poolVars, collectVars>>
    PROVE  CampaignInv'
  <1> USE DEF CampaignInv
  <1>1. answer' = [answer EXCEPT ![c] = a] /\ Reaches(c, "ended")
    BY DEF Answer
  <1>2. CampaignTypeOK'
    BY <1>1 DEF CampaignTypeOK, poolVars, collectVars, Reaches, Stages
  <1>3. \A d \in Campaigns \ {c} : Same(d)
    BY <1>1 DEF CampaignTypeOK, poolVars, collectVars, Reaches, Same
  <1>4. stage'[c] = "ended" /\ answer'[c] = a
    BY <1>1 DEF CampaignTypeOK, Reaches
  <1>5. RootFits'
    BY <1>1, NoCampaignIsNone DEF CampaignTypeOK, Reaches, RootFits, Live
  <1>6. \A i \in Ordinals : task[c][i] \in {"unsubmitted", "done"}
    BY DEF Drained, CampaignFits, TasksFit, Live
  <1>7. TasksFit(c)' /\ CountFits(c)'
    BY <1>4, <1>6, PoolStays
  <1>8. CollectionFits(c)'
    BY <1>4 DEF CampaignFits, CollectionFits, poolVars, collectVars
  <1>9. AnswerFits(c)'
    BY <1>4 DEF AnswerFits, poolVars
  <1> QED BY <1>2, <1>3, <1>5, <1>7, <1>8, <1>9, CampaignAssembles DEF CampaignFits

\* The pool has been left: the root is released on every way out.
LEMMA LeavePoolFits ==
    ASSUME CampaignInv, NEW c \in Campaigns, LeavePool(c)
    PROVE  CampaignInv'
  <1>1. /\ stage[c] = "draining" /\ Drained(c) /\ root' = NoCampaign
        /\ UNCHANGED <<poolVars, collectVars>>
    BY DEF LeavePool
  <1>2. CampaignTypeOK /\ TasksFit(c) /\ CollectionFits(c) /\ AnswerFits(c)
    BY DEF CampaignInv, CampaignFits
  <1>3. CASE aborted[c] /\ Answer(c, [kind |-> "aborted"])
    BY <1>1, <1>3, EndsFits, QuietAnswers
  <1>4. ASSUME ~aborted[c]
        PROVE  /\ Len(completion[c]) = OccurrenceCount /\ Range(completion[c]) = Ordinals
               /\ \A i \in Ordinals : outcome[c][i] \in Outcomes \ {Bare("abort")}
    <2>1. Len(completion[c]) = OccurrenceCount
      BY <1>1, <1>2, <1>4 DEF CollectionFits
    <2> QED BY <2>1, AllCollected
  <1>5. CASE /\ ~aborted[c] /\ failed[c] # {}
             /\ Answer(c, Failure(c, "RUNNER_THREAD_EXCEPTION", failed[c]))
    <2>1. failed[c] = {i \in Ordinals : outcome[c][i] = Bare("exception")}
      BY <1>2, <1>4, <1>5 DEF CollectionFits
    <2>2. CulpritsNamed(Failure(c, "RUNNER_THREAD_EXCEPTION", failed[c]), outcome[c])
      BY <1>5, <2>1 DEF CulpritsNamed, Failure
    <2> QED BY <1>1, <1>4, <1>5, <2>2, FailureFits, EndsFits
  <1>6. ASSUME ~aborted[c], failed[c] = {}
        PROVE  \A i \in Ordinals : outcome[c][i] \in Returned /\ slots[c][i] = outcome[c][i]
    <2>1. \A i \in Ordinals : outcome[c][i] # Bare("exception")
      BY <1>2, <1>4, <1>6 DEF CollectionFits
    <2>2. \A i \in Ordinals : outcome[c][i] \in Returned
      BY <1>4, <1>6, <2>1, OutcomeFacts
    <2> QED BY <1>2, <1>4, <1>6, <2>2 DEF CollectionFits
  <1>7. CASE /\ ~aborted[c] /\ failed[c] = {} /\ Missing(c) # {}
             /\ Answer(c, Failure(c, "MISSING_THREAD_RESULT", Missing(c)))
    <2>1. Missing(c) = {i \in Ordinals : outcome[c][i] = Bare("none")}
      BY <1>6, <1>7 DEF Missing
    <2>2. CulpritsNamed(Failure(c, "MISSING_THREAD_RESULT", Missing(c)), outcome[c])
      BY <1>7, <2>1 DEF CulpritsNamed, Failure
    <2> QED BY <1>1, <1>4, <1>7, <2>2, FailureFits, EndsFits
  <1>8. CASE /\ ~aborted[c] /\ failed[c] = {} /\ Missing(c) = {}
             /\ Reaches(c, "finalizing") /\ UNCHANGED answer
    <2>1. CampaignTypeOK'
      BY <1>1, <1>2, <1>8 DEF CampaignTypeOK, poolVars, collectVars, Reaches, Stages
    <2>2. \A d \in Campaigns \ {c} : Same(d)
      BY <1>1, <1>2, <1>8 DEF CampaignTypeOK, poolVars, collectVars, Reaches, Same
    <2>3. stage'[c] = "finalizing"
      BY <1>2, <1>8 DEF CampaignTypeOK, Reaches
    <2>4. RootFits'
      BY <1>1, <1>2, <1>8, NoCampaignIsNone
         DEF CampaignInv, CampaignTypeOK, Reaches, RootFits, Live
    <2>5. TasksFit(c)' /\ CountFits(c)'
      BY <1>1, <2>3, PoolStays DEF Drained
    <2>6. CollectionFits(c)'
      BY <1>1, <1>2, <1>4, <1>8, <2>3 DEF CollectionFits, poolVars, collectVars, Missing
    <2>7. AnswerFits(c)'
      BY <1>1, <1>2, <1>8, <2>3 DEF AnswerFits, poolVars
    <2> QED BY <2>1, <2>2, <2>4, <2>5, <2>6, <2>7, CampaignAssembles DEF CampaignFits
  <1> QED BY <1>3, <1>5, <1>7, <1>8 DEF LeavePool

\* What is finalized is what the boundaries returned.
LEMMA FinalSlots ==
    ASSUME CampaignInv, NEW c \in Campaigns, stage[c] = "finalizing"
    PROVE  /\ Len(completion[c]) = OccurrenceCount
           /\ \A i \in Ordinals : slots[c][i] = outcome[c][i]
  <1>1. /\ CollectionFits(c) /\ Len(completion[c]) = OccurrenceCount
        /\ failed[c] = {} /\ Missing(c) = {}
    BY DEF CampaignInv, CampaignFits, CollectionFits
  <1> QED BY <1>1 DEF CollectionFits, Missing

\* A result that is not the entry's own.
LEMMA IdentityFailureFits ==
    ASSUME CampaignInv, NEW c \in Campaigns, IdentityFailure(c)
    PROVE  CampaignInv'
  <1> DEFINE code == "OCCURRENCE_OUTPUT_IDENTITY_FAILURE"
  <1>1. stage[c] = "finalizing" /\ UNCHANGED <<root, poolVars, collectVars>>
    BY DEF IdentityFailure
  <1>2. Invalid(c) = {i \in Ordinals : outcome[c][i].entry # i}
    BY <1>1, FinalSlots DEF Invalid
  <1>3. PICK ordinals \in SUBSET Ordinals :
          /\ Answer(c, Failure(c, code, ordinals))
          /\ ordinals # {}
          /\ ordinals = Ordinals \/ ordinals = Invalid(c)
    <2>1. CASE Answer(c, Failure(c, code, Ordinals))
      BY <2>1, OrdinalFacts
    <2>2. CASE Answer(c, Failure(c, code, IF Invalid(c) # {} THEN Invalid(c) ELSE Ordinals))
      BY <1>2, <2>2, OrdinalFacts
    <2> QED BY <2>1, <2>2 DEF IdentityFailure
  <1>4. CulpritsNamed(Failure(c, code, ordinals), outcome[c])
    BY <1>2, <1>3 DEF CulpritsNamed, Failure
  <1> QED BY <1>1, <1>3, <1>4, FinalSlots, FailureFits, EndsFits

\* Identified results are the entries' own.
LEMMA IdentifiedFacts ==
    ASSUME CampaignInv, NEW c \in Campaigns, Identified(c)
    PROVE  \A i \in Ordinals :
             /\ slots[c][i].sound => outcome[c][i] = Result(i, TRUE)
             /\ ~slots[c][i].sound => outcome[c][i] = Result(i, FALSE)
  <1> SUFFICES ASSUME NEW i \in Ordinals
               PROVE  /\ slots[c][i].sound => outcome[c][i] = Result(i, TRUE)
                      /\ ~slots[c][i].sound => outcome[c][i] = Result(i, FALSE)
    OBVIOUS
  <1>1. slots[c][i] \in Typed /\ slots[c][i].entry = i
    BY DEF Identified, AllTyped, Invalid
  <1>2. slots[c][i] = outcome[c][i]
    BY FinalSlots DEF Identified
  <1> QED BY <1>1, <1>2, TypedFacts

\* The first result that does not verify.
LEMMA SemanticFailureFits ==
    ASSUME CampaignInv, NEW c \in Campaigns, SemanticFailure(c)
    PROVE  CampaignInv'
  <1> DEFINE code == "OCCURRENCE_SEMANTIC_VERIFICATION_FAILURE"
  <1>1. Identified(c) /\ stage[c] = "finalizing" /\ UNCHANGED <<root, poolVars, collectVars>>
    BY DEF SemanticFailure, Identified
  <1>2. PICK i \in Ordinals : ~slots[c][i].sound /\ Answer(c, Failure(c, code, {i}))
    BY DEF SemanticFailure, Unverifiable
  <1>3. outcome[c][i] = Result(i, FALSE)
    BY <1>1, <1>2, IdentifiedFacts
  <1>4. CulpritsNamed(Failure(c, code, {i}), outcome[c])
    BY <1>3 DEF CulpritsNamed, Failure
  <1> QED BY <1>1, <1>2, <1>4, FinalSlots, FailureFits, EndsFits

\* Every result is the entry's own and verified, and the endpoint fails.
LEMMA EndpointFailureFits ==
    ASSUME CampaignInv, NEW c \in Campaigns, EndpointFailure(c)
    PROVE  CampaignInv'
  <1>1. /\ Identified(c) /\ Unverifiable(c) = {} /\ stage[c] = "finalizing"
        /\ UNCHANGED <<root, poolVars, collectVars>>
    BY DEF EndpointFailure, Identified
  <1>2. \A i \in Ordinals : outcome[c][i] = Result(i, TRUE)
    BY <1>1, IdentifiedFacts DEF Unverifiable
  <1>3. PICK code \in {"PROTOCOL_OR_INTEGRITY_TERMINAL",
                       "CAMPAIGN_RECONCILIATION_OR_ENDPOINT_FAILURE"},
             ordinals \in SUBSET Ordinals :
          ordinals # {} /\ Answer(c, Failure(c, code, ordinals))
    <2>1. CASE Answer(c, Failure(c, "CAMPAIGN_RECONCILIATION_OR_ENDPOINT_FAILURE", Ordinals))
      BY <2>1, OrdinalFacts
    <2>2. ASSUME NEW bad \in SUBSET Ordinals,
                 Answer(c, Failure(c, "PROTOCOL_OR_INTEGRITY_TERMINAL",
                                   IF bad = {} THEN Ordinals ELSE bad))
          PROVE  \E ordinals \in SUBSET Ordinals :
                   /\ ordinals # {}
                   /\ Answer(c, Failure(c, "PROTOCOL_OR_INTEGRITY_TERMINAL", ordinals))
      BY <2>2, OrdinalFacts
    <2> QED BY <2>1, <2>2 DEF EndpointFailure
  <1>4. CulpritsNamed(Failure(c, code, ordinals), outcome[c])
    BY <1>2, <1>3 DEF CulpritsNamed, Failure
  <1> QED BY <1>1, <1>3, <1>4, FinalSlots, FailureFits, EndsFits

\* The run is issued.
LEMMA IssueRunFits ==
    ASSUME CampaignInv, NEW c \in Campaigns, IssueRun(c)
    PROVE  CampaignInv'
  <1> DEFINE a == [kind |-> "run", slots |-> slots[c], completion |-> completion[c],
                   peak |-> peak[c]]
  <1>1. /\ Identified(c) /\ Unverifiable(c) = {} /\ stage[c] = "finalizing"
        /\ Answer(c, a) /\ UNCHANGED <<root, poolVars, collectVars>>
    BY DEF IssueRun, Identified
  <1>2. \A i \in Ordinals : outcome[c][i] = Result(i, TRUE) /\ slots[c][i] = outcome[c][i]
    BY <1>1, IdentifiedFacts, FinalSlots DEF Unverifiable
  <1>3. RunGenuine(a, outcome[c])
    BY <1>2 DEF RunGenuine
  <1>4. ArtifactWellFormed(a)
    BY <1>1, FinalSlots, AllCollected DEF ArtifactWellFormed
  <1>5. CulpritsNamed(a, outcome[c])
    BY DEF CulpritsNamed
  <1> HIDE DEF a
  <1> QED BY <1>1, <1>3, <1>4, <1>5, EndsFits DEF Honest
-----------------------------------------------------------------------------
(* The schedule: theorems                                                  *)

\* Every step keeps the invariant.
LEMMA StepFits == CampaignInv /\ [CampaignNext]_campaignVars => CampaignInv'
  <1> SUFFICES ASSUME CampaignInv, [CampaignNext]_campaignVars PROVE CampaignInv'
    OBVIOUS
  <1>1. ASSUME NEW c \in Campaigns, Install(c) \/ Interrupt(c)
        PROVE  CampaignInv'
    BY <1>1, InstallFits, InterruptFits
  <1>2. ASSUME NEW c \in Campaigns, CallerStep(c)
        PROVE  CampaignInv'
    BY <1>2, SubmitFits, CollectFits, LeavePoolFits, IdentityFailureFits,
       SemanticFailureFits, EndpointFailureFits, IssueRunFits DEF CallerStep
  <1>3. ASSUME NEW c \in Campaigns, NEW i \in Ordinals, TaskStep(c, i)
        PROVE  CampaignInv'
    BY <1>3, EnterFits, GetRootFits, BoundaryFits, LeaveFits DEF TaskStep
  <1>4. ASSUME UNCHANGED campaignVars
        PROVE  CampaignInv'
    <2>1. CampaignTypeOK' /\ RootFits'
      BY <1>4 DEF CampaignInv, CampaignTypeOK, RootFits, campaignVars, poolVars, collectVars
    <2>2. \A d \in Campaigns : Same(d)
      BY <1>4 DEF campaignVars, poolVars, collectVars, Same
    <2> QED BY <2>1, <2>2, SameFits DEF CampaignInv
  <1> QED BY <1>1, <1>2, <1>3, <1>4 DEF CampaignNext, AllEnded

\* The inductive invariant of the schedule.
THEOREM CampaignInvariant == CampaignSpec => []CampaignInv
  BY CampaignInitFits, StepFits, PTL DEF CampaignSpec

\* No occurrence runs without the root of its own campaign or under another
\* one, in any interleaving of campaigns, pool threads and interrupts.
THEOREM RootsOutliveTasks == CampaignSpec => []RootOutlivesTasks
  <1>1. CampaignInv => RootOutlivesTasks
    <2> SUFFICES ASSUME CampaignInv PROVE RootOutlivesTasks
      OBVIOUS
    <2>1. ASSUME NEW c \in Campaigns, NEW i \in Ordinals,
                 task[c][i] \in {"queued", "entered", "running"}
          PROVE  root = c
      BY <2>1 DEF CampaignInv, CampaignFits, TasksFit, RootFits
    <2>2. root # NoCampaign => stage[root] \in {"submitting", "collecting", "draining"}
      BY DEF CampaignInv, RootFits, Live
    <2> QED BY <2>1, <2>2 DEF RootOutlivesTasks
  <1> QED BY <1>1, CampaignInvariant, PTL

\* What a campaign answers is what its occurrences did: every failure names
\* its culprits, every artifact is well formed, every run is genuine.
THEOREM AnswersHonest == CampaignSpec => []AnswerHonest
  <1>1. CampaignInv => AnswerHonest
    BY DEF CampaignInv, CampaignFits, AnswerFits, Honest, AnswerHonest
  <1> QED BY <1>1, CampaignInvariant, PTL

-----------------------------------------------------------------------------
(* The attempt journal: the invariant                                      *)

Engaged == {"subdirs", "writing", "open", "failing"}
Labels == {"idle", "making", "ended", "dead"} \cup Engaged
Kinds == {"ATTEMPT_OPENED", "SOURCE_REPLAY_BOUND", "OCCURRENCE_STARTED",
          "DIRECT_CHECKPOINT_COMPLETED", "OCCURRENCE_COMPLETED",
          "CAMPAIGN_COMPUTATION_COMPLETED"} \cup TerminalKinds
Events == [kind : Kinds, seq : Nat, previous : Nat, count : Nat]
Names == {Manifest} \cup {Object(n) : n \in Nat} \cup {Event(n) : n \in Nat}
Writers == [seq : Nat, previous : Nat, active : BOOLEAN, completed : Nat,
            bound : BOOLEAN, computed : BOOLEAN, terminal : BOOLEAN,
            append : Nat, file : Names]

JournalTypeOK ==
    /\ disk \in [DOMAIN disk -> {"temp", "linked", "clean"}]
    /\ content \in Seq(Events) /\ acked \in Seq(Nat)
    /\ executed \in Nat /\ torn \in BOOLEAN
    /\ pc \in [Runners -> Labels] /\ writer \in [Runners -> Writers]

\* The runner that owns the attempt's journal, or that left it behind.
Touched(p) == pc[p] \in Engaged \/ writer[p] # NewWriter

RoleFits(p) ==
    /\ Touched(p) => directory # "absent"
    /\ pc[p] \in {"writing", "open", "failing"} \/ writer[p] # NewWriter => directory = "ready"
    /\ pc[p] \in {"idle", "making", "subdirs"} => writer[p] = NewWriter

OnDisk(f) == f \in DOMAIN disk /\ disk[f] = "clean"

\* Every append that has returned.
AckedFits ==
    /\ \A k \in 1..Len(acked) :
         /\ acked[k] \in Appends /\ OnDisk(Event(acked[k]))
         /\ HasObjects(content[acked[k]].kind) => OnDisk(Object(acked[k]))
         /\ content[acked[k]].seq = k - 1
         /\ content[acked[k]].previous = (IF k = 1 THEN 0 ELSE acked[k - 1])
         /\ k = 1 => content[acked[k]].kind = "ATTEMPT_OPENED"
    /\ \A n \in Appends : content[n].seq <= Len(acked)

\* The file being written, and what an append that was cut short may leave.
FilesFit(p) ==
    /\ \A n \in Nat : Object(n) \in DOMAIN disk
                        => n \in Appends /\ HasObjects(content[n].kind)
    /\ Len(content) > 0 => Manifest \in DOMAIN disk
    /\ ~torn => \A f \in DOMAIN disk :
                  disk[f] = "clean" \/ (pc[p] = "writing" /\ f = writer[p].file)
    /\ ~torn => \A n \in Appends :
                  n \in Range(acked) \/ (pc[p] = "writing" /\ n = writer[p].append)
    /\ pc[p] = "writing" =>
         LET n == writer[p].append IN
         \/ writer[p].file = Manifest /\ n = 0
         \/ n > 0 /\ writer[p].file = Object(n) /\ HasObjects(content[n].kind)
         \/ /\ n > 0 /\ writer[p].file = Event(n)
            /\ HasObjects(content[n].kind) => OnDisk(Object(n))

\* The writer's memory agrees with what has returned.
CountsFit(p) ==
    LET w == writer[p] IN
    /\ w.append = Len(content) /\ w.seq = Len(acked)
    /\ w.previous = (IF Len(acked) = 0 THEN 0 ELSE acked[Len(acked)])
    /\ pc[p] \in {"open", "failing"} => Len(acked) > 0
    /\ pc[p] = "writing" /\ w.append > 0 => content[w.append].seq = Len(acked)
    /\ Len(acked) > 0 => (w.terminal <=> content[acked[Len(acked)]].kind \in TerminalKinds)
    /\ w.terminal => pc[p] = "ended" /\ Len(acked) > 0
    /\ Len(acked) > 0 /\ content[acked[Len(acked)]].kind = "OUTPUT_PUBLISHED"
         => output /\ w.computed

PhasesFit(p) ==
    LET w == writer[p] IN
    /\ w.completed <= executed /\ w.completed <= Count
    /\ w.active => w.bound /\ w.completed < Count
    /\ w.completed > 0 => w.bound
    /\ w.computed => w.completed = Count
    /\ pc[p] = "open" /\ ~w.bound => Len(acked) = 1

\* What the verifier knows after the events that returned.
Summary(p) ==
    LET w == writer[p] IN
    [ok |-> TRUE, completed |-> w.completed, active |-> w.active, bound |-> w.bound,
     computed |-> w.computed,
     closure |-> IF w.terminal THEN content[acked[Len(acked)]].kind ELSE "UNCLOSED_ABRUPT"]

\* An event begun and not acknowledged fits what was acknowledged, and is true.
PendingFits(p) ==
    \A n \in Appends : content[n].seq = Len(acked) =>
        /\ content[n].previous = writer[p].previous /\ ~writer[p].terminal
        /\ Fits(Summary(p), content[n])
        /\ Len(acked) = 0 => content[n].kind = "ATTEMPT_OPENED"
        /\ content[n].kind = "OCCURRENCE_COMPLETED" => writer[p].completed < executed
        /\ content[n].kind = "OUTPUT_PUBLISHED" => output

\* The verifier's recursion over the first events a of the contents c.
Solves(f, c, a) ==
    /\ f[0] = Replayed0
    /\ \A k \in 1..Len(a) : f[k] = Replayed(f[k - 1], c[a[k]])

\* It has a solution, and every solution ends in what the writer knows.
ReplayFits(p) ==
    /\ \E f : Solves(f, content, acked)
    /\ \A f : Solves(f, content, acked) => f[Len(acked)] = Summary(p)

JournalFits(p) ==
    /\ AckedFits /\ FilesFit(p) /\ CountsFit(p) /\ PhasesFit(p) /\ PendingFits(p)
    /\ ReplayFits(p)

JournalInv ==
    /\ JournalTypeOK
    /\ directory = "absent" => DOMAIN disk = {} /\ Len(content) = 0 /\ Len(acked) = 0
    /\ Len(content) > 0 \/ Len(acked) > 0 => \E p \in Runners : Touched(p)
    /\ \A p, q \in Runners : Touched(p) /\ Touched(q) => p = q
    /\ \A p \in Runners : RoleFits(p) /\ (Touched(p) => JournalFits(p))
-----------------------------------------------------------------------------
(* The attempt journal: facts used by every step                           *)

\* File names differ.
LEMMA NameFacts ==
    /\ \A m, n \in Nat : Event(m) = Event(n) => m = n
    /\ \A m, n \in Nat : Object(m) = Object(n) => m = n
    /\ \A m, n \in Nat : Event(m) # Object(n) /\ Event(m) # Manifest /\ Object(m) # Manifest
  BY DEF Event, Object, Manifest

\* A writer that has not begun.
LEMMA NewWriterFacts ==
    /\ NewWriter \in Writers
    /\ NewWriter.seq = 0 /\ NewWriter.previous = 0 /\ NewWriter.append = 0
    /\ NewWriter.completed = 0 /\ ~NewWriter.active /\ ~NewWriter.bound
    /\ ~NewWriter.computed /\ ~NewWriter.terminal /\ NewWriter.file = Manifest
  BY DEF NewWriter, Writers, Names

\* The recursion sees only the events it is about.
LEMMA SolvesKeeps ==
    ASSUME NEW c, NEW d, NEW a, NEW f, \A k \in 1..Len(a) : d[a[k]] = c[a[k]]
    PROVE  Solves(f, c, a) <=> Solves(f, d, a)
  BY DEF Solves

\* One more event is one more step of every solution.
LEMMA SolvesAppend ==
    ASSUME NEW c, NEW a \in Seq(Nat), NEW n \in Nat
    PROVE  /\ \A f : Solves(f, c, Append(a, n))
                       => /\ Solves(f, c, a)
                          /\ f[Len(a) + 1] = Replayed(f[Len(a)], c[n])
           /\ (\E f : Solves(f, c, a)) => \E f : Solves(f, c, Append(a, n))
  <1> DEFINE b == Append(a, n)
  <1>1. /\ Len(a) \in Nat /\ Len(b) = Len(a) + 1 /\ b[Len(a) + 1] = n
        /\ \A k \in 1..Len(a) : b[k] = a[k]
    OBVIOUS
  <1>2. /\ 1..Len(a) \subseteq 1..Len(b) /\ Len(a) + 1 \in 1..Len(b)
        /\ (Len(a) + 1) - 1 = Len(a)
    BY <1>1
  <1>3. ASSUME NEW f, Solves(f, c, b)
        PROVE  Solves(f, c, a) /\ f[Len(a) + 1] = Replayed(f[Len(a)], c[n])
    <2> HIDE DEF b
    <2>1. f[0] = Replayed0 /\ \A k \in 1..Len(b) : f[k] = Replayed(f[k - 1], c[b[k]])
      BY <1>3 DEF Solves
    <2>2. f[Len(a) + 1] = Replayed(f[Len(a)], c[n])
      BY <1>1, <1>2, <2>1
    <2>3. \A k \in 1..Len(a) : f[k] = Replayed(f[k - 1], c[a[k]])
      BY <1>1, <1>2, <2>1
    <2> QED BY <2>1, <2>2, <2>3 DEF Solves
  <1>4. ASSUME NEW f, Solves(f, c, a) PROVE \E g : Solves(g, c, b)
    <2> DEFINE g == [k \in 0..(Len(a) + 1) |->
                       IF k <= Len(a) THEN f[k] ELSE Replayed(f[Len(a)], c[n])]
    <2> HIDE DEF b
    <2>1. \A k \in 0..Len(a) : g[k] = f[k]
      BY <1>1
    <2>2. g[Len(a) + 1] = Replayed(f[Len(a)], c[n])
      BY <1>1
    <2> HIDE DEF g
    <2>3. \A k \in 1..Len(a) : k \in 0..Len(a) /\ k - 1 \in 0..Len(a)
      BY <1>1
    <2>4. 0 \in 0..Len(a) /\ Len(a) \in 0..Len(a)
      BY <1>1
    <2>5. \A k \in 1..Len(a) : g[k] = Replayed(g[k - 1], c[b[k]])
      BY <1>1, <1>4, <2>1, <2>3 DEF Solves
    <2>6. g[Len(a) + 1] = Replayed(g[(Len(a) + 1) - 1], c[b[Len(a) + 1]])
      BY <1>1, <1>2, <2>1, <2>2, <2>4
    <2>7. \A k \in 1..Len(b) : k \in 1..Len(a) \/ k = Len(a) + 1
      BY <1>1
    <2>8. g[0] = Replayed0
      BY <1>4, <2>1, <2>4 DEF Solves
    <2> QED BY <2>5, <2>6, <2>7, <2>8 DEF Solves
  <1> QED BY <1>3, <1>4

\* The others, when p takes a step.
Apart(p) == \A q \in Runners \ {p} : pc'[q] = pc[q] /\ writer'[q] = writer[q]

\* A step of the runner that owns the journal is looked at for it alone.
LEMMA Assemble ==
    ASSUME JournalInv, NEW p \in Runners, Apart(p), JournalTypeOK',
           Touched(p) \/ directory = "absent", directory' # "absent",
           RoleFits(p)', JournalFits(p)',
           Len(content') > 0 \/ Len(acked') > 0 => Touched(p)'
    PROVE  JournalInv'
  <1>1. ASSUME NEW q \in Runners \ {p} PROVE ~Touched(q) /\ ~Touched(q)'
    <2>1. ~Touched(q)
      BY DEF JournalInv, RoleFits
    <2> QED BY <2>1 DEF Touched, Apart
  <1>2. \A q \in Runners \ {p} : RoleFits(q)'
    BY <1>1 DEF RoleFits, Touched, Engaged, NewWriter
  <1> QED BY <1>1, <1>2 DEF JournalInv

\* A step of a runner that does not own it, and does not come to.
LEMMA Elsewhere ==
    ASSUME JournalInv, NEW p \in Runners, Apart(p), pc' \in [Runners -> Labels],
           ~Touched(p), ~Touched(p)', writer' = writer,
           UNCHANGED <<directory, disk, content, output, acked, executed, torn>>
    PROVE  JournalInv'
  <1>1. JournalTypeOK'
    BY DEF JournalInv, JournalTypeOK
  <1>2. ASSUME NEW q \in Runners \ {p}
        PROVE  (Touched(q)' <=> Touched(q)) /\ RoleFits(q)' /\ (Touched(q)' => JournalFits(q)')
    <2>1. pc'[q] = pc[q] /\ writer'[q] = writer[q]
      BY DEF Apart
    <2>2. (Touched(q)' <=> Touched(q)) /\ RoleFits(q)'
      BY <2>1 DEF JournalInv, Touched, RoleFits
    <2>3. ASSUME Touched(q) PROVE JournalFits(q)'
      <3>1. JournalFits(q)
        BY <2>3 DEF JournalInv
      <3>2. AckedFits'
        BY <3>1 DEF JournalFits, AckedFits, Appends, OnDisk
      <3>3. FilesFit(q)'
        BY <2>1, <3>1 DEF JournalFits, FilesFit, Appends, OnDisk
      <3>4. CountsFit(q)' /\ PhasesFit(q)'
        BY <2>1, <3>1 DEF JournalFits, CountsFit, PhasesFit
      <3>5. Summary(q)' = Summary(q)
        BY <2>1 DEF Summary
      <3>6. PendingFits(q)' /\ ReplayFits(q)'
        BY <2>1, <3>1, <3>5 DEF JournalFits, PendingFits, ReplayFits, Appends
      <3> QED BY <3>2, <3>3, <3>4, <3>6 DEF JournalFits
    <2> QED BY <2>2, <2>3
  <1>3. RoleFits(p)'
    BY DEF RoleFits, Touched, Engaged
  <1> QED BY <1>1, <1>2, <1>3 DEF JournalInv

\* No append begins or returns: what has returned stays as it is.
LEMMA Keeps ==
    ASSUME JournalInv, NEW p \in Runners, JournalFits(p),
           UNCHANGED <<content, acked, executed>>, output => output',
           \A f : OnDisk(f) => OnDisk(f)',
           writer'[p].previous = writer[p].previous,
           writer'[p].active = writer[p].active,
           writer'[p].completed = writer[p].completed,
           writer'[p].bound = writer[p].bound,
           writer'[p].computed = writer[p].computed,
           writer'[p].terminal = writer[p].terminal
    PROVE  AckedFits' /\ PendingFits(p)' /\ ReplayFits(p)'
  <1>1. AckedFits'
    BY DEF JournalFits, AckedFits, Appends
  <1>2. Summary(p)' = Summary(p)
    BY DEF Summary
  <1>3. PendingFits(p)'
    BY <1>2 DEF JournalFits, PendingFits, Appends
  <1>4. ReplayFits(p)'
    BY <1>2 DEF JournalFits, ReplayFits
  <1> QED BY <1>1, <1>3, <1>4

\* The initial state.
LEMMA InitFits == AttemptInit => JournalInv
  <1> SUFFICES ASSUME AttemptInit PROVE JournalInv
    OBVIOUS
  <1>1. /\ directory = "absent" /\ DOMAIN disk = {} /\ Len(content) = 0 /\ Len(acked) = 0
        /\ \A p \in Runners : pc[p] = "idle" /\ writer[p] = NewWriter
    BY DEF AttemptInit
  <1>2. JournalTypeOK
    <2>1. disk \in [DOMAIN disk -> {"temp", "linked", "clean"}]
      BY DEF AttemptInit
    <2>2. content \in Seq(Events) /\ acked \in Seq(Nat)
      BY DEF AttemptInit
    <2>3. /\ pc \in [Runners -> Labels] /\ writer \in [Runners -> Writers]
          /\ executed \in Nat /\ torn \in BOOLEAN
      BY NewWriterFacts DEF AttemptInit, Labels
    <2> QED BY <2>1, <2>2, <2>3 DEF JournalTypeOK
  <1>3. \A p \in Runners : ~Touched(p)
    BY <1>1 DEF Touched, Engaged
  <1>4. \A p \in Runners : RoleFits(p)
    BY <1>1, <1>3 DEF RoleFits
  <1> QED BY <1>1, <1>2, <1>3, <1>4 DEF JournalInv

-----------------------------------------------------------------------------
(* The attempt journal: the steps                                          *)

\* A runner looks for an attempt.
LEMMA StartFits ==
    ASSUME JournalInv, NEW p \in Runners, Start(p)
    PROVE  JournalInv'
  <1>1. /\ Apart(p) /\ pc' \in [Runners -> Labels] /\ writer' = writer
        /\ UNCHANGED <<directory, disk, content, output, acked, executed, torn>>
        /\ pc[p] = "idle" /\ pc'[p] \in {"ended", "making"}
    BY DEF Start, Goto, diskVars, Apart, JournalInv, JournalTypeOK, Labels
  <1>2. writer[p] = NewWriter
    BY <1>1 DEF JournalInv, RoleFits
  <1> QED BY <1>1, <1>2, Elsewhere DEF Touched, Engaged

\* One runner makes the directory, the others end.
LEMMA MkdirFits ==
    ASSUME JournalInv, NEW p \in Runners, Mkdir(p)
    PROVE  JournalInv'
  <1>1. /\ Apart(p) /\ pc' \in [Runners -> Labels] /\ writer' = writer /\ pc[p] = "making"
        /\ UNCHANGED <<disk, content, output, acked, executed, torn>>
    BY DEF Mkdir, Goto, Apart, JournalInv, JournalTypeOK, Labels, Engaged
  <1>2. writer[p] = NewWriter
    BY <1>1 DEF JournalInv, RoleFits
  <1>3. CASE directory' = directory /\ pc'[p] = "ended"
    BY <1>1, <1>2, <1>3, Elsewhere DEF Touched, Engaged
  <1>4. CASE directory = "absent" /\ directory' = "bare" /\ pc'[p] = "subdirs"
    <2>1. DOMAIN disk = {} /\ Len(content) = 0 /\ Len(acked) = 0
      BY <1>4 DEF JournalInv
    <2>2. JournalTypeOK'
      BY <1>1 DEF JournalInv, JournalTypeOK
    <2>3. RoleFits(p)'
      BY <1>1, <1>2, <1>4 DEF RoleFits
    <2>4. AckedFits' /\ FilesFit(p)'
      BY <1>1, <1>4, <2>1 DEF AckedFits, FilesFit, Appends
    <2>5. CountsFit(p)' /\ PhasesFit(p)'
      BY <1>1, <1>2, <1>4, <2>1, NewWriterFacts, BoundsAreNumbers
         DEF CountsFit, PhasesFit, JournalInv, JournalTypeOK
    <2>6. PendingFits(p)'
      BY <1>1, <2>1 DEF PendingFits, Appends
    <2>7. ReplayFits(p)'
      <3>1. Summary(p)' = Replayed0
        BY <1>1, <1>2 DEF Summary, Replayed0, NewWriter
      <3>2. \A f : Solves(f, content, acked) <=> f[0] = Replayed0
        BY <2>1 DEF Solves
      <3>3. [k \in {0} |-> Replayed0][0] = Replayed0
        OBVIOUS
      <3> QED BY <1>1, <2>1, <3>1, <3>2, <3>3 DEF ReplayFits
    <2> QED BY <1>1, <1>4, <2>1, <2>2, <2>3, <2>4, <2>5, <2>6, <2>7, Assemble DEF
               JournalFits
  <1> QED BY <1>1, <1>3, <1>4 DEF Mkdir, Goto, JournalInv, JournalTypeOK

\* The steps of the runner that owns the journal.
LEMMA Owns ==
    ASSUME JournalInv, NEW p \in Runners, pc[p] \in Engaged
    PROVE  /\ Touched(p) /\ JournalFits(p) /\ RoleFits(p)
           /\ directory # "absent"
           /\ pc[p] # "subdirs" => directory = "ready"
  BY DEF JournalInv, Touched, RoleFits, Engaged

\* The directories are there.
LEMMA SubdirsFits ==
    ASSUME JournalInv, NEW p \in Runners, Subdirs(p)
    PROVE  JournalInv'
  <1>1. /\ Apart(p) /\ pc' \in [Runners -> Labels] /\ writer' = writer
        /\ pc[p] = "subdirs" /\ pc'[p] = "writing" /\ directory' = "ready"
        /\ UNCHANGED <<disk, content, output, acked, executed, torn>>
    BY DEF Subdirs, Goto, Apart, JournalInv, JournalTypeOK, Labels, Engaged
  <1>2. writer[p] = NewWriter /\ Touched(p) /\ JournalFits(p)
    BY <1>1, Owns DEF JournalInv, RoleFits, Engaged
  <1>3. JournalTypeOK' /\ RoleFits(p)' /\ Touched(p)'
    BY <1>1, <1>2 DEF JournalInv, JournalTypeOK, RoleFits, Touched, Engaged
  <1>4. AckedFits' /\ PendingFits(p)' /\ ReplayFits(p)'
    BY <1>1, <1>2, Keeps DEF OnDisk
  <1>5. FilesFit(p)'
    BY <1>1, <1>2, NewWriterFacts DEF JournalFits, FilesFit, CountsFit, Appends, OnDisk
  <1>6. CountsFit(p)' /\ PhasesFit(p)'
    BY <1>1, <1>2, NewWriterFacts DEF JournalFits, CountsFit, PhasesFit
  <1> QED BY <1>1, <1>2, <1>3, <1>4, <1>5, <1>6, Assemble DEF JournalFits

\* What storing a file does to the others.
LEMMA StoreFacts ==
    ASSUME JournalInv, NEW p \in Runners, NEW state \in {"temp", "linked", "clean"},
           Store(p, state)
    PROVE  /\ DOMAIN disk' = DOMAIN disk \cup {writer[p].file}
           /\ disk'[writer[p].file] = state
           /\ \A f \in DOMAIN disk : f # writer[p].file => disk'[f] = disk[f]
           /\ disk' \in [DOMAIN disk' -> {"temp", "linked", "clean"}]
  BY DEF Store, JournalInv, JournalTypeOK

\* A file is written under its temporary name, or linked to its own.
LEMMA StoringFits ==
    ASSUME JournalInv, NEW p \in Runners, WriteTemp(p) \/ Link(p)
    PROVE  JournalInv'
  <1> DEFINE file == writer[p].file
  <1>1. /\ pc[p] = "writing" /\ ~OnDisk(file)
        /\ Store(p, "temp") \/ Store(p, "linked")
        /\ UNCHANGED <<directory, content, output, pc, writer, acked, executed, torn>>
    BY DEF WriteTemp, Link, Writing, OnDisk
  <1>2. /\ DOMAIN disk' = DOMAIN disk \cup {file}
        /\ \A f \in DOMAIN disk : f # file => disk'[f] = disk[f]
        /\ disk' \in [DOMAIN disk' -> {"temp", "linked", "clean"}]
    BY <1>1, StoreFacts
  <1>3. Touched(p) /\ JournalFits(p) /\ directory = "ready" /\ RoleFits(p)
    BY <1>1, Owns DEF Engaged
  <1>4. JournalTypeOK' /\ RoleFits(p)' /\ Touched(p)' /\ Apart(p)
    BY <1>1, <1>2, <1>3 DEF JournalInv, JournalTypeOK, RoleFits, Touched, Apart
  <1>5. \A f : OnDisk(f) => OnDisk(f)'
    BY <1>1, <1>2 DEF OnDisk
  <1>6. AckedFits' /\ PendingFits(p)' /\ ReplayFits(p)'
    BY <1>1, <1>3, <1>5, Keeps
  <1>7. FilesFit(p)'
    <2>1. FilesFit(p) /\ writer[p].append = Len(content) /\ Len(content) \in Nat
      BY <1>3 DEF JournalFits, CountsFit, JournalInv, JournalTypeOK
    <2>2. \A n \in Nat : Object(n) \in DOMAIN disk'
                           => n \in Appends /\ HasObjects(content[n].kind)
      BY <1>1, <1>2, <2>1, NameFacts DEF FilesFit, Appends
    <2>3. Len(content) > 0 => Manifest \in DOMAIN disk'
      BY <1>2, <2>1 DEF FilesFit
    <2>4. ~torn => \A f \in DOMAIN disk' : disk'[f] = "clean" \/ f = file
      BY <1>2, <2>1 DEF FilesFit
    <2>5. ~torn => \A n \in Appends : n \in Range(acked) \/ n = writer[p].append
      BY <2>1 DEF FilesFit
    <2> QED BY <1>1, <1>5, <2>1, <2>2, <2>3, <2>4, <2>5 DEF FilesFit, Appends
  <1>8. CountsFit(p)' /\ PhasesFit(p)'
    BY <1>1, <1>3 DEF JournalFits, CountsFit, PhasesFit
  <1> QED BY <1>1, <1>3, <1>4, <1>6, <1>7, <1>8, Assemble DEF JournalFits

\* An append begins: its event fits what has returned, and is true.
LEMMA BeginFits ==
    ASSUME JournalInv, NEW p \in Runners, NEW kind \in Kinds, Begin(p, kind),
           pc[p] \in {"writing", "open", "failing"}, ~writer[p].terminal,
           UNCHANGED <<directory, acked, output, torn>>,
           executed' \in Nat, executed <= executed',
           disk' \in [DOMAIN disk' -> {"temp", "linked", "clean"}],
           \A f : OnDisk(f) => OnDisk(f)', Manifest \in DOMAIN disk',
           DOMAIN disk' = DOMAIN disk \cup {Manifest},
           ~torn => /\ \A f \in DOMAIN disk' : disk'[f] = "clean"
                    /\ \A n \in Appends : n \in Range(acked),
           Fits(Summary(p), Body(p, kind)),
           Len(acked) = 0 => kind = "ATTEMPT_OPENED",
           kind = "OCCURRENCE_COMPLETED" => writer[p].completed < executed',
           kind = "OUTPUT_PUBLISHED" => output
    PROVE  JournalInv'
  <1> DEFINE n == Len(content) + 1
             e == Body(p, kind)
  <1>1. Touched(p) /\ JournalFits(p) /\ directory = "ready" /\ RoleFits(p)
    BY Owns DEF Engaged
  <1>2. /\ n \in Nat /\ n > 0 /\ Len(content) \in Nat /\ Len(acked) \in Nat
        /\ writer[p] \in Writers
    BY DEF JournalInv, JournalTypeOK
  <1>3. /\ e \in Events /\ e.kind = kind /\ e.seq = writer[p].seq
        /\ e.previous = writer[p].previous /\ e.count = writer[p].completed
    BY <1>2 DEF Body, Events, Writers
  <1>4. /\ content' = Append(content, e) /\ content' \in Seq(Events) /\ Len(content') = n
        /\ content'[n] = e /\ \A m \in Appends : content'[m] = content[m]
    <2>1. content' = Append(content, e) /\ content \in Seq(Events)
      BY DEF Begin, JournalInv, JournalTypeOK
    <2> HIDE DEF e
    <2> QED BY <1>3, <2>1 DEF Appends
  <1>5. /\ Appends' = Appends \cup {n} /\ n \notin Appends
    BY <1>2, <1>4 DEF Appends
  <1>6. /\ writer' \in [Runners -> Writers] /\ pc' \in [Runners -> Labels] /\ Apart(p)
        /\ pc'[p] = "writing" /\ writer'[p].append = n
        /\ writer'[p].file = (IF HasObjects(kind) THEN Object(n) ELSE Event(n))
        /\ writer'[p].seq = writer[p].seq /\ writer'[p].previous = writer[p].previous
        /\ writer'[p].active = writer[p].active
        /\ writer'[p].completed = writer[p].completed
        /\ writer'[p].bound = writer[p].bound
        /\ writer'[p].computed = writer[p].computed
        /\ writer'[p].terminal = writer[p].terminal
    <2>1. Object(n) \in Names /\ Event(n) \in Names
      BY <1>2 DEF Names
    <2>2. /\ writer' = [writer EXCEPT ![p].append = n,
                          ![p].file = IF HasObjects(kind) THEN Object(n) ELSE Event(n)]
          /\ pc' = [pc EXCEPT ![p] = "writing"]
      BY DEF Begin, Goto
    <2> HIDE DEF n
    <2>3. writer \in [Runners -> Writers] /\ pc \in [Runners -> Labels]
      BY DEF JournalInv, JournalTypeOK
    <2> QED BY <1>2, <2>1, <2>2, <2>3 DEF Writers, Apart, Labels, Engaged
  <1>7. JournalTypeOK'
    BY <1>4, <1>6 DEF JournalInv, JournalTypeOK
  <1>8. Touched(p)' /\ RoleFits(p)'
    BY <1>1, <1>6 DEF Touched, RoleFits, Engaged
  <1>9. \A k \in 1..Len(acked) : acked[k] \in Appends /\ content'[acked[k]] = content[acked[k]]
    BY <1>1, <1>4 DEF JournalFits, AckedFits
  <1>10. writer[p].seq = Len(acked)
    BY <1>1 DEF JournalFits, CountsFit
  <1> HIDE DEF n, e
  <1>11. AckedFits'
    <2>1. \A m \in Appends : content'[m].seq <= Len(acked)
      BY <1>1, <1>4 DEF JournalFits, AckedFits
    <2>2. content'[n].seq <= Len(acked)
      BY <1>2, <1>3, <1>4, <1>10
    <2>3. \A m \in Appends' : content'[m].seq <= Len(acked)
      BY <1>5, <2>1, <2>2
    <2> QED BY <1>1, <1>5, <1>9, <2>3 DEF JournalFits, AckedFits
  <1>12. FilesFit(p)'
    <2>1. FilesFit(p)
      BY <1>1 DEF JournalFits
    <2>2. \A m \in Nat : Object(m) \in DOMAIN disk'
                           => m \in Appends' /\ HasObjects(content'[m].kind)
      BY <1>4, <1>5, <2>1, NameFacts DEF FilesFit
    <2>3. ~torn => \A m \in Appends' : m \in Range(acked) \/ m = n
      BY <1>5
    <2> QED BY <1>2, <1>3, <1>4, <1>6, <2>2, <2>3 DEF FilesFit
  <1>13. Len(acked) > 0 => content'[acked[Len(acked)]] = content[acked[Len(acked)]]
    BY <1>2, <1>9
  <1>14. CountsFit(p)'
    BY ZenonT(30), <1>1, <1>3, <1>4, <1>6, <1>10, <1>13 DEF JournalFits, CountsFit
  <1>15. PhasesFit(p)'
    BY <1>1, <1>2, <1>6, BoundsAreNumbers
       DEF JournalFits, PhasesFit, Writers, JournalInv, JournalTypeOK
  <1>16. Summary(p)' = Summary(p)
    BY <1>6 DEF Summary
  <1>17. PendingFits(p)'
    <2> SUFFICES ASSUME NEW m \in Appends', content'[m].seq = Len(acked)
                 PROVE  /\ content'[m].previous = writer[p].previous
                        /\ Fits(Summary(p), content'[m])
                        /\ Len(acked) = 0 => content'[m].kind = "ATTEMPT_OPENED"
                        /\ content'[m].kind = "OCCURRENCE_COMPLETED"
                             => writer[p].completed < executed'
                        /\ content'[m].kind = "OUTPUT_PUBLISHED" => output
      BY <1>6, <1>16 DEF PendingFits
    <2>1. CASE m = n
      BY <1>3, <1>4, <2>1 DEF e
    <2>2. CASE m \in Appends
      <3>1. writer[p].completed < executed => writer[p].completed < executed'
        BY <1>2 DEF Writers, JournalInv, JournalTypeOK
      <3> QED BY <1>1, <1>4, <2>2, <3>1 DEF JournalFits, PendingFits
    <2> QED BY <1>5, <2>1, <2>2
  <1>18. ReplayFits(p)'
    <2>1. \A f : Solves(f, content', acked) <=> Solves(f, content, acked)
      BY <1>9, SolvesKeeps
    <2> QED BY <1>1, <1>16, <2>1 DEF JournalFits, ReplayFits
  <1> QED BY <1>1, <1>6, <1>7, <1>8, <1>11, <1>12, <1>14, <1>15, <1>17, <1>18, Assemble
          DEF JournalFits

\* The runner's own appends, between two of them.
LEMMA CallsFit ==
    ASSUME JournalInv, NEW p \in Runners,
           \/ BindSource(p) \/ BeginOccurrence(p) \/ CommitCheckpoint(p)
           \/ CompleteOccurrence(p) \/ CommitComputation(p)
           \/ CommitPublished(p) \/ CommitFailure(p)
    PROVE  JournalInv'
  <1>1. /\ pc[p] \in {"open", "failing"} /\ UNCHANGED <<directory, disk, acked, output, torn>>
        /\ executed' \in {executed, executed + 1}
    BY DEF BindSource, BeginOccurrence, CommitCheckpoint, CompleteOccurrence,
           CommitComputation, CommitPublished, CommitFailure, KeepAppend, Open
  <1>2. Touched(p) /\ JournalFits(p) /\ directory = "ready" /\ RoleFits(p)
    BY <1>1, Owns DEF Engaged
  <1>3. /\ Len(acked) \in Nat /\ Len(acked) > 0 /\ ~writer[p].terminal
        /\ writer[p].seq = Len(acked) /\ writer[p].append = Len(content)
        /\ writer[p] \in Writers /\ executed \in Nat /\ Len(content) \in Nat
    BY <1>1, <1>2 DEF JournalFits, CountsFit, JournalInv, JournalTypeOK
  <1>4. Len(content) > 0
    <2>1. 1 \in 1..Len(acked)
      BY <1>3
    <2>2. acked[1] \in 1..Len(content)
      BY <1>2, <2>1 DEF JournalFits, AckedFits, Appends
    <2> QED BY <1>3, <2>2
  <1>5. Manifest \in DOMAIN disk' /\ DOMAIN disk' = DOMAIN disk \cup {Manifest}
    BY <1>1, <1>2, <1>4 DEF JournalFits, FilesFit
  <1>6. /\ disk' \in [DOMAIN disk' -> {"temp", "linked", "clean"}]
        /\ \A f : OnDisk(f) => OnDisk(f)'
        /\ executed' \in Nat /\ executed <= executed'
    BY <1>1, <1>3 DEF JournalInv, JournalTypeOK, OnDisk
  <1>7. ~torn => /\ \A f \in DOMAIN disk' : disk'[f] = "clean"
                 /\ \A n \in Appends : n \in Range(acked)
    BY <1>1, <1>2 DEF JournalFits, FilesFit
  <1>8. /\ Summary(p).completed = writer[p].completed
        /\ Summary(p).active = writer[p].active /\ Summary(p).bound = writer[p].bound
        /\ Summary(p).computed = writer[p].computed
    BY DEF Summary
  <1>9. \A kind \in Kinds : /\ Body(p, kind).kind = kind
                            /\ Body(p, kind).seq = Len(acked)
                            /\ Body(p, kind).count = writer[p].completed
    BY <1>3 DEF Body
  <1>10. PhasesFit(p)
    BY <1>2 DEF JournalFits
  <1>11. ASSUME NEW kind \in Kinds, Begin(p, kind), Fits(Summary(p), Body(p, kind)),
                kind = "OCCURRENCE_COMPLETED" => writer[p].completed < executed',
                kind = "OUTPUT_PUBLISHED" => output
         PROVE  JournalInv'
    <2>1. pc[p] \in {"writing", "open", "failing"} /\ UNCHANGED <<directory, acked, output, torn>>
      BY <1>1
    <2>2. Len(acked) = 0 => kind = "ATTEMPT_OPENED"
      BY <1>3
    <2> QED BY <1>3, <1>5, <1>6, <1>7, <1>11, <2>1, <2>2, BeginFits
  <1>12. CASE BindSource(p)
    <2>1. "SOURCE_REPLAY_BOUND" \in Kinds /\ Begin(p, "SOURCE_REPLAY_BOUND")
      BY <1>12 DEF BindSource, Kinds
    <2>2. Fits(Summary(p), Body(p, "SOURCE_REPLAY_BOUND"))
      BY <1>8, <1>9, <1>10, <1>12, <2>1 DEF BindSource, Open, PhasesFit, Fits
    <2> QED BY <1>11, <2>1, <2>2
  <1>13. CASE BeginOccurrence(p)
    <2>1. "OCCURRENCE_STARTED" \in Kinds /\ Begin(p, "OCCURRENCE_STARTED")
      BY <1>13 DEF BeginOccurrence, Kinds
    <2>2. Fits(Summary(p), Body(p, "OCCURRENCE_STARTED"))
      BY <1>8, <1>9, <1>13, <2>1 DEF BeginOccurrence, Fits
    <2> QED BY <1>11, <2>1, <2>2
  <1>14. CASE CommitCheckpoint(p)
    <2>1. "DIRECT_CHECKPOINT_COMPLETED" \in Kinds /\ Begin(p, "DIRECT_CHECKPOINT_COMPLETED")
      BY <1>14 DEF CommitCheckpoint, Kinds
    <2>2. Fits(Summary(p), Body(p, "DIRECT_CHECKPOINT_COMPLETED"))
      BY <1>8, <1>9, <1>14, <2>1 DEF CommitCheckpoint, Fits
    <2> QED BY <1>11, <2>1, <2>2
  <1>15. CASE CompleteOccurrence(p)
    <2>1. "OCCURRENCE_COMPLETED" \in Kinds /\ Begin(p, "OCCURRENCE_COMPLETED")
      BY <1>15 DEF CompleteOccurrence, Kinds
    <2>2. Fits(Summary(p), Body(p, "OCCURRENCE_COMPLETED"))
      BY <1>8, <1>9, <1>15, <2>1 DEF CompleteOccurrence, Fits
    <2>3. writer[p].completed < executed'
      BY <1>3, <1>10, <1>15 DEF CompleteOccurrence, PhasesFit, Writers
    <2> QED BY <1>11, <2>1, <2>2, <2>3
  <1>16. CASE CommitComputation(p)
    <2>1. /\ "CAMPAIGN_COMPUTATION_COMPLETED" \in Kinds
          /\ Begin(p, "CAMPAIGN_COMPUTATION_COMPLETED")
      BY <1>16 DEF CommitComputation, Kinds
    <2>2. Fits(Summary(p), Body(p, "CAMPAIGN_COMPUTATION_COMPLETED"))
      BY <1>8, <1>9, <1>16, <2>1 DEF CommitComputation, Fits
    <2> QED BY <1>11, <2>1, <2>2
  <1>17. CASE CommitPublished(p)
    <2>1. "OUTPUT_PUBLISHED" \in Kinds /\ Begin(p, "OUTPUT_PUBLISHED") /\ output
      BY <1>17 DEF CommitPublished, Kinds, TerminalKinds
    <2>2. Fits(Summary(p), Body(p, "OUTPUT_PUBLISHED"))
      BY <1>8, <1>9, <1>17, <2>1 DEF CommitPublished, Fits
    <2> QED BY <1>11, <2>1, <2>2
  <1>18. CASE CommitFailure(p)
    <2>1. "CAUGHT_FAILURE" \in Kinds /\ Begin(p, "CAUGHT_FAILURE")
      BY <1>18 DEF CommitFailure, Kinds, TerminalKinds
    <2>2. Fits(Summary(p), Body(p, "CAUGHT_FAILURE"))
      BY <1>9, <2>1 DEF Fits
    <2> QED BY <1>11, <2>1, <2>2
  <1> QED BY <1>12, <1>13, <1>14, <1>15, <1>16, <1>17, <1>18

\* A call fails, or the runner dies; nothing was being written.
LEMMA StopsFit ==
    ASSUME JournalInv, NEW p \in Runners, PublishOutput(p) \/ ComputationRaises(p)
    PROVE  JournalInv'
  <1>1. /\ pc[p] = "open" /\ pc'[p] \in {"open", "failing"} /\ pc' \in [Runners -> Labels]
        /\ Apart(p) /\ (output => output')
        /\ UNCHANGED <<directory, disk, content, writer, acked, executed, torn>>
    BY DEF PublishOutput, ComputationRaises, Open, Goto, diskVars, Apart, JournalInv,
           JournalTypeOK, Labels, Engaged
  <1>2. Touched(p) /\ JournalFits(p) /\ directory = "ready" /\ RoleFits(p)
    BY <1>1, Owns DEF Engaged
  <1>3. JournalTypeOK' /\ RoleFits(p)' /\ Touched(p)'
    BY <1>1, <1>2 DEF JournalInv, JournalTypeOK, RoleFits, Touched, Engaged
  <1>4. AckedFits' /\ PendingFits(p)' /\ ReplayFits(p)'
    BY <1>1, <1>2, Keeps DEF OnDisk
  <1>5. FilesFit(p)'
    BY <1>1, <1>2 DEF JournalFits, FilesFit, Appends, OnDisk
  <1>6. CountsFit(p)' /\ PhasesFit(p)'
    BY <1>1, <1>2 DEF JournalFits, CountsFit, PhasesFit
  <1> QED BY <1>1, <1>2, <1>3, <1>4, <1>5, <1>6, Assemble DEF JournalFits

\* An exception inside an append.
LEMMA AppendRaisesFits ==
    ASSUME JournalInv, NEW p \in Runners, AppendRaises(p)
    PROVE  JournalInv'
  <1> DEFINE file == writer[p].file
  <1>1. /\ pc[p] = "writing" /\ torn' = TRUE /\ Apart(p)
        /\ UNCHANGED <<directory, content, output, writer, acked, executed>>
        /\ pc' \in [Runners -> Labels]
        /\ pc'[p] = "ended" \/ (pc'[p] = "failing" /\ writer[p].seq # 0)
    BY DEF AppendRaises, Goto, Apart, JournalInv, JournalTypeOK, Labels, Engaged
  <1>2. /\ DOMAIN disk' \subseteq DOMAIN disk
        /\ disk' \in [DOMAIN disk' -> {"temp", "linked", "clean"}]
        /\ \A f \in DOMAIN disk : f # file => f \in DOMAIN disk' /\ disk'[f] = disk[f]
        /\ file \in DOMAIN disk /\ disk[file] = "clean"
             => file \in DOMAIN disk' /\ disk'[file] = "clean"
    <2>0. disk \in [DOMAIN disk -> {"temp", "linked", "clean"}]
      BY DEF JournalInv, JournalTypeOK
    <2>1. CASE Writing(p, "temp")
      <3>1. disk' = [f \in DOMAIN disk \ {file} |-> disk[f]]
        BY <2>1 DEF AppendRaises, Writing
      <3> QED BY <2>0, <2>1, <3>1 DEF Writing
    <2>2. CASE Writing(p, "linked")
      <3>1. disk' = [disk EXCEPT ![file] = "clean"] /\ file \in DOMAIN disk
        BY <2>2 DEF AppendRaises, Writing
      <3> QED BY <2>0, <3>1
    <2>3. CASE ~Writing(p, "temp") /\ ~Writing(p, "linked")
      <3>1. disk' = disk
        BY <2>3 DEF AppendRaises
      <3> QED BY <2>0, <3>1
    <2> QED BY <2>1, <2>2, <2>3
  <1>3. Touched(p) /\ JournalFits(p) /\ directory = "ready" /\ RoleFits(p)
    BY <1>1, Owns DEF Engaged
  <1>4. JournalTypeOK' /\ RoleFits(p)'
    BY <1>1, <1>2, <1>3 DEF JournalInv, JournalTypeOK, RoleFits, Touched, Engaged
  <1>5. \A f : OnDisk(f) => OnDisk(f)'
    BY <1>2 DEF OnDisk
  <1>6. AckedFits' /\ PendingFits(p)' /\ ReplayFits(p)'
    BY <1>1, <1>3, <1>5, Keeps
  <1>7. /\ FilesFit(p) /\ writer[p].append = Len(content) /\ Len(content) \in Nat
        /\ writer[p].seq = Len(acked) /\ Len(acked) \in Nat /\ ~writer[p].terminal
    BY <1>1, <1>3 DEF JournalFits, CountsFit, JournalInv, JournalTypeOK
  <1>8. FilesFit(p)'
    <2>1. \A n \in Nat : Object(n) \in DOMAIN disk'
                           => n \in Appends' /\ HasObjects(content'[n].kind)
      BY <1>1, <1>2, <1>7 DEF FilesFit, Appends
    <2>2. Len(content) > 0 => Manifest \in DOMAIN disk'
      <3>1. Len(content) > 0 => file # Manifest
        BY <1>1, <1>7, NameFacts DEF FilesFit
      <3> QED BY <1>2, <1>7, <3>1 DEF FilesFit
    <2> QED BY <1>1, <2>1, <2>2 DEF FilesFit
  <1>9. CountsFit(p)' /\ PhasesFit(p)'
    BY <1>1, <1>3, <1>7 DEF JournalFits, CountsFit, PhasesFit
  <1>10. Len(content) > 0 \/ Len(acked) > 0 => Touched(p)'
    BY <1>1, <1>7, NewWriterFacts DEF Touched
  <1> QED BY <1>1, <1>3, <1>4, <1>6, <1>8, <1>9, <1>10, Assemble DEF JournalFits

\* A runner dies.
LEMMA CrashFits ==
    ASSUME JournalInv, NEW p \in Runners, Crash(p)
    PROVE  JournalInv'
  <1>1. /\ pc[p] \in {"making"} \cup Engaged /\ pc'[p] = "dead" /\ Apart(p)
        /\ UNCHANGED <<directory, disk, content, output, writer, acked, executed>>
        /\ pc' \in [Runners -> Labels] /\ torn' = (torn \/ pc[p] = "writing")
    BY DEF Crash, Goto, diskVars, Apart, JournalInv, JournalTypeOK, Labels, Engaged
  <1>2. CASE pc[p] = "making"
    <2>1. writer[p] = NewWriter
      BY <1>2 DEF JournalInv, RoleFits
    <2>2. torn' = torn
      BY <1>1, <1>2 DEF JournalInv, JournalTypeOK
    <2> QED BY <1>1, <1>2, <2>1, <2>2, Elsewhere DEF Touched, Engaged
  <1>3. CASE pc[p] \in Engaged
    <2>1. Touched(p) /\ JournalFits(p) /\ directory # "absent" /\ RoleFits(p)
      BY <1>3, Owns
    <2>2. JournalTypeOK' /\ RoleFits(p)'
      BY <1>1, <2>1 DEF JournalInv, JournalTypeOK, RoleFits, Touched, Engaged
    <2>3. AckedFits' /\ PendingFits(p)' /\ ReplayFits(p)'
      BY <1>1, <2>1, Keeps DEF OnDisk
    <2>4. FilesFit(p)'
      BY <1>1, <2>1 DEF JournalFits, FilesFit, Appends, OnDisk
    <2>5. CountsFit(p)' /\ PhasesFit(p)'
      BY <1>1, <1>3, <2>1 DEF JournalFits, CountsFit, PhasesFit, Engaged
    <2>6. Len(content) > 0 \/ Len(acked) > 0 => Touched(p)'
      BY <1>1, <2>1, NewWriterFacts DEF JournalFits, CountsFit, Touched
    <2> QED BY <1>1, <2>1, <2>2, <2>3, <2>4, <2>5, <2>6, Assemble DEF JournalFits
  <1> QED BY <1>1, <1>2, <1>3

\* The manifest is there, and the attempt is opened.
LEMMA OpenedFits ==
    ASSUME JournalInv, NEW p \in Runners, Unlink(p), writer[p].file = Manifest,
           Begin(p, "ATTEMPT_OPENED"), UNCHANGED acked
    PROVE  JournalInv'
  <1>1. /\ pc[p] = "writing" /\ Store(p, "clean")
        /\ UNCHANGED <<directory, output, executed, torn>>
    BY DEF Unlink, Writing
  <1>2. Touched(p) /\ JournalFits(p) /\ directory = "ready" /\ RoleFits(p)
    BY <1>1, Owns DEF Engaged
  <1>3. /\ Len(content) = 0 /\ Len(acked) = 0 /\ ~writer[p].terminal /\ writer[p].append = 0
        /\ writer[p].seq = 0
    <2>1. /\ writer[p].append = Len(content) /\ writer[p].seq = Len(acked)
          /\ Len(content) \in Nat /\ Len(acked) \in Nat /\ ~writer[p].terminal
      BY <1>1, <1>2 DEF JournalFits, CountsFit, JournalInv, JournalTypeOK
    <2>2. Len(content) = 0
      BY <1>1, <1>2, <2>1, NameFacts DEF JournalFits, FilesFit
    <2>3. ~(Len(acked) > 0)
      <3>1. ASSUME Len(acked) > 0 PROVE FALSE
        <4>1. 1 \in 1..Len(acked)
          BY <2>1, <3>1
        <4> QED BY <1>2, <2>2, <4>1 DEF JournalFits, AckedFits, Appends
      <3> QED BY <3>1
    <2> QED BY <2>1, <2>2, <2>3
  <1>4. /\ DOMAIN disk' = DOMAIN disk \cup {Manifest} /\ disk'[Manifest] = "clean"
        /\ \A f \in DOMAIN disk : f # Manifest => disk'[f] = disk[f]
        /\ disk' \in [DOMAIN disk' -> {"temp", "linked", "clean"}]
    BY <1>1, StoreFacts
  <1>5. \A f : OnDisk(f) => OnDisk(f)'
    BY <1>4 DEF OnDisk
  <1>6. ~torn => /\ \A f \in DOMAIN disk' : disk'[f] = "clean"
                 /\ \A n \in Appends : n \in Range(acked)
    BY <1>2, <1>3, <1>4 DEF JournalFits, FilesFit, Appends
  <1>7. Fits(Summary(p), Body(p, "ATTEMPT_OPENED")) /\ "ATTEMPT_OPENED" \in Kinds
    BY <1>3 DEF Fits, Body, Kinds
  <1>8. executed' \in Nat /\ executed <= executed'
    BY <1>1 DEF JournalInv, JournalTypeOK
  <1> QED BY <1>1, <1>3, <1>4, <1>5, <1>6, <1>7, <1>8, BeginFits

\* The object is there, and its event is next.
LEMMA ObjectStoredFits ==
    ASSUME JournalInv, NEW p \in Runners, Unlink(p),
           writer[p].file = Object(writer[p].append),
           writer' = [writer EXCEPT ![p].file = Event(writer[p].append)],
           UNCHANGED <<content, acked, pc>>
    PROVE  JournalInv'
  <1> DEFINE n == writer[p].append
  <1>1. /\ pc[p] = "writing" /\ Store(p, "clean")
        /\ UNCHANGED <<directory, output, executed, torn>>
    BY DEF Unlink, Writing
  <1>2. Touched(p) /\ JournalFits(p) /\ directory = "ready" /\ RoleFits(p)
    BY <1>1, Owns DEF Engaged
  <1>3. /\ n \in Nat /\ n = Len(content) /\ n > 0 /\ HasObjects(content[n].kind)
        /\ writer[p] \in Writers /\ writer \in [Runners -> Writers]
    <2>1. n \in Nat /\ n = Len(content) /\ writer \in [Runners -> Writers]
      BY <1>2 DEF JournalFits, CountsFit, JournalInv, JournalTypeOK
    <2> QED BY <1>1, <1>2, <2>1, NameFacts DEF JournalFits, FilesFit
  <1>4. /\ DOMAIN disk' = DOMAIN disk \cup {Object(n)} /\ disk'[Object(n)] = "clean"
        /\ \A f \in DOMAIN disk : f # Object(n) => disk'[f] = disk[f]
        /\ disk' \in [DOMAIN disk' -> {"temp", "linked", "clean"}]
    BY <1>1, StoreFacts
  <1>5. \A f : OnDisk(f) => OnDisk(f)'
    BY <1>4 DEF OnDisk
  <1>6. /\ writer' \in [Runners -> Writers] /\ Apart(p)
        /\ writer'[p].file = Event(n) /\ writer'[p].append = n
        /\ writer'[p].seq = writer[p].seq /\ writer'[p].previous = writer[p].previous
        /\ writer'[p].active = writer[p].active
        /\ writer'[p].completed = writer[p].completed
        /\ writer'[p].bound = writer[p].bound
        /\ writer'[p].computed = writer[p].computed
        /\ writer'[p].terminal = writer[p].terminal
    <2>1. Event(n) \in Names
      BY <1>3 DEF Names
    <2> QED BY <1>3, <2>1 DEF Writers, Apart
  <1>7. JournalTypeOK' /\ RoleFits(p)' /\ Touched(p)'
    BY <1>1, <1>2, <1>4, <1>6 DEF JournalInv, JournalTypeOK, RoleFits, Touched, Engaged
  <1>8. AckedFits' /\ PendingFits(p)' /\ ReplayFits(p)'
    BY <1>1, <1>2, <1>5, <1>6, Keeps
  <1> HIDE DEF n
  <1>9. FilesFit(p)'
    <2>1. FilesFit(p)
      BY <1>2 DEF JournalFits
    <2>2. \A m \in Nat : Object(m) \in DOMAIN disk'
                           => m \in Appends /\ HasObjects(content[m].kind)
      BY <1>3, <1>4, <2>1, NameFacts DEF FilesFit, Appends
    <2>3. Len(content) > 0 => Manifest \in DOMAIN disk'
      BY <1>4, <2>1 DEF FilesFit
    <2>4. ~torn => \A f \in DOMAIN disk' : disk'[f] = "clean"
      BY <1>1, <1>4, <2>1 DEF FilesFit, n
    <2>5. ~torn => \A m \in Appends : m \in Range(acked) \/ m = n
      BY <2>1 DEF FilesFit, n
    <2>6. Object(n) \in DOMAIN disk' /\ disk'[Object(n)] = "clean"
      BY <1>4
    <2> QED BY <1>1, <1>3, <1>6, <2>2, <2>3, <2>4, <2>5, <2>6 DEF FilesFit, Appends,
               OnDisk
  <1>10. CountsFit(p)' /\ PhasesFit(p)'
    BY <1>1, <1>2, <1>6 DEF JournalFits, CountsFit, PhasesFit, n
  <1> QED BY <1>1, <1>2, <1>6, <1>7, <1>8, <1>9, <1>10, Assemble DEF JournalFits

\* The append returns.
LEMMA AcknowledgedFits ==
    ASSUME JournalInv, NEW p \in Runners, Unlink(p),
           writer[p].file = Event(writer[p].append),
           writer' = Recorded(p, content[writer[p].append].kind),
           acked' = Append(acked, writer[p].append),
           pc' = [pc EXCEPT ![p] = IF content[writer[p].append].kind \in TerminalKinds
                                   THEN "ended" ELSE "open"],
           UNCHANGED content
    PROVE  JournalInv'
  <1> DEFINE w == writer[p]
             n == writer[p].append
             e == content[n]
             len == Len(acked)
  <1>1. /\ pc[p] = "writing" /\ Store(p, "clean")
        /\ UNCHANGED <<directory, output, executed, torn>>
    BY DEF Unlink, Writing
  <1>2. Touched(p) /\ JournalFits(p) /\ directory = "ready" /\ RoleFits(p)
    BY <1>1, Owns DEF Engaged
  <1>3. /\ n \in Nat /\ n = Len(content) /\ n > 0 /\ n \in Appends
        /\ HasObjects(e.kind) => OnDisk(Object(n))
        /\ w \in Writers /\ writer \in [Runners -> Writers] /\ pc \in [Runners -> Labels]
        /\ len \in Nat /\ acked \in Seq(Nat) /\ content \in Seq(Events)
    <2>1. /\ n \in Nat /\ n = Len(content) /\ writer \in [Runners -> Writers]
          /\ pc \in [Runners -> Labels] /\ acked \in Seq(Nat) /\ content \in Seq(Events)
      BY <1>2 DEF JournalFits, CountsFit, JournalInv, JournalTypeOK
    <2>2. n > 0 /\ (HasObjects(e.kind) => OnDisk(Object(n)))
      BY <1>1, <1>2, <2>1, NameFacts DEF JournalFits, FilesFit
    <2> QED BY <2>1, <2>2 DEF Appends
  <1>4. e \in Events /\ e.kind \in Kinds /\ e.seq = len
    <2>1. e \in Events
      BY <1>3 DEF Appends
    <2> QED BY <1>1, <1>2, <1>3, <2>1 DEF JournalFits, CountsFit, Events
  <1>5. /\ e.previous = w.previous /\ ~w.terminal /\ Fits(Summary(p), e)
        /\ len = 0 => e.kind = "ATTEMPT_OPENED"
        /\ e.kind = "OCCURRENCE_COMPLETED" => w.completed < executed
        /\ e.kind = "OUTPUT_PUBLISHED" => output
    BY <1>2, <1>3, <1>4 DEF JournalFits, PendingFits
  <1>6. /\ DOMAIN disk' = DOMAIN disk \cup {Event(n)} /\ disk'[Event(n)] = "clean"
        /\ \A f \in DOMAIN disk : f # Event(n) => disk'[f] = disk[f]
        /\ disk' \in [DOMAIN disk' -> {"temp", "linked", "clean"}]
    BY <1>1, StoreFacts
  <1>7. \A f : OnDisk(f) => OnDisk(f)'
    BY <1>6 DEF OnDisk
  <1>8. /\ writer' \in [Runners -> Writers] /\ Apart(p)
        /\ writer'[p].append = n /\ writer'[p].seq = w.seq + 1 /\ writer'[p].previous = n
        /\ writer'[p].bound = (w.bound \/ e.kind = "SOURCE_REPLAY_BOUND")
        /\ writer'[p].active = (IF e.kind = "OCCURRENCE_STARTED" THEN TRUE
                                ELSE IF e.kind = "OCCURRENCE_COMPLETED" THEN FALSE
                                ELSE w.active)
        /\ writer'[p].completed = (IF e.kind = "OCCURRENCE_COMPLETED" THEN w.completed + 1
                                   ELSE w.completed)
        /\ writer'[p].computed = (w.computed \/ e.kind = "CAMPAIGN_COMPUTATION_COMPLETED")
        /\ writer'[p].terminal = (w.terminal \/ e.kind \in TerminalKinds)
    <2> HIDE DEF e
    <2>1. writer' = Recorded(p, e.kind)
      BY DEF e
    <2> DEFINE isActive == IF e.kind = "OCCURRENCE_STARTED" THEN TRUE
                           ELSE IF e.kind = "OCCURRENCE_COMPLETED" THEN FALSE ELSE w.active
               done == IF e.kind = "OCCURRENCE_COMPLETED" THEN w.completed + 1
                       ELSE w.completed
               isBound == w.bound \/ e.kind = "SOURCE_REPLAY_BOUND"
               isComputed == w.computed \/ e.kind = "CAMPAIGN_COMPUTATION_COMPLETED"
               isTerminal == w.terminal \/ e.kind \in TerminalKinds
               count == w.seq + 1
    <2>2. writer' = [writer EXCEPT ![p].seq = count, ![p].previous = n,
                       ![p].bound = isBound, ![p].active = isActive, ![p].completed = done,
                       ![p].computed = isComputed, ![p].terminal = isTerminal]
      BY <2>1 DEF Recorded
    <2>3. /\ isBound \in BOOLEAN /\ isComputed \in BOOLEAN /\ isTerminal \in BOOLEAN
      BY DEF isBound
    <2>4. isActive \in BOOLEAN
      BY <1>3 DEF Writers
    <2>5. done \in Nat /\ count \in Nat /\ n \in Nat
      BY <1>3 DEF Writers
    <2>6. /\ writer' \in [Runners -> Writers] /\ Apart(p)
          /\ writer'[p].append = n /\ writer'[p].seq = count /\ writer'[p].previous = n
          /\ writer'[p].bound = isBound /\ writer'[p].active = isActive
          /\ writer'[p].completed = done /\ writer'[p].computed = isComputed
          /\ writer'[p].terminal = isTerminal
      <3> HIDE DEF isBound, isActive, isComputed, isTerminal, done, count
      <3> DEFINE r == [w EXCEPT !.seq = count, !.previous = n, !.bound = isBound,
                          !.active = isActive, !.completed = done,
                          !.computed = isComputed, !.terminal = isTerminal]
      <3>1. writer' = [writer EXCEPT ![p] = r]
        BY <1>3, <2>2 DEF w
      <3>2. r \in Writers
        BY <1>3, <2>3, <2>4, <2>5 DEF Writers
      <3>3. /\ r.append = w.append /\ r.seq = count /\ r.previous = n
            /\ r.bound = isBound /\ r.active = isActive
            /\ r.completed = done /\ r.computed = isComputed /\ r.terminal = isTerminal
        BY <1>3 DEF Writers
      <3> HIDE DEF r
      <3>4. writer'[p] = r /\ writer' \in [Runners -> Writers] /\ Apart(p)
        BY <1>3, <3>1, <3>2 DEF Apart
      <3> QED BY <3>3, <3>4 DEF w, n
    <2> QED BY <2>6
  <1>9. /\ pc' \in [Runners -> Labels]
        /\ pc'[p] = (IF e.kind \in TerminalKinds THEN "ended" ELSE "open")
    BY <1>3 DEF Labels, Engaged
  <1> HIDE DEF n, e, w
  <1>10. /\ acked' \in Seq(Nat) /\ Len(acked') = len + 1 /\ acked'[len + 1] = n
         /\ \A k \in 1..len : acked'[k] = acked[k]
    BY <1>3 DEF n
  <1>11. JournalTypeOK' /\ RoleFits(p)' /\ Touched(p)'
    <2>1. JournalTypeOK'
      BY <1>1, <1>6, <1>8, <1>9, <1>10 DEF JournalInv, JournalTypeOK
    <2>2. writer'[p] # NewWriter
      BY SMTT(30), <1>3, <1>8, NewWriterFacts
    <2> QED BY <1>1, <1>2, <1>9, <2>1, <2>2 DEF RoleFits, Touched
  <1>12. w.seq = len /\ w.previous = (IF len = 0 THEN 0 ELSE acked[len])
    BY <1>2 DEF JournalFits, CountsFit, w
  <1>13. \A k \in 1..(len + 1) : k \in 1..len \/ k = len + 1
    BY <1>3
  <1>14. AckedFits'
    <2>1. ASSUME NEW k \in 1..len
          PROVE  /\ acked'[k] \in Appends
                 /\ Event(acked'[k]) \in DOMAIN disk' /\ disk'[Event(acked'[k])] = "clean"
                 /\ HasObjects(content[acked'[k]].kind)
                      => Object(acked'[k]) \in DOMAIN disk' /\ disk'[Object(acked'[k])] = "clean"
                 /\ content[acked'[k]].seq = k - 1
                 /\ content[acked'[k]].previous = (IF k = 1 THEN 0 ELSE acked'[k - 1])
                 /\ k = 1 => content[acked'[k]].kind = "ATTEMPT_OPENED"
      <3>1. k # 1 => k - 1 \in 1..len
        BY <1>3
      <3>2. acked'[k] = acked[k] /\ (k # 1 => acked'[k - 1] = acked[k - 1])
        BY <1>10, <3>1
      <3> QED BY <1>2, <1>7, <3>2 DEF JournalFits, AckedFits, OnDisk
    <2>2. /\ acked'[len + 1] \in Appends
          /\ Event(acked'[len + 1]) \in DOMAIN disk'
          /\ disk'[Event(acked'[len + 1])] = "clean"
          /\ HasObjects(content[acked'[len + 1]].kind)
               => /\ Object(acked'[len + 1]) \in DOMAIN disk'
                  /\ disk'[Object(acked'[len + 1])] = "clean"
          /\ content[acked'[len + 1]].seq = (len + 1) - 1
          /\ content[acked'[len + 1]].previous
               = (IF len + 1 = 1 THEN 0 ELSE acked'[(len + 1) - 1])
          /\ len + 1 = 1 => content[acked'[len + 1]].kind = "ATTEMPT_OPENED"
      <3>1. (len + 1) - 1 = len /\ (len + 1 = 1 <=> len = 0) /\ (len # 0 => len \in 1..len)
        BY <1>3
      <3>2. len # 0 => acked'[len] = acked[len]
        BY <1>10, <3>1
      <3>3. HasObjects(e.kind) => Object(n) \in DOMAIN disk' /\ disk'[Object(n)] = "clean"
        BY <1>3, <1>7 DEF OnDisk
      <3> QED BY <1>3, <1>4, <1>5, <1>6, <1>10, <1>12, <3>1, <3>2, <3>3 DEF e
    <2>3. \A m \in Appends : content[m].seq <= len + 1
      <3>1. \A m \in Appends : content[m] \in Events
        BY <1>3 DEF Appends
      <3> QED BY <1>2, <1>3, <3>1 DEF JournalFits, AckedFits, Events
    <2>4. ASSUME NEW k \in 1..Len(acked')
          PROVE  /\ acked'[k] \in Appends
                 /\ Event(acked'[k]) \in DOMAIN disk' /\ disk'[Event(acked'[k])] = "clean"
                 /\ HasObjects(content[acked'[k]].kind)
                      => Object(acked'[k]) \in DOMAIN disk' /\ disk'[Object(acked'[k])] = "clean"
                 /\ content[acked'[k]].seq = k - 1
                 /\ content[acked'[k]].previous = (IF k = 1 THEN 0 ELSE acked'[k - 1])
                 /\ k = 1 => content[acked'[k]].kind = "ATTEMPT_OPENED"
      <3>1. k \in 1..len \/ k = len + 1
        BY <1>10, <1>13
      <3>2. CASE k \in 1..len
        BY <2>1, <3>2
      <3>3. CASE k = len + 1
        <4> HIDE DEF len
        <4> QED BY <2>2, <3>3, Zenon
      <3> QED BY <3>1, <3>2, <3>3
    <2> QED BY <1>10, <2>3, <2>4 DEF AckedFits, OnDisk, Appends
  <1>15. FilesFit(p)'
    <2>1. FilesFit(p)
      BY <1>2 DEF JournalFits
    <2>2. \A m \in Nat : Object(m) \in DOMAIN disk'
                           => m \in Appends /\ HasObjects(content[m].kind)
      BY <1>3, <1>6, <2>1, NameFacts DEF FilesFit
    <2>3. Len(content) > 0 => Manifest \in DOMAIN disk'
      BY <1>6, <2>1 DEF FilesFit
    <2>4. ~torn => \A f \in DOMAIN disk' : disk'[f] = "clean"
      BY <1>6, <2>1 DEF FilesFit, n
    <2>5. ~torn => \A m \in Appends : m \in Range(acked')
      <3>1. \A m \in Range(acked) : m \in Range(acked')
        <4>1. DOMAIN acked = 1..len /\ DOMAIN acked' = 1..(len + 1)
          BY <1>3, <1>10
        <4>2. \A k \in 1..len : k \in 1..(len + 1)
          BY <1>3
        <4> QED BY <1>10, <4>1, <4>2 DEF Range
      <3>2. n \in Range(acked')
        BY <1>3, <1>10 DEF Range
      <3> QED BY <2>1, <3>1, <3>2 DEF FilesFit, n
    <2> QED BY <1>1, <1>9, <2>2, <2>3, <2>4, <2>5 DEF FilesFit, Appends
  <1>16. /\ len + 1 > 0 /\ len + 1 # 0 /\ acked'[Len(acked')] = n
    BY <1>3, <1>10
  <1>17. PhasesFit(p) /\ Summary(p).completed = w.completed /\ Summary(p).active = w.active
           /\ Summary(p).bound = w.bound /\ Summary(p).computed = w.computed
    BY <1>2 DEF JournalFits, Summary, w
  <1>18. /\ e.kind = "OUTPUT_PUBLISHED" => w.computed
         /\ e.kind = "OCCURRENCE_STARTED" => w.bound /\ w.completed < Count /\ ~w.active
         /\ e.kind = "OCCURRENCE_COMPLETED" => w.active
         /\ e.kind = "DIRECT_CHECKPOINT_COMPLETED" => w.active
         /\ e.kind = "CAMPAIGN_COMPUTATION_COMPLETED" => w.completed = Count /\ ~w.active
         /\ e.kind = "ATTEMPT_OPENED" => len = 0
    BY <1>4, <1>5, <1>17 DEF Fits
  <1>19. CountsFit(p)'
    <2>1. /\ writer'[p].append = Len(content) /\ writer'[p].seq = Len(acked')
          /\ writer'[p].previous = acked'[Len(acked')] /\ Len(acked') > 0 /\ Len(acked') # 0
      BY <1>3, <1>8, <1>10, <1>12, <1>16
    <2>2. content[acked'[Len(acked')]] = e
      BY <1>16 DEF e
    <2>3. /\ writer'[p].terminal <=> e.kind \in TerminalKinds
          /\ writer'[p].terminal => pc'[p] = "ended"
          /\ pc'[p] # "writing"
      BY <1>5, <1>8, <1>9
    <2>4. e.kind = "OUTPUT_PUBLISHED" => output /\ writer'[p].computed
      BY <1>5, <1>8, <1>18
    <2> QED BY <1>1, <2>1, <2>2, <2>3, <2>4 DEF CountsFit
  <1>20. PhasesFit(p)'
    <2>1. /\ w.completed \in Nat /\ executed \in Nat /\ Count \in Nat /\ Count > 0
          /\ w.bound \in BOOLEAN /\ w.active \in BOOLEAN /\ w.computed \in BOOLEAN
      BY <1>3, BoundsAreNumbers DEF Writers, JournalInv, JournalTypeOK
    <2>2. /\ w.completed <= executed /\ w.completed <= Count
          /\ w.active => w.bound /\ w.completed < Count
          /\ w.completed > 0 => w.bound
          /\ w.computed => w.completed = Count
      BY <1>17 DEF PhasesFit, w
    <2>3. writer'[p].completed <= executed /\ writer'[p].completed <= Count
      BY SMTT(30), <1>5, <1>8, <1>18, <2>1, <2>2
    <2>4. writer'[p].active => writer'[p].bound /\ writer'[p].completed < Count
      BY <1>8, <1>18, <2>1, <2>2
    <2>5. writer'[p].completed > 0 => writer'[p].bound
      BY <1>8, <1>18, <2>1, <2>2
    <2>6. writer'[p].computed => writer'[p].completed = Count
      BY SMTT(30), <1>8, <1>18, <2>1, <2>2
    <2>7. pc'[p] = "open" /\ ~writer'[p].bound => len + 1 = 1
      <3> SUFFICES ASSUME pc'[p] = "open", ~writer'[p].bound PROVE len + 1 = 1
        OBVIOUS
      <3>1. e.kind \notin TerminalKinds
        BY <1>9
      <3>2. ~w.bound /\ e.kind # "SOURCE_REPLAY_BOUND"
        BY <1>8
      <3>3. ~w.active /\ w.completed # Count
        BY <2>1, <2>2, <3>2
      <3>4. e.kind = "ATTEMPT_OPENED"
        BY <1>4, <1>18, <3>1, <3>2, <3>3 DEF Kinds
      <3> QED BY <1>18, <3>4
    <2> QED BY <1>1, <1>10, <2>3, <2>4, <2>5, <2>6, <2>7 DEF PhasesFit
  <1>21. PendingFits(p)'
    <2>1. \A m \in Appends : content[m].seq # len + 1
      <3>1. \A m \in Appends : content[m] \in Events
        BY <1>3 DEF Appends
      <3> QED BY <1>2, <1>3, <3>1 DEF JournalFits, AckedFits, Events
    <2> QED BY <1>10, <2>1 DEF PendingFits, Appends
  <1>22. Summary(p)' = Replayed(Summary(p), e)
    <2>1. Summary(p) = [ok |-> TRUE, completed |-> w.completed, active |-> w.active,
                        bound |-> w.bound, computed |-> w.computed,
                        closure |-> "UNCLOSED_ABRUPT"]
      BY <1>5 DEF Summary, w
    <2>2. (Summary(p).ok /\ Summary(p).closure = "UNCLOSED_ABRUPT" /\ Fits(Summary(p), e)) = TRUE
      BY <1>5, <2>1
    <2>3. Summary(p)' =
            [ok |-> TRUE,
             completed |-> IF e.kind = "OCCURRENCE_COMPLETED" THEN w.completed + 1
                           ELSE w.completed,
             active |-> IF e.kind = "OCCURRENCE_STARTED" THEN TRUE
                        ELSE IF e.kind = "OCCURRENCE_COMPLETED" THEN FALSE ELSE w.active,
             bound |-> w.bound \/ e.kind = "SOURCE_REPLAY_BOUND",
             computed |-> w.computed \/ e.kind = "CAMPAIGN_COMPUTATION_COMPLETED",
             closure |-> IF e.kind \in TerminalKinds THEN e.kind ELSE "UNCLOSED_ABRUPT"]
      BY <1>5, <1>8, <1>16 DEF Summary, e
    <2>4. /\ Summary(p).completed = w.completed /\ Summary(p).active = w.active
          /\ Summary(p).bound = w.bound /\ Summary(p).computed = w.computed
          /\ Summary(p).closure = "UNCLOSED_ABRUPT"
      BY <2>1
    <2> QED BY <2>2, <2>3, <2>4, Zenon DEF Replayed
  <1>23. ReplayFits(p)'
    <2>1. ReplayFits(p)
      BY <1>2 DEF JournalFits
    <2>2. acked' = Append(acked, n) /\ UNCHANGED content
      BY DEF n
    <2>3. \E f : Solves(f, content, acked')
      BY <1>3, <2>1, <2>2, SolvesAppend DEF ReplayFits
    <2>4. ASSUME NEW f, Solves(f, content, acked') PROVE f[len + 1] = Summary(p)'
      <3>1. Solves(f, content, acked) /\ f[len + 1] = Replayed(f[len], e)
        BY <1>3, <2>2, <2>4, SolvesAppend DEF e
      <3> QED BY <1>22, <2>1, <3>1 DEF ReplayFits
    <2> QED BY <1>10, <2>2, <2>3, <2>4 DEF ReplayFits
  <1> QED BY <1>1, <1>2, <1>8, <1>11, <1>14, <1>15, <1>19, <1>20, <1>21, <1>23, Assemble
          DEF JournalFits

-----------------------------------------------------------------------------
(* The attempt journal: the induction                                      *)

\* Every step keeps the invariant.
LEMMA StepsFit == JournalInv /\ [AttemptNext]_vars => JournalInv'
  <1> SUFFICES ASSUME JournalInv, [AttemptNext]_vars PROVE JournalInv'
    OBVIOUS
  <1>1. CASE UNCHANGED vars
    <2>1. UNCHANGED <<directory, disk, content, output, pc, writer, acked, executed, torn>>
      BY <1>1 DEF vars, diskVars
    <2>2. JournalTypeOK'
      BY <2>1 DEF JournalInv, JournalTypeOK
    <2>3. ASSUME NEW p \in Runners
          PROVE  (Touched(p)' <=> Touched(p)) /\ RoleFits(p)' /\ (Touched(p)' => JournalFits(p)')
      <3>1. (Touched(p)' <=> Touched(p)) /\ RoleFits(p)'
        BY <2>1 DEF JournalInv, Touched, RoleFits
      <3>2. ASSUME JournalFits(p) PROVE JournalFits(p)'
        <4>1. AckedFits' /\ PendingFits(p)' /\ ReplayFits(p)'
          BY <2>1, <3>2, Keeps DEF OnDisk
        <4>2. FilesFit(p)'
          BY <2>1, <3>2 DEF JournalFits, FilesFit, Appends, OnDisk
        <4>3. CountsFit(p)' /\ PhasesFit(p)'
          BY <2>1, <3>2 DEF JournalFits, CountsFit, PhasesFit
        <4> QED BY <4>1, <4>2, <4>3 DEF JournalFits
      <3> QED BY <3>1, <3>2 DEF JournalInv
    <2> QED BY <2>1, <2>2, <2>3 DEF JournalInv
  <1>2. ASSUME NEW p \in Runners, Unlink(p) PROVE JournalInv'
    BY <1>2, OpenedFits, ObjectStoredFits, AcknowledgedFits DEF Unlink, Goto
  <1> QED BY <1>1, <1>2, StartFits, MkdirFits, SubdirsFits, StoringFits, CallsFit,
             StopsFit,
             AppendRaisesFits, CrashFits DEF AttemptNext, Finished

\* The invariant of the attempt journal: one runner owns it, what has returned
\* is on disk under its number, and the verifier's recursion over it ends in
\* what its writer knows.
THEOREM JournalInvariant == AttemptSpec => []JournalInv
  BY InitFits, StepsFit, PTL DEF AttemptSpec

\* One attempt has one writer.
THEOREM OneWriter == AttemptSpec => []SingleWriter
  <1>1. JournalInv => SingleWriter
    <2> SUFFICES ASSUME JournalInv, NEW p \in Runners, NEW q \in Runners, p # q,
                        pc[p] \in {"subdirs", "writing", "open", "failing"}
                 PROVE  pc[q] \in {"idle", "making", "ended", "dead"} /\ writer[q].seq = 0
      BY DEF SingleWriter
    <2>1. ~Touched(q)
      BY DEF JournalInv, Touched, Engaged
    <2> QED BY <2>1, NewWriterFacts DEF Touched, JournalInv, JournalTypeOK, Labels,
               Engaged
  <1> QED BY <1>1, JournalInvariant, PTL

-----------------------------------------------------------------------------
(* The attempt journal: the verifier                                       *)

\* How many events have returned, and that all of them are on disk.
LEMMA AckedCount ==
    ASSUME JournalInv, AckedFits
    PROVE  /\ Range(acked) = {acked[k] : k \in 1..Len(acked)} /\ Len(acked) \in Nat
           /\ Range(acked) \subseteq EventsOnDisk
           /\ IsFiniteSet(EventsOnDisk) /\ Cardinality(EventsOnDisk) \in Nat
           /\ IsFiniteSet(Range(acked)) /\ Cardinality(Range(acked)) = Len(acked)
           /\ \A n \in Appends : content[n].seq \in Nat
  <1>1. /\ Len(acked) \in Nat /\ Len(content) \in Nat /\ DOMAIN acked = 1..Len(acked)
        /\ \A n \in Appends : content[n].seq \in Nat
    <2>1. content \in Seq(Events) /\ acked \in Seq(Nat)
      BY DEF JournalInv, JournalTypeOK
    <2>2. \A n \in Appends : content[n] \in Events
      BY <2>1 DEF Appends
    <2> QED BY <2>1, <2>2 DEF Events
  <1>2. Range(acked) = {acked[k] : k \in 1..Len(acked)}
    BY <1>1 DEF Range
  <1>3. Range(acked) \subseteq EventsOnDisk
    BY <1>2 DEF AckedFits, OnDisk, EventsOnDisk, Published
  <1>4. IsFiniteSet(Appends)
    BY <1>1, FS_Interval DEF Appends
  <1>5. IsFiniteSet(EventsOnDisk) /\ Cardinality(EventsOnDisk) \in Nat
    <2>1. EventsOnDisk \in SUBSET Appends
      BY DEF EventsOnDisk
    <2> QED BY <1>4, <2>1, FS_Subset, FS_CardinalityType
  <1>6. IsFiniteSet(Range(acked)) /\ Cardinality(Range(acked)) = Len(acked)
    <2>1. \A i, j \in 1..Len(acked) : acked[i] = acked[j] => i = j
      <3> SUFFICES ASSUME NEW i \in 1..Len(acked), NEW j \in 1..Len(acked),
                          acked[i] = acked[j]
                   PROVE  i = j
        OBVIOUS
      <3>1. i - 1 = j - 1
        BY DEF AckedFits
      <3> QED BY <3>1
    <2>2. acked \in Bijection(1..Len(acked), Range(acked))
      <3>1. acked \in [1..Len(acked) -> Range(acked)]
        BY <1>1, <1>2 DEF JournalInv, JournalTypeOK
      <3> QED BY <1>2, <2>1, <3>1 DEF Bijection, Injection, Surjection, IsInjective
    <2>3. ExistsBijection(1..Len(acked), Range(acked))
      BY <2>2 DEF ExistsBijection
    <2>4. IsFiniteSet(1..Len(acked)) /\ Cardinality(1..Len(acked)) = Len(acked)
      <3>1. 1 \in Int /\ Len(acked) \in Int
        BY <1>1
      <3>2. /\ IsFiniteSet(1..Len(acked))
            /\ Cardinality(1..Len(acked)) = IF 1 > Len(acked) THEN 0 ELSE Len(acked) - 1 + 1
        BY <3>1, FS_Interval
      <3> QED BY <1>1, <3>2
    <2> QED BY <2>3, <2>4, FS_Bijection
  <1> QED BY <1>1, <1>2, <1>3, <1>5, <1>6

\* The replay of the events on disk, when they are those of the sequence a.
LEMMA ReplayIs ==
    ASSUME NEW a, NEW v, Cardinality(EventsOnDisk) \in Nat,
           Len(a) = Cardinality(EventsOnDisk),
           \A k \in 1..Len(a) : /\ a[k] \in EventsOnDisk /\ content[a[k]].seq = k - 1
                                /\ \A n \in EventsOnDisk : content[n].seq = k - 1 => n = a[k],
           \E f : Solves(f, content, a),
           \A f : Solves(f, content, a) => f[Len(a)] = v
    PROVE  Replay = v
  <1> DEFINE N == Cardinality(EventsOnDisk)
             EventAt(k) == CHOOSE n \in EventsOnDisk : content[n].seq = k
             Step(f, k) == IF k = 0 THEN Replayed0
                           ELSE Replayed(f[k - 1], content[EventAt(k - 1)])
  <1>1. \A k \in 1..N : EventAt(k - 1) = a[k]
    OBVIOUS
  <1>2. PICK f : Solves(f, content, a)
    OBVIOUS
  <1> DEFINE g == [k \in 0..N |-> f[k]]
  <1> HIDE DEF EventAt
  <1>3. \A k \in 0..N : k = 0 \/ (k \in 1..N /\ k - 1 \in 0..N)
    OBVIOUS
  <1>4. \A k \in 0..N : g[k] = Step(g, k)
    BY <1>1, <1>2, <1>3 DEF Solves
  <1>5. g = [k \in 0..N |-> Step(g, k)]
    <2> HIDE DEF Step
    <2> QED BY <1>4
  <1>6. PICK h : h = [k \in 0..N |-> Step(h, k)] /\ Replay = h[N]
    BY <1>5, Zenon DEF Replay, EventAt
  <1>7. Solves(h, content, a)
    <2>1. \A k \in 0..N : h[k] = Step(h, k)
      <3> HIDE DEF Step
      <3> QED BY <1>6
    <2>2. 0 \in 0..N /\ \A k \in 1..N : k \in 0..N /\ k # 0
      OBVIOUS
    <2> QED BY <1>1, <2>1, <2>2 DEF Solves
  <1> QED BY <1>6, <1>7

\* Between two appends none of which was cut short the verifier accepts, and
\* its replay ends in what the writer knows.
LEMMA HonestAccepted ==
    ASSUME JournalInv, NEW p \in Runners, Touched(p), ~torn, pc[p] # "writing",
           Len(acked) > 0
    PROVE  Verifies /\ Replay = Summary(p)
  <1>1. JournalFits(p) /\ RoleFits(p) /\ AckedFits /\ FilesFit(p)
    BY DEF JournalInv, JournalFits
  <1>2. /\ Range(acked) = {acked[k] : k \in 1..Len(acked)} /\ Len(acked) \in Nat
        /\ Range(acked) \subseteq EventsOnDisk
        /\ Cardinality(EventsOnDisk) \in Nat /\ Cardinality(Range(acked)) = Len(acked)
    BY <1>1, AckedCount
  <1>3. EventsOnDisk = Range(acked) /\ Appends = Range(acked)
    <2>1. Appends \subseteq Range(acked)
      BY <1>1 DEF FilesFit
    <2> QED BY <1>2, <2>1 DEF EventsOnDisk
  <1>len. PICK len \in Nat : len = Len(acked) /\ len > 0
    BY <1>2
  <1>4. 1 \in 1..Len(acked) /\ acked[1] \in Appends
    <2>1. 1 \in 1..len
      BY <1>len
    <2> QED BY <1>len, <1>1, <2>1 DEF AckedFits
  <1>5. FilesIntact
    <2>1. directory = "ready"
      <3>1. writer[p].seq = len
        BY <1>len, <1>1 DEF JournalFits, CountsFit
      <3>2. writer[p] # NewWriter
        BY <1>len, <3>1, NewWriterFacts
      <3> QED BY <1>1, <3>2 DEF RoleFits
    <2>2. Manifest \in DOMAIN disk
      <3>1. Len(content) \in Nat /\ acked[1] \in 1..Len(content)
        BY <1>4 DEF JournalInv, JournalTypeOK, Appends
      <3> QED BY <1>1, <3>1 DEF FilesFit
    <2>3. \A f \in DOMAIN disk : disk[f] = "clean"
      BY <1>1 DEF FilesFit
    <2>4. ASSUME NEW n \in Appends
          PROVE  Object(n) \in DOMAIN disk <=> HasObjects(content[n].kind)
      <3>1. PICK k \in 1..Len(acked) : n = acked[k]
        BY <1>2, <1>3
      <3>2. n \in Nat
        BY DEF Appends
      <3> QED BY <1>1, <3>1, <3>2 DEF AckedFits, FilesFit, OnDisk
    <2>5. {n \in Appends : Object(n) \in DOMAIN disk}
            = {n \in EventsOnDisk : HasObjects(content[n].kind)}
      BY <1>3, <2>4
    <2> QED BY <2>1, <2>2, <2>3, <2>5 DEF FilesIntact
  <1>6. ChainIntact
    <2>1. EventsOnDisk # {}
      BY <1>3, <1>4
    <2>2. {content[n].seq : n \in EventsOnDisk} = 0..(Cardinality(EventsOnDisk) - 1)
      <3>1. \A k \in 1..len : k - 1 \in 0..(len - 1)
        BY <1>len
      <3>2. \A i \in 0..(len - 1) : i + 1 \in 1..len /\ (i + 1) - 1 = i
        BY <1>len
      <3>3. ASSUME NEW n \in EventsOnDisk PROVE content[n].seq \in 0..(len - 1)
        <4>1. PICK k \in 1..len : n = acked[k]
          BY <1>len, <1>2, <1>3
        <4>2. content[n].seq = k - 1
          BY <1>len, <1>1, <4>1 DEF AckedFits
        <4> QED BY <3>1, <4>2
      <3>4. ASSUME NEW i \in 0..(len - 1)
            PROVE  \E n \in EventsOnDisk : content[n].seq = i
        <4>1. i + 1 \in 1..Len(acked)
          BY <1>len, <3>2
        <4>2. content[acked[i + 1]].seq = (i + 1) - 1
          BY <1>1, <4>1 DEF AckedFits
        <4>3. acked[i + 1] \in EventsOnDisk
          BY <1>2, <1>3, <4>1
        <4> QED BY <3>2, <4>2, <4>3
      <3>5. {content[n].seq : n \in EventsOnDisk} = 0..(len - 1)
        BY <3>3, <3>4
      <3>6. Cardinality(EventsOnDisk) = len
        BY <1>len, <1>2, <1>3
      <3> QED BY <3>5, <3>6
    <2>3. ASSUME NEW n \in EventsOnDisk
          PROVE  IF content[n].seq = 0
                 THEN content[n].kind = "ATTEMPT_OPENED" /\ content[n].previous = 0
                 ELSE /\ content[n].previous \in EventsOnDisk
                      /\ content[content[n].previous].seq + 1 = content[n].seq
      <3>1. PICK k \in 1..Len(acked) : n = acked[k]
        BY <1>2, <1>3
      <3>0. /\ k \in 1..len /\ (k - 1 = 0 <=> k = 1)
            /\ k # 1 => k - 1 \in 1..len /\ ((k - 1) - 1) + 1 = k - 1
        <4>1. k \in 1..len
          BY <1>len
        <4> QED BY <4>1
      <3>2. content[n].seq = k - 1 /\ (content[n].seq = 0 <=> k = 1)
        BY <1>1, <3>0, <3>1 DEF AckedFits
      <3>3. CASE k = 1
        BY <1>1, <3>1, <3>2, <3>3 DEF AckedFits
      <3>4. CASE k # 1
        <4>1. k - 1 \in 1..Len(acked) /\ ((k - 1) - 1) + 1 = k - 1
          BY <1>len, <3>0, <3>4
        <4>2. content[n].previous = acked[k - 1]
          BY <1>1, <3>1, <3>4 DEF AckedFits
        <4>3. content[acked[k - 1]].seq = (k - 1) - 1
          BY <1>1, <4>1 DEF AckedFits
        <4>4. acked[k - 1] \in EventsOnDisk
          BY <1>2, <1>3, <4>1
        <4> QED BY <3>2, <3>4, <4>1, <4>2, <4>3, <4>4
      <3> QED BY <3>3, <3>4
    <2> QED BY <2>1, <2>2, <2>3 DEF ChainIntact
  <1>7. Replay = Summary(p)
    <2>1. \A k \in 1..Len(acked) :
            /\ acked[k] \in EventsOnDisk /\ content[acked[k]].seq = k - 1
            /\ \A n \in EventsOnDisk : content[n].seq = k - 1 => n = acked[k]
      <3> SUFFICES ASSUME NEW k \in 1..Len(acked)
                   PROVE  /\ acked[k] \in EventsOnDisk /\ content[acked[k]].seq = k - 1
                          /\ \A n \in EventsOnDisk : content[n].seq = k - 1 => n = acked[k]
        OBVIOUS
      <3>1. acked[k] \in EventsOnDisk /\ content[acked[k]].seq = k - 1
        BY <1>1, <1>2, <1>3 DEF AckedFits
      <3>2. ASSUME NEW n \in EventsOnDisk, content[n].seq = k - 1 PROVE n = acked[k]
        <4>1. PICK j \in 1..Len(acked) : n = acked[j]
          BY <1>2, <1>3
        <4>2. j - 1 = k - 1
          BY <1>1, <3>2, <4>1 DEF AckedFits
        <4> QED BY <4>1, <4>2
      <3> QED BY <3>1, <3>2
    <2>2. /\ \E f : Solves(f, content, acked)
          /\ \A f : Solves(f, content, acked) => f[Len(acked)] = Summary(p)
      BY <1>1 DEF JournalFits, ReplayFits
    <2>3. Len(acked) = Cardinality(EventsOnDisk)
      BY <1>2, <1>3
    <2> QED BY <1>2, <2>1, <2>2, <2>3, ReplayIs
  <1>8. Replay.ok
    BY <1>7 DEF Summary
  <1> QED BY <1>5, <1>6, <1>7, <1>8 DEF Verifies

\* The durable prefix of what has returned is intact, and the verifier refuses
\* no attempt that was not cut short: it reports the closure of the last event.
THEOREM HonestAttemptsVerify == AttemptSpec => []HonestVerifies
  <1>1. JournalInv => HonestVerifies
    <2> SUFFICES ASSUME JournalInv PROVE HonestVerifies
      OBVIOUS
    <2>1. Len(acked) \in Nat /\ (acked # <<>> => Len(acked) > 0)
      BY EmptySeq DEF JournalInv, JournalTypeOK
    <2>2. AckedPrefixIntact
      <3> SUFFICES ASSUME NEW k \in 1..Len(acked)
                   PROVE  LET n == acked[k] IN
                          /\ Event(n) \in DOMAIN disk /\ disk[Event(n)] = "clean"
                          /\ HasObjects(content[n].kind) => Published(Object(n))
                          /\ content[n].seq = k - 1
                          /\ content[n].previous = (IF k = 1 THEN 0 ELSE acked[k - 1])
        BY DEF AckedPrefixIntact
      <3>1. AckedFits
        BY <2>1 DEF JournalInv, JournalFits
      <3> QED BY <3>1 DEF AckedFits, OnDisk, Published
    <2>3. ASSUME acked # <<>>, ~torn, \A p \in Runners : pc[p] # "writing"
          PROVE  /\ Verifies
                 /\ LET kind == content[Last(acked)].kind IN
                    Closure = IF kind \in TerminalKinds THEN kind ELSE "UNCLOSED_ABRUPT"
      <3>1. PICK p \in Runners : Touched(p)
        BY <2>1, <2>3 DEF JournalInv
      <3>2. Verifies /\ Replay = Summary(p)
        BY <2>1, <2>3, <3>1, HonestAccepted
      <3>3. writer[p].terminal <=> content[acked[Len(acked)]].kind \in TerminalKinds
        BY <2>1, <2>3, <3>1 DEF JournalInv, JournalFits, CountsFit
      <3>4. Closure = Summary(p).closure
        BY <3>2 DEF Closure
      <3> QED BY <3>2, <3>3, <3>4 DEF Summary, Last
    <2> QED BY <2>2, <2>3 DEF HonestVerifies
  <1> QED BY <1>1, JournalInvariant, PTL

\* What the verifier may read beside what has returned: one last event.
LEMMA EventsRead ==
    ASSUME JournalInv, ChainIntact, AckedFits
    PROVE  \/ EventsOnDisk = Range(acked) /\ Cardinality(EventsOnDisk) = Len(acked)
           \/ \E n \in EventsOnDisk :
                 /\ content[n].seq = Len(acked) /\ EventsOnDisk = Range(acked) \cup {n}
                 /\ Cardinality(EventsOnDisk) = Len(acked) + 1
  <1>1. /\ Len(acked) \in Nat /\ Cardinality(EventsOnDisk) \in Nat
        /\ Range(acked) \subseteq EventsOnDisk /\ IsFiniteSet(EventsOnDisk)
        /\ IsFiniteSet(Range(acked)) /\ Cardinality(Range(acked)) = Len(acked)
        /\ Range(acked) = {acked[k] : k \in 1..Len(acked)}
    BY AckedCount
  <1>2. PICK len \in Nat : len = Len(acked)
    BY <1>1
  <1>3. PICK size \in Nat : size = Cardinality(EventsOnDisk)
    BY <1>1
  <1>4. len <= size /\ (size = len => EventsOnDisk = Range(acked))
    <2>1. Range(acked) \in SUBSET EventsOnDisk
      BY <1>1
    <2>2. /\ Cardinality(Range(acked)) <= Cardinality(EventsOnDisk)
          /\ Cardinality(EventsOnDisk) = Cardinality(Range(acked)) => EventsOnDisk = Range(acked)
      BY <1>1, <2>1, FS_Subset
    <2> QED BY <1>1, <1>2, <1>3, <2>2
  <1>5. size # 0
    BY <1>1, <1>3, FS_EmptySet DEF ChainIntact
  <1>6. PICK n \in EventsOnDisk : content[n].seq = size - 1
    <2>1. size - 1 \in 0..(size - 1)
      BY <1>5
    <2>2. {content[n].seq : n \in EventsOnDisk} = 0..(size - 1)
      BY <1>3 DEF ChainIntact
    <2> QED BY <2>1, <2>2
  <1>7. size - 1 <= len
    BY <1>2, <1>6 DEF AckedFits, EventsOnDisk
  <1>8. CASE size = len
    BY <1>2, <1>3, <1>4, <1>8
  <1>9. CASE size # len
    <2>1. size = len + 1
      BY <1>4, <1>7, <1>9
    <2>2. n \notin Range(acked)
      <3> SUFFICES ASSUME NEW k \in 1..Len(acked), n = acked[k] PROVE FALSE
        BY <1>1
      <3>1. content[n].seq = k - 1 /\ k \in 1..len
        BY <1>2 DEF AckedFits
      <3> QED BY <1>6, <2>1, <3>1
    <2>3. Cardinality(Range(acked) \cup {n}) = Len(acked) + 1
      BY <1>1, <2>2, FS_AddElement
    <2>4. Range(acked) \cup {n} \in SUBSET EventsOnDisk
      BY <1>1
    <2>5. Cardinality(EventsOnDisk) = Cardinality(Range(acked) \cup {n})
      BY <1>2, <1>3, <2>1, <2>3
    <2>6. EventsOnDisk = Range(acked) \cup {n}
      BY <1>1, <2>4, <2>5, FS_Subset
    <2>7. content[n].seq = len
      BY <1>6, <2>1
    <2> QED BY <1>2, <1>3, <2>1, <2>6, <2>7
  <1> QED BY <1>8, <1>9

\* The replay of the events that returned, and of one event more.
LEMMA ReplayedOf ==
    ASSUME JournalInv, NEW p \in Runners, JournalFits(p)
    PROVE  /\ EventsOnDisk = Range(acked) /\ Cardinality(EventsOnDisk) = Len(acked)
                => Replay = Summary(p)
           /\ \A n \in EventsOnDisk :
                /\ content[n].seq = Len(acked) /\ EventsOnDisk = Range(acked) \cup {n}
                /\ Cardinality(EventsOnDisk) = Len(acked) + 1
                => Replay = Replayed(Summary(p), content[n])
  <1>1. /\ Len(acked) \in Nat /\ Cardinality(EventsOnDisk) \in Nat
        /\ Range(acked) \subseteq EventsOnDisk /\ acked \in Seq(Nat)
        /\ Range(acked) = {acked[k] : k \in 1..Len(acked)} /\ AckedFits
    BY AckedCount DEF JournalFits, JournalInv, JournalTypeOK
  <1>2. ASSUME NEW k \in 1..Len(acked)
        PROVE  /\ acked[k] \in EventsOnDisk /\ content[acked[k]].seq = k - 1
               /\ \A n \in Range(acked) : content[n].seq = k - 1 => n = acked[k]
    <2>1. acked[k] \in EventsOnDisk /\ content[acked[k]].seq = k - 1
      BY <1>1 DEF AckedFits
    <2>2. ASSUME NEW n \in Range(acked), content[n].seq = k - 1 PROVE n = acked[k]
      <3>1. PICK j \in 1..Len(acked) : n = acked[j]
        BY <1>1
      <3>2. j - 1 = k - 1
        BY <1>1, <2>2, <3>1 DEF AckedFits
      <3> QED BY <3>1, <3>2
    <2> QED BY <2>1, <2>2
  <1>3. /\ \E f : Solves(f, content, acked)
        /\ \A f : Solves(f, content, acked) => f[Len(acked)] = Summary(p)
    BY DEF JournalFits, ReplayFits
  <1>4. ASSUME EventsOnDisk = Range(acked), Cardinality(EventsOnDisk) = Len(acked)
        PROVE  Replay = Summary(p)
    BY <1>1, <1>2, <1>3, <1>4, ReplayIs
  <1>5. ASSUME NEW n \in EventsOnDisk, content[n].seq = Len(acked),
               EventsOnDisk = Range(acked) \cup {n},
               Cardinality(EventsOnDisk) = Len(acked) + 1
        PROVE  Replay = Replayed(Summary(p), content[n])
    <2> DEFINE a == Append(acked, n)
    <2>1. PICK len \in Nat : len = Len(acked)
      BY <1>1
    <2>2. n \in Nat
      BY DEF EventsOnDisk, Appends
    <2>3. Len(a) = len + 1 /\ a[len + 1] = n /\ \A k \in 1..len : a[k] = acked[k]
      BY <1>1, <2>1, <2>2
    <2>4. /\ \E f : Solves(f, content, a)
          /\ \A f : Solves(f, content, a)
               => f[Len(acked) + 1] = Replayed(Summary(p), content[n])
      <3>1. /\ \A f : Solves(f, content, a)
                     => /\ Solves(f, content, acked)
                        /\ f[Len(acked) + 1] = Replayed(f[Len(acked)], content[n])
            /\ (\E f : Solves(f, content, acked)) => \E f : Solves(f, content, a)
        BY <1>1, <2>2, SolvesAppend
      <3> HIDE DEF a
      <3> QED BY <1>3, <3>1
    <2> HIDE DEF a
    <2>5. ASSUME NEW k \in 1..(len + 1)
          PROVE  /\ a[k] \in EventsOnDisk /\ content[a[k]].seq = k - 1
                 /\ \A m \in EventsOnDisk : content[m].seq = k - 1 => m = a[k]
      <3>1. CASE k \in 1..len
        <4>1. k - 1 # len /\ a[k] = acked[k]
          BY <2>3, <3>1
        <4>2. k \in 1..Len(acked)
          BY <2>1, <3>1
        <4> QED BY <1>2, <1>5, <2>1, <4>1, <4>2
      <3>2. CASE k = len + 1
        <4>1. k - 1 = len /\ a[k] = n
          BY <2>3, <3>2
        <4>2. ASSUME NEW m \in EventsOnDisk, content[m].seq = len, m # n PROVE FALSE
          <5>1. PICK j \in 1..Len(acked) : m = acked[j]
            BY <1>1, <1>5, <4>2
          <5>2. content[m].seq = j - 1 /\ j \in 1..len
            BY <1>1, <2>1, <5>1 DEF AckedFits
          <5> QED BY <4>2, <5>2
        <4> QED BY <1>5, <2>1, <4>1, <4>2
      <3> QED BY <3>1, <3>2
    <2>6. /\ Len(a) = Cardinality(EventsOnDisk) /\ Cardinality(EventsOnDisk) \in Nat
          /\ \A k \in 1..Len(a) :
               /\ a[k] \in EventsOnDisk /\ content[a[k]].seq = k - 1
               /\ \A m \in EventsOnDisk : content[m].seq = k - 1 => m = a[k]
          /\ \A f : Solves(f, content, a) => f[Len(a)] = Replayed(Summary(p), content[n])
      BY <1>1, <1>5, <2>1, <2>3, <2>4, <2>5
    <2> QED BY <2>4, <2>6, ReplayIs
  <1> QED BY <1>4, <1>5

\* What the verifier accepts is true: it read what has returned and at most one
\* event more, counts no occurrence that was not executed, and calls published
\* only an attempt whose output is there and whose occurrences are complete.
THEOREM VerdictsTrue == AttemptSpec => []VerdictTruthful
  <1>1. JournalInv => VerdictTruthful
    <2> SUFFICES ASSUME JournalInv, Verifies
                 PROVE  /\ \A n \in Appends : Object(n) \in DOMAIN disk => Event(n) \in DOMAIN disk
                        /\ Range(acked) \subseteq EventsOnDisk
                        /\ Cardinality(EventsOnDisk) <= Len(acked) + 1
                        /\ Replay.completed <= executed
                        /\ Closure = "OUTPUT_PUBLISHED" => output /\ Replay.completed = Count
      BY DEF VerdictTruthful
    <2>1. FilesIntact /\ ChainIntact /\ Replay.ok /\ Closure = Replay.closure
      BY DEF Verifies, Closure
    <2>2. PICK p \in Runners : Touched(p)
      <3>1. PICK n \in EventsOnDisk : TRUE
        BY <2>1 DEF ChainIntact
      <3>2. Len(content) \in Nat /\ n \in 1..Len(content)
        BY DEF EventsOnDisk, Appends, JournalInv, JournalTypeOK
      <3>3. Len(content) > 0
        BY <3>2
      <3> QED BY <3>3 DEF JournalInv
    <2>3. JournalFits(p) /\ AckedFits
      BY <2>2 DEF JournalInv, JournalFits
    <2>4. \A n \in Appends : Object(n) \in DOMAIN disk => Event(n) \in DOMAIN disk
      BY <2>1 DEF FilesIntact, EventsOnDisk, Published
    <2>5. Range(acked) \subseteq EventsOnDisk /\ Len(acked) \in Nat
      BY <2>3, AckedCount
    <2>6. /\ Summary(p).completed = writer[p].completed /\ writer[p].completed \in Nat
          /\ Summary(p).computed = writer[p].computed
          /\ Summary(p).closure
               = IF writer[p].terminal THEN content[acked[Len(acked)]].kind ELSE "UNCLOSED_ABRUPT"
          /\ executed \in Nat
      BY DEF Summary, JournalInv, JournalTypeOK, Writers
    <2>7. /\ writer[p].completed <= executed
          /\ writer[p].computed => writer[p].completed = Count
          /\ writer[p].terminal => Len(acked) > 0
          /\ Len(acked) > 0 /\ content[acked[Len(acked)]].kind = "OUTPUT_PUBLISHED"
               => output /\ writer[p].computed
      BY <2>3 DEF JournalFits, CountsFit, PhasesFit
    <2>8. CASE EventsOnDisk = Range(acked) /\ Cardinality(EventsOnDisk) = Len(acked)
      <3>1. Replay = Summary(p)
        BY <2>3, <2>8, ReplayedOf
      <3>2. Cardinality(EventsOnDisk) <= Len(acked) + 1
        BY <2>5, <2>8
      <3> QED BY <2>1, <2>4, <2>5, <2>6, <2>7, <3>1, <3>2
    <2>9. ASSUME NEW n \in EventsOnDisk, content[n].seq = Len(acked),
                 EventsOnDisk = Range(acked) \cup {n},
                 Cardinality(EventsOnDisk) = Len(acked) + 1
          PROVE  /\ Cardinality(EventsOnDisk) <= Len(acked) + 1
                 /\ Replay.completed <= executed
                 /\ Closure = "OUTPUT_PUBLISHED" => output /\ Replay.completed = Count
      <3>1. Replay = Replayed(Summary(p), content[n])
        BY <2>3, <2>9, ReplayedOf
      <3>2. n \in Appends
        BY DEF EventsOnDisk
      <3>3. /\ ~writer[p].terminal /\ Fits(Summary(p), content[n])
            /\ content[n].kind = "OCCURRENCE_COMPLETED" => writer[p].completed < executed
            /\ content[n].kind = "OUTPUT_PUBLISHED" => output
        BY <2>3, <2>9, <3>2 DEF JournalFits, PendingFits
      <3>4. /\ Replay.completed = (IF content[n].kind = "OCCURRENCE_COMPLETED"
                                   THEN writer[p].completed + 1 ELSE writer[p].completed)
            /\ Replay.closure = (IF content[n].kind \in TerminalKinds THEN content[n].kind
                                 ELSE Summary(p).closure)
        BY <2>6, <3>1 DEF Replayed
      <3>5. Replay.completed <= executed
        BY <2>6, <2>7, <3>3, <3>4
      <3>6. ASSUME Replay.closure = "OUTPUT_PUBLISHED" PROVE content[n].kind = "OUTPUT_PUBLISHED"
        BY <2>6, <3>3, <3>4, <3>6
      <3>7. content[n].kind = "OUTPUT_PUBLISHED" => writer[p].computed
        BY <2>6, <3>3 DEF Fits
      <3>8. Closure = "OUTPUT_PUBLISHED" => output /\ Replay.completed = Count
        BY <2>1, <2>7, <3>3, <3>4, <3>6, <3>7
      <3> QED BY <2>5, <2>9, <3>5, <3>8
    <2>10. \/ EventsOnDisk = Range(acked) /\ Cardinality(EventsOnDisk) = Len(acked)
           \/ \E n \in EventsOnDisk :
                 /\ content[n].seq = Len(acked) /\ EventsOnDisk = Range(acked) \cup {n}
                 /\ Cardinality(EventsOnDisk) = Len(acked) + 1
      BY <2>1, <2>3, EventsRead
    <2> QED BY <2>4, <2>5, <2>8, <2>9, <2>10
  <1> QED BY <1>1, JournalInvariant, PTL
=============================================================================
