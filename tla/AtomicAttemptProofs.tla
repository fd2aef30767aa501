------------------------ MODULE AtomicAttemptProofs ------------------------
(***************************************************************************)
(* Safety of an attempt and of its lease for any number of callers and     *)
(* requests, any output cap and any number of failing system calls and     *)
(* foreign processes.                                                      *)
(***************************************************************************)
EXTENDS AtomicAttempt, SequenceTheorems, TLAPS

Fresh    == {"idle", "acquire", "prepare", "probe", "claim", "clone", "refuse"}
Holding  == {"prepare", "probe", "claim", "clone", "refuse", "launched", "poll",
             "reap", "drain", "verify", "closing"}
Handling == {"except", "wait1", "leafkill", "wait2", "direct", "exclose"}
Places   == Fresh \cup Holding \cup Handling
            \cup {"judge", "final", "settle", "ended"}

LeaseTypeOK ==
    /\ step \in [Callers -> Steps]
    /\ req = [c \in Callers |-> req[c]]
    /\ created \in [Callers -> BOOLEAN]
    /\ parentFd \in [Callers -> BOOLEAN]
    /\ leafFd \in [Callers -> BOOLEAN]
    /\ leaf \in [Callers -> {"none", "dir", "removed"}]
    /\ stray \in [Callers -> BOOLEAN]
    /\ answer \in [Callers -> {"none", "lease", "refused", "blocked", "cleanup", "error",
                             "interrupt"}]
    /\ lease \in [Callers -> {"none", "open", "closed", "lost"}]
    /\ exposed \in [Callers -> BOOLEAN]

AttemptTypeOK ==
    /\ at \in [Callers -> Places]
    /\ boot \in [Callers -> {"none", "staged", "consumed", "closed", "lost"}]
    /\ child \in [Callers -> {"none", "running", "zombie", "reaped"}]
    /\ ended = [c \in Callers |-> ended[c]]
    /\ killSent = [c \in Callers |-> killSent[c]]
    /\ setup = [c \in Callers |-> setup[c]]
    /\ channel = [c \in Callers |-> channel[c]]
    /\ written \in [Callers -> Nat]
    /\ unread \in [Callers -> Nat]
    /\ eof \in [Callers -> BOOLEAN]
    /\ ready = [c \in Callers |-> ready[c]]
    /\ eofFirst \in [Callers -> BOOLEAN]
    /\ waited \in [Callers -> BOOLEAN]
    /\ forced = [c \in Callers |-> forced[c]]
    /\ roles = [c \in Callers |-> roles[c]]
    /\ kind \in [Callers -> {"none", "result", "blocked", "error", "cleanup", "interrupt"}]
    /\ fatal \in [Callers -> BOOLEAN]
    /\ verdict = [c \in Callers |-> verdict[c]]

\* A call that spent its nonce and is not over, or has made a leaf.
Spent(c) == step[c] \notin {"idle", "issued"} /\ (step[c] = "done" => leaf[c] # "none")

\* A nonce is spent by one call at most.
NonceFits ==
    /\ \A c \in Callers : Spent(c) => req[c] \in consumed
    /\ \A c, d \in Callers : c # d /\ Spent(c) /\ Spent(d) => req[c] # req[d]

\* What a call of `acquire', and the lease it returned, own in every step.
LeaseFits(c) ==
    /\ step[c] \in {"idle", "issued", "authority"} => ~parentFd[c]
    /\ step[c] \in {"idle", "issued", "authority", "parent"} =>
         ~created[c] /\ ~leafFd[c] /\ leaf[c] = "none"
    /\ step[c] \in {"made", "opened", "empty", "configured"} =>
         created[c] /\ leaf[c] = "dir"
    /\ step[c] = "finally" =>
         /\ created[c] => leaf[c] = "dir"
         /\ leaf[c] = "dir" => created[c] \/ exposed[c]
    /\ step[c] # "done" => lease[c] = "none" /\ answer[c] \notin {"refused", "lease"}
    /\ step[c] = "done" =>
         /\ answer[c] = "lease" => lease[c] # "none"
         /\ lease[c] \in {"open", "closed"} => answer[c] = "lease"
         /\ lease[c] # "open" => exposed[c] \/ (~parentFd[c] /\ ~leafFd[c])
         /\ lease[c] = "none" /\ leaf[c] = "dir" => answer[c] = "cleanup" \/ exposed[c]
    /\ lease[c] = "open" => leaf[c] = "dir"
    /\ lease[c] = "lost" => exposed[c]

\* That the closed lease left its leaf is an error of cleanup, or will be one
\* when the handler probes the leaf through the closed descriptor.
Noticed(c) ==
    \/ kind[c] = "cleanup" \/ exposed[c]
    \/ at[c] \in {"except", "wait1", "leafkill"} /\ child[c] # "none"
    \/ at[c] \in {"wait2", "direct", "exclose"} /\ fatal[c]

\* The lease along the executor and the runtime: a leaf that its closed lease
\* did not remove is an error of cleanup from then on.
HoldFits(c) ==
    /\ at[c] = "idle" => step[c] = "idle"
    /\ at[c] \in {"idle", "acquire"} => lease[c] # "closed"
    /\ at[c] = "acquire" /\ answer[c] = "lease" => lease[c] = "open"
    /\ at[c] \notin {"idle", "acquire"} => step[c] \in {"idle", "done"}
    /\ at[c] \in Holding => lease[c] = "open"
    /\ at[c] = "judge" => lease[c] = "closed" /\ leaf[c] = "removed"
    /\ at[c] \in Handling \cup {"final"} =>
         /\ lease[c] \in {"open", "closed"}
         /\ lease[c] = "closed" /\ leaf[c] = "dir" => Noticed(c)
    /\ at[c] = "final" /\ lease[c] = "open" => kind[c] = "blocked"
    /\ at[c] \in {"settle", "ended"} /\ lease[c] # "open" /\ leaf[c] = "dir" =>
         verdict[c] = "raised" \/ exposed[c]
    /\ boot[c] = "lost" => exposed[c]
    /\ at[c] = "ended" => exposed[c] \/
         /\ lease[c] # "open"
         /\ boot[c] \in {"none", "closed"} \/ verdict[c] = "raised"

Unburied(c) == child[c] \in {"running", "zombie"}

\* The child along the runtime: a child that the handler could not reap is an
\* error of cleanup from then on.
ChildFits(c) ==
    /\ waited[c] => child[c] = "reaped"
    /\ at[c] \in Fresh => child[c] = "none"
    /\ at[c] \in {"drain", "verify", "closing", "judge"} => child[c] = "reaped"
    /\ at[c] \in {"verify", "closing", "judge"} => unread[c] = 0
    /\ at[c] = "exclose" /\ Unburied(c) => fatal[c]
    /\ at[c] = "final" /\ Unburied(c) => kind[c] = "cleanup"
    /\ at[c] \in {"settle", "ended"} /\ Unburied(c) => verdict[c] = "raised" \/ exposed[c]

\* The lifecycle recorded so far.
RolesFit(c) ==
    /\ at[c] \in Fresh \cup {"launched"} => roles[c] = << >> /\ ~eof[c] /\ ~eofFirst[c]
    /\ at[c] \in {"poll", "reap"} =>
         /\ eof[c] = eofFirst[c]
         /\ roles[c] = IF eof[c] THEN <<"PROCESS_LAUNCH", "OUTPUT_EOF">>
                                 ELSE <<"PROCESS_LAUNCH">>
    /\ at[c] = "drain" =>
         /\ eof[c] = eofFirst[c]
         /\ roles[c] = IF eof[c] THEN <<"PROCESS_LAUNCH", "OUTPUT_EOF", "PROCESS_REAP">>
                                 ELSE <<"PROCESS_LAUNCH", "PROCESS_REAP">>
    /\ at[c] = "verify" =>
         roles[c] = IF eofFirst[c]
                    THEN <<"PROCESS_LAUNCH", "OUTPUT_EOF", "PROCESS_REAP">>
                    ELSE <<"PROCESS_LAUNCH", "PROCESS_REAP", "OUTPUT_EOF">>
    /\ at[c] \in {"closing", "judge"} => roles[c] = EvidenceOrder(eofFirst[c])

\* A result is built only when child and leaf are gone, and a success is the
\* verdict on a complete one.
ResultFits(c) ==
    /\ kind[c] = "result" =>
         /\ at[c] \in {"final", "settle", "ended"}
         /\ child[c] = "reaped" /\ unread[c] = 0
         /\ lease[c] = "closed" /\ leaf[c] = "removed"
    /\ verdict[c] = "SUCCESS" => kind[c] = "result" /\ at[c] # "final" /\ Complete(c)

AttemptFits(c) == HoldFits(c) /\ ChildFits(c) /\ RolesFit(c) /\ ResultFits(c)

LeaseInv == LeaseTypeOK /\ NonceFits /\ \A c \in Callers : LeaseFits(c)

AttemptInv ==
    /\ LeaseInv
    /\ AttemptTypeOK
    /\ \A c \in Callers : AttemptFits(c)
-----------------------------------------------------------------------------
(* The lease                                                               *)

SameLease(d) ==
    /\ step'[d] = step[d] /\ req'[d] = req[d] /\ created'[d] = created[d]
    /\ parentFd'[d] = parentFd[d] /\ leafFd'[d] = leafFd[d] /\ leaf'[d] = leaf[d]
    /\ answer'[d] = answer[d] /\ lease'[d] = lease[d] /\ exposed'[d] = exposed[d]

\* A call of which nothing changes keeps its invariant.
LEMMA SameLeaseFits ==
    ASSUME NEW d \in Callers, SameLease(d), LeaseFits(d)
    PROVE  LeaseFits(d)'
  BY DEF SameLease, LeaseFits

\* A step of one call that spends no nonce.
LEMMA AssembleLease ==
    ASSUME LeaseInv, NEW c \in Callers, LeaseTypeOK', LeaseFits(c)',
           \A d \in Callers \ {c} : SameLease(d),
           consumed \subseteq consumed', Spent(c)' => Spent(c) /\ req'[c] = req[c]
    PROVE  LeaseInv'
  <1>1. \A d \in Callers : LeaseFits(d)'
    BY SameLeaseFits DEF LeaseInv
  <1>2. \A d \in Callers : Spent(d)' => Spent(d) /\ req'[d] = req[d]
    BY DEF SameLease, Spent
  <1>3. NonceFits'
    BY <1>2 DEF LeaseInv, NonceFits
  <1> QED BY <1>1, <1>3 DEF LeaseInv

\* What the rest of the program leaves alone.
LEMMA LeaseStands ==
    ASSUME LeaseInv, UNCHANGED <<nonceVars, callVars, fdVars, leaf, lease, exposed>>,
           stray' \in [Callers -> BOOLEAN]
    PROVE  LeaseInv'
  <1> USE DEF nonceVars, callVars, fdVars
  <1>1. LeaseTypeOK'
    BY DEF LeaseInv, LeaseTypeOK
  <1>2. NonceFits'
    BY DEF LeaseInv, NonceFits, Spent
  <1>3. \A d \in Callers : LeaseFits(d)'
    BY DEF LeaseInv, LeaseFits
  <1> QED BY <1>1, <1>2, <1>3 DEF LeaseInv

\* A token is issued, or refused because the request is spent.
LEMMA IssueFits ==
    ASSUME LeaseInv, NEW c \in Callers, NEW r \in Requests, Issue(c, r)
    PROVE  LeaseInv' /\ step'[c] # "idle" /\ \A d \in Callers \ {c} : SameLease(d)
  <1> USE DEF LeaseInv
  <1>1. LeaseTypeOK'
    BY DEF Issue, Goto, Answer, fdVars, leafVars, LeaseTypeOK, Steps
  <1>2. \A d \in Callers \ {c} : SameLease(d)
    BY DEF Issue, Goto, Answer, fdVars, leafVars, LeaseTypeOK, SameLease
  <1>3. LeaseFits(c)'
    BY DEF Issue, Goto, Answer, fdVars, leafVars, LeaseTypeOK, LeaseFits
  <1>4. ~Spent(c)' /\ step'[c] # "idle"
    BY DEF Issue, Goto, Answer, leafVars, LeaseTypeOK, LeaseFits, Spent
  <1>5. consumed' = consumed
    BY DEF Issue
  <1> QED BY <1>1, <1>2, <1>3, <1>4, <1>5, AssembleLease

\* The nonce is compared and spent in one step.
LEMMA ConsumeFits ==
    ASSUME LeaseInv, NEW c \in Callers, Consume(c)
    PROVE  LeaseInv' /\ \A d \in Callers \ {c} : SameLease(d)
  <1> USE DEF LeaseInv
  <1>1. LeaseTypeOK'
    BY DEF Consume, Goto, Answer, nonceVars, fdVars, leafVars, LeaseTypeOK, Steps
  <1>2. \A d \in Callers \ {c} : SameLease(d)
    BY DEF Consume, Goto, Answer, nonceVars, fdVars, leafVars, LeaseTypeOK, SameLease
  <1>3. LeaseFits(c)'
    BY DEF Consume, Goto, Answer, nonceVars, fdVars, leafVars, LeaseTypeOK, LeaseFits
  <1>4. CASE req[c] \in consumed
    <2>1. ~Spent(c)' /\ consumed' = consumed
      BY <1>4 DEF Consume, Goto, Answer, nonceVars, leafVars, LeaseTypeOK, LeaseFits, Spent
    <2> QED BY <1>1, <1>2, <1>3, <2>1, AssembleLease
  <1>5. CASE req[c] \notin consumed
    <2>1. consumed' = consumed \cup {req[c]} /\ req' = req
      BY <1>5 DEF Consume
    <2>2. \A d \in Callers \ {c} : Spent(d)' = Spent(d)
      BY <1>2 DEF SameLease, Spent
    <2>3. NonceFits'
      BY <1>5, <2>1, <2>2 DEF NonceFits
    <2> QED BY <1>1, <1>2, <1>3, <2>3, SameLeaseFits
  <1> QED BY <1>4, <1>5

\* The steps of `acquire' after the nonce was spent.
LEMMA AcquireFits ==
    ASSUME LeaseInv, NEW c \in Callers, AcquireStep(c)
    PROVE  LeaseInv' /\ \A d \in Callers \ {c} : SameLease(d)
  <1> USE DEF LeaseInv
  <1> DEFINE Rest == \/ Duplicate(c) \/ MakeLeaf(c) \/ OpenLeaf(c) \/ ValidateLeaf(c)
                     \/ Configure(c) \/ FailSetup(c) \/ RaiseError(c)
                     \/ GrantLease(c) \/ Finally(c)
  <1>1. CASE Rest
    <2>1. LeaseTypeOK' /\ (\A d \in Callers \ {c} : SameLease(d)) /\ LeaseFits(c)'
      <3> USE DEF Goto, Answer, Leave, Fault, RemoveLeaf, LeafStays, nonceVars,
                  callVars, fdVars, leafVars
      <3>1. CASE Duplicate(c)
        <4>1. LeaseTypeOK'
          BY <3>1 DEF Duplicate, LeaseTypeOK, Steps
        <4>2. \A d \in Callers \ {c} : SameLease(d)
          BY <3>1 DEF Duplicate, LeaseTypeOK, SameLease
        <4>3. LeaseFits(c)'
          BY <3>1 DEF Duplicate, LeaseTypeOK, LeaseFits
        <4> QED BY <4>1, <4>2, <4>3
      <3>2. CASE MakeLeaf(c)
        <4>1. LeaseTypeOK'
          BY <3>2 DEF MakeLeaf, LeaseTypeOK, Steps
        <4>2. \A d \in Callers \ {c} : SameLease(d)
          BY <3>2 DEF MakeLeaf, LeaseTypeOK, SameLease
        <4>3. LeaseFits(c)'
          BY <3>2 DEF MakeLeaf, LeaseTypeOK, LeaseFits
        <4> QED BY <4>1, <4>2, <4>3
      <3>3. CASE OpenLeaf(c)
        BY <3>3 DEF OpenLeaf, LeaseTypeOK, SameLease, LeaseFits, Steps
      <3>4. CASE ValidateLeaf(c)
        BY <3>4 DEF ValidateLeaf, LeaseTypeOK, SameLease, LeaseFits, Steps
      <3>5. CASE Configure(c)
        BY <3>5 DEF Configure, LeaseTypeOK, SameLease, LeaseFits, Steps
      <3>6. CASE FailSetup(c)
        <4>1. LeaseTypeOK'
          BY <3>6 DEF FailSetup, LeaseTypeOK, Steps
        <4>2. \A d \in Callers \ {c} : SameLease(d)
          BY <3>6 DEF FailSetup, LeaseTypeOK, SameLease
        <4>3. LeaseFits(c)'
          BY <3>6 DEF FailSetup, LeaseTypeOK, LeaseFits
        <4> QED BY <4>1, <4>2, <4>3
      <3>7. CASE RaiseError(c)
        BY <3>7 DEF RaiseError, LeaseTypeOK, SameLease, LeaseFits, Steps
      <3>8. CASE GrantLease(c)
        BY <3>8 DEF GrantLease, LeaseTypeOK, SameLease, LeaseFits, Steps
      <3>9. CASE Finally(c)
        BY <3>9 DEF Finally, LeaseTypeOK, SameLease, LeaseFits, Steps
      <3> QED BY <1>1, <3>1, <3>2, <3>3, <3>4, <3>5, <3>6, <3>7, <3>8, <3>9
    <2>2. /\ step[c] \notin {"idle", "issued", "done"}
          /\ consumed' = consumed /\ req' = req
      BY <1>1 DEF Duplicate, MakeLeaf, OpenLeaf, ValidateLeaf, Configure, FailSetup,
                  RaiseError, GrantLease, Finally, nonceVars, callVars
    <2>3. Spent(c)
      BY <2>2 DEF Spent, LeaseFits
    <2> QED BY <2>1, <2>2, <2>3, AssembleLease
  <1>2. CASE Consume(c)
    BY <1>2, ConsumeFits
  <1> QED BY <1>1, <1>2 DEF AcquireStep

\* A signal handler raises in `acquire': where the call is exposed, what it
\* held may stay.
LEMMA AcquireInterruptFits ==
    ASSUME LeaseInv, NEW c \in Callers, AcquireInterrupted(c) \/ AcquireCut(c)
    PROVE  /\ LeaseInv' /\ \A d \in Callers \ {c} : SameLease(d)
           /\ step[c] # "done" /\ answer'[c] # "lease"
           /\ lease'[c] \in {lease[c], "lost"} /\ (exposed[c] => exposed'[c])
  <1> USE DEF LeaseInv
  <1> USE DEF Goto, Answer, Leave, Fault, RemoveLeaf, LeafStays, Expose, nonceVars,
              callVars, fdVars, leafVars
  <1> DEFINE Cut == Expose(c) /\ UNCHANGED <<nonceVars, req, created, stray, strays>>
             Good == /\ LeaseTypeOK' /\ (\A d \in Callers \ {c} : SameLease(d))
                     /\ LeaseFits(c)' /\ step[c] \notin {"idle", "done"}
                     /\ answer'[c] # "lease" /\ lease'[c] \in {lease[c], "lost"}
                     /\ (Spent(c)' => Spent(c)) /\ (exposed[c] => exposed'[c])
                     /\ consumed' = consumed /\ req' = req
  <1>1. ASSUME AcquireInterrupted(c) PROVE Good
    <2>1. LeaseTypeOK' /\ (\A d \in Callers \ {c} : SameLease(d))
      BY <1>1 DEF AcquireInterrupted, LeaseTypeOK, SameLease, Steps
    <2>2. LeaseFits(c)'
      BY <1>1 DEF AcquireInterrupted, LeaseTypeOK, LeaseFits
    <2>3. Spent(c)' => Spent(c)
      BY <1>1 DEF AcquireInterrupted, LeaseTypeOK, LeaseFits, Spent
    <2> QED BY <1>1, <2>1, <2>2, <2>3 DEF AcquireInterrupted, LeaseTypeOK
  <1>2. ASSUME Cut, ParentFdLost(c) PROVE Good
    <2>1. LeaseTypeOK' /\ (\A d \in Callers \ {c} : SameLease(d))
      BY <1>2 DEF ParentFdLost, LeaseTypeOK, SameLease, Steps
    <2>2. LeaseFits(c)' /\ (Spent(c)' => Spent(c))
      BY <1>2 DEF ParentFdLost, LeaseTypeOK, LeaseFits, Spent
    <2> QED BY <1>2, <2>1, <2>2 DEF ParentFdLost, LeaseTypeOK
  <1>3. ASSUME Cut, LeafLost(c) PROVE Good
    <2>1. LeaseTypeOK' /\ (\A d \in Callers \ {c} : SameLease(d))
      BY <1>3 DEF LeafLost, LeaseTypeOK, SameLease, Steps
    <2>2. LeaseFits(c)' /\ (Spent(c)' => Spent(c))
      BY <1>3 DEF LeafLost, LeaseTypeOK, LeaseFits, Spent
    <2> QED BY <1>3, <2>1, <2>2 DEF LeafLost, LeaseTypeOK
  <1>4. ASSUME Cut, LeafFdLost(c) PROVE Good
    <2>1. LeaseTypeOK' /\ (\A d \in Callers \ {c} : SameLease(d))
      BY <1>4 DEF LeafFdLost, LeaseTypeOK, SameLease, Steps
    <2>2. LeaseFits(c)' /\ (Spent(c)' => Spent(c))
      BY <1>4 DEF LeafFdLost, LeaseTypeOK, LeaseFits, Spent
    <2> QED BY <1>4, <2>1, <2>2 DEF LeafFdLost, LeaseTypeOK
  <1>5. ASSUME Cut, LeaseLost(c) PROVE Good
    <2>1. LeaseTypeOK' /\ (\A d \in Callers \ {c} : SameLease(d))
      BY <1>5 DEF LeaseLost, LeaseTypeOK, SameLease, Steps
    <2>2. LeaseFits(c)' /\ (Spent(c)' => Spent(c))
      BY <1>5 DEF LeaseLost, LeaseTypeOK, LeaseFits, Spent
    <2> QED BY <1>5, <2>1, <2>2 DEF LeaseLost, LeaseTypeOK
  <1>6. ASSUME Cut, FinallyCut(c) PROVE Good
    <2>1. LeaseTypeOK' /\ (\A d \in Callers \ {c} : SameLease(d))
      BY <1>6 DEF FinallyCut, LeaseTypeOK, SameLease, Steps
    <2>2. LeaseFits(c)' /\ (Spent(c)' => Spent(c))
      BY <1>6 DEF FinallyCut, LeaseTypeOK, LeaseFits, Spent
    <2> QED BY <1>6, <2>1, <2>2 DEF FinallyCut, LeaseTypeOK
  <1>7. Good
    BY <1>1, <1>2, <1>3, <1>4, <1>5, <1>6 DEF AcquireCut
  <1> QED BY <1>7, AssembleLease

\* close, whether it came to remove the leaf or not: the descriptors go.
LEMMA ReleaseFits ==
    ASSUME LeaseInv, NEW c \in Callers, lease[c] = "open", ReleaseLease(c),
           leaf' \in {leaf, [leaf EXCEPT ![c] = "removed"]},
           exposed' \in {exposed, [exposed EXCEPT ![c] = TRUE]}
    PROVE  /\ LeaseInv' /\ \A d \in Callers \ {c} : SameLease(d)
           /\ step' = step /\ lease'[c] = "closed"
  <1> USE DEF LeaseInv
  <1>1. LeaseTypeOK' /\ (\A d \in Callers \ {c} : SameLease(d))
    BY DEF ReleaseLease, LeaseTypeOK, SameLease, nonceVars, callVars
  <1>2. /\ lease'[c] = "closed" /\ ~parentFd'[c] /\ ~leafFd'[c]
        /\ step' = step /\ answer' = answer /\ consumed' = consumed /\ req' = req
        /\ created' = created
    BY DEF ReleaseLease, LeaseTypeOK, nonceVars, callVars
  <1>3. step[c] = "done" /\ answer[c] = "lease" /\ Spent(c)
    BY DEF LeaseFits, Spent, LeaseTypeOK
  <1>4. LeaseFits(c)'
    BY <1>2, <1>3 DEF LeaseFits
  <1> QED BY <1>1, <1>2, <1>3, <1>4, AssembleLease

\* close: the descriptors go in every case, the leaf unless it is an error.
LEMMA CloseFits ==
    ASSUME LeaseInv, NEW c \in Callers, lease[c] \in {"open", "closed"},
           CloseReturns(c) \/ CloseRaises(c)
    PROVE  /\ LeaseInv' /\ \A d \in Callers \ {c} : SameLease(d)
           /\ step' = step /\ lease'[c] = "closed" /\ exposed' = exposed
           /\ CloseReturns(c) => leaf'[c] = IF lease[c] = "open" THEN "removed" ELSE leaf[c]
           /\ CloseRaises(c) => lease[c] = "open"
  <1> USE DEF LeaseInv
  <1>1. CASE lease[c] = "closed"
    <2>1. UNCHANGED leaseVars
      BY <1>1 DEF CloseReturns, CloseRaises
    <2>2. LeaseInv'
      BY <2>1, LeaseStands DEF leaseVars, nonceVars, callVars, fdVars, LeaseTypeOK
    <2> QED BY <1>1, <2>1, <2>2 DEF leaseVars, SameLease, CloseRaises
  <1>2. CASE lease[c] = "open"
    <2>1. /\ ReleaseLease(c) /\ exposed' = exposed
          /\ leaf' \in {leaf, [leaf EXCEPT ![c] = "removed"]}
      BY <1>2 DEF CloseReturns, CloseRaises, RemoveLeaf, LeafStays
    <2>2. CloseReturns(c) => leaf'[c] = "removed"
      BY <1>2 DEF CloseReturns, RemoveLeaf, LeaseTypeOK
    <2> QED BY <1>2, <2>1, <2>2, ReleaseFits
  <1> QED BY <1>1, <1>2

\* The call is marked exposed, and nothing else of the lease changes.
LEMMA ExposedLeaseFits ==
    ASSUME LeaseInv, NEW c \in Callers,
           UNCHANGED <<nonceVars, callVars, fdVars, leaf, stray, lease>>,
           exposed' \in {exposed, [exposed EXCEPT ![c] = TRUE]}
    PROVE  /\ LeaseInv' /\ \A d \in Callers \ {c} : SameLease(d)
           /\ step' = step /\ (exposed[c] => exposed'[c])
  <1> USE DEF LeaseInv, nonceVars, callVars, fdVars
  <1>1. LeaseTypeOK' /\ (exposed[c] => exposed'[c])
    BY DEF LeaseTypeOK
  <1>2. \A d \in Callers \ {c} : SameLease(d)
    BY DEF SameLease, LeaseTypeOK
  <1>3. LeaseFits(c)'
    BY <1>1 DEF LeaseFits
  <1>4. Spent(c)' = Spent(c)
    BY DEF Spent
  <1> QED BY <1>1, <1>2, <1>3, <1>4, AssembleLease

\* Foreign processes change what is in a leaf, never whose it is.
LEMMA ForeignFits ==
    ASSUME LeaseInv, NEW c \in Callers, ForeignStep(c)
    PROVE  LeaseInv' /\ UNCHANGED <<step, answer, leaf, lease, exposed>>
  <1>1. /\ UNCHANGED <<nonceVars, callVars, fdVars, leaf, lease, exposed>>
        /\ stray' \in [Callers -> BOOLEAN]
    BY DEF ForeignStep, StrayEnters, StrayLeaves, LeaseInv, LeaseTypeOK
  <1> QED BY <1>1, LeaseStands DEF callVars
-----------------------------------------------------------------------------
(* The attempt                                                             *)

\* All that the invariant of an attempt is about.
Same(d) ==
    /\ step'[d] = step[d] /\ leaf'[d] = leaf[d] /\ lease'[d] = lease[d]
    /\ at'[d] = at[d] /\ boot'[d] = boot[d] /\ child'[d] = child[d]
    /\ ended'[d] = ended[d] /\ setup'[d] = setup[d] /\ written'[d] = written[d]
    /\ unread'[d] = unread[d] /\ eof'[d] = eof[d] /\ eofFirst'[d] = eofFirst[d]
    /\ waited'[d] = waited[d] /\ forced'[d] = forced[d] /\ roles'[d] = roles[d]
    /\ kind'[d] = kind[d] /\ fatal'[d] = fatal[d] /\ verdict'[d] = verdict[d]
    /\ exposed'[d] = exposed[d] /\ answer'[d] = answer[d]

\* An attempt of which nothing changes keeps its invariant.
LEMMA SameFits ==
    ASSUME NEW d \in Callers, Same(d), AttemptFits(d)
    PROVE  AttemptFits(d)'
  <1> USE DEF Same, AttemptFits
  <1>1. HoldFits(d)'
    BY DEF HoldFits, Noticed
  <1>2. ChildFits(d)'
    BY DEF ChildFits, Unburied
  <1>3. RolesFit(d)'
    BY DEF RolesFit
  <1>4. ResultFits(d)'
    BY DEF ResultFits, Complete, Read
  <1> QED BY <1>1, <1>2, <1>3, <1>4

\* A step of one attempt is looked at for that attempt alone.
LEMMA Assemble ==
    ASSUME AttemptInv, NEW c \in Callers, LeaseInv', AttemptTypeOK', AttemptFits(c)',
           \A d \in Callers \ {c} : Same(d)
    PROVE  AttemptInv'
  BY SameFits DEF AttemptInv

\* Nothing has begun in the initial state.
LEMMA InitFits == Init => AttemptInv
  <1> SUFFICES ASSUME Init PROVE AttemptInv
    OBVIOUS
  <1> USE DEF Init, LeaseInit
  <1>1. LeaseTypeOK
    BY DEF LeaseTypeOK, Steps
  <1>2. NonceFits /\ \A c \in Callers : LeaseFits(c)
    BY DEF NonceFits, Spent, LeaseFits
  <1>3. AttemptTypeOK
    BY DEF AttemptTypeOK, Places, Fresh
  <1>4. \A c \in Callers : AttemptFits(c)
    BY DEF AttemptFits, HoldFits, Noticed, ChildFits, Unburied, RolesFit, ResultFits, Fresh,
           Holding, Handling
  <1> QED BY <1>1, <1>2, <1>3, <1>4 DEF AttemptInv, LeaseInv

\* What a step that has nothing to do with the lease leaves alone.
LEMMA LeaseAside ==
    ASSUME LeaseInv, UNCHANGED <<nonceVars, callVars, fdVars, leafVars, lease, exposed>>
    PROVE  LeaseInv' /\ UNCHANGED <<step, answer, leaf, lease, exposed>>
  <1>1. stray' \in [Callers -> BOOLEAN]
    BY DEF LeaseInv, LeaseTypeOK, leafVars
  <1> QED BY <1>1, LeaseStands DEF leafVars, callVars


\* A tuple grows by one element.
LEMMA TuplesGrow ==
    ASSUME NEW S, NEW x \in S, NEW y \in S, NEW z \in S
    PROVE  Append(<<x>>, y) = <<x, y>> /\ Append(<<x, y>>, z) = <<x, y, z>>
  <1>1. Append(<<x>>, y) = <<x, y>>
    <2>1. <<x>> \in Seq(S) /\ Len(<<x>>) = 1
      OBVIOUS
    <2>2. <<x, y>> \in Seq(S) /\ Len(<<x, y>>) = 2
      OBVIOUS
    <2>3. Append(<<x>>, y) \in Seq(S) /\ Len(Append(<<x>>, y)) = 2
      BY <2>1
    <2>4. \A i \in 1..2 : Append(<<x>>, y)[i] = <<x, y>>[i]
      BY <2>1
    <2> QED BY <2>2, <2>3, <2>4, SeqEqual
  <1>2. Append(<<x, y>>, z) = <<x, y, z>>
    <2>1. <<x, y>> \in Seq(S) /\ Len(<<x, y>>) = 2
      OBVIOUS
    <2>2. <<x, y, z>> \in Seq(S) /\ Len(<<x, y, z>>) = 3
      OBVIOUS
    <2>3. Append(<<x, y>>, z) \in Seq(S) /\ Len(Append(<<x, y>>, z)) = 3
      BY <2>1
    <2>4. \A i \in 1..3 : Append(<<x, y>>, z)[i] = <<x, y, z>>[i]
      BY <2>1
    <2> QED BY <2>2, <2>3, <2>4, SeqEqual
  <1> QED BY <1>1, <1>2

\* How the recorded lifecycle grows.
LEMMA RolesGrow ==
    /\ Append(<< >>, "PROCESS_LAUNCH") = <<"PROCESS_LAUNCH">>
    /\ Append(<<"PROCESS_LAUNCH">>, "OUTPUT_EOF") = <<"PROCESS_LAUNCH", "OUTPUT_EOF">>
    /\ Append(<<"PROCESS_LAUNCH", "OUTPUT_EOF">>, "PROCESS_REAP")
         = <<"PROCESS_LAUNCH", "OUTPUT_EOF", "PROCESS_REAP">>
    /\ Append(<<"PROCESS_LAUNCH">>, "PROCESS_REAP") = <<"PROCESS_LAUNCH", "PROCESS_REAP">>
    /\ Append(<<"PROCESS_LAUNCH", "PROCESS_REAP">>, "OUTPUT_EOF")
         = <<"PROCESS_LAUNCH", "PROCESS_REAP", "OUTPUT_EOF">>
  <1>1. Append(<< >>, "PROCESS_LAUNCH") = <<"PROCESS_LAUNCH">>
    OBVIOUS
  <1> DEFINE S == {"PROCESS_LAUNCH", "OUTPUT_EOF", "PROCESS_REAP"}
  <1>2. "PROCESS_LAUNCH" \in S /\ "OUTPUT_EOF" \in S /\ "PROCESS_REAP" \in S
    OBVIOUS
  <1> HIDE DEF S
  <1> QED BY <1>1, <1>2, TuplesGrow, Zenon

\* The answer of `acquire' is a verdict, or the attempt goes on.
LEMMA AcquiredFits ==
    ASSUME AttemptInv, NEW c \in Callers, Acquired(c)
    PROVE  AttemptInv'
  <1> USE DEF AttemptInv
  <1>1. LeaseInv' /\ UNCHANGED <<step, answer, leaf, lease, exposed>>
    <2>1. UNCHANGED <<nonceVars, callVars, fdVars, leafVars, lease, exposed>>
      BY DEF Acquired, To, Settle, leaseVars, nonceVars, callVars, fdVars, leafVars,
         childVars, runVars, endVars
    <2> QED BY <2>1, LeaseAside
  <1>2. AttemptTypeOK'
    BY DEF Acquired, To, Settle, AttemptTypeOK, childVars, runVars, endVars, Places,
       Fresh, Holding, Handling
  <1>3. \A d \in Callers \ {c} : Same(d)
    BY <1>1 DEF Acquired, To, Settle, AttemptTypeOK, Same, childVars, runVars, endVars
  <1>4. HoldFits(c)'
    <2>1. /\ LeaseFits(c) /\ lease[c] \in {"none", "open", "closed", "lost"}
          /\ answer[c] = "lease" => lease[c] = "open"
          /\ boot'[c] = boot[c] /\ step[c] = "done" /\ at[c] = "acquire"
          /\ lease[c] # "closed" /\ (boot[c] = "lost" => exposed[c])
      BY DEF LeaseInv, LeaseTypeOK, Acquired, AttemptFits, HoldFits
    <2>2. CASE answer[c] = "lease"
      <3>1. at'[c] = "prepare"
        BY <2>2 DEF Acquired, To, AttemptTypeOK
      <3> QED BY <1>1, <2>1, <2>2, <3>1 DEF HoldFits, Handling
    <2>3. CASE answer[c] # "lease"
      <3>1. /\ at'[c] = "settle" /\ lease[c] \in {"none", "lost"}
            /\ answer[c] = "cleanup" => verdict'[c] = "raised"
        BY <2>1, <2>3 DEF Acquired, To, Settle, AttemptTypeOK, LeaseFits
      <3> QED BY <1>1, <2>1, <3>1 DEF HoldFits, LeaseFits, Holding, Handling
    <2> QED BY <2>2, <2>3
  <1>5. ChildFits(c)'
    BY <1>1 DEF Acquired, To, Settle, AttemptTypeOK, AttemptFits, ChildFits, Unburied,
       childVars, runVars, endVars, Fresh
  <1>6. RolesFit(c)'
    BY <1>1 DEF Acquired, To, Settle, AttemptTypeOK, AttemptFits, RolesFit, childVars,
       runVars, endVars, Fresh
  <1>7. ResultFits(c)'
    BY <1>1 DEF Acquired, To, Settle, AttemptTypeOK, AttemptFits, HoldFits, Noticed, ChildFits,
       ResultFits, Complete, Read, childVars, runVars, endVars
  <1> QED BY <1>1, <1>2, <1>3, <1>4, <1>5, <1>6, <1>7, Assemble DEF AttemptFits

\* The bootstrap is staged.
LEMMA PrepareFits ==
    ASSUME AttemptInv, NEW c \in Callers, Prepare(c)
    PROVE  AttemptInv'
  <1> USE DEF AttemptInv
  <1>1. LeaseInv' /\ UNCHANGED <<step, answer, leaf, lease, exposed>>
    <2>1. UNCHANGED <<nonceVars, callVars, fdVars, leafVars, lease, exposed>>
      BY DEF Prepare, To, Settle, leaseVars, nonceVars, callVars, fdVars, leafVars,
         childVars, runVars, endVars
    <2> QED BY <2>1, LeaseAside
  <1>2. AttemptTypeOK'
    BY DEF Prepare, To, Settle, AttemptTypeOK, childVars, runVars, endVars, Places,
       Fresh, Holding, Handling
  <1>3. \A d \in Callers \ {c} : Same(d)
    BY <1>1 DEF Prepare, To, Settle, AttemptTypeOK, Same, childVars, runVars, endVars
  <1>4. HoldFits(c)'
    BY <1>1 DEF Prepare, To, Settle, AttemptTypeOK, AttemptFits, HoldFits, Noticed, ResultFits,
       childVars, runVars, endVars, Fresh, Holding, Handling
  <1>5. ChildFits(c)'
    BY <1>1 DEF Prepare, To, Settle, AttemptTypeOK, AttemptFits, ChildFits, Unburied,
       childVars, runVars, endVars, Fresh
  <1>6. RolesFit(c)'
    BY <1>1 DEF Prepare, To, Settle, AttemptTypeOK, AttemptFits, RolesFit, childVars,
       runVars, endVars, Fresh
  <1>7. ResultFits(c)'
    BY <1>1 DEF Prepare, To, Settle, AttemptTypeOK, AttemptFits, HoldFits, Noticed, ChildFits,
       ResultFits, Complete, Read, childVars, runVars, endVars
  <1> QED BY <1>1, <1>2, <1>3, <1>4, <1>5, <1>6, <1>7, Assemble DEF AttemptFits

\* The capability probe.
LEMMA ProbeFits ==
    ASSUME AttemptInv, NEW c \in Callers, Probe(c)
    PROVE  AttemptInv'
  <1> USE DEF AttemptInv
  <1>1. LeaseInv' /\ UNCHANGED <<step, answer, leaf, lease, exposed>>
    <2>1. UNCHANGED <<nonceVars, callVars, fdVars, leafVars, lease, exposed>>
      BY DEF Probe, To, Kind, leaseVars, nonceVars, callVars, fdVars, leafVars,
         childVars, runVars, endVars
    <2> QED BY <2>1, LeaseAside
  <1>2. AttemptTypeOK'
    BY DEF Probe, To, Kind, AttemptTypeOK, childVars, runVars, endVars, Places, Fresh,
       Holding, Handling
  <1>3. \A d \in Callers \ {c} : Same(d)
    BY <1>1 DEF Probe, To, Kind, AttemptTypeOK, Same, childVars, runVars, endVars
  <1>4. HoldFits(c)'
    BY <1>1 DEF Probe, To, Kind, AttemptTypeOK, AttemptFits, HoldFits, Noticed, ResultFits,
       childVars, runVars, endVars, Fresh, Holding, Handling
  <1>5. ChildFits(c)'
    BY <1>1 DEF Probe, To, Kind, AttemptTypeOK, AttemptFits, ChildFits, Unburied,
       childVars, runVars, endVars, Fresh
  <1>6. RolesFit(c)'
    BY <1>1 DEF Probe, To, Kind, AttemptTypeOK, AttemptFits, RolesFit, childVars,
       runVars, endVars, Fresh
  <1>7. ResultFits(c)'
    BY <1>1 DEF Probe, To, Kind, AttemptTypeOK, AttemptFits, HoldFits, Noticed, ChildFits,
       ResultFits, Complete, Read, childVars, runVars, endVars
  <1> QED BY <1>1, <1>2, <1>3, <1>4, <1>5, <1>6, <1>7, Assemble DEF AttemptFits

\* Lease and bootstrap are claimed.
LEMMA ClaimFits ==
    ASSUME AttemptInv, NEW c \in Callers, Claim(c)
    PROVE  AttemptInv'
  <1> USE DEF AttemptInv
  <1>1. LeaseInv' /\ UNCHANGED <<step, answer, leaf, lease, exposed>>
    <2>1. UNCHANGED <<nonceVars, callVars, fdVars, leafVars, lease, exposed>>
      BY DEF Claim, To, Kind, Raise, Fault, leaseVars, nonceVars, callVars, fdVars,
         leafVars, childVars, runVars, endVars
    <2> QED BY <2>1, LeaseAside
  <1>2. AttemptTypeOK'
    BY DEF Claim, To, Kind, Raise, Fault, AttemptTypeOK, childVars, runVars, endVars,
       Places, Fresh, Holding, Handling
  <1>3. \A d \in Callers \ {c} : Same(d)
    BY <1>1 DEF Claim, To, Kind, Raise, Fault, AttemptTypeOK, Same, childVars, runVars,
       endVars
  <1>4. HoldFits(c)'
    BY <1>1 DEF Claim, To, Kind, Raise, Fault, AttemptTypeOK, AttemptFits, HoldFits, Noticed,
       ResultFits, childVars, runVars, endVars, Fresh, Holding, Handling
  <1>5. ChildFits(c)'
    BY <1>1 DEF Claim, To, Kind, Raise, Fault, AttemptTypeOK, AttemptFits, ChildFits,
       Unburied, childVars, runVars, endVars, Fresh
  <1>6. RolesFit(c)'
    BY <1>1 DEF Claim, To, Kind, Raise, Fault, AttemptTypeOK, AttemptFits, RolesFit,
       childVars, runVars, endVars, Fresh
  <1>7. ResultFits(c)'
    BY <1>1 DEF Claim, To, Kind, Raise, Fault, AttemptTypeOK, AttemptFits, HoldFits, Noticed,
       ChildFits, ResultFits, Complete, Read, childVars, runVars, endVars
  <1> QED BY <1>1, <1>2, <1>3, <1>4, <1>5, <1>6, <1>7, Assemble DEF AttemptFits

\* The child is made in an empty leaf, or not at all.
LEMMA CloneFits ==
    ASSUME AttemptInv, NEW c \in Callers, Clone(c)
    PROVE  AttemptInv'
  <1> USE DEF AttemptInv
  <1>1. LeaseInv' /\ UNCHANGED <<step, answer, leaf, lease, exposed>>
    <2>1. UNCHANGED <<nonceVars, callVars, fdVars, leafVars, lease, exposed>>
      BY DEF Clone, To, leaseVars, nonceVars, callVars, fdVars, leafVars, childVars,
         runVars, endVars
    <2> QED BY <2>1, LeaseAside
  <1>2. AttemptTypeOK'
    <2>1. /\ child' \in [Callers -> {"none", "running", "zombie", "reaped"}]
          /\ channel' = [d \in Callers |-> channel'[d]] /\ at' \in [Callers -> Places]
      BY DEF Clone, To, AttemptTypeOK, Places, Fresh, Holding
    <2> QED BY <2>1 DEF Clone, AttemptTypeOK, runVars, endVars
  <1>3. \A d \in Callers \ {c} : Same(d)
    BY <1>1 DEF Clone, To, AttemptTypeOK, Same, childVars, runVars, endVars
  <1>4. HoldFits(c)'
    BY <1>1 DEF Clone, To, AttemptTypeOK, AttemptFits, HoldFits, Noticed, ResultFits, childVars,
       runVars, endVars, Fresh, Holding, Handling
  <1>5. ChildFits(c)'
    BY <1>1 DEF Clone, To, AttemptTypeOK, AttemptFits, ChildFits, Unburied, childVars,
       runVars, endVars, Fresh
  <1>6. RolesFit(c)'
    BY <1>1 DEF Clone, To, AttemptTypeOK, AttemptFits, RolesFit, childVars, runVars,
       endVars, Fresh
  <1>7. ResultFits(c)'
    BY <1>1 DEF Clone, To, AttemptTypeOK, AttemptFits, HoldFits, Noticed, ChildFits, ResultFits,
       Complete, Read, childVars, runVars, endVars
  <1> QED BY <1>1, <1>2, <1>3, <1>4, <1>5, <1>6, <1>7, Assemble DEF AttemptFits

\* The launch is recorded.
LEMMA LaunchedFits ==
    ASSUME AttemptInv, NEW c \in Callers, Launched(c)
    PROVE  AttemptInv'
  <1> USE DEF AttemptInv
  <1>1. LeaseInv' /\ UNCHANGED <<step, answer, leaf, lease, exposed>>
    <2>1. UNCHANGED <<nonceVars, callVars, fdVars, leafVars, lease, exposed>>
      BY DEF Launched, To, Kind, Raise, Role, leaseVars, nonceVars, callVars, fdVars,
         leafVars, childVars, runVars, endVars
    <2> QED BY <2>1, LeaseAside
  <1>2. AttemptTypeOK'
    BY ZenonT(30) DEF Launched, To, Kind, Raise, Role, AttemptTypeOK, childVars,
       runVars, endVars,
       Places, Fresh, Holding, Handling
  <1>3. \A d \in Callers \ {c} : Same(d)
    BY <1>1 DEF Launched, To, Kind, Raise, Role, AttemptTypeOK, Same, childVars,
       runVars, endVars
  <1>4. HoldFits(c)'
    BY <1>1 DEF Launched, To, Kind, Raise, Role, AttemptTypeOK, AttemptFits, HoldFits, Noticed,
       ResultFits, childVars, runVars, endVars, Fresh, Holding, Handling
  <1>5. ChildFits(c)'
    BY <1>1 DEF Launched, To, Kind, Raise, Role, AttemptTypeOK, AttemptFits, ChildFits,
       Unburied, childVars, runVars, endVars, Fresh
  <1>6. RolesFit(c)'
    <2>1. CASE at'[c] = "poll"
      <3>1. roles'[c] = Append(roles[c], "PROCESS_LAUNCH") /\ eof' = eof /\ eofFirst' = eofFirst
        BY <2>1 DEF Launched, To, Raise, Role, AttemptTypeOK
      <3>2. roles[c] = << >> /\ eof[c] = FALSE /\ eofFirst[c] = FALSE
        BY DEF Launched, AttemptFits, RolesFit, AttemptTypeOK
      <3>3. roles'[c] = <<"PROCESS_LAUNCH">>
        BY <3>1, <3>2, RolesGrow
      <3> QED BY <2>1, <3>1, <3>2, <3>3 DEF RolesFit, Fresh
    <2>2. CASE at'[c] = "except"
      BY <2>2 DEF RolesFit, Fresh
    <2> QED BY <2>1, <2>2 DEF Launched, To, Raise, AttemptTypeOK
  <1>7. ResultFits(c)'
    BY <1>1 DEF Launched, To, Kind, Raise, Role, AttemptTypeOK, AttemptFits, HoldFits, Noticed,
       ChildFits, ResultFits, Complete, Read, childVars, runVars, endVars
  <1> QED BY <1>1, <1>2, <1>3, <1>4, <1>5, <1>6, <1>7, Assemble DEF AttemptFits

\* The deadline has passed.
LEMMA DeadlineFits ==
    ASSUME AttemptInv, NEW c \in Callers, Deadline(c)
    PROVE  AttemptInv'
  <1> USE DEF AttemptInv
  <1>1. LeaseInv' /\ UNCHANGED <<step, answer, leaf, lease, exposed>>
    <2>1. UNCHANGED <<nonceVars, callVars, fdVars, leafVars, lease, exposed>>
      BY DEF Deadline, To, SendKill, leaseVars, nonceVars, callVars, fdVars, leafVars,
         childVars, runVars, endVars
    <2> QED BY <2>1, LeaseAside
  <1>2. AttemptTypeOK'
    BY DEF Deadline, To, SendKill, AttemptTypeOK, childVars, runVars, endVars, Places,
       Fresh, Holding, Handling
  <1>3. \A d \in Callers \ {c} : Same(d)
    BY <1>1 DEF Deadline, To, SendKill, AttemptTypeOK, Same, childVars, runVars, endVars
  <1>4. HoldFits(c)'
    BY <1>1 DEF Deadline, To, SendKill, AttemptTypeOK, AttemptFits, HoldFits, Noticed,
       ResultFits, childVars, runVars, endVars, Fresh, Holding, Handling
  <1>5. ChildFits(c)'
    BY <1>1 DEF Deadline, To, SendKill, AttemptTypeOK, AttemptFits, ChildFits, Unburied,
       childVars, runVars, endVars, Fresh
  <1>6. RolesFit(c)'
    BY <1>1 DEF Deadline, To, SendKill, AttemptTypeOK, AttemptFits, RolesFit, childVars,
       runVars, endVars, Fresh
  <1>7. ResultFits(c)'
    BY <1>1 DEF Deadline, To, SendKill, AttemptTypeOK, AttemptFits, HoldFits, Noticed, ChildFits,
       ResultFits, Complete, Read, childVars, runVars, endVars
  <1> QED BY <1>1, <1>2, <1>3, <1>4, <1>5, <1>6, <1>7, Assemble DEF AttemptFits

\* One read of the output.
LEMMA ReadChunkFits ==
    ASSUME AttemptInv, NEW c \in Callers, ReadChunk(c)
    PROVE  AttemptInv'
  <1> USE DEF AttemptInv
  <1>1. LeaseInv' /\ UNCHANGED <<step, answer, leaf, lease, exposed>>
    <2>1. UNCHANGED <<nonceVars, callVars, fdVars, leafVars, lease, exposed>>
      BY DEF ReadChunk, To, SendKill, Read, leaseVars, nonceVars, callVars, fdVars,
         leafVars, childVars, runVars, endVars
    <2> QED BY <2>1, LeaseAside
  <1>2. AttemptTypeOK'
    <2>1. unread' \in [Callers -> Nat]
      BY DEF ReadChunk, AttemptTypeOK
    <2>2. /\ at' \in [Callers -> Places] /\ forced' = [d \in Callers |-> forced'[d]]
          /\ killSent' = [d \in Callers |-> killSent'[d]]
      BY DEF ReadChunk, To, SendKill, AttemptTypeOK, Places, Holding
    <2> QED BY <2>1, <2>2 DEF ReadChunk, AttemptTypeOK, endVars
  <1>3. \A d \in Callers \ {c} : Same(d)
    BY <1>1 DEF ReadChunk, To, SendKill, Read, AttemptTypeOK, Same, childVars, runVars,
       endVars
  <1>4. HoldFits(c)'
    BY <1>1 DEF ReadChunk, To, SendKill, Read, AttemptTypeOK, AttemptFits, HoldFits, Noticed,
       ResultFits, childVars, runVars, endVars, Fresh, Holding, Handling
  <1>5. ChildFits(c)'
    BY <1>1 DEF ReadChunk, To, SendKill, Read, AttemptTypeOK, AttemptFits, ChildFits,
       Unburied, childVars, runVars, endVars, Fresh
  <1>6. RolesFit(c)'
    BY <1>1 DEF ReadChunk, To, SendKill, Read, AttemptTypeOK, AttemptFits, RolesFit,
       childVars, runVars, endVars, Fresh
  <1>7. ResultFits(c)'
    BY <1>1 DEF ReadChunk, To, SendKill, Read, AttemptTypeOK, AttemptFits, HoldFits, Noticed,
       ChildFits, ResultFits, Complete, Read, childVars, runVars, endVars
  <1> QED BY <1>1, <1>2, <1>3, <1>4, <1>5, <1>6, <1>7, Assemble DEF AttemptFits

\* The end of the output is read.
LEMMA ReadEofFits ==
    ASSUME AttemptInv, NEW c \in Callers, ReadEof(c)
    PROVE  AttemptInv'
  <1> USE DEF AttemptInv
  <1>1. LeaseInv' /\ UNCHANGED <<step, answer, leaf, lease, exposed>>
    <2>1. UNCHANGED <<nonceVars, callVars, fdVars, leafVars, lease, exposed>>
      BY DEF ReadEof, Role, leaseVars, nonceVars, callVars, fdVars, leafVars, childVars,
         runVars, endVars
    <2> QED BY <2>1, LeaseAside
  <1>2. AttemptTypeOK'
    BY DEF ReadEof, Role, AttemptTypeOK, childVars, runVars, endVars, Places, Fresh,
       Holding, Handling
  <1>3. \A d \in Callers \ {c} : Same(d)
    BY <1>1 DEF ReadEof, Role, AttemptTypeOK, Same, childVars, runVars, endVars
  <1>4. HoldFits(c)'
    BY <1>1 DEF ReadEof, Role, AttemptTypeOK, AttemptFits, HoldFits, Noticed, ResultFits,
       childVars, runVars, endVars, Fresh, Holding, Handling
  <1>5. ChildFits(c)'
    BY <1>1 DEF ReadEof, Role, AttemptTypeOK, AttemptFits, ChildFits, Unburied,
       childVars, runVars, endVars, Fresh
  <1>6. RolesFit(c)'
    <2>1. /\ at[c] = "poll" /\ at' = at /\ ~eof[c] /\ eof'[c] /\ eofFirst'[c]
          /\ roles'[c] = Append(roles[c], "OUTPUT_EOF")
      BY DEF ReadEof, Role, AttemptTypeOK
    <2>2. roles[c] = <<"PROCESS_LAUNCH">>
      BY <2>1 DEF AttemptFits, RolesFit
    <2>3. roles'[c] = <<"PROCESS_LAUNCH", "OUTPUT_EOF">>
      BY <2>1, <2>2, RolesGrow
    <2>4. eof'[c] = TRUE /\ eofFirst'[c] = TRUE
      BY DEF ReadEof, AttemptTypeOK
    <2> QED BY <2>1, <2>3, <2>4 DEF RolesFit, Fresh
  <1>7. ResultFits(c)'
    BY <1>1 DEF ReadEof, Role, AttemptTypeOK, AttemptFits, HoldFits, Noticed, ChildFits,
       ResultFits, Complete, Read, childVars, runVars, endVars
  <1> QED BY <1>1, <1>2, <1>3, <1>4, <1>5, <1>6, <1>7, Assemble DEF AttemptFits

\* The pidfd is readable.
LEMMA SeeExitFits ==
    ASSUME AttemptInv, NEW c \in Callers, SeeExit(c)
    PROVE  AttemptInv'
  <1> USE DEF AttemptInv
  <1>1. LeaseInv' /\ UNCHANGED <<step, answer, leaf, lease, exposed>>
    <2>1. UNCHANGED <<nonceVars, callVars, fdVars, leafVars, lease, exposed>>
      BY DEF SeeExit, leaseVars, nonceVars, callVars, fdVars, leafVars, childVars,
         runVars, endVars
    <2> QED BY <2>1, LeaseAside
  <1>2. AttemptTypeOK'
    BY DEF SeeExit, AttemptTypeOK, childVars, runVars, endVars, Places, Fresh, Holding,
       Handling
  <1>3. \A d \in Callers \ {c} : Same(d)
    BY <1>1 DEF SeeExit, AttemptTypeOK, Same, childVars, runVars, endVars
  <1>4. HoldFits(c)'
    BY <1>1 DEF SeeExit, AttemptTypeOK, AttemptFits, HoldFits, Noticed, ResultFits, childVars,
       runVars, endVars, Fresh, Holding, Handling
  <1>5. ChildFits(c)'
    BY <1>1 DEF SeeExit, AttemptTypeOK, AttemptFits, ChildFits, Unburied, childVars,
       runVars, endVars, Fresh
  <1>6. RolesFit(c)'
    BY <1>1 DEF SeeExit, AttemptTypeOK, AttemptFits, RolesFit, childVars, runVars,
       endVars, Fresh
  <1>7. ResultFits(c)'
    BY <1>1 DEF SeeExit, AttemptTypeOK, AttemptFits, HoldFits, Noticed, ChildFits, ResultFits,
       Complete, Read, childVars, runVars, endVars
  <1> QED BY <1>1, <1>2, <1>3, <1>4, <1>5, <1>6, <1>7, Assemble DEF AttemptFits

\* The loop has seen the end of output and child.
LEMMA EndLoopFits ==
    ASSUME AttemptInv, NEW c \in Callers, EndLoop(c)
    PROVE  AttemptInv'
  <1> USE DEF AttemptInv
  <1>1. LeaseInv' /\ UNCHANGED <<step, answer, leaf, lease, exposed>>
    <2>1. UNCHANGED <<nonceVars, callVars, fdVars, leafVars, lease, exposed>>
      BY DEF EndLoop, To, leaseVars, nonceVars, callVars, fdVars, leafVars, childVars,
         runVars, endVars
    <2> QED BY <2>1, LeaseAside
  <1>2. AttemptTypeOK'
    BY DEF EndLoop, To, AttemptTypeOK, childVars, runVars, endVars, Places, Fresh,
       Holding, Handling
  <1>3. \A d \in Callers \ {c} : Same(d)
    BY <1>1 DEF EndLoop, To, AttemptTypeOK, Same, childVars, runVars, endVars
  <1>4. HoldFits(c)'
    BY <1>1 DEF EndLoop, To, AttemptTypeOK, AttemptFits, HoldFits, Noticed, ResultFits,
       childVars, runVars, endVars, Fresh, Holding, Handling
  <1>5. ChildFits(c)'
    BY <1>1 DEF EndLoop, To, AttemptTypeOK, AttemptFits, ChildFits, Unburied, childVars,
       runVars, endVars, Fresh
  <1>6. RolesFit(c)'
    BY <1>1 DEF EndLoop, To, AttemptTypeOK, AttemptFits, RolesFit, childVars, runVars,
       endVars, Fresh
  <1>7. ResultFits(c)'
    BY <1>1 DEF EndLoop, To, AttemptTypeOK, AttemptFits, HoldFits, Noticed, ChildFits,
       ResultFits, Complete, Read, childVars, runVars, endVars
  <1> QED BY <1>1, <1>2, <1>3, <1>4, <1>5, <1>6, <1>7, Assemble DEF AttemptFits

\* The child is reaped, or the grace period is over.
LEMMA ReapFits ==
    ASSUME AttemptInv, NEW c \in Callers, Reap(c)
    PROVE  AttemptInv'
  <1> USE DEF AttemptInv
  <1>1. LeaseInv' /\ UNCHANGED <<step, answer, leaf, lease, exposed>>
    <2>1. UNCHANGED <<nonceVars, callVars, fdVars, leafVars, lease, exposed>>
      BY DEF Reap, To, Kind, Raise, Role, leaseVars, nonceVars, callVars, fdVars,
         leafVars, childVars, runVars, endVars
    <2> QED BY <2>1, LeaseAside
  <1>2. AttemptTypeOK'
    BY ZenonT(30) DEF Reap, To, Kind, Raise, Role, AttemptTypeOK, childVars, runVars,
       endVars,
       Places, Fresh, Holding, Handling
  <1>3. \A d \in Callers \ {c} : Same(d)
    BY <1>1 DEF Reap, To, Kind, Raise, Role, AttemptTypeOK, Same, childVars, runVars,
       endVars
  <1>4. HoldFits(c)'
    BY <1>1 DEF Reap, To, Kind, Raise, Role, AttemptTypeOK, AttemptFits, HoldFits, Noticed,
       ResultFits, childVars, runVars, endVars, Fresh, Holding, Handling
  <1>5. ChildFits(c)'
    BY <1>1 DEF Reap, To, Kind, Raise, Role, AttemptTypeOK, AttemptFits, ChildFits,
       Unburied, childVars, runVars, endVars, Fresh
  <1>6. RolesFit(c)'
    <2>1. CASE at'[c] = "drain"
      <3>1. /\ roles'[c] = Append(roles[c], "PROCESS_REAP") /\ at[c] = "reap"
            /\ eof' = eof /\ eofFirst' = eofFirst
        BY <2>1 DEF Reap, To, Raise, Role, AttemptTypeOK
      <3>2. /\ eof[c] = eofFirst[c]
            /\ roles[c] = IF eof[c] THEN <<"PROCESS_LAUNCH", "OUTPUT_EOF">>
                                    ELSE <<"PROCESS_LAUNCH">>
        BY <3>1 DEF AttemptFits, RolesFit
      <3>3. roles'[c] = IF eof[c] THEN <<"PROCESS_LAUNCH", "OUTPUT_EOF", "PROCESS_REAP">>
                                  ELSE <<"PROCESS_LAUNCH", "PROCESS_REAP">>
        BY <3>1, <3>2, RolesGrow
      <3> QED BY <2>1, <3>1, <3>2, <3>3 DEF RolesFit, Fresh
    <2>2. CASE at'[c] = "except"
      BY <2>2 DEF RolesFit, Fresh
    <2> QED BY <2>1, <2>2 DEF Reap, To, Raise, AttemptTypeOK
  <1>7. ResultFits(c)'
    BY <1>1 DEF Reap, To, Kind, Raise, Role, AttemptTypeOK, AttemptFits, HoldFits, Noticed,
       ChildFits, ResultFits, Complete, Read, childVars, runVars, endVars
  <1> QED BY <1>1, <1>2, <1>3, <1>4, <1>5, <1>6, <1>7, Assemble DEF AttemptFits

\* The rest of the output is read.
LEMMA DrainFits ==
    ASSUME AttemptInv, NEW c \in Callers, Drain(c)
    PROVE  AttemptInv'
  <1> USE DEF AttemptInv
  <1>1. LeaseInv' /\ UNCHANGED <<step, answer, leaf, lease, exposed>>
    <2>1. UNCHANGED <<nonceVars, callVars, fdVars, leafVars, lease, exposed>>
      BY DEF Drain, To, Role, leaseVars, nonceVars, callVars, fdVars, leafVars,
         childVars, runVars, endVars
    <2> QED BY <2>1, LeaseAside
  <1>2. AttemptTypeOK'
    BY DEF Drain, To, Role, AttemptTypeOK, childVars, runVars, endVars, Places, Fresh,
       Holding, Handling
  <1>3. \A d \in Callers \ {c} : Same(d)
    BY <1>1 DEF Drain, To, Role, AttemptTypeOK, Same, childVars, runVars, endVars
  <1>4. HoldFits(c)'
    BY <1>1 DEF Drain, To, Role, AttemptTypeOK, AttemptFits, HoldFits, Noticed, ResultFits,
       childVars, runVars, endVars, Fresh, Holding, Handling
  <1>5. ChildFits(c)'
    BY <1>1 DEF Drain, To, Role, AttemptTypeOK, AttemptFits, ChildFits, Unburied,
       childVars, runVars, endVars, Fresh
  <1>6. RolesFit(c)'
    <2>1. /\ at[c] = "drain" /\ at'[c] = "verify" /\ eofFirst' = eofFirst
          /\ eof[c] => roles'[c] = roles[c]
          /\ ~eof[c] => roles'[c] = Append(roles[c], "OUTPUT_EOF")
      BY DEF Drain, To, Role, AttemptTypeOK
    <2>2. /\ eof[c] = eofFirst[c]
          /\ roles[c] = IF eof[c]
                         THEN <<"PROCESS_LAUNCH", "OUTPUT_EOF", "PROCESS_REAP">>
                         ELSE <<"PROCESS_LAUNCH", "PROCESS_REAP">>
      BY <2>1 DEF AttemptFits, RolesFit
    <2>3. roles'[c] = IF eofFirst[c]
                      THEN <<"PROCESS_LAUNCH", "OUTPUT_EOF", "PROCESS_REAP">>
                      ELSE <<"PROCESS_LAUNCH", "PROCESS_REAP", "OUTPUT_EOF">>
      BY <2>1, <2>2, RolesGrow
    <2> QED BY <2>1, <2>3 DEF RolesFit, Fresh
  <1>7. ResultFits(c)'
    BY <1>1 DEF Drain, To, Role, AttemptTypeOK, AttemptFits, HoldFits, Noticed, ChildFits,
       ResultFits, Complete, Read, childVars, runVars, endVars
  <1> QED BY <1>1, <1>2, <1>3, <1>4, <1>5, <1>6, <1>7, Assemble DEF AttemptFits

\* The leaf is verified.
LEMMA VerifyFits ==
    ASSUME AttemptInv, NEW c \in Callers, Verify(c)
    PROVE  AttemptInv'
  <1> USE DEF AttemptInv
  <1>1. LeaseInv' /\ UNCHANGED <<step, answer, leaf, lease, exposed>>
    <2>1. UNCHANGED <<nonceVars, callVars, fdVars, leafVars, lease, exposed>>
      BY DEF Verify, To, Kind, Raise, leaseVars, nonceVars, callVars, fdVars, leafVars,
         childVars, runVars, endVars
    <2> QED BY <2>1, LeaseAside
  <1>2. AttemptTypeOK'
    BY ZenonT(30) DEF Verify, To, Kind, Raise, AttemptTypeOK, childVars, runVars,
       endVars, Places,
       Fresh, Holding, Handling
  <1>3. \A d \in Callers \ {c} : Same(d)
    BY <1>1 DEF Verify, To, Kind, Raise, AttemptTypeOK, Same, childVars, runVars,
       endVars
  <1>4. HoldFits(c)'
    BY <1>1 DEF Verify, To, Kind, Raise, AttemptTypeOK, AttemptFits, HoldFits, Noticed,
       ResultFits, childVars, runVars, endVars, Fresh, Holding, Handling
  <1>5. ChildFits(c)'
    BY <1>1 DEF Verify, To, Kind, Raise, AttemptTypeOK, AttemptFits, ChildFits,
       Unburied, childVars, runVars, endVars, Fresh
  <1>6. RolesFit(c)'
    <2>1. CASE at'[c] = "closing"
      <3>1. roles'[c] = roles[c] \o <<"CGROUP_EMPTY", "DESCENDANT_SCAN",
                                      "FINAL_MEMORY_PEAK", "MEMORY_CONTROLS_VERIFIED">>
        BY <2>1 DEF Verify, To, Raise, AttemptTypeOK
      <3>2. roles'[c] = EvidenceOrder(eofFirst[c]) /\ eofFirst' = eofFirst
        BY <3>1 DEF Verify, AttemptFits, RolesFit, EvidenceOrder
      <3> QED BY <2>1, <3>2 DEF RolesFit, Fresh
    <2>2. CASE at'[c] = "except"
      BY <2>2 DEF RolesFit, Fresh
    <2> QED BY <2>1, <2>2 DEF Verify, To, Raise, AttemptTypeOK
  <1>7. ResultFits(c)'
    BY <1>1 DEF Verify, To, Kind, Raise, AttemptTypeOK, AttemptFits, HoldFits, Noticed,
       ChildFits, ResultFits, Complete, Read, childVars, runVars, endVars
  <1> QED BY <1>1, <1>2, <1>3, <1>4, <1>5, <1>6, <1>7, Assemble DEF AttemptFits

\* The result is built from the evidence.
LEMMA JudgeFits ==
    ASSUME AttemptInv, NEW c \in Callers, Judge(c)
    PROVE  AttemptInv'
  <1> USE DEF AttemptInv
  <1>1. LeaseInv' /\ UNCHANGED <<step, answer, leaf, lease, exposed>>
    <2>1. UNCHANGED <<nonceVars, callVars, fdVars, leafVars, lease, exposed>>
      BY DEF Judge, To, Kind, Raise, leaseVars, nonceVars, callVars, fdVars, leafVars,
         childVars, runVars, endVars
    <2> QED BY <2>1, LeaseAside
  <1>2. AttemptTypeOK'
    BY DEF Judge, To, Kind, Raise, AttemptTypeOK, childVars, runVars, endVars, Places,
       Fresh, Holding, Handling
  <1>3. \A d \in Callers \ {c} : Same(d)
    BY <1>1 DEF Judge, To, Kind, Raise, AttemptTypeOK, Same, childVars, runVars, endVars
  <1>4. HoldFits(c)'
    BY <1>1 DEF Judge, To, Kind, Raise, AttemptTypeOK, AttemptFits, HoldFits, Noticed,
       ResultFits, childVars, runVars, endVars, Fresh, Holding, Handling
  <1>5. ChildFits(c)'
    BY <1>1 DEF Judge, To, Kind, Raise, AttemptTypeOK, AttemptFits, ChildFits, Unburied,
       childVars, runVars, endVars, Fresh
  <1>6. RolesFit(c)'
    BY <1>1 DEF Judge, To, Kind, Raise, AttemptTypeOK, AttemptFits, RolesFit, childVars,
       runVars, endVars, Fresh
  <1>7. ResultFits(c)'
    BY <1>1 DEF Judge, To, Kind, Raise, AttemptTypeOK, AttemptFits, HoldFits, Noticed, ChildFits,
       ResultFits, Complete, Read, childVars, runVars, endVars
  <1> QED BY <1>1, <1>2, <1>3, <1>4, <1>5, <1>6, <1>7, Assemble DEF AttemptFits

\* A signal handler raises inside the runtime.
LEMMA InterruptFits ==
    ASSUME AttemptInv, NEW c \in Callers, Interrupt(c)
    PROVE  AttemptInv'
  <1> USE DEF AttemptInv
  <1>1. LeaseInv' /\ UNCHANGED <<step, answer, leaf, lease, exposed>>
    <2>1. UNCHANGED <<nonceVars, callVars, fdVars, leafVars, lease, exposed>>
      BY DEF Interrupt, To, Kind, Raise, leaseVars, nonceVars, callVars, fdVars,
         leafVars, childVars, runVars, endVars
    <2> QED BY <2>1, LeaseAside
  <1>2. AttemptTypeOK'
    BY DEF Interrupt, To, Kind, Raise, AttemptTypeOK, childVars, runVars, endVars,
       Places, Fresh, Holding, Handling
  <1>3. \A d \in Callers \ {c} : Same(d)
    BY <1>1 DEF Interrupt, To, Kind, Raise, AttemptTypeOK, Same, childVars, runVars,
       endVars
  <1>4. HoldFits(c)'
    BY <1>1 DEF Interrupt, To, Kind, Raise, AttemptTypeOK, AttemptFits, HoldFits, Noticed,
       ResultFits, childVars, runVars, endVars, Fresh, Holding, Handling
  <1>5. ChildFits(c)'
    BY <1>1 DEF Interrupt, To, Kind, Raise, AttemptTypeOK, AttemptFits, ChildFits,
       Unburied, childVars, runVars, endVars, Fresh
  <1>6. RolesFit(c)'
    BY <1>1 DEF Interrupt, To, Kind, Raise, AttemptTypeOK, AttemptFits, RolesFit,
       childVars, runVars, endVars, Fresh
  <1>7. ResultFits(c)'
    BY <1>1 DEF Interrupt, To, Kind, Raise, AttemptTypeOK, AttemptFits, HoldFits, Noticed,
       ChildFits, ResultFits, Complete, Read, childVars, runVars, endVars
  <1> QED BY <1>1, <1>2, <1>3, <1>4, <1>5, <1>6, <1>7, Assemble DEF AttemptFits

\* A signal handler raises between waitid and its assignment.
LEMMA InterruptAfterWaitFits ==
    ASSUME AttemptInv, NEW c \in Callers, InterruptAfterWait(c)
    PROVE  AttemptInv'
  <1> USE DEF AttemptInv
  <1>1. LeaseInv' /\ UNCHANGED <<step, answer, leaf, lease, exposed>>
    <2>1. UNCHANGED <<nonceVars, callVars, fdVars, leafVars, lease, exposed>>
      BY DEF InterruptAfterWait, To, Kind, Raise, leaseVars, nonceVars, callVars,
         fdVars, leafVars, childVars, runVars, endVars
    <2> QED BY <2>1, LeaseAside
  <1>2. AttemptTypeOK'
    BY DEF InterruptAfterWait, To, Kind, Raise, AttemptTypeOK, childVars, runVars,
       endVars, Places, Fresh, Holding, Handling
  <1>3. \A d \in Callers \ {c} : Same(d)
    BY <1>1 DEF InterruptAfterWait, To, Kind, Raise, AttemptTypeOK, Same, childVars,
       runVars, endVars
  <1>4. HoldFits(c)'
    BY <1>1 DEF InterruptAfterWait, To, Kind, Raise, AttemptTypeOK, AttemptFits,
       HoldFits, Noticed, ResultFits, childVars, runVars, endVars, Fresh, Holding, Handling
  <1>5. ChildFits(c)'
    BY <1>1 DEF InterruptAfterWait, To, Kind, Raise, AttemptTypeOK, AttemptFits,
       ChildFits, Unburied, childVars, runVars, endVars, Fresh
  <1>6. RolesFit(c)'
    BY <1>1 DEF InterruptAfterWait, To, Kind, Raise, AttemptTypeOK, AttemptFits,
       RolesFit, childVars, runVars, endVars, Fresh
  <1>7. ResultFits(c)'
    BY <1>1 DEF InterruptAfterWait, To, Kind, Raise, AttemptTypeOK, AttemptFits,
       HoldFits, Noticed, ChildFits, ResultFits, Complete, Read, childVars, runVars, endVars
  <1> QED BY <1>1, <1>2, <1>3, <1>4, <1>5, <1>6, <1>7, Assemble DEF AttemptFits

\* The handler kills through the pidfd.
LEMMA HandlerKillFits ==
    ASSUME AttemptInv, NEW c \in Callers, HandlerKill(c)
    PROVE  AttemptInv'
  <1> USE DEF AttemptInv
  <1>1. LeaseInv' /\ UNCHANGED <<step, answer, leaf, lease, exposed>>
    <2>1. UNCHANGED <<nonceVars, callVars, fdVars, leafVars, lease, exposed>>
      BY DEF HandlerKill, To, Unreaped, SendKill, leaseVars, nonceVars, callVars,
         fdVars, leafVars, childVars, runVars, endVars
    <2> QED BY <2>1, LeaseAside
  <1>2. AttemptTypeOK'
    BY DEF HandlerKill, To, Unreaped, SendKill, AttemptTypeOK, childVars, runVars,
       endVars, Places, Fresh, Holding, Handling
  <1>3. \A d \in Callers \ {c} : Same(d)
    BY <1>1 DEF HandlerKill, To, Unreaped, SendKill, AttemptTypeOK, Same, childVars,
       runVars, endVars
  <1>4. HoldFits(c)'
    BY <1>1 DEF HandlerKill, To, Unreaped, SendKill, AttemptTypeOK, AttemptFits,
       HoldFits, Noticed, ResultFits, childVars, runVars, endVars, Fresh, Holding, Handling
  <1>5. ChildFits(c)'
    BY <1>1 DEF HandlerKill, To, Unreaped, SendKill, AttemptTypeOK, AttemptFits,
       ChildFits, Unburied, childVars, runVars, endVars, Fresh
  <1>6. RolesFit(c)'
    BY <1>1 DEF HandlerKill, To, Unreaped, SendKill, AttemptTypeOK, AttemptFits,
       RolesFit, childVars, runVars, endVars, Fresh
  <1>7. ResultFits(c)'
    BY <1>1 DEF HandlerKill, To, Unreaped, SendKill, AttemptTypeOK, AttemptFits,
       HoldFits, Noticed, ChildFits, ResultFits, Complete, Read, childVars, runVars, endVars
  <1> QED BY <1>1, <1>2, <1>3, <1>4, <1>5, <1>6, <1>7, Assemble DEF AttemptFits

\* The handler waits through the pidfd.
LEMMA HandlerWaitFits ==
    ASSUME AttemptInv, NEW c \in Callers, NEW from, NEW to, HandlerWait(c, from, to),
           \/ from = "wait1" /\ to = "leafkill"
           \/ from = "wait2" /\ to = "direct"
    PROVE  AttemptInv'
  <1> USE DEF AttemptInv
  <1>1. LeaseInv' /\ UNCHANGED <<step, answer, leaf, lease, exposed>>
    <2>1. UNCHANGED <<nonceVars, callVars, fdVars, leafVars, lease, exposed>>
      BY DEF HandlerWait, To, Unreaped, leaseVars, nonceVars, callVars, fdVars,
         leafVars, childVars, runVars, endVars
    <2> QED BY <2>1, LeaseAside
  <1>2. AttemptTypeOK'
    BY DEF HandlerWait, To, Unreaped, AttemptTypeOK, childVars, runVars, endVars,
       Places, Fresh, Holding, Handling
  <1>3. \A d \in Callers \ {c} : Same(d)
    BY <1>1 DEF HandlerWait, To, Unreaped, AttemptTypeOK, Same, childVars, runVars,
       endVars
  <1>4. HoldFits(c)'
    BY <1>1 DEF HandlerWait, To, Unreaped, AttemptTypeOK, AttemptFits, HoldFits, Noticed,
       ResultFits, childVars, runVars, endVars, Fresh, Holding, Handling
  <1>5. ChildFits(c)'
    BY <1>1 DEF HandlerWait, To, Unreaped, AttemptTypeOK, AttemptFits, ChildFits,
       Unburied, childVars, runVars, endVars, Fresh
  <1>6. RolesFit(c)'
    BY <1>1 DEF HandlerWait, To, Unreaped, AttemptTypeOK, AttemptFits, RolesFit,
       childVars, runVars, endVars, Fresh
  <1>7. ResultFits(c)'
    BY <1>1 DEF HandlerWait, To, Unreaped, AttemptTypeOK, AttemptFits, HoldFits, Noticed,
       ChildFits, ResultFits, Complete, Read, childVars, runVars, endVars
  <1> QED BY <1>1, <1>2, <1>3, <1>4, <1>5, <1>6, <1>7, Assemble DEF AttemptFits

\* The last resort of the handler.
LEMMA HandlerDirectFits ==
    ASSUME AttemptInv, NEW c \in Callers, HandlerDirect(c)
    PROVE  AttemptInv'
  <1> USE DEF AttemptInv
  <1>1. LeaseInv' /\ UNCHANGED <<step, answer, leaf, lease, exposed>>
    <2>1. UNCHANGED <<nonceVars, callVars, fdVars, leafVars, lease, exposed>>
      BY DEF HandlerDirect, To, Unreaped, SendKill, leaseVars, nonceVars, callVars,
         fdVars, leafVars, childVars, runVars, endVars
    <2> QED BY <2>1, LeaseAside
  <1>2. AttemptTypeOK'
    BY DEF HandlerDirect, To, Unreaped, SendKill, AttemptTypeOK, childVars, runVars,
       endVars, Places, Fresh, Holding, Handling
  <1>3. \A d \in Callers \ {c} : Same(d)
    BY <1>1 DEF HandlerDirect, To, Unreaped, SendKill, AttemptTypeOK, Same, childVars,
       runVars, endVars
  <1>4. HoldFits(c)'
    BY <1>1 DEF HandlerDirect, To, Unreaped, SendKill, AttemptTypeOK, AttemptFits,
       HoldFits, Noticed, ResultFits, childVars, runVars, endVars, Fresh, Holding, Handling
  <1>5. ChildFits(c)'
    BY <1>1 DEF HandlerDirect, To, Unreaped, SendKill, AttemptTypeOK, AttemptFits,
       ChildFits, Unburied, childVars, runVars, endVars, Fresh
  <1>6. RolesFit(c)'
    BY <1>1 DEF HandlerDirect, To, Unreaped, SendKill, AttemptTypeOK, AttemptFits,
       RolesFit, childVars, runVars, endVars, Fresh
  <1>7. ResultFits(c)'
    BY <1>1 DEF HandlerDirect, To, Unreaped, SendKill, AttemptTypeOK, AttemptFits,
       HoldFits, Noticed, ChildFits, ResultFits, Complete, Read, childVars, runVars, endVars
  <1> QED BY <1>1, <1>2, <1>3, <1>4, <1>5, <1>6, <1>7, Assemble DEF AttemptFits

\* cgroup.kill, and the proof that the leaf is empty.
LEMMA HandlerLeafKillFits ==
    ASSUME AttemptInv, NEW c \in Callers, HandlerLeafKill(c)
    PROVE  AttemptInv'
  <1> USE DEF AttemptInv
  <1>1. LeaseInv' /\ UNCHANGED <<step, answer, leaf, lease, exposed>>
    <2>1. UNCHANGED <<nonceVars, callVars, fdVars, leaf, lease, exposed>>
      BY DEF HandlerLeafKill, leaseVars, nonceVars, callVars, fdVars
    <2>2. stray' \in [Callers -> BOOLEAN]
      BY DEF HandlerLeafKill, LeaseInv, LeaseTypeOK, leaseVars
    <2> QED BY <2>1, <2>2, LeaseStands DEF callVars
  <1>2. AttemptTypeOK'
    BY DEF HandlerLeafKill, To, Zombie, AttemptTypeOK, childVars, runVars, endVars,
       Places, Fresh, Holding, Handling
  <1>3. \A d \in Callers \ {c} : Same(d)
    BY <1>1 DEF HandlerLeafKill, To, Zombie, AttemptTypeOK, Same, childVars, runVars,
       endVars
  <1>4. HoldFits(c)'
    <2>1. /\ at[c] = "leafkill" /\ at'[c] = "wait2" /\ step[c] \in {"idle", "done"}
          /\ lease[c] \in {"open", "closed"} /\ boot'[c] = boot[c] /\ kind'[c] = kind[c]
          /\ boot[c] = "lost" => exposed[c]
      BY DEF HandlerLeafKill, To, AttemptTypeOK, AttemptFits, HoldFits, Handling
    <2>2. CASE lease[c] = "closed" /\ leaf[c] = "dir"
      <3>1. \/ kind[c] = "cleanup" \/ exposed[c]
            \/ child[c] # "none" /\ ~leafFd[c]
        BY <2>1, <2>2 DEF AttemptFits, HoldFits, Noticed, Handling, LeaseInv, LeaseFits
      <3>2. child[c] # "none" /\ ~leafFd[c] => fatal'[c]
        BY DEF HandlerLeafKill, AttemptTypeOK
      <3> QED BY <1>1, <2>1, <3>1, <3>2 DEF HoldFits, Noticed, Holding
    <2>3. CASE ~(lease[c] = "closed" /\ leaf[c] = "dir")
      BY <1>1, <2>1, <2>3 DEF HoldFits, Holding
    <2> QED BY <2>2, <2>3
  <1>5. ChildFits(c)'
    BY <1>1 DEF HandlerLeafKill, To, Zombie, AttemptTypeOK, AttemptFits, ChildFits,
       Unburied, childVars, runVars, endVars, Fresh
  <1>6. RolesFit(c)'
    BY <1>1 DEF HandlerLeafKill, To, Zombie, AttemptTypeOK, AttemptFits, RolesFit,
       childVars, runVars, endVars, Fresh
  <1>7. ResultFits(c)'
    BY <1>1 DEF HandlerLeafKill, To, Zombie, AttemptTypeOK, AttemptFits, HoldFits, Noticed,
       ChildFits, ResultFits, Complete, Read, childVars, runVars, endVars
  <1> QED BY <1>1, <1>2, <1>3, <1>4, <1>5, <1>6, <1>7, Assemble DEF AttemptFits

\* Without a child: a blocker, or an error of the lease that goes to the handler.
LEMMA RefuseFits ==
    ASSUME AttemptInv, NEW c \in Callers, Refuse(c)
    PROVE  AttemptInv'
  <1> USE DEF AttemptInv
  <1>0. lease[c] \in {"open", "closed"} /\ (CloseReturns(c) \/ CloseRaises(c))
    BY DEF Refuse, AttemptFits, HoldFits, Noticed, Holding, Handling
  <1>1. /\ LeaseInv' /\ (\A d \in Callers \ {c} : SameLease(d)) /\ step' = step
        /\ lease'[c] = "closed" /\ exposed' = exposed
        /\ CloseReturns(c) => leaf'[c] = IF lease[c] = "open" THEN "removed" ELSE leaf[c]
        /\ CloseRaises(c) => lease[c] = "open"
    BY <1>0, CloseFits
  <1>2. AttemptTypeOK'
    BY DEF Refuse, To, Kind, Raise, AttemptTypeOK, childVars, runVars, endVars, Places,
       Fresh, Holding, Handling
  <1>3. \A d \in Callers \ {c} : Same(d)
    BY <1>1 DEF Refuse, To, Kind, Raise, AttemptTypeOK, Same, SameLease, childVars,
       runVars, endVars
  <1>4. HoldFits(c)'
    BY <1>1 DEF Refuse, To, Kind, Raise, AttemptTypeOK, AttemptFits, HoldFits, Noticed,
       ResultFits, childVars, runVars, endVars, Fresh, Holding, Handling
  <1>5. ChildFits(c)'
    BY <1>1 DEF Refuse, To, Kind, Raise, AttemptTypeOK, AttemptFits, ChildFits,
       Unburied, childVars, runVars, endVars, Fresh
  <1>6. RolesFit(c)'
    BY <1>1 DEF Refuse, To, Kind, Raise, AttemptTypeOK, AttemptFits, RolesFit,
       childVars, runVars, endVars, Fresh
  <1>7. ResultFits(c)'
    BY <1>1 DEF Refuse, To, Kind, Raise, AttemptTypeOK, AttemptFits, HoldFits, Noticed,
       ChildFits, ResultFits, Complete, Read, childVars, runVars, endVars
  <1> QED BY <1>1, <1>2, <1>3, <1>4, <1>5, <1>6, <1>7, Assemble DEF AttemptFits

\* Lease and bootstrap are closed after the child.
LEMMA CloseBothFits ==
    ASSUME AttemptInv, NEW c \in Callers, CloseBoth(c)
    PROVE  AttemptInv'
  <1> USE DEF AttemptInv
  <1>0. lease[c] \in {"open", "closed"} /\ (CloseReturns(c) \/ CloseRaises(c))
    BY DEF CloseBoth, AttemptFits, HoldFits, Noticed, Holding, Handling
  <1>1. /\ LeaseInv' /\ (\A d \in Callers \ {c} : SameLease(d)) /\ step' = step
        /\ lease'[c] = "closed" /\ exposed' = exposed
        /\ CloseReturns(c) => leaf'[c] = IF lease[c] = "open" THEN "removed" ELSE leaf[c]
        /\ CloseRaises(c) => lease[c] = "open"
    BY <1>0, CloseFits
  <1>2. AttemptTypeOK'
    BY DEF CloseBoth, To, Kind, Raise, AttemptTypeOK, childVars, runVars, endVars,
       Places, Fresh, Holding, Handling
  <1>3. \A d \in Callers \ {c} : Same(d)
    BY <1>1 DEF CloseBoth, To, Kind, Raise, AttemptTypeOK, Same, SameLease, childVars,
       runVars, endVars
  <1>4. HoldFits(c)'
    BY <1>1 DEF CloseBoth, To, Kind, Raise, AttemptTypeOK, AttemptFits, HoldFits, Noticed,
       ResultFits, childVars, runVars, endVars, Fresh, Holding, Handling
  <1>5. ChildFits(c)'
    BY <1>1 DEF CloseBoth, To, Kind, Raise, AttemptTypeOK, AttemptFits, ChildFits,
       Unburied, childVars, runVars, endVars, Fresh
  <1>6. RolesFit(c)'
    BY <1>1 DEF CloseBoth, To, Kind, Raise, AttemptTypeOK, AttemptFits, RolesFit,
       childVars, runVars, endVars, Fresh
  <1>7. ResultFits(c)'
    BY <1>1 DEF CloseBoth, To, Kind, Raise, AttemptTypeOK, AttemptFits, HoldFits, Noticed,
       ChildFits, ResultFits, Complete, Read, childVars, runVars, endVars
  <1> QED BY <1>1, <1>2, <1>3, <1>4, <1>5, <1>6, <1>7, Assemble DEF AttemptFits

\* The handler closes the lease.
LEMMA HandlerCloseFits ==
    ASSUME AttemptInv, NEW c \in Callers, HandlerClose(c)
    PROVE  AttemptInv'
  <1> USE DEF AttemptInv
  <1>0. lease[c] \in {"open", "closed"} /\ (CloseReturns(c) \/ CloseRaises(c))
    BY DEF HandlerClose, AttemptFits, HoldFits, Noticed, Holding, Handling
  <1>1. /\ LeaseInv' /\ (\A d \in Callers \ {c} : SameLease(d)) /\ step' = step
        /\ lease'[c] = "closed" /\ exposed' = exposed
        /\ CloseReturns(c) => leaf'[c] = IF lease[c] = "open" THEN "removed" ELSE leaf[c]
        /\ CloseRaises(c) => lease[c] = "open"
    BY <1>0, CloseFits
  <1>2. AttemptTypeOK'
    BY DEF HandlerClose, To, Kind, AttemptTypeOK, childVars, runVars, endVars, Places,
       Fresh, Holding, Handling
  <1>3. \A d \in Callers \ {c} : Same(d)
    BY <1>1 DEF HandlerClose, To, Kind, AttemptTypeOK, Same, SameLease, childVars,
       runVars, endVars
  <1>4. HoldFits(c)'
    <2>1. at[c] = "exclose" /\ at'[c] = "final" /\ step[c] \in {"idle", "done"}
      BY DEF HandlerClose, To, AttemptTypeOK, AttemptFits, HoldFits, Noticed
    <2>4. boot'[c] = boot[c] /\ (boot[c] = "lost" => exposed'[c])
      BY <1>1 DEF HandlerClose, AttemptFits, HoldFits
    <2>2. CASE leaf'[c] = "dir"
      <3>1. CASE CloseRaises(c) /\ Kind(c, "cleanup")
        BY <1>1, <2>1, <2>4, <3>1 DEF Kind, AttemptTypeOK, HoldFits, Noticed, Holding
      <3>2. CASE CloseReturns(c)
        <4>1. lease[c] = "closed" /\ leaf[c] = "dir"
          BY <1>0, <1>1, <2>2, <3>2 DEF LeaseInv, LeaseTypeOK
        <4>2. kind[c] = "cleanup" \/ exposed[c] \/ fatal[c]
          BY <2>1, <4>1 DEF AttemptFits, HoldFits, Noticed, Handling
        <4>3. kind'[c] = "cleanup" \/ exposed'[c]
          BY <1>1, <4>2 DEF HandlerClose, Kind, AttemptTypeOK
        <4> QED BY <1>1, <2>1, <2>4, <4>3 DEF HoldFits, Noticed, Holding
      <3> QED BY <3>1, <3>2 DEF HandlerClose
    <2>3. CASE leaf'[c] # "dir"
      BY <1>1, <2>1, <2>3, <2>4 DEF HoldFits, Noticed, Holding, AttemptFits
    <2> QED BY <2>2, <2>3
  <1>5. ChildFits(c)'
    BY <1>1 DEF HandlerClose, To, Kind, AttemptTypeOK, AttemptFits, ChildFits, Unburied,
       childVars, runVars, endVars, Fresh
  <1>6. RolesFit(c)'
    BY <1>1 DEF HandlerClose, To, Kind, AttemptTypeOK, AttemptFits, RolesFit, childVars,
       runVars, endVars, Fresh
  <1>7. ResultFits(c)'
    BY <1>1 DEF HandlerClose, To, Kind, AttemptTypeOK, AttemptFits, HoldFits, Noticed, ChildFits,
       ResultFits, Complete, Read, childVars, runVars, endVars
  <1> QED BY <1>1, <1>2, <1>3, <1>4, <1>5, <1>6, <1>7, Assemble DEF AttemptFits

\* The executor turns what left the runtime into its verdict.
LEMMA FinalFits ==
    ASSUME AttemptInv, NEW c \in Callers, Final(c)
    PROVE  AttemptInv'
  <1> USE DEF AttemptInv
  <1>1. LeaseInv' /\ UNCHANGED <<step, answer, leaf, lease, exposed>>
    <2>1. UNCHANGED <<nonceVars, callVars, fdVars, leafVars, lease, exposed>>
      BY DEF Final, To, Settle, leaseVars, nonceVars, callVars, fdVars, leafVars,
         childVars, runVars, endVars
    <2> QED BY <2>1, LeaseAside
  <1>2. AttemptTypeOK'
    BY DEF Final, To, Settle, AttemptTypeOK, childVars, runVars, endVars, Places, Fresh,
       Holding, Handling
  <1>3. \A d \in Callers \ {c} : Same(d)
    BY <1>1 DEF Final, To, Settle, AttemptTypeOK, Same, childVars, runVars, endVars
  <1>4. HoldFits(c)'
    <2>1. at'[c] = "settle" /\ (kind[c] = "cleanup" => verdict'[c] = "raised")
      BY DEF Final, To, Settle, AttemptTypeOK
    <2>2. lease[c] \in {"open", "closed"} /\ at[c] = "final"
      BY DEF Final, AttemptFits, HoldFits
    <2>3. boot'[c] = "lost" => exposed[c]
      BY DEF Final, AttemptTypeOK, AttemptFits, HoldFits
    <2> QED BY <1>1, <2>1, <2>2, <2>3 DEF AttemptFits, HoldFits, Noticed, Holding, Handling
  <1>5. ChildFits(c)'
    BY <1>1 DEF Final, To, Settle, AttemptTypeOK, AttemptFits, ChildFits, Unburied,
       childVars, runVars, endVars, Fresh
  <1>6. RolesFit(c)'
    BY <1>1 DEF Final, To, Settle, AttemptTypeOK, AttemptFits, RolesFit, childVars,
       runVars, endVars, Fresh
  <1>7. ResultFits(c)'
    BY <1>1 DEF Final, To, Settle, AttemptTypeOK, AttemptFits, HoldFits, Noticed, ChildFits,
       ResultFits, Complete, Read, childVars, runVars, endVars
  <1> QED BY <1>1, <1>2, <1>3, <1>4, <1>5, <1>6, <1>7, Assemble DEF AttemptFits

\* A thread calls `execute', and its admission may fail.
LEMMA ExecuteFits ==
    ASSUME AttemptInv, NEW c \in Callers, NEW r \in Requests, Execute(c, r)
    PROVE  AttemptInv'
  <1> USE DEF AttemptInv
  <1>1. /\ at[c] = "idle" /\ UNCHANGED <<boot, childVars, runVars, kind, fatal>>
        /\ step[c] = "idle"
    BY DEF Execute, AttemptFits, HoldFits, Noticed
  <1>2. CASE Settle(c, "ADMISSION") /\ UNCHANGED leaseVars
    <2>1. LeaseInv' /\ UNCHANGED <<step, answer, leaf, lease, exposed>>
      BY <1>2, LeaseAside DEF leaseVars, nonceVars, callVars, fdVars, leafVars
    <2>2. AttemptTypeOK'
      BY <1>1, <1>2 DEF Settle, To, AttemptTypeOK, childVars, runVars, Places
    <2>3. \A d \in Callers \ {c} : Same(d)
      BY <1>1, <1>2, <2>1 DEF Settle, To, AttemptTypeOK, childVars, runVars, Same
    <2>4. /\ at'[c] = "settle" /\ verdict'[c] = "ADMISSION" /\ leaf[c] = "none"
          /\ child[c] = "none" /\ kind[c] # "result" /\ ~waited[c]
          /\ boot[c] = "lost" => exposed[c]
      BY <1>1, <1>2 DEF Settle, To, AttemptTypeOK, AttemptFits, HoldFits, ChildFits,
                        ResultFits, LeaseInv, LeaseFits, Fresh
    <2>5. HoldFits(c)' /\ ChildFits(c)'
      BY <1>1, <2>1, <2>4 DEF HoldFits, Noticed, ChildFits, Unburied, childVars, runVars, Fresh,
                              Holding, Handling
    <2>6. RolesFit(c)' /\ ResultFits(c)'
      BY <1>1, <2>4 DEF RolesFit, ResultFits, Fresh
    <2> QED BY <2>1, <2>2, <2>3, <2>5, <2>6, Assemble DEF AttemptFits
  <1>3. CASE Issue(c, r) /\ To(c, "acquire") /\ UNCHANGED verdict
    <2>1. LeaseInv' /\ \A d \in Callers \ {c} : SameLease(d)
      BY <1>3, IssueFits
    <2>2. AttemptTypeOK'
      BY <1>1, <1>3 DEF To, AttemptTypeOK, childVars, runVars, Places, Fresh
    <2>3. \A d \in Callers \ {c} : Same(d)
      BY <1>1, <1>3, <2>1 DEF To, AttemptTypeOK, childVars, runVars, Same, SameLease
    <2>4. /\ at'[c] = "acquire" /\ lease'[c] = lease[c] /\ exposed'[c] = exposed[c]
          /\ answer'[c] # "lease"
      BY <1>1, <1>3 DEF To, AttemptTypeOK, Issue, Goto, Answer, LeaseInv, LeaseTypeOK,
                        LeaseFits
    <2>5. AttemptFits(c)'
      BY <1>1, <1>3, <2>4 DEF AttemptFits, HoldFits, ChildFits, Unburied, RolesFit,
                              ResultFits, childVars, runVars, Fresh, Holding, Handling
    <2> QED BY <2>1, <2>2, <2>3, <2>5, Assemble
  <1> QED BY <1>2, <1>3 DEF Execute

\* A step of `acquire' is a step of the lease alone.
LEMMA AcquireKeeps ==
    ASSUME AttemptInv, NEW c \in Callers, Acquire(c)
    PROVE  AttemptInv'
  <1> USE DEF AttemptInv
  <1>1. AcquireStep(c) /\ at[c] = "acquire" /\ UNCHANGED attemptVars
    BY DEF Acquire
  <1>2. LeaseInv' /\ \A d \in Callers \ {c} : SameLease(d)
    BY <1>1, AcquireFits
  <1>3. UNCHANGED <<at, boot, child, ended, killSent, setup, channel, written, unread>>
    BY <1>1 DEF attemptVars, childVars
  <1>4. UNCHANGED <<eof, ready, eofFirst, waited, forced, roles, kind, fatal, verdict>>
    BY <1>1 DEF attemptVars, runVars, endVars
  <1>5. AttemptTypeOK'
    BY <1>3, <1>4 DEF AttemptTypeOK
  <1>6. \A d \in Callers \ {c} : Same(d)
    BY <1>2, <1>3, <1>4 DEF Same, SameLease
  <1>7. lease'[c] # "closed" /\ exposed' = exposed
    BY <1>1 DEF AttemptFits, HoldFits, AcquireStep, Consume, Duplicate, MakeLeaf,
                OpenLeaf, ValidateLeaf, Configure, FailSetup, RaiseError, GrantLease,
                Finally, LeaseInv, LeaseTypeOK
  <1>10. step[c] # "done" /\ (answer'[c] = "lease" => lease'[c] = "open")
    <2>1. CASE GrantLease(c)
      BY <2>1 DEF GrantLease, LeaseInv, LeaseTypeOK
    <2>2. CASE ~GrantLease(c)
      <3>1. step[c] # "done"
        BY <1>1 DEF AcquireStep, Consume, Duplicate, MakeLeaf, OpenLeaf, ValidateLeaf,
                    Configure, FailSetup, RaiseError, GrantLease, Finally
      <3>2. answer[c] # "lease"
        BY <3>1 DEF LeaseInv, LeaseFits
      <3>3. answer'[c] # "lease"
        BY <1>1, <2>2, <3>2 DEF AcquireStep, Consume, Duplicate, MakeLeaf, OpenLeaf,
             ValidateLeaf, Configure, FailSetup, RaiseError, Finally, Answer, Leave,
             LeaseInv, LeaseTypeOK
      <3> QED BY <3>1, <3>3
    <2> QED BY <2>1, <2>2
  <1>8. HoldFits(c)' /\ ChildFits(c)'
    BY <1>1, <1>3, <1>4, <1>7, <1>10 DEF AttemptFits, HoldFits, ChildFits, Unburied,
       Holding, Handling
  <1>9. RolesFit(c)' /\ ResultFits(c)'
    BY <1>1, <1>3, <1>4 DEF AttemptFits, RolesFit, ResultFits
  <1> QED BY <1>2, <1>5, <1>6, <1>8, <1>9, Assemble DEF AttemptFits

\* The child, and the kernel that kills it: a running child is not yet
\* reaped, so that nothing was concluded from its end.
LEMMA ChildStepFits ==
    ASSUME AttemptInv, NEW c \in Callers, ChildStep(c)
    PROVE  AttemptInv'
  <1> USE DEF AttemptInv
  <1> USE DEF ChildStep, ChildSetup, ChildWrites, ChildCloses, ChildExits, ChildKilled, Zombie
  <1>1. LeaseInv' /\ UNCHANGED <<step, answer, leaf, lease, exposed>>
    <2>1. UNCHANGED leaseVars
      OBVIOUS
    <2> QED BY <2>1, LeaseAside DEF leaseVars, nonceVars, callVars, fdVars, leafVars
  <1>2. /\ UNCHANGED <<at, boot, runVars, endVars>>
        /\ child[c] = "running" /\ child'[c] \in {"running", "zombie"}
    BY DEF AttemptTypeOK
  <1>3. AttemptTypeOK'
    BY <1>2 DEF AttemptTypeOK, runVars, endVars
  <1>4. \A d \in Callers \ {c} : Same(d)
    BY <1>1, <1>2 DEF AttemptTypeOK, Same, runVars, endVars
  <1> HIDE DEF ChildStep
  <1>5. HoldFits(c)'
    BY <1>1, <1>2 DEF AttemptFits, HoldFits, Noticed, endVars
  <1>6. ChildFits(c)'
    BY <1>1, <1>2 DEF AttemptFits, ChildFits, Unburied, runVars, endVars
  <1>7. RolesFit(c)'
    BY <1>2 DEF AttemptFits, RolesFit, runVars
  <1>8. ResultFits(c)'
    BY <1>2 DEF AttemptFits, ResultFits, runVars, endVars
  <1> QED BY <1>1, <1>3, <1>4, <1>5, <1>6, <1>7, <1>8, Assemble DEF AttemptFits

\* The `finally' clause of the executor.
LEMMA EndAttemptFits ==
    ASSUME AttemptInv, NEW c \in Callers, EndAttempt(c)
    PROVE  AttemptInv'
  <1> USE DEF AttemptInv
  <1>1. /\ at[c] = "settle" /\ To(c, "ended") /\ UNCHANGED <<childVars, runVars, kind, fatal>>
        /\ boot' \in {boot, [boot EXCEPT ![c] = IF @ \in {"none", "lost"} THEN @ ELSE "closed"]}
        /\ verdict' \in {verdict, [verdict EXCEPT ![c] = "raised"]}
    BY DEF EndAttempt, CloseBootstrap
  <1>2. /\ LeaseInv' /\ (\A d \in Callers \ {c} : SameLease(d)) /\ step' = step
        /\ lease'[c] # "open" /\ exposed' = exposed
        /\ leaf'[c] = "dir" => verdict'[c] = "raised" \/ exposed[c]
        /\ kind[c] = "result" => lease'[c] = lease[c] /\ leaf'[c] = leaf[c] /\ verdict' = verdict
    <2>1. CASE lease[c] = "open"
      <3>1. CloseReturns(c) \/ (CloseRaises(c) /\ verdict'[c] = "raised")
        BY <2>1 DEF EndAttempt, AttemptTypeOK
      <3>2. kind[c] # "result"
        BY <2>1 DEF AttemptFits, ResultFits
      <3> QED BY <2>1, <3>1, <3>2, CloseFits
    <2>2. CASE lease[c] # "open"
      <3>1. UNCHANGED leaseVars /\ verdict' = verdict
        BY <2>2 DEF EndAttempt
      <3>2. LeaseInv'
        BY <3>1, LeaseAside DEF leaseVars, nonceVars, callVars, fdVars, leafVars
      <3>3. leaf[c] = "dir" => verdict[c] = "raised" \/ exposed[c]
        BY <1>1, <2>2 DEF AttemptFits, HoldFits
      <3> QED BY <2>2, <3>1, <3>2, <3>3 DEF leaseVars, SameLease
    <2> QED BY <2>1, <2>2
  <1>3. AttemptTypeOK'
    BY <1>1 DEF To, AttemptTypeOK, childVars, runVars, Places
  <1>4. \A d \in Callers \ {c} : Same(d)
    BY <1>1, <1>2 DEF To, AttemptTypeOK, childVars, runVars, Same, SameLease
  <1>5. at'[c] = "ended" /\ (verdict'[c] = verdict[c] \/ verdict'[c] = "raised")
    BY <1>1 DEF To, AttemptTypeOK
  <1>10. boot[c] = "lost" => exposed[c]
    BY DEF AttemptFits, HoldFits
  <1>11. /\ boot'[c] \in {"none", "closed"} \/ verdict'[c] = "raised" \/ exposed[c]
         /\ boot'[c] = "lost" => exposed[c]
    BY <1>10 DEF EndAttempt, CloseBootstrap, AttemptTypeOK
  <1>6. HoldFits(c)'
    BY <1>1, <1>2, <1>5, <1>11 DEF AttemptFits, HoldFits, Holding, Handling
  <1>7. ChildFits(c)'
    BY <1>1, <1>2, <1>5 DEF AttemptFits, ChildFits, Unburied, childVars, runVars, Fresh
  <1>8. RolesFit(c)'
    BY <1>5 DEF RolesFit, Fresh
  <1>9. ResultFits(c)'
    BY <1>1, <1>2, <1>5 DEF AttemptFits, ResultFits, Complete, Read, childVars, runVars,
       AttemptTypeOK
  <1> QED BY <1>2, <1>3, <1>4, <1>6, <1>7, <1>8, <1>9, Assemble DEF AttemptFits

\* An interrupt leaves the executor's body: what it holds its `finally' clause
\* still has, or the attempt is exposed.
LEMMA SettlesExposed ==
    ASSUME AttemptInv, NEW c \in Callers,
           NEW v \in {"interrupted", "raised"}, Settle(c, v),
           at[c] \in {"acquire", "prepare", "probe", "final"},
           UNCHANGED <<childVars, runVars, kind, fatal>>,
           LeaseInv', \A d \in Callers \ {c} : SameLease(d), step' = step, leaf' = leaf,
           at[c] = "acquire" => step[c] = "done",
           lease'[c] = lease[c] \/ at[c] = "acquire",
           lease'[c] # "open" /\ leaf[c] = "dir" => v = "raised" \/ exposed'[c],
           Unburied(c) => v = "raised" \/ exposed'[c], exposed[c] => exposed'[c],
           \/ boot' = boot
           \/ boot' = [boot EXCEPT ![c] = "lost"] /\ exposed'[c]
    PROVE  AttemptInv'
  <1> USE DEF AttemptInv
  <1>1. AttemptTypeOK'
    BY DEF Settle, To, AttemptTypeOK, childVars, runVars, Places
  <1>2. \A d \in Callers \ {c} : Same(d)
    BY DEF Settle, To, AttemptTypeOK, childVars, runVars, Same, SameLease
  <1>3. at'[c] = "settle" /\ verdict'[c] = v
    BY DEF Settle, To, AttemptTypeOK
  <1>4. HoldFits(c)'
    <2>1. boot'[c] = "lost" => exposed'[c]
      BY DEF AttemptTypeOK, AttemptFits, HoldFits
    <2>2. step[c] \in {"idle", "done"}
      BY DEF AttemptFits, HoldFits
    <2> QED BY <1>3, <2>1, <2>2 DEF HoldFits, Holding, Handling
  <1>5. ChildFits(c)'
    BY <1>3 DEF AttemptFits, ChildFits, Unburied, childVars, runVars, Fresh
  <1>6. RolesFit(c)'
    BY <1>3 DEF RolesFit, Fresh
  <1>7. ResultFits(c)'
    BY <1>3 DEF AttemptFits, ResultFits, childVars
  <1> QED BY <1>1, <1>2, <1>4, <1>5, <1>6, <1>7, Assemble DEF AttemptFits

\* The same with the lease as it is.
LEMMA SettlesInterrupted ==
    ASSUME AttemptInv, NEW c \in Callers, Settle(c, "interrupted"),
           at[c] \in {"acquire", "prepare", "probe"},
           UNCHANGED <<boot, childVars, runVars, kind, fatal>>,
           LeaseInv', UNCHANGED leaseVars, at[c] = "acquire" => step[c] = "done",
           lease[c] # "open" => leaf[c] # "dir" \/ exposed[c]
    PROVE  AttemptInv'
  <1>1. UNCHANGED <<step, req, created, answer, parentFd, leafFd, leaf, lease, exposed>>
    BY DEF leaseVars
  <1>2. \A d \in Callers \ {c} : SameLease(d)
    BY <1>1 DEF SameLease
  <1>3. ~Unburied(c)
    BY DEF AttemptInv, AttemptFits, ChildFits, Unburied, Fresh
  <1> QED BY <1>1, <1>2, <1>3, SettlesExposed

\* An interrupt in `acquire' is a step of the lease alone.
LEMMA InterruptedAcquireKeeps ==
    ASSUME AttemptInv, NEW c \in Callers, AcquireInterrupted(c) \/ AcquireCut(c),
           at[c] = "acquire",
           UNCHANGED <<at, boot, childVars, runVars, kind, fatal, verdict>>
    PROVE  AttemptInv'
  <1> USE DEF AttemptInv
  <1>1. /\ LeaseInv' /\ \A d \in Callers \ {c} : SameLease(d)
        /\ answer'[c] # "lease" /\ lease'[c] \in {lease[c], "lost"}
        /\ (exposed[c] => exposed'[c])
    BY AcquireInterruptFits
  <1>2. AttemptTypeOK'
    BY DEF AttemptTypeOK, childVars, runVars
  <1>3. \A d \in Callers \ {c} : Same(d)
    BY <1>1 DEF Same, SameLease, childVars, runVars
  <1>4. HoldFits(c)' /\ ChildFits(c)'
    BY <1>1 DEF AttemptFits, HoldFits, ChildFits, Unburied, Holding, Handling, childVars,
       runVars
  <1>5. RolesFit(c)' /\ ResultFits(c)'
    BY DEF AttemptFits, RolesFit, ResultFits, childVars, runVars
  <1> QED BY <1>1, <1>2, <1>3, <1>4, <1>5, Assemble DEF AttemptFits

\* A signal handler raises before the runtime is called.
LEMMA InterruptBeforeFits ==
    ASSUME AttemptInv, NEW c \in Callers, InterruptBefore(c)
    PROVE  AttemptInv'
  <1> USE DEF AttemptInv
  <1>1. /\ at[c] \in {"acquire", "prepare", "probe"}
        /\ UNCHANGED <<boot, childVars, runVars, kind, fatal>>
    BY DEF InterruptBefore
  <1>2. CASE at[c] = "acquire" /\ AcquireInterrupted(c) /\ UNCHANGED <<at, verdict>>
    BY <1>1, <1>2, InterruptedAcquireKeeps DEF childVars, runVars
  <1>3. CASE /\ at[c] = "acquire" => step[c] = "done" /\ answer[c] \notin {"lease", "cleanup"}
             /\ Settle(c, "interrupted") /\ UNCHANGED leaseVars
    <2>1. LeaseInv' /\ UNCHANGED <<step, answer, leaf, lease, exposed>>
      BY <1>3, LeaseAside DEF leaseVars, nonceVars, callVars, fdVars, leafVars
    <2>2. lease[c] \in {"none", "open", "lost"} /\ (lease[c] # "open" => leaf[c] # "dir" \/ exposed[c])
      BY <1>1, <1>3 DEF AttemptFits, HoldFits, Holding, LeaseInv, LeaseTypeOK, LeaseFits
    <2> QED BY <1>1, <1>3, <2>1, <2>2, SettlesInterrupted
  <1> QED BY <1>1, <1>2, <1>3 DEF InterruptBefore

\* A signal handler raises inside the lease's close.
LEMMA InterruptInCloseFits ==
    ASSUME AttemptInv, NEW c \in Callers, InterruptInClose(c)
    PROVE  AttemptInv'
  <1> USE DEF AttemptInv
  <1>0. /\ at[c] \in {"refuse", "closing"} /\ lease[c] = "open" /\ step[c] \in {"idle", "done"}
        /\ ReleaseLease(c) /\ leaf' \in {leaf, [leaf EXCEPT ![c] = "removed"]}
        /\ exposed' \in {exposed, [exposed EXCEPT ![c] = TRUE]}
        /\ Raise(c, "interrupt") /\ UNCHANGED <<boot, childVars, runVars, fatal, verdict>>
    BY DEF InterruptInClose, CloseCut, RemoveLeaf, Expose, AttemptFits, HoldFits, Holding
  <1>1. /\ LeaseInv' /\ (\A d \in Callers \ {c} : SameLease(d)) /\ step' = step
        /\ lease'[c] = "closed" /\ (exposed[c] => exposed'[c])
    BY <1>0, ReleaseFits DEF LeaseInv, LeaseTypeOK
  <1>2. AttemptTypeOK'
    BY <1>0 DEF To, Kind, Raise, AttemptTypeOK, childVars, runVars, Places, Handling
  <1>3. \A d \in Callers \ {c} : Same(d)
    BY <1>0, <1>1 DEF To, Kind, Raise, AttemptTypeOK, Same, SameLease, childVars, runVars
  <1>4. /\ at'[c] = "except" /\ kind'[c] = "interrupt"
        /\ exposed'[c] \/ child'[c] # "none" \/ leaf'[c] # "dir"
    BY <1>0 DEF InterruptInClose, Expose, To, Kind, Raise, AttemptTypeOK, AttemptFits,
       ChildFits, childVars, LeaseInv, LeaseTypeOK
  <1>5. HoldFits(c)'
    BY <1>0, <1>1, <1>4 DEF AttemptFits, HoldFits, Noticed, Holding, Handling
  <1>6. ChildFits(c)'
    BY <1>0, <1>4 DEF AttemptFits, ChildFits, Unburied, childVars, runVars, Fresh
  <1>7. RolesFit(c)'
    BY <1>4 DEF RolesFit, Fresh
  <1>8. ResultFits(c)'
    BY <1>0, <1>4 DEF AttemptFits, ResultFits
  <1> QED BY <1>1, <1>2, <1>3, <1>5, <1>6, <1>7, <1>8, Assemble DEF AttemptFits

\* A signal handler raises on the way out of the runtime.
LEMMA InterruptAfterFits ==
    ASSUME AttemptInv, NEW c \in Callers, InterruptAfter(c)
    PROVE  AttemptInv'
  <1> USE DEF AttemptInv
  <1>0. PICK v \in {"interrupted", "raised"} :
           /\ Settle(c, v)
           /\ IF v = "interrupted" /\ kind[c] = "cleanup" THEN Expose(c)
                                                         ELSE UNCHANGED exposed
    BY Zenon DEF InterruptAfter
  <1>1. /\ at[c] = "final"
        /\ UNCHANGED <<nonceVars, callVars, fdVars, leaf, stray, lease, boot, childVars, runVars,
                       kind, fatal>>
        /\ exposed' \in {exposed, [exposed EXCEPT ![c] = TRUE]}
        /\ kind[c] = "cleanup" => v = "raised" \/ exposed'[c]
    BY <1>0 DEF InterruptAfter, Expose, leafVars, LeaseInv, LeaseTypeOK
  <1>2. /\ LeaseInv' /\ (\A d \in Callers \ {c} : SameLease(d)) /\ step' = step
        /\ (exposed[c] => exposed'[c])
    BY <1>1, ExposedLeaseFits
  <1>3. /\ lease[c] \in {"open", "closed"} /\ (Unburied(c) => kind[c] = "cleanup")
        /\ lease[c] = "closed" /\ leaf[c] = "dir" => kind[c] = "cleanup" \/ exposed[c]
    BY <1>1 DEF AttemptFits, HoldFits, Noticed, ChildFits
  <1> QED BY <1>0, <1>1, <1>2, <1>3, SettlesExposed

\* A signal handler raises where the executor has no owner for what is held.
LEMMA InterruptExposedFits ==
    ASSUME AttemptInv, NEW c \in Callers, InterruptExposed(c)
    PROVE  AttemptInv'
  <1> USE DEF AttemptInv
  <1>1. CASE at[c] = "acquire" /\ AcquireCut(c) /\ UNCHANGED <<at, boot, verdict>>
    BY <1>1, InterruptedAcquireKeeps DEF InterruptExposed, childVars, runVars
  <1>2. CASE /\ at[c] = "acquire" /\ step[c] = "done" /\ answer[c] \in {"lease", "cleanup"}
             /\ lease' = [lease EXCEPT ![c] = IF @ = "open" THEN "lost" ELSE @]
             /\ Expose(c) /\ Settle(c, "interrupted")
             /\ UNCHANGED <<nonceVars, callVars, fdVars, leafVars, strays, faults, boot>>
    <2>1. lease[c] \in {"none", "open", "lost"}
      BY <1>2 DEF AttemptFits, HoldFits, LeaseInv, LeaseTypeOK
    <2>2. /\ LeaseInv' /\ (\A d \in Callers \ {c} : SameLease(d)) /\ step' = step
      <3>1. LeaseTypeOK' /\ \A d \in Callers \ {c} : SameLease(d)
        BY <1>2 DEF Expose, LeaseInv, LeaseTypeOK, SameLease, nonceVars, callVars, fdVars, leafVars
      <3>2. LeaseFits(c)'
        BY <1>2, <2>1 DEF Expose, LeaseInv, LeaseTypeOK, LeaseFits, callVars, fdVars, leafVars
      <3>3. Spent(c)' = Spent(c) /\ consumed' = consumed /\ req' = req /\ step' = step
        BY <1>2 DEF Spent, nonceVars, callVars, leafVars
      <3> QED BY <3>1, <3>2, <3>3, AssembleLease
    <2>3. exposed'[c] /\ lease'[c] \in {"none", "lost"}
      BY <1>2, <2>1 DEF Expose, LeaseInv, LeaseTypeOK
    <2>4. leaf' = leaf /\ boot' = boot /\ UNCHANGED <<childVars, runVars, kind, fatal>>
      BY <1>2 DEF InterruptExposed, leafVars
    <2> HIDE DEF AttemptInv
    <2> QED BY <1>2, <2>2, <2>3, <2>4, SettlesExposed
  <1>3. CASE /\ at[c] = "prepare" /\ boot' = [boot EXCEPT ![c] = "lost"]
             /\ Expose(c) /\ Settle(c, "interrupted")
             /\ UNCHANGED <<nonceVars, callVars, fdVars, leafVars, lease, strays, faults>>
    <2>1. /\ LeaseInv' /\ (\A d \in Callers \ {c} : SameLease(d)) /\ step' = step
          /\ exposed'[c] /\ lease[c] = "open"
      BY <1>3, ExposedLeaseFits DEF Expose, leafVars, LeaseInv, LeaseTypeOK, AttemptFits,
         HoldFits, Holding
    <2>2. /\ leaf' = leaf /\ lease' = lease
          /\ UNCHANGED <<childVars, runVars, kind, fatal>>
      BY <1>3 DEF InterruptExposed, leafVars
    <2> HIDE DEF AttemptInv
    <2> QED BY <1>3, <2>1, <2>2, SettlesExposed
  <1> QED BY <1>1, <1>2, <1>3 DEF InterruptExposed

\* A signal handler raises in the executor's own closing.
LEMMA InterruptEndFits ==
    ASSUME AttemptInv, NEW c \in Callers, InterruptEnd(c)
    PROVE  AttemptInv'
  <1> USE DEF AttemptInv
  <1>1. /\ at[c] = "settle" /\ To(c, "ended") /\ UNCHANGED <<childVars, runVars, kind, fatal>>
        /\ boot' \in {boot, [boot EXCEPT ![c] = IF @ \in {"none", "lost"} THEN @ ELSE "closed"]}
        /\ verdict' = [verdict EXCEPT ![c] = "interrupted"]
        /\ exposed' = [exposed EXCEPT ![c] = TRUE]
        /\ leaf' \in {leaf, [leaf EXCEPT ![c] = "removed"]}
    BY DEF InterruptEnd, CloseBootstrap, CloseCut, RemoveLeaf, Expose, leafVars
  <1>2. /\ LeaseInv' /\ (\A d \in Callers \ {c} : SameLease(d)) /\ step' = step
        /\ kind[c] = "result" => lease'[c] = lease[c] /\ leaf'[c] = leaf[c]
    <2>1. CASE CloseCut(c)
      <3>1. kind[c] # "result"
        BY <2>1 DEF CloseCut, AttemptFits, ResultFits
      <3> QED BY <1>1, <2>1, <3>1, ReleaseFits DEF CloseCut
    <2>2. CASE UNCHANGED <<nonceVars, callVars, fdVars, leafVars, lease, strays, faults>>
      BY <1>1, <2>2, ExposedLeaseFits DEF leafVars
    <2> QED BY <2>1, <2>2 DEF InterruptEnd
  <1>3. AttemptTypeOK'
    BY <1>1 DEF To, AttemptTypeOK, childVars, runVars, Places
  <1>4. \A d \in Callers \ {c} : Same(d)
    BY <1>1, <1>2 DEF To, AttemptTypeOK, childVars, runVars, Same, SameLease
  <1>5. at'[c] = "ended" /\ verdict'[c] = "interrupted" /\ exposed'[c]
    BY <1>1 DEF To, AttemptTypeOK, LeaseInv, LeaseTypeOK
  <1>6. HoldFits(c)'
    BY <1>1, <1>2, <1>5 DEF AttemptFits, HoldFits, Holding, Handling
  <1>7. ChildFits(c)'
    BY <1>1, <1>5 DEF AttemptFits, ChildFits, childVars, runVars, Fresh
  <1>8. RolesFit(c)'
    BY <1>5 DEF RolesFit, Fresh
  <1>9. ResultFits(c)'
    BY <1>1, <1>2, <1>5 DEF AttemptFits, ResultFits, childVars
  <1> QED BY <1>2, <1>3, <1>4, <1>6, <1>7, <1>8, <1>9, Assemble DEF AttemptFits

\* Foreign processes, and steps in which nothing happens.
LEMMA StandsFits ==
    ASSUME AttemptInv, LeaseInv', UNCHANGED <<step, answer, leaf, lease, exposed>>, UNCHANGED attemptVars
    PROVE  AttemptInv'
  <1>1. UNCHANGED <<at, boot, child, ended, killSent, setup, channel, written, unread>>
    BY DEF attemptVars, childVars
  <1>2. UNCHANGED <<eof, ready, eofFirst, waited, forced, roles, kind, fatal, verdict>>
    BY DEF attemptVars, runVars, endVars
  <1>3. AttemptTypeOK'
    BY <1>1, <1>2 DEF AttemptInv, AttemptTypeOK
  <1>4. \A d \in Callers : Same(d)
    BY <1>1, <1>2 DEF Same
  <1> QED BY <1>3, <1>4, SameFits DEF AttemptInv
-----------------------------------------------------------------------------
(* The theorems                                                            *)

\* Every step of a parent keeps the invariant.
LEMMA ParentStepFits ==
    ASSUME AttemptInv, NEW c \in Callers, ParentStep(c)
    PROVE  AttemptInv'
  <1>1. CASE Acquire(c) \/ Acquired(c) \/ Prepare(c) \/ Probe(c) \/ Claim(c)
             \/ Clone(c) \/ Refuse(c) \/ Launched(c)
    BY <1>1, AcquireKeeps, AcquiredFits, PrepareFits, ProbeFits, ClaimFits, CloneFits,
       RefuseFits, LaunchedFits
  <1>2. CASE Deadline(c) \/ ReadChunk(c) \/ ReadEof(c) \/ SeeExit(c) \/ EndLoop(c)
             \/ Reap(c) \/ Drain(c) \/ Verify(c) \/ CloseBoth(c) \/ Judge(c)
    BY <1>2, DeadlineFits, ReadChunkFits, ReadEofFits, SeeExitFits, EndLoopFits,
       ReapFits,
       DrainFits, VerifyFits, CloseBothFits, JudgeFits
  <1>3. CASE HandlerWait(c, "wait1", "leafkill") \/ HandlerWait(c, "wait2", "direct")
    BY <1>3, HandlerWaitFits
  <1>4. CASE HandlerKill(c) \/ HandlerLeafKill(c) \/ HandlerDirect(c) \/ HandlerClose(c)
             \/ Final(c) \/ EndAttempt(c)
    BY <1>4, HandlerKillFits, HandlerLeafKillFits, HandlerDirectFits, HandlerCloseFits,
       FinalFits, EndAttemptFits
  <1> QED BY <1>1, <1>2, <1>3, <1>4 DEF ParentStep

\* What the executor, the runtime and the lease know of each other holds
\* in every reachable state.
THEOREM AttemptInvariant == Spec => []AttemptInv
  <1>1. Init => AttemptInv
    BY InitFits
  <1>2. AttemptInv /\ [Next]_vars => AttemptInv'
    <2> SUFFICES ASSUME AttemptInv, [Next]_vars PROVE AttemptInv'
      OBVIOUS
    <2>1. CASE UNCHANGED vars
      <3>1. UNCHANGED leaseVars /\ UNCHANGED attemptVars
        BY <2>1 DEF vars
      <3>2. LeaseInv' /\ UNCHANGED <<step, answer, leaf, lease, exposed>>
        BY <3>1, LeaseAside DEF AttemptInv, leaseVars, nonceVars, callVars, fdVars,
           leafVars
      <3> QED BY <3>1, <3>2, StandsFits
    <2>2. ASSUME NEW c \in Callers, NEW r \in Requests, Execute(c, r) PROVE AttemptInv'
      BY <2>2, ExecuteFits
    <2>3. ASSUME NEW c \in Callers, ParentStep(c) PROVE AttemptInv'
      BY <2>3, ParentStepFits
    <2>4. ASSUME NEW c \in Callers, ChildStep(c) PROVE AttemptInv'
      BY <2>4, ChildStepFits
    <2>5. ASSUME NEW c \in Callers, Interrupted(c) PROVE AttemptInv'
      BY <2>5, InterruptBeforeFits, InterruptFits, InterruptAfterWaitFits,
         InterruptInCloseFits, InterruptAfterFits, InterruptExposedFits,
         InterruptEndFits DEF Interrupted
    <2>6. ASSUME NEW c \in Callers, ForeignStep(c), UNCHANGED attemptVars PROVE AttemptInv'
      <3>1. LeaseInv' /\ UNCHANGED <<step, answer, leaf, lease, exposed>>
        BY <2>6, ForeignFits DEF AttemptInv
      <3> QED BY <2>6, <3>1, StandsFits
    <2> QED BY <2>1, <2>2, <2>3, <2>4, <2>5, <2>6 DEF Next, AllEnded
  <1> QED BY <1>1, <1>2, PTL DEF Spec

\* However many tokens of one request are out, one call at most makes a leaf
\* (the nonce service of v075_k7_cgroup_lease_v1.py).
THEOREM OneLeafEach == Spec => []OneLeafPerRequest
  <1>1. AttemptInv => OneLeafPerRequest
    <2> SUFFICES ASSUME AttemptInv PROVE OneLeafPerRequest
      OBVIOUS
    <2>1. \A c \in Callers : leaf[c] # "none" => Spent(c)
      BY DEF AttemptInv, LeaseInv, LeaseFits, LeaseTypeOK, Steps, Spent
    <2> QED BY <2>1 DEF AttemptInv, LeaseInv, NonceFits, OneLeafPerRequest
  <1> QED BY <1>1, AttemptInvariant, PTL

-----------------------------------------------------------------------------
(* An interrupt at an exposed place is not forgotten                       *)

\* After it the attempt is on its way out with an exception.
Tells(c) == exposed[c] =>
    \/ /\ at[c] = "acquire" /\ step[c] \in {"finally", "done"}
       /\ answer[c] \in {"interrupt", "cleanup"}
    \/ at[c] \in Handling \cup {"final"} /\ kind[c] \in {"interrupt", "cleanup"}
    \/ at[c] \in {"settle", "ended"} /\ verdict[c] \in {"interrupted", "raised"}

ExposedFits == \A c \in Callers : Tells(c)

\* What Tells is about.
Alike(d) ==
    /\ at'[d] = at[d] /\ step'[d] = step[d] /\ answer'[d] = answer[d]
    /\ kind'[d] = kind[d] /\ verdict'[d] = verdict[d] /\ exposed'[d] = exposed[d]

LEMMA TellsApart ==
    ASSUME ExposedFits, NEW c \in Callers, Tells(c)', \A d \in Callers \ {c} : Alike(d)
    PROVE  ExposedFits'
  BY DEF ExposedFits, Tells, Alike

\* The executor and the runtime up to the exception handler.
LEMMA BodyTells ==
    ASSUME AttemptInv, ExposedFits, NEW c \in Callers,
           \/ Prepare(c) \/ Probe(c) \/ Claim(c) \/ Clone(c) \/ Launched(c)
           \/ Deadline(c) \/ ReadChunk(c) \/ ReadEof(c) \/ SeeExit(c) \/ EndLoop(c)
           \/ Reap(c) \/ Drain(c) \/ Verify(c) \/ Judge(c) \/ Interrupt(c)
           \/ InterruptAfterWait(c)
    PROVE  ExposedFits'
  <1> USE DEF AttemptInv, AttemptTypeOK, LeaseInv, LeaseTypeOK
  <1>1. /\ exposed' = exposed /\ step' = step /\ answer' = answer
        /\ at[c] \notin Handling \cup {"acquire", "final", "settle", "ended"}
    BY DEF Prepare, Probe, Claim, Clone, Launched, Deadline, ReadChunk, ReadEof, SeeExit,
       EndLoop, Reap, Drain, Verify, Judge, Interrupt, InterruptAfterWait, leaseVars,
       callVars, Handling
  <1>2. \A d \in Callers \ {c} :
           at'[d] = at[d] /\ kind'[d] = kind[d] /\ verdict'[d] = verdict[d]
    BY DEF Prepare, Probe, Claim, Clone, Launched, Deadline, ReadChunk, ReadEof, SeeExit,
       EndLoop, Reap, Drain, Verify, Judge, Interrupt, InterruptAfterWait, To, Kind,
       Raise, Settle, endVars
  <1>3. Tells(c)'
    BY <1>1 DEF ExposedFits, Tells
  <1> QED BY <1>1, <1>2, <1>3, TellsApart DEF Alike

\* The runtime's close on the paths that return: nothing was exposed before.
LEMMA ClosingTells ==
    ASSUME AttemptInv, ExposedFits, NEW c \in Callers,
           Refuse(c) \/ CloseBoth(c) \/ InterruptInClose(c)
    PROVE  ExposedFits'
  <1> USE DEF AttemptInv, AttemptTypeOK, LeaseInv, LeaseTypeOK
  <1>1. /\ at[c] \in {"refuse", "closing"} /\ ~exposed[c]
        /\ step' = step /\ answer' = answer
    BY DEF Refuse, CloseBoth, InterruptInClose, CloseReturns, CloseRaises, CloseCut,
       ReleaseLease, leaseVars, callVars, ExposedFits, Tells, Handling
  <1>2. \A d \in Callers \ {c} :
           at'[d] = at[d] /\ kind'[d] = kind[d] /\ verdict'[d] = verdict[d]
    BY DEF Refuse, CloseBoth, InterruptInClose, To, Kind, Raise
  <1>3. \/ exposed' = exposed
        \/ /\ exposed' = [exposed EXCEPT ![c] = TRUE]
           /\ Raise(c, "interrupt")
    BY DEF Refuse, CloseBoth, InterruptInClose, CloseReturns, CloseRaises, Expose, leaseVars
  <1>4. Tells(c)'
    BY <1>1, <1>3 DEF Tells, Raise, To, Kind, Handling
  <1> QED BY <1>1, <1>2, <1>3, <1>4, TellsApart DEF Alike

\* The exception handler keeps an interrupt, or replaces it by a cleanup error.
LEMMA HandlerTells ==
    ASSUME AttemptInv, ExposedFits, NEW c \in Callers,
           \/ HandlerKill(c) \/ HandlerLeafKill(c) \/ HandlerDirect(c) \/ HandlerClose(c)
           \/ HandlerWait(c, "wait1", "leafkill") \/ HandlerWait(c, "wait2", "direct")
    PROVE  ExposedFits'
  <1> USE DEF AttemptInv, AttemptTypeOK, LeaseInv, LeaseTypeOK
  <1>1. /\ exposed' = exposed /\ step' = step /\ answer' = answer /\ verdict' = verdict
    BY DEF HandlerKill, HandlerLeafKill, HandlerDirect, HandlerClose, HandlerWait,
       CloseReturns, CloseRaises, ReleaseLease, leaseVars, callVars, endVars
  <1>2. /\ at[c] \in Handling
        /\ \E p \in Handling \cup {"final"} : at' = [at EXCEPT ![c] = p]
    BY DEF HandlerKill, HandlerLeafKill, HandlerDirect, HandlerClose, HandlerWait, To,
       Handling
  <1>3. kind' = kind \/ kind' = [kind EXCEPT ![c] = "cleanup"]
    BY DEF HandlerKill, HandlerLeafKill, HandlerDirect, HandlerClose, HandlerWait, Kind,
       endVars
  <1>4. Tells(c)'
    BY <1>1, <1>2, <1>3 DEF ExposedFits, Tells, Handling
  <1> QED BY <1>1, <1>2, <1>3, <1>4, TellsApart DEF Alike

\* What comes out of the runtime, or of `acquire', is what `execute' ends with.
LEMMA ExitTells ==
    ASSUME AttemptInv, ExposedFits, NEW c \in Callers,
           Acquired(c) \/ Final(c) \/ EndAttempt(c)
    PROVE  ExposedFits'
  <1> USE DEF AttemptInv, AttemptTypeOK, LeaseInv, LeaseTypeOK
  <1>1. exposed' = exposed /\ step' = step /\ answer' = answer /\ kind' = kind
    BY DEF Acquired, Final, EndAttempt, CloseReturns, CloseRaises, ReleaseLease, leaseVars,
       callVars
  <1>2. CASE Acquired(c)
    <2>1. answer[c] \in {"interrupt", "cleanup"} =>
             Settle(c, "interrupted") \/ Settle(c, "raised")
      BY <1>2 DEF Acquired
    <2>2. at[c] = "acquire" /\ \A d \in Callers \ {c} :
             at'[d] = at[d] /\ verdict'[d] = verdict[d]
      BY <1>2 DEF Acquired, Settle, To
    <2>3. exposed[c] => answer[c] \in {"interrupt", "cleanup"}
      BY <2>2 DEF ExposedFits, Tells, Handling
    <2>4. Tells(c)'
      BY <1>1, <2>1, <2>3 DEF Tells, Settle, To
    <2> QED BY <1>1, <2>2, <2>4, TellsApart DEF Alike
  <1>3. CASE Final(c)
    <2>1. kind[c] \in {"interrupt", "cleanup"} =>
             Settle(c, "interrupted") \/ Settle(c, "raised")
      BY <1>3 DEF Final
    <2>2. at[c] = "final" /\ \A d \in Callers \ {c} :
             at'[d] = at[d] /\ verdict'[d] = verdict[d]
      BY <1>3 DEF Final, Settle, To
    <2>3. exposed[c] => kind[c] \in {"interrupt", "cleanup"}
      BY <2>2 DEF ExposedFits, Tells, Handling
    <2>4. Tells(c)'
      BY <1>1, <2>1, <2>3 DEF Tells, Settle, To
    <2> QED BY <1>1, <2>2, <2>4, TellsApart DEF Alike
  <1>4. CASE EndAttempt(c)
    <2>1. /\ at[c] = "settle" /\ at' = [at EXCEPT ![c] = "ended"]
          /\ verdict' = verdict \/ verdict' = [verdict EXCEPT ![c] = "raised"]
      BY <1>4 DEF EndAttempt, To
    <2>2. Tells(c)'
      BY <1>1, <2>1 DEF ExposedFits, Tells, Handling
    <2> QED BY <1>1, <2>1, <2>2, TellsApart DEF Alike
  <1> QED BY <1>2, <1>3, <1>4

\* `acquire' keeps an interrupt through its `finally' clause.
LEMMA AcquireTells ==
    ASSUME AttemptInv, ExposedFits, NEW c \in Callers, Acquire(c)
    PROVE  ExposedFits'
  <1> USE DEF AttemptInv, AttemptTypeOK, LeaseInv, LeaseTypeOK
  <1>1. /\ UNCHANGED <<at, kind, verdict>> /\ at[c] = "acquire" /\ AcquireStep(c)
    BY DEF Acquire, attemptVars, endVars
  <1>2. exposed' = exposed
    BY <1>1 DEF AcquireStep, Consume, Duplicate, MakeLeaf, OpenLeaf, ValidateLeaf, Configure,
       FailSetup, RaiseError, GrantLease, Finally
  <1>3. \A d \in Callers \ {c} : step'[d] = step[d] /\ answer'[d] = answer[d]
    BY <1>1 DEF AcquireStep, Consume, Duplicate, MakeLeaf, OpenLeaf, ValidateLeaf, Configure,
       FailSetup, RaiseError, GrantLease, Finally, Leave, Goto, Answer, nonceVars
  <1>4. exposed[c] => Finally(c) /\ answer[c] \in {"interrupt", "cleanup"}
    BY <1>1 DEF AcquireStep, Consume, Duplicate, MakeLeaf, OpenLeaf, ValidateLeaf, Configure,
       FailSetup, RaiseError, GrantLease, Finally, ExposedFits, Tells, Handling
  <1>5. Tells(c)'
    BY <1>1, <1>2, <1>4 DEF Finally, Goto, Answer, Tells
  <1> QED BY <1>1, <1>2, <1>3, <1>5, TellsApart DEF Alike

\* An interrupt of the executor, of `acquire' or on the way out of the runtime
\* is what the attempt ends with.
LEMMA InterruptTells ==
    ASSUME AttemptInv, ExposedFits, NEW c \in Callers,
           \/ InterruptBefore(c) \/ InterruptAfter(c) \/ InterruptExposed(c)
           \/ InterruptEnd(c)
    PROVE  ExposedFits'
  <1> USE DEF AttemptInv, AttemptTypeOK, LeaseInv, LeaseTypeOK
  <1>1. \A d \in Callers \ {c} : exposed'[d] = exposed[d]
    BY DEF InterruptBefore, InterruptAfter, InterruptExposed, InterruptEnd,
       AcquireInterrupted, AcquireCut, Expose, leaseVars
  <1>2. kind' = kind
    BY DEF InterruptBefore, InterruptAfter, InterruptExposed, InterruptEnd
  <1>3. CASE at[c] = "acquire" /\ UNCHANGED <<at, verdict>> /\ (AcquireInterrupted(c) \/ AcquireCut(c))
    <2>1. /\ \A d \in Callers \ {c} : step'[d] = step[d] /\ answer'[d] = answer[d]
          /\ step'[c] \in {"finally", "done"} /\ answer'[c] \in {"interrupt", "cleanup"}
      BY <1>3 DEF AcquireInterrupted, AcquireCut, ParentFdLost, LeafLost, LeafFdLost,
         LeaseLost, FinallyCut, Leave, Goto, Answer
    <2>2. Tells(c)'
      BY <1>3, <2>1 DEF Tells
    <2> QED BY <1>1, <1>2, <1>3, <2>1, <2>2, TellsApart DEF Alike
  <1>4. CASE /\ UNCHANGED <<step, answer>>
             /\ \E v \in {"interrupted", "raised"}, p \in {"settle", "ended"} :
                   /\ at' = [at EXCEPT ![c] = p]
                   /\ verdict' = [verdict EXCEPT ![c] = v]
    <2>1. Tells(c)'
      BY <1>4 DEF Tells
    <2> QED BY <1>1, <1>2, <1>4, <2>1, TellsApart DEF Alike
  <1>5. \/ at[c] = "acquire" /\ UNCHANGED <<at, verdict>> /\ (AcquireInterrupted(c) \/ AcquireCut(c))
        \/ /\ UNCHANGED <<step, answer>>
           /\ \E v \in {"interrupted", "raised"}, p \in {"settle", "ended"} :
                 /\ at' = [at EXCEPT ![c] = p]
                 /\ verdict' = [verdict EXCEPT ![c] = v]
    <2>1. CASE InterruptBefore(c) \/ InterruptExposed(c)
      BY <2>1 DEF InterruptBefore, InterruptExposed, Settle, To, leaseVars, callVars
    <2>2. CASE InterruptAfter(c)
      BY <2>2 DEF InterruptAfter, Settle, To, callVars
    <2>3. CASE InterruptEnd(c)
      BY <2>3 DEF InterruptEnd, CloseCut, ReleaseLease, To, callVars
    <2> QED BY <2>1, <2>2, <2>3
  <1> QED BY <1>3, <1>4, <1>5

\* The child, foreign processes and a caller that begins.
LEMMA OthersTell ==
    ASSUME AttemptInv, ExposedFits, NEW c \in Callers,
           \/ \E r \in Requests : Execute(c, r)
           \/ ChildStep(c)
           \/ ForeignStep(c) /\ UNCHANGED attemptVars
    PROVE  ExposedFits'
  <1> USE DEF AttemptInv, AttemptTypeOK, LeaseInv, LeaseTypeOK
  <1>1. CASE \E r \in Requests : Execute(c, r)
    <2>1. /\ exposed' = exposed /\ kind' = kind /\ at[c] = "idle"
      BY <1>1 DEF Execute, Issue, leaseVars
    <2>2. \A d \in Callers \ {c} : /\ at'[d] = at[d] /\ verdict'[d] = verdict[d]
                                   /\ step'[d] = step[d] /\ answer'[d] = answer[d]
      BY <1>1 DEF Execute, Issue, Settle, To, Goto, Answer, leaseVars
    <2>3. Tells(c)'
      BY <2>1 DEF ExposedFits, Tells, Handling
    <2> QED BY <2>1, <2>2, <2>3, TellsApart DEF Alike
  <1>2. CASE ChildStep(c)
    <2>1. UNCHANGED <<exposed, step, answer, at, kind, verdict>>
      BY <1>2 DEF ChildStep, ChildSetup, ChildWrites, ChildCloses, ChildExits, ChildKilled,
         leaseVars, endVars
    <2> QED BY <2>1 DEF ExposedFits, Tells
  <1>3. CASE ForeignStep(c) /\ UNCHANGED attemptVars
    <2>1. UNCHANGED <<exposed, step, answer, at, kind, verdict>>
      BY <1>3 DEF ForeignStep, StrayEnters, StrayLeaves, callVars, attemptVars, endVars
    <2> QED BY <2>1 DEF ExposedFits, Tells
  <1> QED BY <1>1, <1>2, <1>3

\* In every reachable state an attempt that was interrupted at an exposed place
\* is on its way out with an exception.
THEOREM ExposureTells == Spec => []ExposedFits
  <1>1. Init => ExposedFits
    BY DEF Init, LeaseInit, ExposedFits, Tells
  <1>2. AttemptInv /\ ExposedFits /\ [Next]_vars => ExposedFits'
    <2> SUFFICES ASSUME AttemptInv, ExposedFits, [Next]_vars PROVE ExposedFits'
      OBVIOUS
    <2>1. CASE UNCHANGED vars
      <3>1. UNCHANGED <<exposed, step, answer, at, kind, verdict>>
        BY <2>1 DEF vars, leaseVars, attemptVars, endVars
      <3> QED BY <3>1 DEF ExposedFits, Tells
    <2>2. ASSUME NEW c \in Callers, ParentStep(c) PROVE ExposedFits'
      BY <2>2, BodyTells, ClosingTells, HandlerTells, ExitTells, AcquireTells DEF ParentStep
    <2>3. ASSUME NEW c \in Callers, Interrupted(c) PROVE ExposedFits'
      BY <2>3, BodyTells, ClosingTells, InterruptTells DEF Interrupted
    <2>4. ASSUME NEW c \in Callers,
                 \/ \E r \in Requests : Execute(c, r)
                 \/ ChildStep(c)
                 \/ ForeignStep(c) /\ UNCHANGED attemptVars
          PROVE  ExposedFits'
      BY <2>4, OthersTell
    <2> QED BY <2>1, <2>2, <2>3, <2>4 DEF Next, AllEnded
  <1> QED BY <1>1, <1>2, AttemptInvariant, PTL DEF Spec

\* What an attempt that ended left behind its caller was told by a cleanup
\* error, or, after an interrupt at an exposed place, at least by that
\* interrupt; no other attempt holds a descriptor or a lease (every exit of
\* `execute', of the runtime and of `acquire').
THEOREM NothingIsLeftSilently == Spec => []NothingLeftSilently
  <1>1. AttemptInv /\ ExposedFits => NothingLeftSilently
    <2> SUFFICES ASSUME AttemptInv, ExposedFits, NEW c \in Callers, at[c] = "ended"
                 PROVE  /\ Left(c) \/ Held(c) =>
                             \/ verdict[c] = "raised"
                             \/ exposed[c] /\ verdict[c] = "interrupted"
                        /\ parentFd[c] \/ leafFd[c] \/ lease[c] \in {"open", "lost"} =>
                             exposed[c]
      BY DEF NothingLeftSilently
    <2>1. /\ LeaseFits(c) /\ HoldFits(c) /\ ChildFits(c)
          /\ lease[c] \in {"none", "open", "closed", "lost"}
      BY DEF AttemptInv, LeaseInv, LeaseTypeOK, AttemptFits
    <2>2. exposed[c] => verdict[c] \in {"interrupted", "raised"}
      BY DEF ExposedFits, Tells, Handling
    <2>3. step[c] \in {"idle", "done"} /\ ~exposed[c] =>
            /\ lease[c] # "open"
            /\ boot[c] \in {"none", "closed"} \/ verdict[c] = "raised"
      BY <2>1 DEF HoldFits
    <2>4. ~exposed[c] => ~parentFd[c] /\ ~leafFd[c] /\ lease[c] \notin {"open", "lost"}
      BY <2>1, <2>3 DEF LeaseFits, HoldFits
    <2>5. Left(c) => verdict[c] = "raised" \/ exposed[c]
      BY <2>1, <2>3 DEF HoldFits, ChildFits, Unburied, Left
    <2>6. Held(c) => verdict[c] = "raised" \/ exposed[c]
      BY <2>1, <2>3, <2>4 DEF Held, HoldFits
    <2> QED BY <2>2, <2>4, <2>5, <2>6
  <1> QED BY <1>1, AttemptInvariant, ExposureTells, PTL

\* The lifecycle recorded before a verdict is one the evidence accepts, and a
\* success is the verdict on a child that ended by itself, whose output was
\* read to its end and of which nothing is left.
THEOREM SuccessIsGenuine == Spec => []SuccessGenuine
  <1>1. AttemptInv => SuccessGenuine
    <2> SUFFICES ASSUME AttemptInv PROVE SuccessGenuine
      OBVIOUS
    <2>1. EvidenceAccepted
      BY DEF AttemptInv, AttemptFits, RolesFit, EvidenceAccepted
    <2>2. ASSUME NEW c \in Callers, verdict[c] = "SUCCESS"
          PROVE  /\ setup[c] = "ready" /\ ended[c] = "ok" /\ forced[c] = "none"
                 /\ unread[c] = 0 /\ written[c] <= Cap
                 /\ child[c] = "reaped" /\ leaf[c] = "removed"
      <3>1. ResultFits(c) /\ written[c] \in Nat /\ unread[c] \in Nat
        BY DEF AttemptInv, AttemptFits, AttemptTypeOK
      <3> QED BY <2>2, <3>1, AttemptAssumption DEF ResultFits, Complete, Read
    <2> QED BY <2>1, <2>2 DEF SuccessGenuine
  <1> QED BY <1>1, AttemptInvariant, PTL
=============================================================================
