----------------------------- MODULE CgroupLease -----------------------------
(***************************************************************************)
(* The lease of one empty control-group leaf for one attempt               *)
(* (v075_k7_cgroup_lease_v1.py).  A request's nonce is spent under a lock   *)
(* before anything is created; the leaf is then made, opened, validated    *)
(* and configured, and every failure on the way removes it again.  The     *)
(* holder gives the leaf back by `close'.                                   *)
(*                                                                          *)
(* Callers are threads of one process.  A leaf's name is random, so each    *)
(* call has a leaf of its own.  Processes the program does not own may      *)
(* enter and leave a leaf, and a system call may fail: both are budgets.    *)
(***************************************************************************)
EXTENDS Naturals, FiniteSets

CONSTANTS
    Callers,      \* the threads that ask for a lease, once each
    Requests,     \* the requests they may ask for
    NoRequest,    \* a caller that has not asked yet
    MaxStrays,    \* how often a foreign process enters some leaf
    MaxFaults     \* how many system calls fail without a reason in the model

ASSUME LeaseAssumption ==
    /\ MaxStrays \in Nat /\ MaxFaults \in Nat
    /\ NoRequest \notin Requests

VARIABLES
    consumed,   \* _consumed: the requests whose nonce was spent
    issued,     \* _issued: the callers whose token was not yet spent
    step,       \* where a call of `acquire' is
    req,        \* the request of the call
    created,    \* the local `created' of the call
    parentFd,   \* the duplicate of the delegated descriptor is open
    leafFd,     \* the descriptor of the leaf is open
    leaf,       \* the leaf in the file system
    stray,      \* a foreign process is in the leaf
    answer,     \* what the call of `acquire' returned or raised
    lease,      \* the lease object: none, open, closed, or lost: nothing
                \* refers to it, though it is open
    exposed,    \* auxiliary: a signal handler raised where no clause of the
                \* code answers for what the call holds
    strays,     \* foreign entries so far
    faults      \* failed system calls so far

nonceVars == <<consumed, issued>>
callVars  == <<step, req, created, answer>>
fdVars    == <<parentFd, leafFd>>
leafVars  == <<leaf, stray>>
leaseVars == <<consumed, issued, step, req, created, parentFd, leafFd, leaf,
               stray, answer, lease, exposed, strays, faults>>

Steps == {"idle", "issued", "authority", "parent", "made", "opened", "empty",
          "configured", "finally", "done"}
LeaseInit ==
    /\ consumed = {}
    /\ issued = {}
    /\ step = [c \in Callers |-> "idle"]
    /\ req = [c \in Callers |-> NoRequest]
    /\ created = [c \in Callers |-> FALSE]
    /\ parentFd = [c \in Callers |-> FALSE]
    /\ leafFd = [c \in Callers |-> FALSE]
    /\ leaf = [c \in Callers |-> "none"]
    /\ stray = [c \in Callers |-> FALSE]
    /\ answer = [c \in Callers |-> "none"]
    /\ lease = [c \in Callers |-> "none"]
    /\ exposed = [c \in Callers |-> FALSE]
    /\ strays = 0
    /\ faults = 0

------------------------------------------------------------------------------
(* The nonce service *)

Goto(c, s) == step' = [step EXCEPT ![c] = s]
Answer(c, a) == answer' = [answer EXCEPT ![c] = a]

\* A system call fails for a reason outside the model.
Fault == faults < MaxFaults /\ faults' = faults + 1

\* A token of a spent request is refused; otherwise several tokens of one
\* request may be out at the same time.
Issue(c, r) ==
    /\ step[c] = "idle"
    /\ req' = [req EXCEPT ![c] = r]
    /\ IF r \in consumed
         THEN Goto(c, "done") /\ Answer(c, "refused") /\ UNCHANGED issued
         ELSE Goto(c, "issued") /\ issued' = issued \union {c}
              /\ UNCHANGED answer
    /\ UNCHANGED <<consumed, created, fdVars, leafVars, lease, exposed, strays, faults>>

ConsumeUnchecked(c) ==
    /\ step[c] = "issued"
    /\ consumed' = consumed \union {req[c]}
    /\ issued' = issued \ {c}
    /\ Goto(c, "authority")
    /\ UNCHANGED <<req, created, answer, fdVars, leafVars, lease, exposed, strays, faults>>

\* The nonce is spent at most once, whatever tokens are still out, and before
\* the file system is touched.
Consume(c) ==
    /\ step[c] = "issued"
    /\ IF req[c] \in consumed
         THEN Goto(c, "done") /\ Answer(c, "refused") /\ UNCHANGED nonceVars
         ELSE /\ consumed' = consumed \union {req[c]}
              /\ issued' = issued \ {c}
              /\ Goto(c, "authority")
              /\ UNCHANGED answer
    /\ UNCHANGED <<req, created, fdVars, leafVars, lease, exposed, strays, faults>>

------------------------------------------------------------------------------
(* Acquisition *)

\* The call leaves its body with an answer; the `finally' clause is next.
Leave(c, a) == Goto(c, "finally") /\ Answer(c, a)

\* The host, the admission or the delegated descriptor does not qualify: a
\* blocked answer with nothing opened, or the duplicate descriptor.
Duplicate(c) ==
    /\ step[c] = "authority"
    /\ \/ Leave(c, "blocked") /\ UNCHANGED parentFd
       \/ /\ parentFd' = [parentFd EXCEPT ![c] = TRUE]
          /\ Goto(c, "parent")
          /\ UNCHANGED answer
    /\ UNCHANGED <<nonceVars, req, created, leafFd, leafVars, lease, exposed, strays, faults>>

\* The parent is no control group with the required controllers, or the name
\* exists already: blocked, with only the duplicate to close.  Otherwise the
\* leaf is made.
MakeLeaf(c) ==
    /\ step[c] = "parent"
    /\ \/ Leave(c, "blocked") /\ UNCHANGED <<created, leaf>>
       \/ /\ leaf' = [leaf EXCEPT ![c] = "dir"]
          /\ created' = [created EXCEPT ![c] = TRUE]
          /\ Goto(c, "made")
          /\ UNCHANGED answer
    /\ UNCHANGED <<nonceVars, req, fdVars, stray, lease, exposed, strays, faults>>

OpenLeaf(c) ==
    /\ step[c] = "made"
    /\ leafFd' = [leafFd EXCEPT ![c] = TRUE]
    /\ Goto(c, "opened")
    /\ UNCHANGED <<nonceVars, req, created, answer, parentFd, leafVars, lease,
                   exposed, strays, faults>>

\* _validate_empty_leaf as far as the model sees it.
Empty(c) == ~stray[c]

\* The file system, the control files and the emptiness of the new leaf are
\* right; then the controls are written and read back.
ValidateLeaf(c) ==
    /\ step[c] = "opened"
    /\ Empty(c)
    /\ Goto(c, "empty")
    /\ UNCHANGED <<nonceVars, req, created, answer, fdVars, leafVars, lease,
                   exposed, strays, faults>>

Configure(c) ==
    /\ step[c] = "empty"
    /\ Goto(c, "configured")
    /\ UNCHANGED <<nonceVars, req, created, answer, fdVars, leafVars, lease,
                   exposed, strays, faults>>

\* rmdir of the leaf: a populated leaf refuses it.
RemoveLeaf(c) ==
    /\ Empty(c)
    /\ leaf' = [leaf EXCEPT ![c] = "removed"]
    /\ UNCHANGED faults

LeafStays(c) ==
    /\ UNCHANGED leaf
    /\ \/ ~Empty(c) /\ UNCHANGED faults
       \/ Fault

\* One of the checks fails: _cleanup_failed_setup closes the leaf and removes
\* it, and the answer is a blocker with "created" and "removed" set.  If it
\* cannot remove the leaf its error leaves the body with `created' still set.
FailSetup(c) ==
    /\ step[c] \in {"made", "opened", "empty"}
    /\ leafFd' = [leafFd EXCEPT ![c] = FALSE]
    /\ \/ /\ RemoveLeaf(c)
          /\ created' = [created EXCEPT ![c] = FALSE]
          /\ Leave(c, "blocked")
       \/ /\ LeafStays(c)
          /\ Leave(c, "cleanup")
          /\ UNCHANGED created
    /\ UNCHANGED <<nonceVars, req, parentFd, stray, lease, exposed, strays>>

\* Any other exception (a failing fstat, the lease's constructor).
RaiseError(c) ==
    /\ step[c] \in {"parent", "configured"}
    /\ Fault
    /\ Leave(c, "error")
    /\ UNCHANGED <<nonceVars, req, created, fdVars, leafVars, lease, exposed, strays>>

\* The lease takes the two descriptors and the leaf over.
GrantLease(c) ==
    /\ step[c] = "configured"
    /\ lease' = [lease EXCEPT ![c] = "open"]
    /\ created' = [created EXCEPT ![c] = FALSE]
    /\ Goto(c, "done")
    /\ Answer(c, "lease")
    /\ UNCHANGED <<nonceVars, req, fdVars, leafVars, exposed, strays, faults>>

\* The `finally' clause: a leaf that is still the call's own is removed, the
\* descriptors are closed, and a leaf that cannot be removed is an error.
Finally(c) ==
    /\ step[c] = "finally"
    /\ Goto(c, "done")
    /\ parentFd' = [parentFd EXCEPT ![c] = FALSE]
    /\ leafFd' = [leafFd EXCEPT ![c] = FALSE]
    /\ IF created[c]
         THEN \/ RemoveLeaf(c) /\ UNCHANGED answer
              \/ LeafStays(c) /\ Answer(c, "cleanup")
         ELSE UNCHANGED <<leaf, answer, faults>>
    /\ UNCHANGED <<nonceVars, req, created, stray, lease, exposed, strays>>

------------------------------------------------------------------------------
(* The lease object *)

\* close: whatever happens, the descriptors are closed and the lease is too.
ReleaseLease(c) ==
    /\ lease' = [lease EXCEPT ![c] = "closed"]
    /\ parentFd' = [parentFd EXCEPT ![c] = FALSE]
    /\ leafFd' = [leafFd EXCEPT ![c] = FALSE]
    /\ UNCHANGED <<nonceVars, callVars, stray, strays>>

\* close returns: nothing to do, or the leaf was empty and is removed.
CloseReturns(c) ==
    IF lease[c] = "closed"
      THEN UNCHANGED leaseVars
      ELSE ReleaseLease(c) /\ RemoveLeaf(c) /\ UNCHANGED exposed

\* close raises its cleanup error; never for a lease that is closed.
CloseRaises(c) ==
    /\ lease[c] = "open"
    /\ ReleaseLease(c)
    /\ LeafStays(c)
    /\ UNCHANGED exposed

------------------------------------------------------------------------------
(* A signal handler raises in the caller.  What `created' and the local      *)
(* descriptors say is what the `finally' clause goes by.                     *)

Expose(c) == exposed' = [exposed EXCEPT ![c] = TRUE]

\* Between two steps: the `finally' clause is next, or, before the body is
\* entered, there is nothing to answer for.
AcquireInterrupted(c) ==
    /\ \/ step[c] \in {"issued", "authority"} /\ Goto(c, "done")
       \/ step[c] \in {"parent", "made", "opened", "empty", "configured"}
          /\ Goto(c, "finally")
    /\ Answer(c, "interrupt")
    /\ UNCHANGED <<nonceVars, req, created, fdVars, leafVars, lease, exposed,
                   strays, faults>>

\* Between dup and the assignment of its result.
ParentFdLost(c) ==
    /\ step[c] = "authority"
    /\ parentFd' = [parentFd EXCEPT ![c] = TRUE]
    /\ Goto(c, "done") /\ Answer(c, "interrupt")
    /\ UNCHANGED <<leafFd, leaf, lease, faults>>

\* Between mkdir and `created = True': the `finally' clause knows of no leaf.
LeafLost(c) ==
    /\ step[c] = "parent"
    /\ leaf' = [leaf EXCEPT ![c] = "dir"]
    /\ Leave(c, "interrupt")
    /\ UNCHANGED <<fdVars, lease, faults>>

\* Between open and the assignment of its result, or between `leaf_fd = -1'
\* and the close of the descriptor: the `finally' clause removes the leaf and
\* closes the parent only.
LeafFdLost(c) ==
    /\ step[c] \in {"made", "opened", "empty"}
    /\ leafFd' = [leafFd EXCEPT ![c] = TRUE]
    /\ parentFd' = [parentFd EXCEPT ![c] = FALSE]
    /\ Goto(c, "done")
    /\ \/ RemoveLeaf(c) /\ Answer(c, "interrupt")
       \/ LeafStays(c) /\ Answer(c, "cleanup")
    /\ UNCHANGED lease

\* Between `parent_fd = -1' and `return lease': the `finally' clause removes
\* nothing, and closes the leaf's descriptor unless `leaf_fd = -1' came first.
LeaseLost(c) ==
    /\ step[c] = "configured"
    /\ lease' = [lease EXCEPT ![c] = "lost"]
    /\ Goto(c, "done") /\ Answer(c, "interrupt")
    /\ leafFd' \in {leafFd, [leafFd EXCEPT ![c] = FALSE]}
    /\ UNCHANGED <<parentFd, leaf, faults>>

\* Inside the `finally' clause, before or after its cleanup of the leaf.
FinallyCut(c) ==
    /\ step[c] = "finally"
    /\ Goto(c, "done") /\ Answer(c, "interrupt")
    /\ \/ UNCHANGED <<leafFd, leaf, faults>>
       \/ /\ leafFd' = [leafFd EXCEPT ![c] = FALSE]
          /\ IF created[c] THEN RemoveLeaf(c) ELSE UNCHANGED <<leaf, faults>>
    /\ UNCHANGED <<parentFd, lease>>

AcquireCut(c) ==
    /\ \/ ParentFdLost(c) \/ LeafLost(c) \/ LeafFdLost(c) \/ LeaseLost(c)
       \/ FinallyCut(c)
    /\ Expose(c)
    /\ UNCHANGED <<nonceVars, req, created, stray, strays>>

\* Inside close, before or after rmdir: its `finally' clause closes the lease,
\* and a second close has nothing to do.
CloseCut(c) ==
    /\ lease[c] = "open"
    /\ ReleaseLease(c)
    /\ UNCHANGED <<leaf, faults>> \/ RemoveLeaf(c)

------------------------------------------------------------------------------
(* Foreign processes *)

StrayEnters(c) ==
    /\ leaf[c] = "dir" /\ ~stray[c]
    /\ strays < MaxStrays
    /\ strays' = strays + 1
    /\ stray' = [stray EXCEPT ![c] = TRUE]
    /\ UNCHANGED <<nonceVars, callVars, fdVars, leaf, lease, exposed, faults>>

StrayLeaves(c) ==
    /\ stray[c]
    /\ stray' = [stray EXCEPT ![c] = FALSE]
    /\ UNCHANGED <<nonceVars, callVars, fdVars, leaf, lease, exposed, strays, faults>>

AcquireStep(c) ==
    \/ Consume(c) \/ Duplicate(c) \/ MakeLeaf(c) \/ OpenLeaf(c)
    \/ ValidateLeaf(c) \/ Configure(c) \/ FailSetup(c) \/ RaiseError(c)
    \/ GrantLease(c) \/ Finally(c)

ForeignStep(c) == StrayEnters(c) \/ StrayLeaves(c)

------------------------------------------------------------------------------
(* What the lease promises *)

\* However many tokens of a request are out and however the callers
\* interleave, one of them at most makes a leaf (consume's lock and set).
OneLeafPerRequest ==
    \A c, d \in Callers :
        (c # d /\ leaf[c] # "none" /\ leaf[d] # "none") => req[c] # req[d]
==============================================================================
