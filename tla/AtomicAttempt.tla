---------------------------- MODULE AtomicAttempt ----------------------------
(***************************************************************************)
(* One attempt from request to verdict: the executor                       *)
(* (v075_k7_parent_atomic_executor_v1.py) acquires a lease, prepares a     *)
(* sealed bootstrap and calls the runtime                                  *)
(* (v075_k7_atomic_pidfd_runtime_v1.py), which clones one child into the   *)
(* leaf, reads its output up to a cap, reaps it through its pidfd and       *)
(* gives the leaf back.                                                     *)
(*                                                                          *)
(* Concurrent with the parent's steps are the child, the kernel that        *)
(* delivers a SIGKILL some time after it was sent, foreign processes in     *)
(* the leaf and the other threads of the parent.  The runtime's exception   *)
(* handler is modelled call by call, because what it finds depends on how   *)
(* far the body came.                                                       *)
(***************************************************************************)
EXTENDS CgroupLease, Sequences, Integers

CONSTANTS
    Main,          \* the main thread, which always exists
    Cap,           \* output_cap_bytes, in units of the child's writes
    Interrupts     \* whether a signal handler may raise in the parent

ASSUME AttemptAssumption ==
    /\ Main \in Callers
    /\ Cap \in Nat
    /\ Interrupts \in BOOLEAN

VARIABLES
    at,        \* where the executor and the runtime are
    boot,      \* the sealed bootstrap: none, staged, consumed, closed, or lost:
               \* nothing refers to it, though it is open
    child,     \* the child: none, running, zombie, reaped
    ended,     \* how it ended: none, ok, bad, killed
    killSent,  \* a SIGKILL is on its way
    setup,     \* the native setup record: none, ready, failed
    channel,   \* the child's end of the socket is open
    written,   \* units the child wrote
    unread,    \* units in the socket
    eof, ready, eofFirst, waited, forced,   \* locals of the runtime
    roles,     \* lifecycle_roles
    kind,      \* what leaves the runtime: none, result, blocked, error,
               \* cleanup, interrupt
    fatal,     \* fatal_cleanup_errors is not empty
    verdict    \* what `execute' returned or raised

childVars == <<child, ended, killSent, setup, channel, written, unread>>
runVars   == <<eof, ready, eofFirst, waited, forced, roles>>
endVars   == <<kind, fatal, verdict>>
attemptVars == <<at, boot, childVars, runVars, endVars>>
vars == <<leaseVars, attemptVars>>

Failures == {"ADMISSION", "LEASE_ACQUIRE", "CGROUP_LEASE", "PREPARE",
             "ATOMIC_RUNTIME_PREFLIGHT", "ATOMIC_RUNTIME_EXCEPTION",
             "CHILD_EXECUTION", "CHILD_REPLAY", "PARENT_FINALIZATION"}
Init ==
    /\ LeaseInit
    /\ at = [c \in Callers |-> "idle"]
    /\ boot = [c \in Callers |-> "none"]
    /\ child = [c \in Callers |-> "none"]
    /\ ended = [c \in Callers |-> "none"]
    /\ killSent = [c \in Callers |-> FALSE]
    /\ setup = [c \in Callers |-> "none"]
    /\ channel = [c \in Callers |-> FALSE]
    /\ written = [c \in Callers |-> 0]
    /\ unread = [c \in Callers |-> 0]
    /\ eof = [c \in Callers |-> FALSE]
    /\ ready = [c \in Callers |-> FALSE]
    /\ eofFirst = [c \in Callers |-> FALSE]
    /\ waited = [c \in Callers |-> FALSE]
    /\ forced = [c \in Callers |-> "none"]
    /\ roles = [c \in Callers |-> << >>]
    /\ kind = [c \in Callers |-> "none"]
    /\ fatal = [c \in Callers |-> FALSE]
    /\ verdict = [c \in Callers |-> "none"]

------------------------------------------------------------------------------
(* Helpers *)

To(c, p) == at' = [at EXCEPT ![c] = p]
Kind(c, k) == kind' = [kind EXCEPT ![c] = k]
Raise(c, k) == To(c, "except") /\ Kind(c, k)
Role(c, r) == roles' = [roles EXCEPT ![c] = Append(@, r)]
SendKill(c) == killSent' = [killSent EXCEPT ![c] = child[c] = "running"]

\* The threads of the process: the main thread and the callers at work.
Threads == {Main} \union {d \in Callers : at[d] \notin {"idle", "ended"}}

\* `execute' settles on a verdict; its `finally' is still to come.
Settle(c, v) == To(c, "settle") /\ verdict' = [verdict EXCEPT ![c] = v]

------------------------------------------------------------------------------
(* The executor up to the runtime *)

\* A thread calls `execute'; the admission probe may fail.
Execute(c, r) ==
    /\ at[c] = "idle"
    /\ \/ /\ Settle(c, "ADMISSION")
          /\ UNCHANGED leaseVars
       \/ /\ Issue(c, r)
          /\ To(c, "acquire")
          /\ UNCHANGED verdict
    /\ UNCHANGED <<boot, childVars, runVars, kind, fatal>>

Acquire(c) ==
    /\ at[c] = "acquire"
    /\ AcquireStep(c)
    /\ UNCHANGED attemptVars

\* What `execute' makes of the answer.
Acquired(c) ==
    /\ at[c] = "acquire"
    /\ step[c] = "done"
    /\ CASE answer[c] = "lease"   -> To(c, "prepare") /\ UNCHANGED verdict
         [] answer[c] = "blocked" -> Settle(c, "CGROUP_LEASE")
         [] answer[c] = "cleanup" -> Settle(c, "raised")
         [] answer[c] = "interrupt" -> Settle(c, "interrupted")
         [] OTHER                 -> Settle(c, "LEASE_ACQUIRE")
    /\ UNCHANGED <<leaseVars, boot, childVars, runVars, kind, fatal>>

\* _prepare_bootstrap closes its staged descriptors itself when it fails.
Prepare(c) ==
    /\ at[c] = "prepare"
    /\ \/ /\ boot' = [boot EXCEPT ![c] = "staged"]
          /\ To(c, "probe")
          /\ UNCHANGED verdict
       \/ Settle(c, "PREPARE") /\ UNCHANGED boot
    /\ UNCHANGED <<leaseVars, childVars, runVars, kind, fatal>>

\* The capability probe admits only a process with one thread; a blocker
\* leaves the lease and the bootstrap as they are.
Probe(c) ==
    /\ at[c] = "probe"
    /\ \/ Threads = {c} /\ To(c, "claim") /\ UNCHANGED kind
       \/ To(c, "final") /\ Kind(c, "blocked")
    /\ UNCHANGED <<leaseVars, boot, childVars, runVars, fatal, verdict>>

\* With all signals blocked: the lease is claimed, the bootstrap consumed,
\* the leaf's memory controls set and the descriptors made.
Claim(c) ==
    /\ at[c] = "claim"
    /\ \/ /\ boot' = [boot EXCEPT ![c] = "consumed"]
          /\ To(c, "clone")
          /\ UNCHANGED <<leaseVars, kind>>
       \/ /\ Fault
          /\ Raise(c, "error")
          /\ boot' \in {boot, [boot EXCEPT ![c] = "consumed"]}
          /\ UNCHANGED <<nonceVars, callVars, fdVars, leafVars, lease, exposed, strays>>
    /\ UNCHANGED <<childVars, runVars, fatal, verdict>>

\* The thread count is read again under the interpreter lock, which is kept
\* until clone3 returns.  pids.max = 1 lets no child into a leaf that holds a
\* foreign process; the kernel may refuse for other reasons.
Clone(c) ==
    /\ at[c] = "clone"
    /\ \/ /\ Threads = {c} /\ Empty(c)
          /\ child' = [child EXCEPT ![c] = "running"]
          /\ channel' = [channel EXCEPT ![c] = TRUE]
          /\ To(c, "launched")
       \/ To(c, "refuse") /\ UNCHANGED <<child, channel>>
    /\ UNCHANGED <<leaseVars, boot, ended, killSent, setup, written, unread,
                   runVars, endVars>>

\* No child: lease and bootstrap are closed and the answer is a blocker; an
\* error of the lease's close goes to the exception handler.
Refuse(c) ==
    /\ at[c] = "refuse"
    /\ \/ /\ CloseReturns(c)
          /\ boot' = [boot EXCEPT ![c] = "closed"]
          /\ To(c, "final") /\ Kind(c, "blocked")
       \/ CloseRaises(c) /\ Raise(c, "cleanup") /\ UNCHANGED boot
    /\ UNCHANGED <<childVars, runVars, fatal, verdict>>

\* The launch is recorded before anything else that may fail; the sink may
\* raise, and a pending signal is handled as soon as the mask is restored.
Launched(c) ==
    /\ at[c] = "launched"
    /\ \/ /\ Role(c, "PROCESS_LAUNCH")
          /\ To(c, "poll")
          /\ UNCHANGED <<leaseVars, kind>>
       \/ /\ Fault
          /\ Raise(c, "error")
          /\ UNCHANGED <<nonceVars, callVars, fdVars, leafVars, lease, exposed, strays,
                         roles>>
    /\ UNCHANGED <<boot, childVars, eof, ready, eofFirst, waited, forced, fatal,
                   verdict>>

------------------------------------------------------------------------------
(* The child and the kernel *)

Zombie(c, how) ==
    /\ child' = [child EXCEPT ![c] = "zombie"]
    /\ ended' = [ended EXCEPT ![c] = how]
    /\ channel' = [channel EXCEPT ![c] = FALSE]
    /\ killSent' = [killSent EXCEPT ![c] = FALSE]

\* The native setup ends with the READY_FOR_EXEC record, or with the record
\* of a failed stage and the exit status 126 or 127.
ChildSetup(c) ==
    /\ child[c] = "running" /\ setup[c] = "none"
    /\ \/ setup' = [setup EXCEPT ![c] = "ready"] /\ UNCHANGED <<child, ended, channel, killSent>>
       \/ setup' = [setup EXCEPT ![c] = "failed"] /\ Zombie(c, "bad")
    /\ UNCHANGED <<leaseVars, at, boot, written, unread, runVars, endVars>>

ChildWrites(c) ==
    /\ child[c] = "running" /\ setup[c] = "ready" /\ channel[c]
    /\ written[c] <= Cap
    /\ written' = [written EXCEPT ![c] = @ + 1]
    /\ unread' = [unread EXCEPT ![c] = @ + 1]
    /\ UNCHANGED <<leaseVars, at, boot, child, ended, killSent, setup, channel,
                   runVars, endVars>>

\* The child closes its end of the socket and goes on.
ChildCloses(c) ==
    /\ child[c] = "running" /\ setup[c] = "ready" /\ channel[c]
    /\ channel' = [channel EXCEPT ![c] = FALSE]
    /\ UNCHANGED <<leaseVars, at, boot, child, ended, killSent, setup, written,
                   unread, runVars, endVars>>

ChildExits(c) ==
    /\ child[c] = "running" /\ setup[c] = "ready"
    /\ \E how \in {"ok", "bad"} : Zombie(c, how)
    /\ UNCHANGED <<leaseVars, at, boot, setup, written, unread, runVars, endVars>>

\* A SIGKILL reaches the child: the parent's, or one of the kernel (the
\* memory limit, or the parent's death signal) at any time.
ChildKilled(c) ==
    /\ child[c] = "running"
    /\ Zombie(c, "killed")
    /\ UNCHANGED <<leaseVars, at, boot, setup, written, unread, runVars, endVars>>

ChildStep(c) ==
    \/ ChildSetup(c) \/ ChildWrites(c) \/ ChildCloses(c) \/ ChildExits(c)
    \/ ChildKilled(c)

------------------------------------------------------------------------------
(* The supervision loop *)

\* What the parent has read.
Read(c) == written[c] - unread[c]

DeadlineOnlyWhenQuiet(c) ==
    /\ at[c] = "poll" /\ eof[c]
    /\ forced' = [forced EXCEPT ![c] = "DEADLINE"]
    /\ SendKill(c)
    /\ To(c, "reap")
    /\ UNCHANGED <<leaseVars, boot, child, ended, setup, channel, written, unread,
                   eof, ready, eofFirst, waited, roles, endVars>>

\* The loop looks at the deadline before every poll.
Deadline(c) ==
    /\ at[c] = "poll"
    /\ forced' = [forced EXCEPT ![c] = "DEADLINE"]
    /\ SendKill(c)
    /\ To(c, "reap")
    /\ UNCHANGED <<leaseVars, boot, child, ended, setup, channel, written, unread,
                   eof, ready, eofFirst, waited, roles, endVars>>

\* One read of the socket; the unit after the cap ends the attempt.
ReadChunk(c) ==
    /\ at[c] = "poll" /\ ~eof[c] /\ unread[c] > 0
    /\ unread' = [unread EXCEPT ![c] = @ - 1]
    /\ IF Read(c) + 1 > Cap
         THEN /\ forced' = [forced EXCEPT ![c] = "OUTPUT_CAP"]
              /\ SendKill(c)
              /\ To(c, "reap")
         ELSE UNCHANGED <<forced, killSent, at>>
    /\ UNCHANGED <<leaseVars, boot, child, ended, setup, channel, written, eof,
                   ready, eofFirst, waited, roles, endVars>>

ReadEof(c) ==
    /\ at[c] = "poll" /\ ~eof[c] /\ unread[c] = 0 /\ ~channel[c]
    /\ eof' = [eof EXCEPT ![c] = TRUE]
    /\ eofFirst' = [eofFirst EXCEPT ![c] = TRUE]
    /\ Role(c, "OUTPUT_EOF")
    /\ UNCHANGED <<leaseVars, at, boot, childVars, ready, waited, forced, endVars>>

\* The pidfd is readable: the child is kept as a zombie until the end of its
\* output was read.
SeeExit(c) ==
    /\ at[c] = "poll" /\ ~ready[c] /\ child[c] = "zombie"
    /\ ready' = [ready EXCEPT ![c] = TRUE]
    /\ UNCHANGED <<leaseVars, at, boot, childVars, eof, eofFirst, waited, forced,
                   roles, endVars>>

EndLoop(c) ==
    /\ at[c] = "poll" /\ ready[c] /\ eof[c]
    /\ To(c, "reap")
    /\ UNCHANGED <<leaseVars, boot, childVars, runVars, endVars>>

\* wait_and_record_reap: waitid through the pidfd, within a grace period.
Reap(c) ==
    /\ at[c] = "reap"
    /\ \/ /\ child[c] = "zombie"
          /\ child' = [child EXCEPT ![c] = "reaped"]
          /\ waited' = [waited EXCEPT ![c] = TRUE]
          /\ Role(c, "PROCESS_REAP")
          /\ To(c, "drain")
          /\ UNCHANGED <<leaseVars, kind>>
       \/ /\ child[c] = "running"
          /\ Fault
          /\ Raise(c, "cleanup")
          /\ UNCHANGED <<nonceVars, callVars, fdVars, leafVars, lease, exposed, strays,
                         child, waited, roles>>
    /\ UNCHANGED <<boot, ended, killSent, setup, channel, written, unread, eof,
                   ready, eofFirst, forced, fatal, verdict>>

\* What the dead child left in the socket is read to its end.
Drain(c) ==
    /\ at[c] = "drain"
    /\ unread' = [unread EXCEPT ![c] = 0]
    /\ eof' = [eof EXCEPT ![c] = TRUE]
    /\ IF eof[c] THEN UNCHANGED roles ELSE Role(c, "OUTPUT_EOF")
    /\ To(c, "verify")
    /\ UNCHANGED <<leaseVars, boot, child, ended, killSent, setup, channel, written,
                   ready, eofFirst, waited, forced, endVars>>

\* The leaf is empty, without descendants, its controls are unchanged.
Verify(c) ==
    /\ at[c] = "verify"
    /\ \/ /\ Empty(c)
          /\ roles' = [roles EXCEPT ![c] = @ \o
                <<"CGROUP_EMPTY", "DESCENDANT_SCAN", "FINAL_MEMORY_PEAK",
                  "MEMORY_CONTROLS_VERIFIED">>]
          /\ To(c, "closing")
          /\ UNCHANGED <<leaseVars, kind>>
       \/ /\ IF Empty(c) THEN Fault ELSE UNCHANGED faults
          /\ Raise(c, "error")
          /\ UNCHANGED <<nonceVars, callVars, fdVars, leafVars, lease, exposed, strays, roles>>
    /\ UNCHANGED <<boot, childVars, eof, ready, eofFirst, waited, forced, fatal,
                   verdict>>

CloseBoth(c) ==
    /\ at[c] = "closing"
    /\ \/ /\ CloseReturns(c)
          /\ boot' = [boot EXCEPT ![c] = "closed"]
          /\ To(c, "judge")
          /\ UNCHANGED kind
       \/ CloseRaises(c) /\ Raise(c, "cleanup") /\ UNCHANGED boot
    /\ UNCHANGED <<childVars, runVars, fatal, verdict>>

\* The order the supervisor's evidence insists on.
EvidenceOrder(first) ==
    (IF first THEN <<"PROCESS_LAUNCH", "OUTPUT_EOF", "PROCESS_REAP">>
              ELSE <<"PROCESS_LAUNCH", "PROCESS_REAP", "OUTPUT_EOF">>)
    \o <<"CGROUP_EMPTY", "DESCENDANT_SCAN", "FINAL_MEMORY_PEAK",
         "MEMORY_CONTROLS_VERIFIED">>

\* The result is built, unless the child ended by itself without any setup
\* record, or the evidence is refused.
Judge(c) ==
    /\ at[c] = "judge"
    /\ IF \/ setup[c] = "none" /\ forced[c] = "none"
          \/ roles[c] # EvidenceOrder(eofFirst[c])
         THEN Raise(c, "error")
         ELSE To(c, "final") /\ Kind(c, "result")
    /\ UNCHANGED <<leaseVars, boot, childVars, runVars, fatal, verdict>>

------------------------------------------------------------------------------
(* The exception handler and the `finally' clause of the runtime *)

Unreaped(c) == child[c] # "none" /\ ~waited[c]

\* SIGKILL through the pidfd, if the child was not reaped.
HandlerKill(c) ==
    /\ at[c] = "except"
    /\ IF Unreaped(c) THEN SendKill(c) ELSE UNCHANGED killSent
    /\ To(c, "wait1")
    /\ UNCHANGED <<leaseVars, boot, child, ended, setup, channel, written, unread,
                   runVars, endVars>>

\* A bounded wait through the pidfd: it reaps a zombie, fails for a child
\* that was reaped already, and gives up on one that is still running.
HandlerWait(c, from, to) ==
    /\ at[c] = from
    /\ \/ /\ Unreaped(c) /\ child[c] = "zombie"
          /\ child' = [child EXCEPT ![c] = "reaped"]
          /\ waited' = [waited EXCEPT ![c] = TRUE]
          /\ UNCHANGED leaseVars
       \/ /\ ~(Unreaped(c) /\ child[c] = "zombie")
          /\ IF Unreaped(c) /\ child[c] = "running" THEN Fault ELSE UNCHANGED faults
          /\ UNCHANGED <<nonceVars, callVars, fdVars, leafVars, lease, exposed, strays,
                         child, waited>>
    /\ To(c, to)
    /\ UNCHANGED <<boot, ended, killSent, setup, channel, written, unread, eof,
                   ready, eofFirst, forced, roles, endVars>>

\* cgroup.kill for whatever is still in the leaf, and the proof that it is
\* empty, through the leaf's descriptor: closed with the lease, it proves
\* nothing.  cgroup.kill ends foreign processes too; what it did not end in
\* the grace period, or a zombie that still counts, is a cleanup error.
HandlerLeafKill(c) ==
    /\ at[c] = "leafkill"
    /\ IF child[c] = "none" THEN UNCHANGED <<leaseVars, childVars, fatal>>
       ELSE IF ~leafFd[c]
         THEN /\ fatal' = [fatal EXCEPT ![c] = TRUE]
              /\ UNCHANGED <<leaseVars, childVars>>
         ELSE /\ \/ /\ stray' = [stray EXCEPT ![c] = FALSE]
                    /\ IF child[c] = "running"
                         THEN Zombie(c, "killed")
                         ELSE UNCHANGED <<child, ended, channel, killSent>>
                    /\ UNCHANGED <<faults, fatal>>
                 \/ /\ Fault
                    /\ child[c] \in {"running", "zombie"} \/ ~Empty(c)
                    /\ fatal' = [fatal EXCEPT ![c] = TRUE]
                    /\ UNCHANGED <<stray, child, ended, channel, killSent>>
              /\ UNCHANGED <<nonceVars, callVars, fdVars, leaf, lease, exposed, strays,
                             setup, written, unread>>
    /\ To(c, "wait2")
    /\ UNCHANGED <<boot, runVars, kind, verdict>>

\* The last resort: SIGKILL by process number and waitpid.  ChildProcessError
\* counts as reaped.
HandlerDirect(c) ==
    /\ at[c] = "direct"
    /\ IF Unreaped(c)
         THEN \/ /\ child[c] # "running"
                 /\ child' = [child EXCEPT ![c] = "reaped"]
                 /\ waited' = [waited EXCEPT ![c] = TRUE]
                 /\ UNCHANGED <<leaseVars, fatal, ended, channel, killSent>>
              \/ /\ child[c] = "running"
                 /\ Fault
                 /\ fatal' = [fatal EXCEPT ![c] = TRUE]
                 /\ SendKill(c)
                 /\ UNCHANGED <<nonceVars, callVars, fdVars, leafVars, lease,
                                exposed, strays, child, ended, channel, waited>>
         ELSE UNCHANGED <<leaseVars, child, ended, channel, killSent, waited, fatal>>
    /\ To(c, "exclose")
    /\ UNCHANGED <<boot, setup, written, unread, eof, ready, eofFirst, forced, roles,
                   kind, verdict>>

HandlerCloseSwallows(c) ==
    /\ at[c] = "exclose"
    /\ CloseReturns(c) \/ CloseRaises(c)
    /\ IF fatal[c] THEN Kind(c, "cleanup") ELSE UNCHANGED kind
    /\ To(c, "final")
    /\ UNCHANGED <<boot, childVars, runVars, fatal, verdict>>

\* The lease is closed; any cleanup error replaces the original exception.
HandlerClose(c) ==
    /\ at[c] = "exclose"
    /\ \/ /\ CloseReturns(c)
          /\ IF fatal[c] THEN Kind(c, "cleanup") ELSE UNCHANGED kind
          /\ UNCHANGED fatal
       \/ /\ CloseRaises(c)
          /\ fatal' = [fatal EXCEPT ![c] = TRUE]
          /\ Kind(c, "cleanup")
    /\ To(c, "final")
    /\ UNCHANGED <<boot, childVars, runVars, verdict>>

CompleteByStatus(c) == ended[c] = "ok" /\ setup[c] = "ready"

\* The result is a complete success: the child ended by itself with status
\* zero, nothing was cut, and its output ended before it was reaped.
Complete(c) ==
    /\ forced[c] = "none" /\ ended[c] = "ok" /\ setup[c] = "ready"
    /\ Read(c) <= Cap /\ eofFirst[c]

\* The runtime's `finally' closes a bootstrap it was given past the probe, and
\* the executor turns what comes out of the runtime into its verdict; the
\* child's frame and the parent's suffix may still be refused.
Final(c) ==
    /\ at[c] = "final"
    /\ boot' = [boot EXCEPT ![c] = IF kind[c] = "blocked" THEN @ ELSE "closed"]
    /\ CASE kind[c] = "result" /\ Complete(c) ->
              \E v \in {"SUCCESS", "CHILD_REPLAY", "PARENT_FINALIZATION"} : Settle(c, v)
         [] kind[c] = "result" /\ ~Complete(c) -> Settle(c, "CHILD_EXECUTION")
         [] kind[c] = "blocked" -> Settle(c, "ATOMIC_RUNTIME_PREFLIGHT")
         [] kind[c] = "error" -> Settle(c, "ATOMIC_RUNTIME_EXCEPTION")
         [] kind[c] = "cleanup" -> Settle(c, "raised")
         [] OTHER -> Settle(c, "interrupted")
    /\ UNCHANGED <<leaseVars, childVars, runVars, kind, fatal>>

------------------------------------------------------------------------------
(* The `finally' clause of the executor *)

\* A bootstrap the executor knows of is closed.
CloseBootstrap(c) ==
    boot' = [boot EXCEPT ![c] = IF @ \in {"none", "lost"} THEN @ ELSE "closed"]

\* A lease that is still open is closed and the bootstrap too.  After a
\* preflight blocker the body closes the lease, so that an error of its close
\* finds the lease closed in the `finally' clause; after an interrupt that
\* clause closes it, and an error of the close leaves the bootstrap open.
EndAttempt(c) ==
    /\ at[c] = "settle"
    /\ IF lease[c] = "open"
         THEN \/ /\ CloseReturns(c)
                 /\ CloseBootstrap(c)
                 /\ UNCHANGED verdict
              \/ /\ CloseRaises(c)
                 /\ IF verdict[c] = "interrupted" THEN UNCHANGED boot ELSE CloseBootstrap(c)
                 /\ verdict' = [verdict EXCEPT ![c] = "raised"]
         ELSE /\ CloseBootstrap(c)
              /\ UNCHANGED <<leaseVars, verdict>>
    /\ To(c, "ended")
    /\ UNCHANGED <<childVars, runVars, kind, fatal>>

------------------------------------------------------------------------------
(* A signal handler raises.  Python runs handlers in the main thread, and    *)
(* the runtime blocks signals from the claim until after the clone.           *)

Strikes(c) == Interrupts /\ c = Main

\* Before the runtime: `acquire' has its own clause, the executor's `finally'
\* has the lease and the bootstrap.
InterruptBefore(c) ==
    /\ Strikes(c)
    /\ \/ /\ at[c] = "acquire"
          /\ AcquireInterrupted(c)
          /\ UNCHANGED <<at, verdict>>
       \/ /\ \/ at[c] = "acquire" /\ step[c] = "done" /\ answer[c] \notin {"lease", "cleanup"}
             \/ at[c] \in {"prepare", "probe"}
          /\ Settle(c, "interrupted")
          /\ UNCHANGED leaseVars
    /\ UNCHANGED <<boot, childVars, runVars, kind, fatal>>

\* Inside the runtime's `try': its exception handler is next.
Interrupt(c) ==
    /\ Strikes(c)
    /\ at[c] \in {"claim", "refuse", "poll", "reap", "drain", "verify", "closing",
                 "judge"}
    /\ Raise(c, "interrupt")
    /\ UNCHANGED <<leaseVars, boot, childVars, runVars, fatal, verdict>>

\* The same between waitid and the assignment of its result: the kernel has
\* released the child's number, and the parent does not know.
InterruptAfterWait(c) ==
    /\ Strikes(c)
    /\ at[c] = "reap" /\ child[c] = "zombie"
    /\ child' = [child EXCEPT ![c] = "reaped"]
    /\ Raise(c, "interrupt")
    /\ UNCHANGED <<leaseVars, boot, ended, killSent, setup, channel, written, unread,
                   runVars, fatal, verdict>>

\* The same inside the lease's close.  With a child the exception handler
\* fails to probe the closed leaf and raises a cleanup error; without one
\* nothing tells that the leaf is still there.
InterruptInClose(c) ==
    /\ Strikes(c)
    /\ at[c] \in {"refuse", "closing"}
    /\ CloseCut(c)
    /\ IF at[c] = "refuse" /\ leaf'[c] = "dir" THEN Expose(c) ELSE UNCHANGED exposed
    /\ Raise(c, "interrupt")
    /\ UNCHANGED <<boot, childVars, runVars, fatal, verdict>>

\* In the runtime's `finally' or in the executor after it: what was on its way
\* out is replaced, a cleanup error too.  Within one of the `try' blocks of that
\* clause the interrupt becomes a cleanup error itself.
InterruptAfter(c) ==
    /\ Strikes(c)
    /\ at[c] = "final"
    /\ \/ /\ Settle(c, "interrupted")
          /\ IF kind[c] = "cleanup" THEN Expose(c) ELSE UNCHANGED exposed
       \/ /\ lease[c] = "closed"
          /\ Settle(c, "raised")
          /\ UNCHANGED exposed
    /\ UNCHANGED <<nonceVars, callVars, fdVars, leafVars, lease, strays, faults,
                   boot, childVars, runVars, kind, fatal>>

\* Where what is held has no owner: inside `acquire', between its return and
\* `lease = acquired' or with its cleanup error on the way, and between the
\* return of _prepare_bootstrap and its assignment.
InterruptExposed(c) ==
    /\ Strikes(c)
    /\ \/ /\ at[c] = "acquire"
          /\ AcquireCut(c)
          /\ UNCHANGED <<at, boot, verdict>>
       \/ /\ at[c] = "acquire" /\ step[c] = "done" /\ answer[c] \in {"lease", "cleanup"}
          /\ lease' = [lease EXCEPT ![c] = IF @ = "open" THEN "lost" ELSE @]
          /\ Expose(c)
          /\ Settle(c, "interrupted")
          /\ UNCHANGED <<nonceVars, callVars, fdVars, leafVars, strays, faults, boot>>
       \/ /\ at[c] = "prepare"
          /\ boot' = [boot EXCEPT ![c] = "lost"]
          /\ Expose(c)
          /\ Settle(c, "interrupted")
          /\ UNCHANGED <<nonceVars, callVars, fdVars, leafVars, lease, strays, faults>>
    /\ UNCHANGED <<childVars, runVars, kind, fatal>>

\* In the executor's own closing of lease and bootstrap.
InterruptEnd(c) ==
    /\ Strikes(c)
    /\ at[c] = "settle"
    /\ CloseCut(c) \/ UNCHANGED <<nonceVars, callVars, fdVars, leafVars, lease, strays, faults>>
    /\ Expose(c)
    /\ CloseBootstrap(c) \/ UNCHANGED boot
    /\ To(c, "ended")
    /\ verdict' = [verdict EXCEPT ![c] = "interrupted"]
    /\ UNCHANGED <<childVars, runVars, kind, fatal>>

Interrupted(c) ==
    \/ InterruptBefore(c) \/ Interrupt(c) \/ InterruptAfterWait(c)
    \/ InterruptInClose(c) \/ InterruptAfter(c) \/ InterruptExposed(c)
    \/ InterruptEnd(c)

------------------------------------------------------------------------------
(* The specification *)

ParentStep(c) ==
    \/ Acquire(c) \/ Acquired(c) \/ Prepare(c) \/ Probe(c) \/ Claim(c)
    \/ Clone(c) \/ Refuse(c) \/ Launched(c)
    \/ Deadline(c) \/ ReadChunk(c) \/ ReadEof(c) \/ SeeExit(c) \/ EndLoop(c)
    \/ Reap(c) \/ Drain(c) \/ Verify(c) \/ CloseBoth(c) \/ Judge(c)
    \/ HandlerKill(c) \/ HandlerWait(c, "wait1", "leafkill")
    \/ HandlerLeafKill(c) \/ HandlerWait(c, "wait2", "direct")
    \/ HandlerDirect(c) \/ HandlerClose(c) \/ Final(c) \/ EndAttempt(c)

AllEnded ==
    /\ \A c \in Callers : at[c] = "ended"
    /\ UNCHANGED vars

Next ==
    \/ \E c \in Callers :
          \/ \E r \in Requests : Execute(c, r)
          \/ ParentStep(c)
          \/ ChildStep(c)
          \/ Interrupted(c)
          \/ ForeignStep(c) /\ UNCHANGED attemptVars
    \/ AllEnded

Spec == Init /\ [][Next]_vars

\* The parent keeps running: every wait in it is bounded by the deadline or by
\* a grace period.  A child the parent has killed dies.
FairSpec ==
    /\ Spec
    /\ \A c \in Callers : WF_vars(ParentStep(c)) /\ WF_vars(killSent[c] /\ ChildKilled(c))

------------------------------------------------------------------------------
(* What an attempt promises *)

Left(c) ==
    \/ leaf[c] = "dir"
    \/ child[c] \in {"running", "zombie"}

Held(c) ==
    \/ parentFd[c] \/ leafFd[c] \/ lease[c] \in {"open", "lost"}
    \/ boot[c] \notin {"none", "closed"}

\* "Once capability preflight succeeds, both authorities are consumed and
\* closed on every return or exception path": whatever happened to the child,
\* to the leaf or to a system call, and wherever a signal handler raised, an
\* attempt that ended left a leaf, an unreaped child or an open bootstrap
\* behind only if its caller was told by a cleanup error, and no descriptor of
\* the lease.  Only an interrupt at an exposed place may leave more, and then
\* `execute' ended with that interrupt or with a cleanup error, never with an
\* answer.
NothingLeftSilently ==
    \A c \in Callers : at[c] = "ended" =>
        /\ Left(c) \/ Held(c) =>
             verdict[c] = "raised" \/ (exposed[c] /\ verdict[c] = "interrupted")
        /\ parentFd[c] \/ leafFd[c] \/ lease[c] \in {"open", "lost"} => exposed[c]

\* However exit, end of output, deadline and cap race, the lifecycle recorded
\* by the loop is one that the evidence of the supervisor accepts.
EvidenceAccepted ==
    \A c \in Callers : at[c] = "judge" => roles[c] = EvidenceOrder(eofFirst[c])

\* A success is one: the child ran to its own end with status zero, every
\* unit it wrote within the cap was read before it was reaped, no kill was
\* sent, leaf and child are gone, and the evidence of the supervisor accepts
\* the recorded lifecycle.
SuccessGenuine ==
    /\ EvidenceAccepted
    /\ \A c \in Callers : verdict[c] = "SUCCESS" =>
         /\ setup[c] = "ready" /\ ended[c] = "ok" /\ forced[c] = "none"
         /\ unread[c] = 0 /\ written[c] <= Cap
         /\ child[c] = "reaped" /\ leaf[c] = "removed"

\* Every attempt ends, even if the child neither ends nor closes its output.
AttemptsEnd == \A c \in Callers : (at[c] # "idle") ~> (at[c] = "ended")

\* "Failure at admission, lease acquisition, preparation, runtime, child
\* replay or finalization produces a typed nonterminal failure object": only
\* an attempt that did leave something behind ends with an exception.
TypedUnlessLeft ==
    \A c \in Callers : (at[c] = "ended" /\ verdict[c] = "raised") => Left(c)
==============================================================================
