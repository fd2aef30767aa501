------------------------------ MODULE MathCache ------------------------------
(***************************************************************************)
(* The memoized confidence bounds and their accounting, behind the         *)
(* isolation of CacheIsolation: sequential_bernoulli_acquisition_v1.py,    *)
(* _outer_confidence_bounds_accounted_v2.  The two lru_caches and their    *)
(* hit and miss counters are shared by all threads; the body-entry counter *)
(* and the owned accounting belong to one thread's context.                *)
(*                                                                         *)
(* A key stands for the four arguments of a bound; its mass is the key of  *)
(* the beta-binomial cache, which the body of a bound looks up through its *)
(* own registered facade.                                                  *)
(***************************************************************************)
EXTENDS CacheIsolation, SequencesExt

CONSTANTS
    Keys,          \* the arguments of the confidence bounds
    FailingKeys,   \* those whose computation raises
    MaxSize,       \* maxsize of the bounds' lru_cache
    None,          \* no access, no occurrence
    MaxAccesses    \* bound: accesses in a behaviour

ASSUME FailingAreKeys == FailingKeys \subseteq Keys
ASSUME CacheBounds == MaxSize \in Nat \ {0} /\ MaxAccesses \in Nat

\* An access of the facade: its key, how far it is, and what it read of the
\* counters and of its own stack when it began.
Accesses ==
    [key : Keys,
     phase : {"lookup", "enter", "mass", "leave", "insert", "classify"},
     hits : Nat, misses : Nat, entries : Nat, depth : Nat]

ASSUME NoneIsNoAccess == None \notin Accesses

VARIABLES
    bounds,     \* the keys in the bounds' cache, least recently used first
    mass,       \* the keys in the mass cache
    hits,       \* cache_info().hits of the bounds' cache
    misses,     \* cache_info().misses
    entries,    \* _OUTER_CONFIDENCE_BODY_ENTRY_COUNT, one per thread
    access,     \* the access each thread is in, or None
    owned,      \* the accounting of the occurrence a thread owns, or None
    unclear,    \* TRUE once a classification has raised
    accesses    \* how many accesses have begun

cacheVars == <<bounds, mass, hits, misses, entries>>
mathVars == <<isolationVars, cacheVars, access, owned, unclear, accesses>>

MathCacheInit ==
    /\ IsolationInit
    /\ bounds = <<>> /\ mass = {} /\ hits = 0 /\ misses = 0
    /\ entries = [t \in Threads |-> 0]
    /\ access = [t \in Threads |-> None]
    /\ owned = [t \in Threads |-> None]
    /\ unclear = FALSE /\ accesses = 0

At(t, phase) == access[t] # None /\ access[t].phase = phase
Goto(t, phase) == access' = [access EXCEPT ![t].phase = phase]

-----------------------------------------------------------------------------
(* Occurrences and clearing                                                *)

\* A client enters and leaves the isolation between its accesses, and keeps
\* the epoch of a cold occurrence until that has ended.
ClientStep(t) ==
    /\ access[t] = None
    /\ IsolationStep(t)
    /\ owned[t] # None /\ owned[t].cold => frames'[t] # <<>>
    /\ UNCHANGED <<cacheVars, access, owned, unclear, accesses>>

Occurrence(cold) ==
    [cold |-> cold, lookups |-> 0, hits |-> 0, misses |-> 0,
     computed |-> {}, bodies |-> 0, foreign |-> FALSE]

\* Mutant: the memoized bounds survive the clearing.
Cleared_MassOnly(t) ==
    /\ mass' = {} /\ entries' = [entries EXCEPT ![t] = 0]
    /\ UNCHANGED <<bounds, hits, misses>>

\* clear_exact_bernoulli_math_cache_v1, inside the caller's epoch
Cleared(t) ==
    /\ bounds' = <<>> /\ hits' = 0 /\ misses' = 0
    /\ mass' = {} /\ entries' = [entries EXCEPT ![t] = 0]

Idle(t) == waiting[t] = "running" /\ access[t] = None

\* A registered clear by anyone who holds the epoch.
ClearCache(t) ==
    /\ Idle(t) /\ InFrame(t, {"epoch"})
    /\ Cleared(t)
    /\ UNCHANGED <<isolationVars, access, owned, unclear, accesses>>

\* The occurrence runners: isolate, clear, then activate the accounting.
BeginColdOccurrence(t) ==
    /\ Idle(t) /\ frames[t] = <<"epoch">> /\ owned[t] = None
    /\ Cleared(t)
    /\ owned' = [owned EXCEPT ![t] = Occurrence(TRUE)]
    /\ UNCHANGED <<isolationVars, access, unclear, accesses>>

\* The accounting may also be activated without isolation.
BeginSharedOccurrence(t) ==
    /\ Idle(t) /\ frames[t] = <<>> /\ owned[t] = None
    /\ owned' = [owned EXCEPT ![t] = Occurrence(FALSE)]
    /\ UNCHANGED <<isolationVars, cacheVars, access, unclear, accesses>>

\* A cold occurrence clears once more, except where one runner lets an
\* exception skip it.
EndOccurrence(t) ==
    /\ Idle(t) /\ owned[t] # None
    /\ Len(frames[t]) = (IF owned[t].cold THEN 1 ELSE 0)
    /\ owned' = [owned EXCEPT ![t] = None]
    /\ \/ owned[t].cold /\ Cleared(t)
       \/ UNCHANGED cacheVars
    /\ UNCHANGED <<isolationVars, access, unclear, accesses>>

-----------------------------------------------------------------------------
(* One access                                                              *)

\* The facade, inside its registered_user(): the lookup is emitted and the
\* shared counters are read.  MaxFrames leaves room for the body's own entry.
BeginAccess(t, k) ==
    /\ Idle(t) /\ InFrame(t, {"primary", "nested", "writer_owned"})
    /\ Len(frames[t]) < MaxFrames
    /\ accesses < MaxAccesses /\ accesses' = accesses + 1
    /\ access' = [access EXCEPT ![t] =
                    [key |-> k, phase |-> "lookup", hits |-> hits,
                     misses |-> misses, entries |-> entries[t],
                     depth |-> Len(frames[t])]]
    /\ owned' = IF owned[t] = None THEN owned
                ELSE [owned EXCEPT ![t].lookups = @ + 1]
    /\ UNCHANGED <<isolationVars, cacheVars, unclear>>

\* lru_cache: a hit moves the key to the end, a miss is counted before the
\* body is entered.
Lookup(t) ==
    /\ At(t, "lookup")
    /\ LET k == access[t].key IN
       \/ /\ \E i \in DOMAIN bounds :
               bounds[i] = k /\ bounds' = Append(RemoveAt(bounds, i), k)
          /\ hits' = hits + 1
          /\ owned' = IF owned[t] = None THEN owned
                      ELSE [owned EXCEPT ![t].foreign = @ \/ k \notin owned[t].computed]
          /\ Goto(t, "classify")
          /\ UNCHANGED <<misses, entries>>
       \/ /\ k \notin Range(bounds)
          /\ misses' = misses + 1
          /\ entries' = [entries EXCEPT ![t] = @ + 1]
          /\ owned' = IF owned[t] = None THEN owned
                      ELSE [owned EXCEPT ![t].computed = @ \cup {k},
                                         ![t].bodies = @ + 1]
          /\ Goto(t, "enter")
          /\ UNCHANGED <<hits, bounds>>
    /\ UNCHANGED <<isolationVars, mass, unclear, accesses>>

\* The body enters the facade of the mass cache ...
EnterMass(t) ==
    /\ At(t, "enter")
    /\ EnterNested(t) \/ EnterWriterOwned(t)
    /\ Goto(t, "mass")
    /\ UNCHANGED <<cacheVars, owned, unclear, accesses>>

MassLookup(t) ==
    /\ At(t, "mass")
    /\ mass' = mass \cup {access[t].key}
    /\ Goto(t, "leave")
    /\ UNCHANGED <<isolationVars, bounds, hits, misses, entries, owned, unclear,
                   accesses>>

\* ... and leaves it.
LeaveMass(t) ==
    /\ At(t, "leave")
    /\ LeaveReader(t) \/ LeaveWriterOwned(t)
    /\ Goto(t, IF access[t].key \in FailingKeys THEN "classify" ELSE "insert")
    /\ UNCHANGED <<cacheVars, owned, unclear, accesses>>

\* A computed bound is stored, unless another thread has stored it meanwhile;
\* a full cache drops the least recently used.
Insert(t) ==
    /\ At(t, "insert")
    /\ LET k == access[t].key IN
       bounds' = IF k \in Range(bounds) THEN bounds
                 ELSE Append(IF Len(bounds) = MaxSize THEN Tail(bounds) ELSE bounds, k)
    /\ Goto(t, "classify")
    /\ UNCHANGED <<isolationVars, mass, hits, misses, entries, owned, unclear,
                   accesses>>

\* Mutant: the shared counters alone decide.
Classification_Shared(t) ==
    IF misses > access[t].misses THEN "miss"
    ELSE IF hits > access[t].hits THEN "hit" ELSE "neither"

\* _classify_outer_confidence_cache_access_v2
Classification(t) ==
    LET body == entries[t] - access[t].entries
    IN  IF body = 0 /\ hits > access[t].hits THEN "hit"
        ELSE IF body = 1 /\ misses > access[t].misses THEN "miss"
        ELSE "neither"

Classify(t) ==
    /\ At(t, "classify")
    /\ IF owned[t] = None THEN UNCHANGED <<owned, unclear>>
       ELSE LET class == Classification(t) IN
            /\ unclear' = (unclear \/ class = "neither")
            /\ owned' = CASE class = "hit" -> [owned EXCEPT ![t].hits = @ + 1]
                          [] class = "miss" -> [owned EXCEPT ![t].misses = @ + 1]
                          [] OTHER -> owned
    /\ access' = [access EXCEPT ![t] = None]
    /\ UNCHANGED <<isolationVars, cacheVars, accesses>>

-----------------------------------------------------------------------------
(* Specification                                                           *)

AccessStep(t) ==
    \/ Lookup(t) \/ EnterMass(t) \/ MassLookup(t) \/ LeaveMass(t) \/ Insert(t)
    \/ Classify(t)

MathCacheNext ==
    \E t \in Threads :
        \/ ClientStep(t) \/ ClearCache(t)
        \/ BeginColdOccurrence(t) \/ BeginSharedOccurrence(t) \/ EndOccurrence(t)
        \/ (\E k \in Keys : BeginAccess(t, k)) \/ AccessStep(t)

MathCacheSpec == MathCacheInit /\ [][MathCacheNext]_mathVars

\* A thread inside an access gets on, a thread woken in the isolation runs, and
\* the work inside a context manager is finite.  That some thread leaves is
\* enough: while a writer waits, the threads inside are readers.
MathCacheFairness ==
    /\ \A t \in Threads :
         WF_mathVars(AccessStep(t)) /\ WF_mathVars(ClientStep(t) /\ AwakeRuns(t))
    /\ \A d \in 1..MaxFrames :
         SF_mathVars(\E t \in Threads : ClientStep(t) /\ Leaves(t, d))

FairMathCacheSpec == MathCacheSpec /\ MathCacheFairness

-----------------------------------------------------------------------------
(* Properties                                                              *)

\* The accounting of an occurrence splits its lookups exactly: a miss for
\* every body its own thread ran, a hit for every other lookup, although the
\* counters it reads are moved by other threads between two reads.
AccountingExact ==
    /\ ~unclear
    /\ \A t \in Threads : owned[t] # None /\ access[t] = None =>
         /\ owned[t].misses = owned[t].bodies
         /\ owned[t].lookups = owned[t].hits + owned[t].misses

\* A cold occurrence is charged for every bound it uses: it never hits a bound
\* that it has not computed itself since its epoch was cleared.
ColdNeverReuses ==
    \A t \in Threads : owned[t] # None /\ owned[t].cold => ~owned[t].foreign
=============================================================================
