---------------------------- MODULE Concurrency ----------------------------
(***************************************************************************)
(* Admission control of the AI runtime: ConcurrencyManager, the slots it   *)
(* hands out and the FairScheduler's report (ai/runtime/concurrency.py).   *)
(*                                                                         *)
(* Every method of the manager runs under one non-reentrant                *)
(* threading.Lock, so a method is one step.  ConcurrencySlot.release is    *)
(* not: it tests `_released` before the lock and sets it after, so it is   *)
(* three steps, and several threads may be between them on one slot.       *)
(***************************************************************************)
EXTENDS Integers, FiniteSets

CONSTANTS
  Models,        \* model ids
  Versions,      \* version strings
  Slots,         \* identities a live ConcurrencySlot object can have
  Callers,       \* threads that may call release() on one slot object
  GlobalLimit,   \* global_limit
  DefaultLimit,  \* default_model_limit
  Limits,        \* the max_concurrent values callers register
  None           \* Python's None: no limit given, no slot, no model

ASSUME ConcurrencyAssumption ==
  /\ IsFiniteSet(Slots)
  /\ GlobalLimit \in Nat
  /\ DefaultLimit \in Nat
  /\ Limits \subseteq Nat
  /\ None \notin Nat \cup Slots \cup Models \cup Versions

VARIABLES
  registered,      \* keys of _models
  maxConcurrent,   \* ModelConcurrencyState.max_concurrent
  versionLimits,   \* ModelConcurrencyState.version_limits
  activeCount,     \* ModelConcurrencyState.active_count
  activeByVersion, \* ModelConcurrencyState.active_by_version
  activeSlots,     \* ModelConcurrencyState.active_slots
  globalActive,    \* _global_active
  shutdown,        \* _shutdown
  lastServed,      \* keys of _last_served
  slot,            \* the ConcurrencySlot objects
  pc,              \* where each caller of a slot is in its release()
  stuck            \* get_fairness_report waits for the lock it holds

modelVars == <<registered, maxConcurrent, versionLimits, activeCount,
               activeByVersion, activeSlots, lastServed>>
vars == <<modelVars, globalActive, shutdown, slot, pc, stuck>>

-----------------------------------------------------------------------------
(* A slot is "free" when no object has its identity, "held" from its       *)
(* acquisition until its _release_slot has run, then "returned" until the  *)
(* last release() on it has ended.                                         *)
SlotState ==
  [phase: {"free", "held", "returned"}, model: Models \cup {None},
   version: Versions \cup {None}, released: BOOLEAN]

FreeSlot ==
  [phase |-> "free", model |-> None, version |-> None, released |-> FALSE]

InFlight          == {s \in Slots : slot[s].phase = "held"}
InFlightOf(m)     == {s \in InFlight : slot[s].model = m}
InFlightAs(m, v)  == {s \in InFlightOf(m) : slot[s].version = v}
Tracked           == UNION {activeSlots[m] : m \in Models}

\* Mutant: the counters are decremented without max(0, .).
Floor0_Mutant(n) == n

(* max(0, n) *)
Floor0(n) == IF n < 0 THEN 0 ELSE n

-----------------------------------------------------------------------------
(* _is_hard_backpressure: active / limit >= 0.9, and always at limit 0.    *)
HardBackpressure == 10 * globalActive >= 9 * GlobalLimit

(* get_version_limit *)
VersionLimit(m, v) ==
  IF versionLimits[m][v] = None THEN maxConcurrent[m] ELSE versionLimits[m][v]

(* can_acquire: the model limit first, then the version limit.             *)
CanAcquire(m, v) ==
  IF activeCount[m] >= maxConcurrent[m] THEN "model_limit"
  ELSE IF activeByVersion[m][v] >= VersionLimit(m, v) THEN "version_limit"
  ELSE "acquired"

\* Mutant: only the model limit is checked.
Decision_NoVersionLimit(m, v) ==
  IF shutdown THEN "shutdown"
  ELSE IF HardBackpressure THEN "backpressure"
  ELSE IF activeCount[m] >= maxConcurrent[m] THEN "model_limit"
  ELSE "acquired"

\* Mutant: requests are still admitted after shutdown.
Decision_NoShutdown(m, v) ==
  IF HardBackpressure THEN "backpressure" ELSE CanAcquire(m, v)

(* The order of the checks in _try_acquire_locked.  A model that is not    *)
(* registered has the state auto-registration gives it.                    *)
Decision(m, v) ==
  IF shutdown THEN "shutdown"
  ELSE IF HardBackpressure THEN "backpressure"
  ELSE IF globalActive >= GlobalLimit THEN "global_limit"
  ELSE CanAcquire(m, v)

(* ConcurrencySlot.acquired_slot *)
AcquiredSlot(m, v) ==
  [phase |-> "held", model |-> m, version |-> v, released |-> FALSE]

\* Mutant: every release is taken for the first one of its slot.
Listed_Always(s) == TRUE

\* Mutant: releases are ignored once shutdown has begun.
Listed_Running(s) == s \in activeSlots[slot[s].model] /\ ~shutdown

(* ModelConcurrencyState.release: is the slot among the active ones?       *)
Listed(s) == s \in activeSlots[slot[s].model]

\* Mutant: the global count keeps the slots of the model that goes.
GlobalWithout_Mutant(m) == globalActive

(* The global count once unregister_model took out the model's slots.      *)
GlobalWithout(m) == Floor0(globalActive - activeCount[m])

Init ==
  /\ registered = {}
  /\ maxConcurrent = [m \in Models |-> DefaultLimit]
  /\ versionLimits = [m \in Models |-> [v \in Versions |-> None]]
  /\ activeCount = [m \in Models |-> 0]
  /\ activeByVersion = [m \in Models |-> [v \in Versions |-> 0]]
  /\ activeSlots = [m \in Models |-> {}]
  /\ globalActive = 0
  /\ shutdown = FALSE
  /\ lastServed = {}
  /\ slot = [s \in Slots |-> FreeSlot]
  /\ pc = [s \in Slots |-> [c \in Callers |-> "idle"]]
  /\ stuck = FALSE

-----------------------------------------------------------------------------
(* register_model: a first registration takes the limit or the default, a  *)
(* later one changes the limit only when one is given.                     *)
RegisterModel(m, limit) ==
  /\ ~stuck
  /\ registered' = registered \cup {m}
  /\ maxConcurrent' = IF limit = None THEN maxConcurrent
                      ELSE [maxConcurrent EXCEPT ![m] = limit]
  /\ lastServed' = lastServed \cup {m}
  /\ UNCHANGED <<versionLimits, activeCount, activeByVersion, activeSlots,
                 globalActive, shutdown, slot, pc, stuck>>

(* register_version_limit *)
RegisterVersionLimit(m, v, limit) ==
  /\ ~stuck
  /\ registered' = registered \cup {m}
  /\ versionLimits' = [versionLimits EXCEPT ![m][v] = limit]
  /\ UNCHANGED <<maxConcurrent, activeCount, activeByVersion, activeSlots,
                 lastServed, globalActive, shutdown, slot, pc, stuck>>

(* unregister_model: the model's slots leave the global count here, though *)
(* the requests that hold them still run; its state is deleted.            *)
UnregisterModel(m) ==
  /\ ~stuck
  /\ m \in registered
  /\ globalActive' = GlobalWithout(m)
  /\ registered' = registered \ {m}
  /\ maxConcurrent' = [maxConcurrent EXCEPT ![m] = DefaultLimit]
  /\ versionLimits' = [versionLimits EXCEPT ![m] = [v \in Versions |-> None]]
  /\ activeCount' = [activeCount EXCEPT ![m] = 0]
  /\ activeByVersion' = [activeByVersion EXCEPT ![m] = [v \in Versions |-> 0]]
  /\ activeSlots' = [activeSlots EXCEPT ![m] = {}]
  /\ lastServed' = lastServed \ {m}
  /\ UNCHANGED <<shutdown, slot, pc, stuck>>

(* A refused try_acquire: after the shutdown check it has registered an    *)
(* unknown model, whatever refuses the request later.                      *)
Reject(m, v) ==
  /\ ~stuck
  /\ Decision(m, v) # "acquired"
  /\ ~shutdown
  /\ registered' = registered \cup {m}
  /\ lastServed' = IF m \in registered THEN lastServed ELSE lastServed \cup {m}
  /\ UNCHANGED <<maxConcurrent, versionLimits, activeCount, activeByVersion,
                 activeSlots, globalActive, shutdown, slot, pc, stuck>>

(* An admitted try_acquire, with a fresh slot identity. *)
Acquire(m, v, s) ==
  /\ ~stuck
  /\ Decision(m, v) = "acquired"
  /\ slot[s].phase = "free"
  /\ slot' = [slot EXCEPT ![s] = AcquiredSlot(m, v)]
  /\ registered' = registered \cup {m}
  /\ activeCount' = [activeCount EXCEPT ![m] = @ + 1]
  /\ activeByVersion' = [activeByVersion EXCEPT ![m][v] = @ + 1]
  /\ activeSlots' = [activeSlots EXCEPT ![m] = @ \cup {s}]
  /\ globalActive' = globalActive + 1
  /\ lastServed' = lastServed \cup {m}
  /\ UNCHANGED <<maxConcurrent, versionLimits, shutdown, pc, stuck>>

-----------------------------------------------------------------------------
(* release(), first step: the unlocked test of `_released`.                *)
ReleaseCheck(s, c) ==
  /\ pc[s][c] = "idle"
  /\ slot[s].phase # "free"
  /\ ~slot[s].released
  /\ pc' = [pc EXCEPT ![s][c] = "checked"]
  /\ UNCHANGED <<modelVars, globalActive, shutdown, slot, stuck>>

(* release(), second step: _release_slot under the lock.  A model that is  *)
(* no longer there costs the global count one more; a slot its model does  *)
(* not know costs nothing.                                                 *)
ReleaseSlot(s, c) ==
  LET m == slot[s].model
      v == slot[s].version
  IN /\ ~stuck
     /\ pc[s][c] = "checked"
     /\ pc' = [pc EXCEPT ![s][c] = "returned"]
     /\ slot' = [slot EXCEPT ![s].phase = "returned"]
     /\ IF m \notin registered
        THEN /\ globalActive' = Floor0(globalActive - 1)
             /\ UNCHANGED <<activeSlots, activeCount, activeByVersion>>
        ELSE IF Listed(s)
        THEN /\ activeSlots' = [activeSlots EXCEPT ![m] = @ \ {s}]
             /\ activeCount' = [activeCount EXCEPT ![m] = Floor0(@ - 1)]
             /\ activeByVersion' = [activeByVersion EXCEPT ![m][v] = Floor0(@ - 1)]
             /\ globalActive' = Floor0(globalActive - 1)
        ELSE UNCHANGED <<activeSlots, activeCount, activeByVersion, globalActive>>
     /\ UNCHANGED <<registered, maxConcurrent, versionLimits, lastServed,
                    shutdown, stuck>>

(* release(), third step: `_released = True`.  Once no caller is inside    *)
(* release() of the slot, later calls return at the test: its identity is  *)
(* free for another object.                                                *)
ReleaseMark(s, c) ==
  /\ pc[s][c] = "returned"
  /\ pc' = [pc EXCEPT ![s][c] = "idle"]
  /\ slot' = IF \A d \in Callers \ {c} : pc[s][d] = "idle"
             THEN [slot EXCEPT ![s] = FreeSlot]
             ELSE [slot EXCEPT ![s].released = TRUE]
  /\ UNCHANGED <<modelVars, globalActive, shutdown, stuck>>

(* shutdown *)
Shutdown ==
  /\ ~stuck
  /\ shutdown' = TRUE
  /\ UNCHANGED <<modelVars, globalActive, slot, pc, stuck>>

(* get_fairness_report calls get_model_stats, which takes the lock the     *)
(* report holds, for every model in _last_served.                          *)
FairnessReport ==
  /\ ~stuck
  /\ lastServed # {}
  /\ stuck' = TRUE
  /\ UNCHANGED <<modelVars, globalActive, shutdown, slot, pc>>

-----------------------------------------------------------------------------
Register ==
  \E m \in Models :
    \/ \E limit \in Limits \cup {None} : RegisterModel(m, limit)
    \/ \E v \in Versions, limit \in Limits : RegisterVersionLimit(m, v, limit)

Request ==
  \E m \in Models, v \in Versions :
    \/ Reject(m, v)
    \/ \E s \in Slots : Acquire(m, v, s)

Release ==
  \E s \in Slots, c \in Callers :
    ReleaseCheck(s, c) \/ ReleaseSlot(s, c) \/ ReleaseMark(s, c)

(* The runtime while no model is unregistered and no report is asked for.  *)
SteadyNext == Register \/ Request \/ Release \/ Shutdown

Next == SteadyNext \/ FairnessReport \/ \E m \in Models : UnregisterModel(m)

SteadySpec == Init /\ [][SteadyNext]_vars
Spec       == Init /\ [][Next]_vars

(* Every holder releases in a finally block, and threads get to run.       *)
FairSteadySpec ==
  /\ SteadySpec
  /\ \A s \in Slots, c \in Callers :
       WF_vars(ReleaseCheck(s, c) \/ ReleaseSlot(s, c) \/ ReleaseMark(s, c))

-----------------------------------------------------------------------------
TypeOK ==
  /\ registered \subseteq Models
  /\ maxConcurrent \in [Models -> Nat]
  /\ versionLimits \in [Models -> [Versions -> Nat \cup {None}]]
  /\ activeCount \in [Models -> Nat]
  /\ activeByVersion \in [Models -> [Versions -> Nat]]
  /\ activeSlots \in [Models -> SUBSET Slots]
  /\ globalActive \in Nat
  /\ shutdown \in BOOLEAN
  /\ lastServed \subseteq Models
  /\ slot \in [Slots -> SlotState]
  /\ pc \in [Slots -> [Callers -> {"idle", "checked", "returned"}]]
  /\ stuck \in BOOLEAN

(* The three books agree: the counters of a model are the numbers of       *)
(* slots it lists, in all and per version, whatever is registered,         *)
(* unregistered and released in whatever order.                            *)
CountersMatchSlots ==
  \A m \in Models :
    /\ activeCount[m] = Cardinality(activeSlots[m])
    /\ \A v \in Versions :
         activeByVersion[m][v] =
           Cardinality({s \in activeSlots[m] : slot[s].version = v})

(* A slot a model lists belongs to a request that still runs: neither a    *)
(* racing second release nor an unregistration leaves a dead slot behind   *)
(* that would take capacity away for good.                                 *)
NoDeadSlot ==
  \A m \in Models : activeSlots[m] \subseteq InFlightOf(m)

(* The books of every model are those of requests that run.                *)
SlotsAccounted == CountersMatchSlots /\ NoDeadSlot

(* The global count never exceeds the slots the models list, so what       *)
(* unregistering does to it can admit too many requests, never lose room.  *)
NoCapacityLeak == globalActive <= Cardinality(Tracked)

(* While nothing is unregistered the global count is the number of         *)
(* requests in flight, even when two threads release one slot.             *)
GlobalCountExact == globalActive = Cardinality(InFlight)

(* The requests in flight stay below the point where hard backpressure     *)
(* starts plus the one that reached it: never more than 90% of the limit,  *)
(* rounded up ("Maximum total concurrent inferences").                     *)
GlobalLimitEnforced == 10 * Cardinality(InFlight) < 9 * GlobalLimit + 10

(* "GUARANTEED: Per-model limits are enforced": a request is only started  *)
(* when the requests in flight for its model and for its version are then  *)
(* within the limits, also when a limit was lowered meanwhile.             *)
StartWithinLimits ==
  \A m \in Models, v \in Versions :
    (InFlightAs(m, v))' \ InFlightAs(m, v) # {} =>
      /\ Cardinality(InFlightOf(m)') <= maxConcurrent[m]
      /\ Cardinality(InFlightAs(m, v)') <= VersionLimit(m, v)
PerModelLimitsEnforced == [][StartWithinLimits]_vars

(* "Limits: max concurrent per-model, max concurrent globally": both hold. *)
LimitsEnforced == []GlobalLimitEnforced /\ PerModelLimitsEnforced

(* "Release is idempotent": whatever releases of a slot race, and whatever *)
(* happens to its model meanwhile, a release of a slot that has already    *)
(* been returned leaves the global count alone.                            *)
SecondReleaseIsFree ==
  \A s \in Slots, c \in Callers :
    /\ pc[s][c] = "checked" /\ pc'[s][c] = "returned"
    /\ slot[s].phase = "returned"
    => globalActive' = globalActive
ReleaseIdempotent == [][SecondReleaseIsFree]_vars

(* What the proofs need besides: a slot that exists has a model and a      *)
(* version; a caller past the test works on a slot that exists, and one    *)
(* past the lock on a slot that has been returned; a model without state   *)
(* lists no slot.                                                          *)
SlotDiscipline ==
  /\ \A s \in Slots :
       /\ slot[s].phase # "free" =>
            slot[s].model \in Models /\ slot[s].version \in Versions
       /\ \A c \in Callers :
            /\ pc[s][c] = "checked" => slot[s].phase # "free"
            /\ pc[s][c] = "returned" => slot[s].phase = "returned"
  /\ \A m \in Models \ registered : activeSlots[m] = {}

(* While nothing is unregistered, also: the model of every slot is there   *)
(* and lists the slot exactly as long as its request is in flight.         *)
BooksExact ==
  /\ \A s \in Slots : slot[s].phase # "free" => slot[s].model \in registered
  /\ \A m \in Models : activeSlots[m] = InFlightOf(m)

(* "Active slots will be released normally": after shutdown the requests   *)
(* in flight run out and no other is ever admitted.                        *)
ShutdownDrains == shutdown ~> [](InFlight = {} /\ globalActive = 0)

-----------------------------------------------------------------------------
(* Hard backpressure starts at 0.9 of the limit, so this many requests can *)
(* run: the limit itself below 10, less from 10 on.                        *)
EffectiveCapacity == (9 * GlobalLimit + 9) \div 10

Abstract == INSTANCE Admission
  WITH inflight <- InFlight, closed <- shutdown, Capacity <- EffectiveCapacity

(* The manager, its slots and their racing releases implement the plain    *)
(* admission counter of Admission while no model is unregistered.          *)
ImplementsAdmission == Abstract!Spec
=============================================================================
