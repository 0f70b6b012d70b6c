--------------------------- MODULE CircuitBreaker ---------------------------
(***************************************************************************)
(* CircuitBreaker and CircuitBreakerPersistence (ai/runtime/recovery.py):  *)
(* per model version, the failures counted in a window, the circuit they   *)
(* trip, its half-open test, and the file the states are saved to.         *)
(*                                                                         *)
(* Every operation works under the breaker's lock. A save does not: it     *)
(* reads the breaker's own objects field by field while operations change  *)
(* them, so an entry of the file may be torn, and any save or load may     *)
(* fail.                                                                   *)
(*                                                                         *)
(* Time is abstract: a failure leaves the window, a cooldown and a minimum *)
(* interval end at any moment (Elapse), so every policy is covered.        *)
(***************************************************************************)
EXTENDS Integers, FiniteSets

CONSTANTS
  Versions,           \* the qualified ids
  Savers,             \* the threads inside force_close or remove_state
  FailureThreshold, UnhealthyThreshold, TimeoutThreshold,
  MaxAttempts, HalfOpenSuccesses,
  None

ASSUME BreakerAssumption ==
  /\ FailureThreshold \in Nat \ {0}
  /\ UnhealthyThreshold \in Nat \ {0}
  /\ TimeoutThreshold \in Nat \ {0}
  /\ MaxAttempts \in Nat \ {0}
  /\ HalfOpenSuccesses \in Nat \ {0}

Types   == {"execution_error", "timeout", "unhealthy_transition"}
Reasons == {"repeated_failures", "sustained_unhealthy", "cooldown_exhausted"}
ASSUME NoneAssumption == None \notin Reasons

VARIABLES
  persistent, \* enable_persistence, chosen when the breaker is made
  tracked,  \* the keys of _states
  circuit,  \* _states, a fresh state where there is none
  before,   \* what a state that is being changed was, for those who read it
            \* without the lock, or None
  stuck,    \* _lock is held for ever by a thread that waits for it
  disk,     \* the state file: what it holds of each version, or None
  warned,   \* a load or a save has failed since the last save that did not
  saver     \* what each thread that saves has copied and read

breakerVars ==
  <<persistent, tracked, circuit, before, stuck, disk, warned, saver>>

(* failures: those still in the window; cooled, spaced: the cooldown since *)
(* disabled_at, the interval since last_recovery_attempt are over.         *)
CircuitStates ==
  [state : {"closed", "open", "half_open"}, failures : Nat, unhealthy : Nat,
   timeouts : Nat, attempts : Nat, successes : Nat, cooled : BOOLEAN,
   spaced : BOOLEAN, reason : Reasons \cup {None}]

NewCircuit ==
  [state |-> "closed", failures |-> 0, unhealthy |-> 0, timeouts |-> 0, attempts |-> 0,
   successes |-> 0, cooled |-> TRUE, spaced |-> TRUE, reason |-> None]

\* No state of any version: an empty file, or none that is being changed.
NoStates == [v \in Versions |-> None]

(* The fields save_state writes, in its order. disabled_at is left out: it *)
(* says how long the cooldown lasts, and that is any time.                 *)
Fields == <<"state", "unhealthy", "timeouts", "attempts", "reason">>
AllRead == 6

(* live: the copied entries that are still the breaker's own objects;      *)
(* gone: the copied objects the breaker has dropped since; at: the field   *)
(* of each to be read next; file: what has been read.                      *)
IdleSaver ==
  [stage |-> "idle", live |-> {}, gone |-> NoStates,
   at |-> [v \in Versions |-> AllRead], file |-> NoStates]

BreakerInit ==
  /\ persistent \in BOOLEAN
  /\ tracked = {}
  /\ circuit = [v \in Versions |-> NewCircuit]
  /\ before = NoStates
  /\ stuck = FALSE
  /\ disk = NoStates
  /\ warned = FALSE
  /\ saver = [t \in Savers |-> IdleSaver]

(* with self._lock *)
LockFree == ~stuck /\ before = NoStates

BeingRead(v) == \E t \in Savers : saver[t].stage = "save" /\ v \in saver[t].live

(* The state of v becomes c, field by field: while a save reads it, what   *)
(* it was is still to be seen until the last field is written (Written).   *)
Write(v, c) ==
  /\ LockFree
  /\ circuit' = [circuit EXCEPT ![v] = c]
  /\ before' = [before EXCEPT ![v] = IF BeingRead(v) THEN circuit[v] ELSE None]

Written(v) ==
  /\ before[v] # None
  /\ before' = [before EXCEPT ![v] = None]
  /\ UNCHANGED <<persistent, tracked, circuit, stuck, disk, warned, saver>>

-----------------------------------------------------------------------------
(* CircuitBreakerState: record_failure, open_circuit, close_circuit,       *)
(* reset_for_recovery.                                                     *)
Recorded(c, type) ==
  [c EXCEPT !.failures = @ + 1,
            !.timeouts = IF type = "timeout" THEN @ + 1 ELSE 0,
            !.unhealthy = IF type = "unhealthy_transition" THEN @ + 1 ELSE @]

Opened(c, reason) == [c EXCEPT !.state = "open", !.cooled = FALSE, !.reason = reason]

Closed(c) ==
  [c EXCEPT !.state = "closed", !.failures = 0, !.unhealthy = 0, !.timeouts = 0,
            !.successes = 0, !.cooled = TRUE, !.reason = None]

HalfOpened(c) ==
  [c EXCEPT !.state = "half_open", !.successes = 0, !.attempts = @ + 1, !.spaced = FALSE]

\* Mutant: timeouts are no reason to trip.
Reason_Mutant(c) ==
  IF c.failures >= FailureThreshold THEN "repeated_failures"
  ELSE IF c.unhealthy >= UnhealthyThreshold THEN "sustained_unhealthy"
  ELSE IF c.attempts >= MaxAttempts THEN "cooldown_exhausted"
  ELSE None

(* _check_disable_criteria *)
Reason(c) ==
  IF c.failures >= FailureThreshold THEN "repeated_failures"
  ELSE IF c.unhealthy >= UnhealthyThreshold THEN "sustained_unhealthy"
  ELSE IF c.timeouts >= TimeoutThreshold THEN "repeated_failures"
  ELSE IF c.attempts >= MaxAttempts THEN "cooldown_exhausted"
  ELSE None

Trips(v, type) ==
  circuit[v].state # "open" /\ Reason(Recorded(circuit[v], type)) # None

(* record_failure and record_unhealthy_transition. A trip saves the states *)
(* inside `with self._lock`, and _persist_state takes that lock again.     *)
RecordFailure(v, type) ==
  /\ tracked' = tracked \cup {v}
  /\ LET c == Recorded(circuit[v], type) IN
     Write(v, IF circuit[v].state = "open" THEN circuit[v]
              ELSE IF Trips(v, type) THEN Opened(c, Reason(c)) ELSE c)
  /\ stuck' = (persistent /\ Trips(v, type))
  /\ UNCHANGED <<persistent, disk, warned, saver>>

Succeeded(c) ==
  [c EXCEPT !.timeouts = 0,
            !.successes = IF c.state = "half_open" THEN @ + 1 ELSE @]

Closes(v) ==
  circuit[v].state = "half_open" /\ circuit[v].successes + 1 >= HalfOpenSuccesses

(* record_success, which saves in the same way when it closes the circuit. *)
RecordSuccess(v) ==
  /\ tracked' = tracked \cup {v}
  /\ Write(v, IF Closes(v) THEN Closed(circuit[v]) ELSE Succeeded(circuit[v]))
  /\ stuck' = (persistent /\ Closes(v))
  /\ UNCHANGED <<persistent, disk, warned, saver>>

\* Mutant: the attempts are not looked at.
CanAttemptRecovery_Mutant(v) ==
  v \in tracked /\ circuit[v].state = "open" /\ circuit[v].spaced /\ circuit[v].cooled

(* can_attempt_recovery *)
CanAttemptRecovery(v) ==
  /\ v \in tracked
  /\ circuit[v].state = "open"
  /\ circuit[v].attempts < MaxAttempts
  /\ circuit[v].spaced
  /\ circuit[v].cooled

(* prepare_recovery, when it returns True. *)
PrepareRecovery(v) ==
  /\ v \in tracked
  /\ circuit[v].state = "open"
  /\ Write(v, HalfOpened(circuit[v]))
  /\ UNCHANGED <<persistent, tracked, stuck, disk, warned, saver>>

(* abort_recovery *)
AbortRecovery(v) ==
  /\ Write(v, IF v \in tracked /\ circuit[v].state = "half_open"
              THEN [circuit[v] EXCEPT !.state = "open", !.successes = 0]
              ELSE circuit[v])
  /\ UNCHANGED <<persistent, tracked, stuck, disk, warned, saver>>

(* What the lock protects in force_close. *)
ForceClosed(c) == [Closed(c) EXCEPT !.attempts = 0]

-----------------------------------------------------------------------------
(* force_close by thread t, up to its save. *)
ForceClose(t, v) ==
  /\ saver[t].stage = "idle"
  /\ v \in tracked
  /\ Write(v, ForceClosed(circuit[v]))
  /\ saver' = [saver EXCEPT ![t].stage = IF persistent THEN "copy" ELSE "idle"]
  /\ UNCHANGED <<persistent, tracked, stuck, disk, warned>>

\* Mutant: the removal is not saved.
RemoveState_Mutant(t, v) ==
  /\ LockFree
  /\ saver[t].stage = "idle"
  /\ v \in tracked
  /\ tracked' = tracked \ {v}
  /\ circuit' = [circuit EXCEPT ![v] = NewCircuit]
  /\ UNCHANGED <<persistent, before, stuck, disk, warned, saver>>

(* remove_state by thread t, up to its save. *)
RemoveState(t, v) ==
  /\ LockFree
  /\ saver[t].stage = "idle"
  /\ v \in tracked
  /\ tracked' = tracked \ {v}
  /\ circuit' = [circuit EXCEPT ![v] = NewCircuit]
  /\ saver' = [u \in Savers |-> [saver[u] EXCEPT
       !.stage = IF u = t /\ persistent THEN "copy" ELSE @,
       !.live = @ \ {v},
       !.gone[v] = IF v \in saver[u].live THEN circuit[v] ELSE @]]
  /\ UNCHANGED <<persistent, before, stuck, disk, warned>>

(* _persist_state: the dictionary is copied under the lock, its values are *)
(* the breaker's objects.                                                  *)
PersistCopy(t) ==
  /\ LockFree
  /\ saver[t].stage = "copy"
  /\ saver' = [saver EXCEPT ![t] =
       [stage |-> "wait", live |-> tracked, gone |-> NoStates,
        at |-> [v \in Versions |-> IF v \in tracked THEN 1 ELSE AllRead],
        file |-> [v \in Versions |-> IF v \in tracked THEN NewCircuit ELSE None]]]
  /\ UNCHANGED <<persistent, tracked, circuit, before, stuck, disk, warned>>

(* save_state, one thread at a time: the lock of the persistence is had.   *)
SaveBegin(t) ==
  /\ saver[t].stage = "wait"
  /\ \A u \in Savers : saver[u].stage # "save"
  /\ saver' = [saver EXCEPT ![t].stage = "save"]
  /\ UNCHANGED <<persistent, tracked, circuit, before, stuck, disk, warned>>

(* What thread t may find when it reads the state of v: what it is, or was *)
(* before the operation that is changing it.                               *)
Readable(t, v) ==
  (IF v \in saver[t].live THEN {circuit[v], before[v]} ELSE {saver[t].gone[v]}) \ {None}

(* save_state reads the next field, of one version after the other.        *)
SaveRead(t, v) ==
  /\ saver[t].stage = "save"
  /\ saver[t].at[v] # AllRead
  /\ \A w \in Versions \ {v} : saver[t].at[w] \in {1, AllRead}
  /\ \E c \in Readable(t, v) :
       LET f == Fields[saver[t].at[v]] IN
       saver' = [saver EXCEPT ![t].at[v] = @ + 1, ![t].file[v] = [@ EXCEPT ![f] = c[f]]]
  /\ UNCHANGED <<persistent, tracked, circuit, before, stuck, disk, warned>>

(* save_state returns True: the file is replaced as a whole.               *)
SaveWrite(t) ==
  /\ saver[t].stage = "save"
  /\ \A v \in Versions : saver[t].at[v] = AllRead
  /\ disk' = saver[t].file
  /\ warned' = FALSE
  /\ saver' = [saver EXCEPT ![t] = IdleSaver]
  /\ UNCHANGED <<persistent, tracked, circuit, before, stuck>>

(* save_state returns False after any exception, which _persist_state does *)
(* not look at: the file is what it was.                                   *)
SaveFail(t) ==
  /\ saver[t].stage = "save"
  /\ warned' = TRUE
  /\ saver' = [saver EXCEPT ![t] = IdleSaver]
  /\ UNCHANGED <<persistent, tracked, circuit, before, stuck, disk>>

(* A state from the file: its cooldown is over at once, later (Elapse), or *)
(* begins again on a machine whose monotonic clock did.                    *)
Loaded(c) == [c EXCEPT !.cooled = (c.state = "closed")]

(* The process dies anywhere and starts again: _load_persisted_state. It   *)
(* drops an entry it cannot restore, and finds none in a file that         *)
(* load_state cannot read.                                                 *)
Restart ==
  \E loaded \in SUBSET {v \in Versions : disk[v] # None} :
    /\ tracked' = loaded
    /\ circuit' = [v \in Versions |-> IF v \in loaded THEN Loaded(disk[v]) ELSE NewCircuit]
    /\ before' = NoStates
    /\ stuck' = FALSE
    /\ warned' = (\E v \in Versions \ loaded : disk[v] # None)
    /\ saver' = [t \in Savers |-> IdleSaver]
    /\ UNCHANGED <<persistent, disk>>

(* A cooldown or an interval ends, a failure leaves the window. *)
Elapse(v) ==
  /\ \/ ~circuit[v].cooled /\ circuit' = [circuit EXCEPT ![v].cooled = TRUE]
     \/ ~circuit[v].spaced /\ circuit' = [circuit EXCEPT ![v].spaced = TRUE]
     \/ circuit[v].failures > 0 /\ circuit' = [circuit EXCEPT ![v].failures = @ - 1]
  /\ UNCHANGED <<persistent, tracked, before, stuck, disk, warned, saver>>

-----------------------------------------------------------------------------
BreakerNext ==
  \/ Restart
  \/ \E v \in Versions :
       \/ Written(v)
       \/ \E type \in Types : RecordFailure(v, type)
       \/ RecordSuccess(v)
       \/ CanAttemptRecovery(v) /\ PrepareRecovery(v)
       \/ AbortRecovery(v)
       \/ Elapse(v)
       \/ \E t \in Savers : ForceClose(t, v) \/ RemoveState(t, v) \/ SaveRead(t, v)
  \/ \E t \in Savers :
       PersistCopy(t) \/ SaveBegin(t) \/ SaveWrite(t) \/ SaveFail(t)

BreakerSpec == BreakerInit /\ [][BreakerNext]_breakerVars

-----------------------------------------------------------------------------
BreakerTypeOK ==
  /\ persistent \in BOOLEAN
  /\ tracked \subseteq Versions
  /\ circuit \in [Versions -> CircuitStates]
  /\ before \in [Versions -> CircuitStates \cup {None}]
  /\ stuck \in BOOLEAN
  /\ disk \in [Versions -> CircuitStates \cup {None}]
  /\ warned \in BOOLEAN
  /\ saver \in [Savers -> [stage : {"idle", "copy", "wait", "save"},
                           live : SUBSET Versions,
                           gone : [Versions -> CircuitStates \cup {None}],
                           at   : [Versions -> 1..AllRead],
                           file : [Versions -> CircuitStates \cup {None}]]]

BelowThresholds(c) ==
  /\ c.failures < FailureThreshold
  /\ c.unhealthy < UnhealthyThreshold
  /\ c.timeouts < TimeoutThreshold

(* A closed circuit is below every threshold: no version keeps serving     *)
(* with a count that should have tripped it. A file may bring back one     *)
(* that is not (FailuresTrip), so this is of a breaker without one.        *)
ClosedBelowThresholds ==
  \A v \in Versions : circuit[v].state = "closed" => BelowThresholds(circuit[v])

(* A torn entry of the file can bring a closed circuit back with a count   *)
(* at its threshold. That is the only way to one, and it lasts until the   *)
(* next failure at most: whatever order failures, successes, recoveries,   *)
(* removals, saves and restarts come in, no failure is counted that leaves *)
(* a circuit closed at a threshold.                                        *)
FailuresTrip ==
  [][\A v \in Versions :
       circuit[v]'.state = "closed" /\ ~BelowThresholds(circuit[v]') =>
         \/ Restart
         \/ /\ circuit[v].state = "closed" /\ ~BelowThresholds(circuit[v])
            /\ circuit[v]'.failures <= circuit[v].failures]_breakerVars

(* "Max recovery attempts before permanent disable": an open circuit that  *)
(* has used them up stays open until an admin resets the attempts or the   *)
(* version is removed, or the process dies: what it comes back with is     *)
(* what the file says, and a trip is not saved.                            *)
PermanentlyDisabled ==
  [][\A v \in Versions :
       circuit[v].state = "open" /\ circuit[v].attempts >= MaxAttempts =>
         circuit[v]'.state = "open" \/ circuit[v]'.attempts = 0 \/ Restart]_breakerVars

(* "State is loaded on startup and saved on significant changes": once no  *)
(* save is under way a version whose state was removed is not in the file, *)
(* unless the log has told of a load or a save that failed and no save has *)
(* gone through since.                                                     *)
RemovedIsForgotten ==
  (\A t \in Savers : saver[t].stage = "idle") /\ ~warned =>
    \A v \in Versions : disk[v] # None => v \in tracked
=============================================================================
