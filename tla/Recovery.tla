------------------------------ MODULE Recovery ------------------------------
(***************************************************************************)
(* RecoveryManager (ai/runtime/recovery.py) over the circuit breaker and   *)
(* the load state of each version in the registry, as create_recovery_     *)
(* stack wires them, with the loader that picks a re-enabled version up.   *)
(* The breaker runs without its file here: with it the first trip holds    *)
(* the breaker's lock for ever (MCCircuitBreaker, NeverSelfDeadlocked).    *)
(*                                                                         *)
(* Each thread does one operation at a time, and every call it makes into  *)
(* the breaker or the registry is a step of its own.                       *)
(***************************************************************************)
EXTENDS CircuitBreaker

CONSTANT Threads

ASSUME HolderAssumption == None \notin Threads

VARIABLES
  registry,  \* the load state of each version, "absent" when unregistered
  holder,    \* the thread that holds RecoveryManager._lock, or None
  task       \* what each thread is doing

vars == <<breakerVars, registry, holder, task>>

LoadStates == {"absent", "discovered", "loading", "ready", "failed", "disabled"}

(* "disable": wants to disable; "marking": will write DISABLED; "enable",  *)
(* "force": has checked and will prepare; "update": will write DISCOVERED; *)
(* "loading": will write the outcome; "loaded", "failed": will notify.     *)
Steps == {"idle", "disable", "marking", "enable", "force", "update",
          "loading", "loaded", "failed"}

Tasks == [step : Steps, version : Versions \cup {None}]
NoTask == [step |-> "idle", version |-> None]
Task(step, v) == [step |-> step, version |-> v]

Init ==
  /\ BreakerInit
  /\ ~persistent
  /\ registry = [v \in Versions |-> "discovered"]
  /\ holder = None
  /\ task = [t \in Threads |-> NoTask]

Busy(v, steps) == {t \in Threads : task[t].version = v /\ task[t].step \in steps}

(* registry.update_state: no state is refused, an absent version is.       *)
UpdateState(v, state) ==
  registry' = [registry EXCEPT ![v] = IF @ = "absent" THEN @ ELSE state]

-----------------------------------------------------------------------------
(* A failure is reported; the thread whose report trips the circuit goes   *)
(* on to the callback of create_recovery_stack.                            *)
Report(t, v, type) ==
  /\ task[t] = NoTask
  /\ RecordFailure(v, type)
  /\ task' = [task EXCEPT ![t] = IF Trips(v, type) THEN Task("disable", v) ELSE @]
  /\ UNCHANGED <<registry, holder>>

(* A success is reported. *)
Succeed(v) ==
  /\ RecordSuccess(v)
  /\ UNCHANGED <<registry, holder, task>>

(* An admin disables a version by hand. *)
ManualDisable(t, v) ==
  /\ task[t] = NoTask
  /\ task' = [task EXCEPT ![t] = Task("disable", v)]
  /\ UNCHANGED <<breakerVars, registry, holder>>

\* Mutant: the test of the state is made before the manager's lock.
DisableBegin_Mutant(t, v) ==
  /\ task[t] = Task("disable", v)
  /\ IF registry[v] \in {"absent", "disabled"}
     THEN task' = [task EXCEPT ![t] = NoTask] /\ UNCHANGED holder
     ELSE /\ holder = None
          /\ holder' = t /\ task' = [task EXCEPT ![t] = Task("marking", v)]
  /\ UNCHANGED <<breakerVars, registry>>

(* disable_model up to the transition. *)
DisableBegin(t, v) ==
  /\ task[t] = Task("disable", v)
  /\ holder = None
  /\ IF registry[v] \in {"absent", "disabled"}
     THEN task' = [task EXCEPT ![t] = NoTask] /\ UNCHANGED holder
     ELSE holder' = t /\ task' = [task EXCEPT ![t] = Task("marking", v)]
  /\ UNCHANGED <<breakerVars, registry>>

(* disable_model: mark_disabled, and the lock is released.                 *)
DisableMark(t, v) ==
  /\ task[t] = Task("marking", v)
  /\ UpdateState(v, "disabled")
  /\ holder' = None
  /\ task' = [task EXCEPT ![t] = NoTask]
  /\ UNCHANGED breakerVars

-----------------------------------------------------------------------------
(* enable_model refuses a version that is not disabled, and without force  *)
(* one whose recovery the breaker does not allow.                          *)
EnableAllowed(v, force) ==
  registry[v] = "disabled" /\ (force \/ CanAttemptRecovery(v))

\* Mutant: the checks are made outside the manager's lock.
EnableBegin_Mutant(t, v, force) ==
  /\ task[t] = NoTask
  /\ EnableAllowed(v, force)
  /\ holder' = t
  /\ task' = [task EXCEPT ![t] = Task(IF force THEN "force" ELSE "enable", v)]
  /\ UNCHANGED <<breakerVars, registry>>

(* enable_model up to its checks. *)
EnableBegin(t, v, force) ==
  /\ task[t] = NoTask
  /\ holder = None
  /\ EnableAllowed(v, force)
  /\ holder' = t
  /\ task' = [task EXCEPT ![t] = Task(IF force THEN "force" ELSE "enable", v)]
  /\ UNCHANGED <<breakerVars, registry>>

(* enable_model: force_close, which does nothing without a state.          *)
EnableForce(t, v) ==
  /\ task[t] = Task("force", v)
  /\ Write(v, IF v \in tracked THEN ForceClosed(circuit[v]) ELSE circuit[v])
  /\ task' = [task EXCEPT ![t] = Task("update", v)]
  /\ UNCHANGED <<persistent, tracked, stuck, disk, warned, saver, registry, holder>>

(* enable_model: prepare_recovery, or the refusal when it fails.           *)
EnablePrepare(t, v) ==
  /\ task[t] = Task("enable", v)
  /\ IF v \in tracked /\ circuit[v].state = "open"
     THEN /\ PrepareRecovery(v)
          /\ task' = [task EXCEPT ![t] = Task("update", v)]
          /\ UNCHANGED holder
     ELSE /\ task' = [task EXCEPT ![t] = NoTask]
          /\ holder' = None
          /\ UNCHANGED breakerVars
  /\ UNCHANGED registry

(* enable_model: the version goes to DISCOVERED, or, when it is gone, the  *)
(* recovery is aborted; the lock is released.                              *)
EnableUpdate(t, v) ==
  /\ task[t] = Task("update", v)
  /\ UpdateState(v, "discovered")
  /\ IF registry[v] = "absent" THEN AbortRecovery(v) ELSE UNCHANGED breakerVars
  /\ holder' = None
  /\ task' = [task EXCEPT ![t] = NoTask]

-----------------------------------------------------------------------------
(* The loader picks a discovered version up. *)
StartLoad(t, v) ==
  /\ task[t] = NoTask
  /\ registry[v] = "discovered"
  /\ UpdateState(v, "loading")
  /\ task' = [task EXCEPT ![t] = Task("loading", v)]
  /\ UNCHANGED <<breakerVars, holder>>

(* The load ends: its outcome is written whatever the state is by then.    *)
FinishLoad(t, v) ==
  /\ task[t] = Task("loading", v)
  /\ \/ UpdateState(v, "ready") /\ task' = [task EXCEPT ![t] = Task("loaded", v)]
     \/ UpdateState(v, "failed") /\ task' = [task EXCEPT ![t] = Task("failed", v)]
  /\ UNCHANGED <<breakerVars, holder>>

(* notify_load_success *)
NotifyLoadSuccess(t, v) ==
  /\ task[t] = Task("loaded", v)
  /\ RecordSuccess(v)
  /\ task' = [task EXCEPT ![t] = NoTask]
  /\ UNCHANGED <<registry, holder>>

(* notify_load_failure, up to its call of disable_model. *)
NotifyLoadFailure(t, v) ==
  /\ task[t] = Task("failed", v)
  /\ AbortRecovery(v)
  /\ task' = [task EXCEPT ![t] = Task("disable", v)]
  /\ UNCHANGED <<registry, holder>>

(* registry.unregister_version *)
Unregister(v) ==
  /\ registry[v] # "absent"
  /\ registry' = [registry EXCEPT ![v] = "absent"]
  /\ UNCHANGED <<breakerVars, holder, task>>

TimePasses(v) == Elapse(v) /\ UNCHANGED <<registry, holder, task>>

-----------------------------------------------------------------------------
(* The rest of an operation once it has begun. *)
Continue(t) ==
  \E v \in Versions :
    \/ DisableBegin(t, v) \/ DisableMark(t, v)
    \/ EnableForce(t, v) \/ EnablePrepare(t, v) \/ EnableUpdate(t, v)
    \/ FinishLoad(t, v) \/ NotifyLoadSuccess(t, v) \/ NotifyLoadFailure(t, v)

Begin(t) ==
  \E v \in Versions :
    \/ \E type \in Types : Report(t, v, type)
    \/ ManualDisable(t, v)
    \/ \E force \in BOOLEAN : EnableBegin(t, v, force)
    \/ StartLoad(t, v)

Next ==
  \/ \E t \in Threads : Begin(t) \/ Continue(t)
  \/ \E v \in Versions : Succeed(v) \/ Unregister(v) \/ TimePasses(v)

Spec == Init /\ [][Next]_vars

-----------------------------------------------------------------------------
TypeOK ==
  /\ BreakerTypeOK
  /\ registry \in [Versions -> LoadStates]
  /\ holder \in Threads \cup {None}
  /\ task \in [Threads -> Tasks]

(* can_attempt_recovery and prepare_recovery take the breaker's lock one   *)
(* after the other, and yet what the first allowed still holds when the    *)
(* second acts: no recovery starts inside a cooldown, inside the minimum   *)
(* interval or beyond the maximum of attempts.                             *)
RecoveryIsAllowed ==
  [][\A v \in Versions :
       circuit[v].state = "open" /\ circuit[v]'.state = "half_open" =>
         CanAttemptRecovery(v)]_vars

(* "max_recovery_attempts" bounds the attempts between two admin resets.   *)
AttemptsBounded == \A v \in Versions : circuit[v].attempts <= MaxAttempts

(* A version whose circuit is open is not left for the loader to pick up,  *)
(* unless the thread that tripped it is about to disable it: a trip that   *)
(* races a re-enable is never lost.                                        *)
OpenIsNotReloaded ==
  \A v \in Versions : circuit[v].state = "open" /\ registry[v] = "discovered" =>
    Busy(v, {"disable", "marking"}) # {}

(* The manager's lock is held exactly by the operation in progress.        *)
LockHeldByOne ==
  \A t \in Threads : holder = t <=> task[t].step \in {"marking", "enable", "force", "update"}
=============================================================================
