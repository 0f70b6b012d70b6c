----------------------------- MODULE MCRecovery -----------------------------
(* Small instances of Recovery for TLC. *)
EXTENDS Recovery

CONSTANTS v1, t1, t2, t3

OneVersion   == {v1}
TwoThreads   == {t1, t2}
ThreeThreads == {t1, t2, t3}

-----------------------------------------------------------------------------
(* What comments and answers say and the code does not keep: TLC refutes   *)
(* each.                                                                   *)

(* "OPEN: Tripped, model should be disabled": with no operation under way  *)
(* on a version, an open circuit means that the version is disabled.       *)
OpenMeansDisabled ==
  \A v \in Versions : circuit[v].state = "open" /\ Busy(v, Steps \ {"idle"}) = {} =>
    registry[v] \in {"disabled", "absent"}

(* Operations that have begun end, and time passes.                        *)
FairSpec ==
  /\ Spec
  /\ \A t \in Threads : SF_vars(Continue(t))
  /\ \A v \in Versions : WF_vars(TimePasses(v))

(* can_recover *)
CanRecover(v) == registry[v] = "disabled" /\ (CanAttemptRecovery(v) \/ v \notin tracked)

(* "No circuit breaker state, recovery allowed": what can_recover allows   *)
(* enable_model grants.                                                    *)
CanRecoverIsHonest ==
  \A v \in Versions : CanRecover(v) => EnableAllowed(v, FALSE)

(* enable_model answers "Recovery cooldown not elapsed": the version is    *)
(* refused although attempts are left.                                     *)
RefusedForCooldown(v) ==
  /\ registry[v] = "disabled"
  /\ ~CanAttemptRecovery(v)
  /\ circuit[v].attempts < MaxAttempts

(* That answer is only given until the cooldown has elapsed.               *)
CooldownRefusalEnds ==
  \A v \in Versions : RefusedForCooldown(v) ~> ~RefusedForCooldown(v)
=============================================================================
