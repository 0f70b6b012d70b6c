-------------------------- MODULE MCCircuitBreaker --------------------------
(* Small instances of CircuitBreaker for TLC. *)
EXTENDS CircuitBreaker, TLC

CONSTANTS v1, v2, t1, t2

OneVersion  == {v1}
TwoVersions == {v1, v2}
OneSaver    == {t1}
TwoSavers   == {t1, t2}

VersionSymmetry == Permutations(TwoVersions)

(* Torn entries loaded again and again raise a count without end: no count *)
(* goes beyond MaxCount.                                                   *)
CONSTANT MaxCount
CountsBounded ==
  \A v \in Versions : circuit[v].timeouts <= MaxCount /\ circuit[v].unhealthy <= MaxCount

BoundedSpec == BreakerInit /\ [][BreakerNext /\ CountsBounded']_breakerVars

-----------------------------------------------------------------------------
(* What the policy says and the code does not keep: TLC refutes each.      *)

(* "Save outside lock to avoid blocking": no thread waits for the lock of  *)
(* the breaker while it holds it.                                          *)
NeverSelfDeadlocked == ~stuck

(* "failure_threshold: Failures before circuit opens": a closed circuit    *)
(* opens only when a count is at its threshold.                            *)
TripsAtThreshold ==
  [][\A v \in Versions :
       circuit[v].state = "closed" /\ circuit[v]'.state = "open" =>
         \/ circuit[v]'.failures >= FailureThreshold
         \/ circuit[v]'.unhealthy >= UnhealthyThreshold
         \/ circuit[v]'.timeouts >= TimeoutThreshold]_breakerVars

(* "Max recovery attempts before permanent disable": for good is until the *)
(* next restart. The trips and attempts since the last forced closing or   *)
(* removal, of any version, are not in the file.                           *)
DisabledAcrossRestart ==
  [][\A v \in Versions :
       circuit[v].state = "open" /\ circuit[v].attempts >= MaxAttempts =>
         circuit[v]'.state = "open" \/ circuit[v]'.attempts = 0]_breakerVars

(* "saved on significant changes": a removed version is not in the file    *)
(* once no save is under way. A save that fails leaves it there, and is    *)
(* not tried again.                                                        *)
RemovedStaysForgotten ==
  (\A t \in Savers : saver[t].stage = "idle") =>
    \A v \in Versions : disk[v] # None => v \in tracked

(* "half_open_timeout_seconds: Time to allow half-open testing": no        *)
(* circuit is half open for ever.                                          *)
FairBreakerSpec == BoundedSpec /\ \A v \in Versions : WF_breakerVars(Elapse(v))
HalfOpenEnds ==
  \A v \in Versions : circuit[v].state = "half_open" ~> circuit[v].state # "half_open"
=============================================================================
