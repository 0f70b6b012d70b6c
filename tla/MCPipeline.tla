----------------------------- MODULE MCPipeline -----------------------------
(* Constants of the pipeline run, and statements of the code that the run  *)
(* refutes (README, section 7): TLC violates each one when it is checked.  *)
EXTENDS Pipeline

CONSTANTS t1, t2
TwoThreads == {t1, t2}

(* sandbox.py, module docstring: resource exhaustion is managed by         *)
(* admission control.  A slot is returned while the zombie runs on.        *)
SlotsBoundTheModel ==
  \A b \in Boxes : live = b => Cardinality(runs[b]) + zombies[b] <= active

(* A failure never improves the health of a box.                           *)
Rank(h) == CASE h = "healthy" -> 0 [] h = "degraded" -> 1 [] h = "unhealthy" -> 2
FailureNeverImproves ==
  [][\A b \in Boxes : fails'[b] > fails[b] => Rank(health'[b]) >= Rank(health[b])]_pvars

(* When no report is under way, the registry agrees with the live box.     *)
RegistryAgrees ==
  wired /\ live # None /\ registryHealth # "unknown"
    /\ (\A t \in Threads : pc[t] # "reporting") => registryHealth = health[live]

(* A version whose model works again becomes usable again.                 *)
UnhealthyReturns ==
  <>[](cured /\ available /\ live # None) => []<>(registryHealth # "unhealthy")
=============================================================================
