----------------------------- MODULE Pipeline ------------------------------
(***************************************************************************)
(* InferencePipeline.infer (ai/runtime/pipeline.py) for requests that name *)
(* one version, composed with the version's sandbox: the registry's entry  *)
(* is read twice, then a slot is taken, then the box is looked up, and     *)
(* each of these may find another state than the one before.  The health   *)
(* callback of the boxes, where it is set, writes the registry's health.   *)
(*                                                                         *)
(* The server's own route does not go this way: it asks the registry for   *)
(* the state alone and calls the sandbox, without a slot.                  *)
(***************************************************************************)
EXTENDS Sandbox

CONSTANTS
  Limit,          \* slots of the version (admission is modelled in Concurrency)
  AllowDegraded   \* allow_degraded

ASSUME PipelineAssumption == Limit \in Nat \ {0} /\ AllowDegraded \in BOOLEAN

VARIABLES
  wired,           \* the boxes are created with the callback
  available,       \* the registry's state of the version is READY
  registryHealth,  \* the registry's health of the version
  active,          \* slots taken
  req              \* req[t]: where the request of t stands

registry == <<available, registryHealth>>
pipeline == <<wired, registry, active, req>>
pvars    == <<vars, pipeline>>

PInit ==
  /\ Init
  /\ wired \in BOOLEAN
  /\ available = FALSE
  /\ registryHealth = "unknown"
  /\ active = 0
  /\ req = [t \in Threads |-> "idle"]

-----------------------------------------------------------------------------
(* The registry's entry.  main.py sets READY after the box is created, and *)
(* HEALTHY after that; any other state may follow at any time.             *)

MarkReady ==
  /\ ~available /\ live # None
  /\ available' = TRUE
  /\ UNCHANGED <<vars, wired, registryHealth, active, req>>

MarkHealthy ==
  /\ available /\ registryHealth = "unknown"
  /\ registryHealth' = "healthy"
  /\ UNCHANGED <<vars, wired, available, active, req>>

MarkUnavailable ==
  /\ available
  /\ available' = FALSE
  /\ UNCHANGED <<vars, wired, registryHealth, active, req>>

-----------------------------------------------------------------------------
(* infer.                                                                  *)

(* acceptable_health, and the tests of _check_model_state.                 *)
Acceptable == {"healthy"} \union (IF AllowDegraded THEN {"degraded"} ELSE {})
Eligible   == available /\ registryHealth \in Acceptable

(* _resolve_explicit: an ineligible version is answered with an error.     *)
Resolve(t) ==
  /\ req[t] = "idle"
  /\ Eligible
  /\ req' = [req EXCEPT ![t] = "resolved"]
  /\ UNCHANGED <<vars, wired, registry, active>>

(* _check_model_state, "defensive": the same tests a second time.  UNKNOWN *)
(* cannot come back, and passes here.                                      *)
Check(t) ==
  /\ req[t] = "resolved"
  /\ req' = [req EXCEPT ![t] =
       IF available /\ registryHealth \in Acceptable \union {"unknown"}
         THEN "checked" ELSE "idle"]
  /\ UNCHANGED <<vars, wired, registry, active>>

TryAcquire(t) ==
  /\ req[t] = "checked"
  /\ IF active < Limit
       THEN active' = active + 1 /\ req' = [req EXCEPT ![t] = "admitted"]
       ELSE req' = [req EXCEPT ![t] = "idle"] /\ UNCHANGED active
  /\ UNCHANGED <<vars, wired, registry>>

(* get_sandbox and execute; without a box, PIPE_NO_SANDBOX.                *)
Enter(t) ==
  /\ req[t] = "admitted"
  /\ IF live = None
       THEN req' = [req EXCEPT ![t] = "releasing"] /\ UNCHANGED vars
       ELSE req' = [req EXCEPT ![t] = "executing"] /\ Execute(t)
  /\ UNCHANGED <<wired, registry, active>>

(* The report of a changed health, and what the callback does with it      *)
(* (HealthReporter._update_health), before execute returns.                *)
ReportHealth(t) ==
  /\ Report(t)
  /\ registryHealth' = IF wired THEN change[t].new ELSE registryHealth
  /\ UNCHANGED <<wired, available, active, req>>

(* The finally of infer.                                                   *)
Release(t) ==
  /\ req[t] = "releasing" \/ (req[t] = "executing" /\ pc[t] = "idle")
  /\ active' = active - 1
  /\ req' = [req EXCEPT ![t] = "idle"]
  /\ UNCHANGED <<vars, wired, registry>>

-----------------------------------------------------------------------------
(* What the request's own thread does; a blocked wait ends by TimesOut.    *)
Serve(t) ==
  \/ Check(t) \/ TryAcquire(t) \/ Enter(t) \/ ReportHealth(t) \/ Release(t)
  \/ (Submit(t) \/ TimesOut(t) \/ Record(t)) /\ UNCHANGED pipeline

PNext ==
  \/ \E t \in Threads : Resolve(t) \/ Serve(t)
  \/ (\E t \in Threads : Answers(t) \/ Raises(t)) /\ UNCHANGED pipeline
  \/ Background /\ UNCHANGED pipeline
  \/ MarkReady \/ MarkHealthy \/ MarkUnavailable

Safe == PInit /\ [][PNext]_pvars

(* A started thread goes on and its waits time out; a free worker takes    *)
(* the next task; requests keep coming; what is marked READY is marked     *)
(* HEALTHY.  The model's code, zombies too, returns once it is cured.      *)
Fairness ==
  /\ \A t \in Threads : /\ WF_pvars(Serve(t))
                        /\ WF_pvars(Resolve(t))
                        /\ WF_pvars(cured /\ Answers(t) /\ UNCHANGED pipeline)
  /\ \A b \in Boxes :   /\ WF_pvars((Start(b) \/ Shutdown(b)) /\ UNCHANGED pipeline)
                        /\ WF_pvars(cured /\ ZombieEnds(b) /\ UNCHANGED pipeline)
  /\ WF_pvars(MarkHealthy)

Spec == Safe /\ Fairness

-----------------------------------------------------------------------------
(* Properties.                                                             *)

(* The state has its type, a pool never runs more than its workers, and    *)
(* active counts the requests that hold a slot.                            *)
TypeOK ==
  /\ live \in Boxes \union {None} /\ made \in 0..MaxBoxes /\ closing \subseteq Boxes
  /\ open \in [Boxes -> BOOLEAN]
  /\ \A b \in Boxes :
       /\ Range(queue[b]) \subseteq Threads /\ runs[b] \subseteq Threads
       /\ zombies[b] \in 0..Workers
       /\ Cardinality(runs[b]) + zombies[b] <= Workers
       /\ health[b] \in Health
       /\ fails[b] \in 0..UnhealthyThreshold /\ succs[b] \in 0..RecoveryThreshold
  /\ pc \in [Threads -> {"idle", "stage", "waiting", "succeeded", "failed", "reporting"}]
  /\ box \in [Threads -> Boxes \union {None}]
  /\ stage \in [Threads -> 1..Stages]
  /\ registryHealth \in Health \union {"unknown"} /\ available \in BOOLEAN
  /\ req \in [Threads -> {"idle", "resolved", "checked", "admitted", "executing", "releasing"}]
  /\ active = Cardinality({t \in Threads : req[t] \in {"admitted", "executing", "releasing"}})
  /\ active <= Limit

(* The health of a box follows from its two streaks (HealthManager): a     *)
(* streak of failures is never survived in a better health than it allows, *)
(* and a bad health is never kept through the successes that end it.       *)
StreaksDecideHealth ==
  TypeOK /\ \A b \in Boxes :
    /\ fails[b] = 0 \/ succs[b] = 0
    /\ fails[b] >= UnhealthyThreshold => health[b] = "unhealthy"
    /\ fails[b] >= DegradedThreshold => health[b] # "healthy"
    /\ health[b] = "unhealthy" => succs[b] < RecoveryThreshold \div 2
    /\ health[b] = "degraded" => succs[b] < RecoveryThreshold

(* Reports that callers of b hold back, between the lock and the callback: *)
(* those of entering h less those of leaving it.                           *)
Reporting(b) == {t \in Threads : pc[t] = "reporting" /\ box[t] = b}
Owed(b, h) ==
  Cardinality({t \in Reporting(b) : change[t].new = h})
    - Cardinality({t \in Reporting(b) : change[t].old = h})

Indicator(condition) == IF condition THEN 1 ELSE 0

(* Every change of a box's health is reported exactly once, as what it was *)
(* (_record_success, _record_failure): told and held back, the reports lead*)
(* from HEALTHY to the health of now, in whichever order they arrive.      *)
ChangesReportedOnce ==
  \A b \in Boxes, h \in Health :
    told[b][h] + Owed(b, h) = Indicator(health[b] = h) - Indicator(h = "healthy")

(* infer always returns and leaves the sandbox, though the model hangs,    *)
(* its workers are all zombies, or the box goes away under the request.    *)
RequestEnds ==
  \A t \in Threads : (req[t] # "idle") ~> (req[t] = "idle" /\ box[t] = None)

(* Once the model's code returns, a box the manager no longer knows drains:*)
(* it is shut down, and no caller, task or zombie stays in it.             *)
RemovedGoesQuiet ==
  \A b \in Boxes :
    (cured /\ b <= made /\ live # b)
      ~> [](~open[b] /\ queue[b] = <<>> /\ runs[b] = {} /\ zombies[b] = 0)

(* A version whose model works again and which stays READY with a box is   *)
(* healthy in the end.  The one way out: its callback has told the registry*)
(* UNHEALTHY, no request is resolved any more, and nothing can tell other. *)
HealthReturns ==
  <>[](cured /\ available /\ live # None)
    => <>[](\/ (live # None /\ health[live] = "healthy")
           \/ (wired /\ registryHealth = "unhealthy"))
=============================================================================
