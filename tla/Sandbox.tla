------------------------------ MODULE Sandbox ------------------------------
(***************************************************************************)
(* ExecutionSandbox, its TimeoutExecutor and SandboxManager                *)
(* (ai/runtime/sandbox.py) for one model version.                          *)
(*                                                                         *)
(* The manager holds at most one box for the version.  A new one replaces  *)
(* it, and requests that already hold the old one go on with it.  A box    *)
(* runs the model's stages one by one on its own pool of worker threads;   *)
(* a stage that exceeds its timeout is abandoned: the caller goes on, a    *)
(* queued task is cancelled, and a running one keeps its worker (a zombie) *)
(* until the model's code returns, if it ever does.  The outcome of every  *)
(* execution moves the health of its box under the lock of the box; a      *)
(* change is reported through the callback after the lock is released.     *)
(***************************************************************************)
EXTENDS Integers, Sequences, FiniteSets, SequencesExt

CONSTANTS
  Threads,             \* callers of SandboxManager.execute
  MaxBoxes,            \* bound: boxes ever created for the version
  Stages,              \* stages of the model: preprocess?, infer, postprocess?
  Workers,             \* max_workers of a box's executor
  DegradedThreshold, UnhealthyThreshold, RecoveryThreshold,
  None

Boxes  == 1..MaxBoxes
Health == {"healthy", "degraded", "unhealthy"}

ASSUME SandboxAssumption ==
  /\ IsFiniteSet(Threads)
  /\ MaxBoxes \in Nat \ {0} /\ Stages \in 1..3 /\ Workers \in Nat \ {0}
  /\ DegradedThreshold \in Nat \ {0} /\ UnhealthyThreshold \in Nat
  /\ DegradedThreshold <= UnhealthyThreshold
  /\ RecoveryThreshold \in Nat /\ RecoveryThreshold >= 2
  /\ None \notin Boxes

VARIABLES
  live,     \* SandboxManager._sandboxes: the version's box, or None
  made,     \* number of boxes created
  closing,  \* boxes taken out of the manager and not shut down yet
  open,     \* open[b]: the executor of b is not shut down
  queue,    \* queue[b]: callers whose task waits for a worker of b
  runs,     \* runs[b]: callers whose task runs on a worker of b
  zombies,  \* zombies[b]: workers of b held by abandoned tasks
  health,   \* health[b]: _current_health
  fails,    \* fails[b]: consecutive_failures, up to UnhealthyThreshold
  succs,    \* succs[b]: consecutive_successes, up to RecoveryThreshold
  pc,       \* pc[t]: where the execution of caller t stands
  box,      \* box[t]: the box it runs in
  stage,    \* stage[t]: the stage it is at
  change,   \* change[t]: the change of health t has to report
  told,     \* told[b][h]: reports of b's entering h less those of leaving h
  cured     \* the model's code no longer fails or hangs (environment)

pool   == <<queue, runs, zombies>>
record == <<health, fails, succs>>
vars   == <<live, made, closing, open, pool, record, pc, box, stage, change, told, cured>>

NoChange == [old |-> "healthy", new |-> "healthy"]

Init ==
  /\ live = None /\ made = 0 /\ closing = {}
  /\ open    = [b \in Boxes |-> FALSE]
  /\ queue   = [b \in Boxes |-> <<>>]
  /\ runs    = [b \in Boxes |-> {}]
  /\ zombies = [b \in Boxes |-> 0]
  /\ health  = [b \in Boxes |-> "healthy"]
  /\ fails   = [b \in Boxes |-> 0]
  /\ succs   = [b \in Boxes |-> 0]
  /\ pc      = [t \in Threads |-> "idle"]
  /\ box     = [t \in Threads |-> None]
  /\ stage   = [t \in Threads |-> 1]
  /\ change  = [t \in Threads |-> NoChange]
  /\ told    = [b \in Boxes |-> [h \in Health |-> 0]]
  /\ cured   = FALSE

-----------------------------------------------------------------------------
(* SandboxManager.                                                         *)

(* create_sandbox: the old box is shut down under the manager's lock.      *)
CreateSandbox ==
  /\ made < MaxBoxes
  /\ made' = made + 1
  /\ live' = made + 1
  /\ open' = [b \in Boxes |-> (open[b] /\ b # live) \/ b = made + 1]
  /\ UNCHANGED <<closing, pool, record, pc, box, stage, change, told, cured>>

(* remove_sandbox and shutdown_all take the box out under the lock ...     *)
RemoveSandbox ==
  /\ live # None
  /\ live' = None
  /\ closing' = closing \union {live}
  /\ UNCHANGED <<made, open, pool, record, pc, box, stage, change, told, cured>>

\* Mutant: the box that was taken out is not shut down.
Shutdown_Mutant(b) ==
  /\ b \in closing
  /\ closing' = closing \ {b}
  /\ UNCHANGED <<live, made, open, pool, record, pc, box, stage, change, told, cured>>

(* ... and shut it down, without waiting for its tasks, outside of it.     *)
Shutdown(b) ==
  /\ b \in closing
  /\ closing' = closing \ {b}
  /\ open' = [open EXCEPT ![b] = FALSE]
  /\ UNCHANGED <<live, made, pool, record, pc, box, stage, change, told, cured>>

-----------------------------------------------------------------------------
(* ExecutionSandbox.execute, stage by stage.                               *)

(* The caller holds the box the manager answered.                          *)
Execute(t) ==
  /\ pc[t] = "idle"
  /\ live # None
  /\ pc' = [pc EXCEPT ![t] = "stage"]
  /\ box' = [box EXCEPT ![t] = live]
  /\ stage' = [stage EXCEPT ![t] = 1]
  /\ UNCHANGED <<live, made, closing, open, pool, record, change, told, cured>>

(* execute_with_timeout submits the stage.  A shut down executor raises:   *)
(* at its own test, which the catch-all of execute counts as a failure, or *)
(* in submit, which fails the stage.                                       *)
Submit(t) ==
  /\ pc[t] = "stage"
  /\ IF open[box[t]]
       THEN /\ queue' = [queue EXCEPT ![box[t]] = Append(@, t)]
            /\ pc' = [pc EXCEPT ![t] = "waiting"]
       ELSE /\ pc' = [pc EXCEPT ![t] = "failed"]
            /\ UNCHANGED queue
  /\ UNCHANGED <<live, made, closing, open, runs, zombies, record, box, stage, change, told, cured>>

(* max_workers of the thread pool; an abandoned task keeps its worker.     *)
HasWorker(b) == Cardinality(runs[b]) + zombies[b] < Workers

(* A free worker takes the oldest task, of a closed executor too.          *)
Start(b) ==
  /\ queue[b] # <<>>
  /\ HasWorker(b)
  /\ runs' = [runs EXCEPT ![b] = @ \union {Head(queue[b])}]
  /\ queue' = [queue EXCEPT ![b] = Tail(@)]
  /\ UNCHANGED <<live, made, closing, open, zombies, record, pc, box, stage, change, told, cured>>

Return(t) ==
  /\ pc[t] = "waiting" /\ t \in runs[box[t]]
  /\ runs' = [runs EXCEPT ![box[t]] = @ \ {t}]
  /\ UNCHANGED <<live, made, closing, open, queue, zombies, record, box, change, told, cured>>

(* The stage answers in time: the next one follows, or success.            *)
Answers(t) ==
  /\ Return(t)
  /\ IF stage[t] < Stages
       THEN stage' = [stage EXCEPT ![t] = @ + 1] /\ pc' = [pc EXCEPT ![t] = "stage"]
       ELSE pc' = [pc EXCEPT ![t] = "succeeded"] /\ UNCHANGED stage

(* The stage raises, or infer answers something that is not a dict.        *)
Raises(t) ==
  /\ ~cured
  /\ Return(t)
  /\ pc' = [pc EXCEPT ![t] = "failed"]
  /\ UNCHANGED stage

\* Mutant: the time limit applies to a task that runs, not to one that waits.
MayTimeOut_Mutant(t) == ~cured /\ t \in runs[box[t]]

(* A cured model answers in time, if it gets a worker.                     *)
MayTimeOut(t) == ~cured \/ zombies[box[t]] = Workers

(* The queue without the task of t, which is in it once at most.           *)
Without(q, t) ==
  IF t \in Range(q) THEN RemoveAt(q, CHOOSE i \in DOMAIN q : q[i] = t) ELSE q

(* The timeout: a queued task is cancelled, a running one becomes a zombie.*)
TimesOut(t) ==
  /\ pc[t] = "waiting"
  /\ MayTimeOut(t)
  /\ LET b == box[t] IN
       /\ queue' = [queue EXCEPT ![b] = Without(@, t)]
       /\ runs' = [runs EXCEPT ![b] = @ \ {t}]
       /\ zombies' = [zombies EXCEPT ![b] = IF t \in runs[b] THEN @ + 1 ELSE @]
  /\ pc' = [pc EXCEPT ![t] = "failed"]
  /\ UNCHANGED <<live, made, closing, open, record, box, stage, change, told, cured>>

(* The code of an abandoned task returns, and nobody reads the result.     *)
ZombieEnds(b) ==
  /\ zombies[b] > 0
  /\ zombies' = [zombies EXCEPT ![b] = @ - 1]
  /\ UNCHANGED <<live, made, closing, open, queue, runs, record, pc, box, stage, change, told, cured>>

-----------------------------------------------------------------------------
(* Health.                                                                 *)

\* Mutant: there is no way back to HEALTHY.
DetermineHealth_Mutant(h, f, s) ==
  CASE f >= UnhealthyThreshold -> "unhealthy"
    [] f < UnhealthyThreshold /\ f >= DegradedThreshold -> "degraded"
    [] /\ f < DegradedThreshold /\ h = "unhealthy"
       /\ s >= RecoveryThreshold \div 2 -> "degraded"
    [] OTHER -> h

(* HealthManager.determine_health.                                         *)
DetermineHealth(h, f, s) ==
  CASE f >= UnhealthyThreshold -> "unhealthy"
    [] f < UnhealthyThreshold /\ f >= DegradedThreshold -> "degraded"
    [] f < DegradedThreshold /\ h # "healthy" /\ s >= RecoveryThreshold -> "healthy"
    [] /\ f < DegradedThreshold /\ h = "unhealthy"
       /\ s < RecoveryThreshold /\ s >= RecoveryThreshold \div 2 -> "degraded"
    [] OTHER -> h

UpTo(n, limit) == IF n < limit THEN n ELSE limit

\* Mutant: a success keeps the failures before it.
FailStreak_Mutant(b, ok) == IF ok THEN fails[b] ELSE UpTo(fails[b] + 1, UnhealthyThreshold)

(* record_success, record_failure: the streaks of b after one more outcome.*)
FailStreak(b, ok) == IF ok THEN 0 ELSE UpTo(fails[b] + 1, UnhealthyThreshold)
SuccStreak(b, ok) == IF ok THEN UpTo(succs[b] + 1, RecoveryThreshold) ELSE 0

HealthAfter(b, ok) == DetermineHealth(health[b], FailStreak(b, ok), SuccStreak(b, ok))

\* Mutant: a change is a change from the health that was last reported.
OldHealth_Mutant(b) ==
  LET said == {h \in Health : told[b][h] + (IF h = "healthy" THEN 1 ELSE 0) > 0}
  IN  IF said = {} THEN health[b] ELSE CHOOSE h \in said : TRUE

(* The health a change is a change from: read under the same lock.         *)
OldHealth(b) == health[b]

(* execute returns.                                                        *)
Leave(t) ==
  /\ pc' = [pc EXCEPT ![t] = "idle"]
  /\ box' = [box EXCEPT ![t] = None]
  /\ stage' = [stage EXCEPT ![t] = 1]

(* _record_success, _record_failure: metrics and health under the lock of  *)
(* the box; a change is left to report.                                    *)
Record(t) ==
  /\ pc[t] \in {"succeeded", "failed"}
  /\ LET b   == box[t]
         ok  == pc[t] = "succeeded"
         new == HealthAfter(b, ok)
     IN  /\ fails'  = [fails EXCEPT ![b] = FailStreak(b, ok)]
         /\ succs'  = [succs EXCEPT ![b] = SuccStreak(b, ok)]
         /\ health' = [health EXCEPT ![b] = new]
         /\ IF new # OldHealth(b)
              THEN /\ change' = [change EXCEPT ![t] = [old |-> OldHealth(b), new |-> new]]
                   /\ pc' = [pc EXCEPT ![t] = "reporting"]
                   /\ UNCHANGED <<box, stage>>
              ELSE /\ Leave(t)
                   /\ UNCHANGED change
  /\ UNCHANGED <<live, made, closing, open, pool, told, cured>>

(* What one report adds to the count of h.                                 *)
Counts(c, h) == (IF c.new = h THEN 1 ELSE 0) - (IF c.old = h THEN 1 ELSE 0)

(* The callback, after the lock is released.                               *)
Report(t) ==
  /\ pc[t] = "reporting"
  /\ told' = [told EXCEPT ![box[t]] = [h \in Health |-> @[h] + Counts(change[t], h)]]
  /\ Leave(t)
  /\ change' = [change EXCEPT ![t] = NoChange]
  /\ UNCHANGED <<live, made, closing, open, pool, record, cured>>

(* The fault in the model or its input goes away.                          *)
Cure ==
  /\ ~cured
  /\ cured' = TRUE
  /\ UNCHANGED <<live, made, closing, open, pool, record, pc, box, stage, change, told>>

-----------------------------------------------------------------------------
(* The execution of t goes on, but for its report.                         *)
Proceed(t) ==
  Submit(t) \/ Answers(t) \/ Raises(t) \/ TimesOut(t) \/ Record(t)

(* The manager, the workers and the environment.                           *)
Background ==
  \/ CreateSandbox \/ RemoveSandbox \/ Cure
  \/ \E b \in Boxes : Shutdown(b) \/ Start(b) \/ ZombieEnds(b)
=============================================================================
