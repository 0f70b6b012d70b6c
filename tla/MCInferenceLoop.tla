--------------------------- MODULE MCInferenceLoop --------------------------
(* Small instances: one or two sessions of one device, two or three tasks (which
   are interchangeable), at most one zone. *)
EXTENDS InferenceLoop, TLC

CONSTANTS s1, s2, d1, z1, k1, k2, k3

OneSession  == {s1}
TwoSessions == {s1, s2}
OneDevice   == {d1}
OneZone     == {z1}
TwoTasks    == {k1, k2}
ThreeTasks  == {k1, k2, k3}
SameDevice  == [s \in Sessions |-> d1]

Symmetry == Permutations(TaskIds)

-----------------------------------------------------------------------------
(* What comments say and the code does not keep: TLC refutes each.         *)

(* "Cancel all session tasks": stop() gets to its end. *)
StopCompletes == stopper.at # "failed"

(* "a cancelled task never reaches this line": the end of a cancelled task *)
(* takes nothing away that another session has published.                  *)
CancelledTakesNothing ==
  [][\A k \in TaskIds, d \in Devices :
       task[k].cancelled /\ task'[k] = Over /\ latest[d] \notin {None, task[k].session} =>
         latest'[d] = latest[d]]_vars

(* "If violation detected, create a violation record": a session that is   *)
(* in violation has a record.                                              *)
ViolationIsRecorded == \A s \in Sessions : seen[s].inViolation => rows[s] > 0
=============================================================================
