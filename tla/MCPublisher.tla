---------------------------- MODULE MCPublisher -----------------------------
(* Constants of the publisher run, and statements of the code that the run *)
(* refutes (README, section 7): TLC violates each one when it is checked.  *)
EXTENDS Publisher

CONSTANTS v1, v2
OneVersion  == {v1}
TwoVersions == {v1, v2}

(* "This prevents the backend from routing requests to a shutting-down     *)
(* runtime" (deregister_runtime): what has left is not listed again.       *)
StaysUnlisted ==
  [][\A p \in Procs :
       p = proc /\ phase \in {"closed", "down"} /\ listed[p] = Unlisted => listed'[p] = Unlisted]_publisherVars

(* "usually only one" (health_service.py, which takes the first one of the *)
(* registered runtimes): a process that has ended is not listed for ever.  *)
DeadIsUnlisted ==
  \A p \in Procs : (proc = p /\ phase = "down") ~> listed[p] = Unlisted
=============================================================================
