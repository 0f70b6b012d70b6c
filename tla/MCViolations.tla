---------------------------- MODULE MCViolations ----------------------------
(* Small instances: two requests at a time, one or two violations, two snapshots. *)
EXTENDS Violations

CONSTANTS r1, r2, v1, v2, e1, e2

TwoRequests   == {r1, r2}
OneViolation  == {v1}
TwoViolations == {v1, v2}
TwoSnapshots  == {e1, e2}

-----------------------------------------------------------------------------
(* What comments say and the code does not keep: TLC refutes each.         *)

(* "Violations are NEVER duplicated", "one open violation per              *)
(* device/session/type".                                                   *)
NeverDuplicated == Cardinality({v \in ViolationIds : status[v] \in Open}) <= 1

(* "VAS completes: status=ready".                                          *)
ReadyIsReady == \A e \in EvidenceIds : evidence[e].status = "ready" => vas[e] = "ready"

(* "If VAS fails: status=failed": no PENDING row is left behind.           *)
PendingSettles ==
  \A e \in EvidenceIds : evidence[e].status = "pending" ~> evidence[e].status # "pending"
=============================================================================
