---------------------------- MODULE MCConcurrency ----------------------------
(* Small instances of Concurrency for TLC. *)
EXTENDS Concurrency, TLC

CONSTANTS m1, m2, v1, v2, s1, s2, s3, c1, c2

TwoModels   == {m1, m2}
OneModel    == {m1}
TwoVersions == {v1, v2}
OneVersion  == {v1}
TwoSlots    == {s1, s2}
ThreeSlots  == {s1, s2, s3}
TwoCallers  == {c1, c2}
OneCaller   == {c1}

(* Models, versions, slots and callers are only compared for equality. *)
Symmetry == Permutations(TwoModels) \cup Permutations(TwoVersions)
            \cup Permutations(ThreeSlots) \cup Permutations(TwoCallers)

-----------------------------------------------------------------------------
(* What the header of the file says and the code does not keep: TLC        *)
(* refutes it (and GlobalLimitEnforced, PerModelLimitsEnforced and         *)
(* ReleaseIdempotent) of Spec.                                             *)

(* "No blocking operations": no thread waits for the manager's lock while  *)
(* it holds it.                                                            *)
NeverSelfDeadlocked == ~stuck
=============================================================================
