----------------------------- MODULE Admission -----------------------------
(***************************************************************************)
(* What admission control promises its callers (the header of              *)
(* ai/runtime/concurrency.py): at most Capacity requests run at a time,    *)
(* each is let in once and leaves once, and once the runtime is closing    *)
(* nobody is let in any more.                                              *)
(***************************************************************************)
EXTENDS Integers, FiniteSets

CONSTANTS Slots, Capacity

VARIABLES
  inflight,  \* the requests that run
  closed     \* shutdown has begun

Init == inflight = {} /\ closed = FALSE

Admit(s) ==
  /\ ~closed
  /\ s \notin inflight
  /\ Cardinality(inflight) < Capacity
  /\ inflight' = inflight \cup {s}
  /\ UNCHANGED closed

Leave(s) ==
  /\ s \in inflight
  /\ inflight' = inflight \ {s}
  /\ UNCHANGED closed

Close ==
  /\ closed' = TRUE
  /\ UNCHANGED inflight

Next == Close \/ \E s \in Slots : Admit(s) \/ Leave(s)

Spec == Init /\ [][Next]_<<inflight, closed>>
=============================================================================
