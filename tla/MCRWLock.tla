------------------------------ MODULE MCRWLock ------------------------------
(* Small instances of RWLock for TLC. *)
EXTENDS RWLock

CONSTANTS t1, t2, t3, t4

ThreeThreads == {t1, t2, t3}
FourThreads  == {t1, t2, t3, t4}

-----------------------------------------------------------------------------
(* What the documentation says and the code does not keep: TLC refutes it. *)

(* Even a mutex that always lets a woken reader through in the end.        *)
StrongSpec ==
  /\ FairSpec
  /\ \A t \in Threads :
       SF_vars(at[t] = "wokenRead" /\ ~ReadersBlocked /\ AcquireRead(t))

(* "Fair read-write lock ... After writer, readers can proceed again": a   *)
(* waiting reader eventually reads.                                        *)
ReadersNotStarved ==
  \A t \in Threads : at[t] = "waitRead" ~> at[t] = "reading"
=============================================================================
