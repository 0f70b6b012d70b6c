----------------------------- MODULE MCStreams ------------------------------
(* Small instances: one device, two sessions it may get, two or three requests,
   and which operations each request may be. *)
EXTENDS Streams

CONSTANTS s1, s2, d1, r1, r2, r3

TwoSessions   == {s1, s2}
OneDevice     == {d1}
SameDevice    == [s \in Sessions |-> d1]
TwoRequests   == {r1, r2}
ThreeRequests == {r1, r2, r3}

(* Two requests of any kind and one that lists. *)
TwoAndList == [r \in Requests |-> IF r = r3 THEN {"list"} ELSE Ops]
Routes     == [r \in Requests |-> {"start", "stop", "list"}]
AllOps     == [r \in Requests |-> Ops]

-----------------------------------------------------------------------------
(* What comments say and the code does not keep: TLC refutes each.         *)

(* "the next /devices request reflects the new session immediately instead *)
(* of waiting on TTL expiry": with no request under way the cache is fresh. *)
CacheIsFresh ==
  (\A r \in Requests : req[r] = Idle) => cache \in {None, ActiveDevices}

(* "Camera/RTSP failure - mark as error": a session that was created and   *)
(* is not being worked on is in the database. *)
FailedStartIsMarked ==
  \A s \in Sessions :
    started[s] # 0 /\ (\A r \in Requests : req[r].session # s) => db[s] # "absent"

(* VALID_TRANSITIONS between the committed states, and LIVE to STOPPED by  *)
(* stop_inference, which its comment explains.                             *)
ValidTransitions == [live |-> {"error", "stopped"}, stopped |-> {}, error |-> {"stopped"}]

(* "Enforces valid state transitions" *)
TransitionsValid ==
  [][\A s \in Sessions : db[s] # "absent" /\ db'[s] # db[s] =>
       db'[s] \in ValidTransitions[db[s]]]_vars
=============================================================================
