------------------------------ MODULE Sessions ------------------------------
(***************************************************************************)
(* What the backend's requests do to the inference sessions (the rows of   *)
(* stream_sessions) as every other transaction sees them: a session        *)
(* appears LIVE, with its stream, and once it is over it stays over.       *)
(* Streams implements it; InferenceLoop reads it.                          *)
(***************************************************************************)
CONSTANTS Sessions, Devices, DeviceOf

ASSUME DeviceAssumption == DeviceOf \in [Sessions -> Devices]

VARIABLE session  \* the committed state of each session, "absent" before

SessionStates == {"absent", "live", "over"}

SessionsInit == session = [s \in Sessions |-> "absent"]

(* start_stream commits. *)
GoLive(s) == session[s] = "absent" /\ session' = [session EXCEPT ![s] = "live"]

(* A stop, or a report of an error, commits. *)
GoOver(s) == session[s] = "live" /\ session' = [session EXCEPT ![s] = "over"]

SessionsNext == \E s \in Sessions : GoLive(s) \/ GoOver(s)

SessionsSpec == SessionsInit /\ [][SessionsNext]_session

SessionsTypeOK == session \in [Sessions -> SessionStates]
=============================================================================
