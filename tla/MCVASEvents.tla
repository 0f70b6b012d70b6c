---------------------------- MODULE MCVASEvents -----------------------------
(* Constants of the consumer run, and what the module's docstring says and *)
(* the code does not keep (README, section 7): TLC refutes each one.       *)
EXTENDS VASEvents

CONSTANTS c1, c2
TwoStreams == {c1, c2}

(* "without ... loss": each read begins where the one before it ended.     *)
ReadsJoin ==
  [][consumer = "read" /\ consumer' = "wait" /\ from # NoId =>
       from' = IF lastId = Now THEN from ELSE lastId]_eventsVars

(* "without replay": a process ends with its last event in Redis.          *)
EndsSaved == [][consumer' = "down" => lastId \in {saved, Now, NoId}]_eventsVars

(* "True only when VAS has explicitly reported this stream as paused": a   *)
(* stream that is active again in VAS is not paused for ever.              *)
PauseAlwaysEnds ==
  \A s \in VASStreams :
    (cache[s] = "paused" /\ log # <<>> /\ log[Len(log)] = [stream |-> s, kind |-> "active"])
      ~> (cache[s] # "paused" \/ log[Len(log)].kind # "active")
=============================================================================
