------------------------------ MODULE VASEvents -----------------------------
(***************************************************************************)
(* VASEventConsumer (services/vas_event_consumer.py): the task that tails  *)
(* the Redis stream of VAS and tells the inference loop which streams are  *)
(* paused, and the position it keeps in the backend's own Redis across     *)
(* restarts. VAS appends to its stream whenever it likes; either Redis may *)
(* fail, and the process may end between any two awaits.                   *)
(*                                                                         *)
(* VAS is assumed to keep all of its stream. If it trims it, XREAD goes on *)
(* from the oldest entry left, and a consumer that was away for longer     *)
(* than that misses what was trimmed: nothing here is claimed of it.       *)
(***************************************************************************)
EXTENDS Naturals, Sequences

CONSTANTS
  VASStreams,     \* the streams VAS reports on
  Count,          \* the entries one XREAD returns at most (32)
  MaxEvents,      \* bound: the entries of the stream of VAS
  MaxVASFaults,   \* bound: errors of the connection to VAS
  MaxRedisFaults, \* bound: errors of the backend's Redis
  Now,            \* "$": from the time of the call on
  NoId

ASSUME EventsAssumption ==
  /\ Count \in Nat \ {0}
  /\ {MaxEvents, MaxVASFaults, MaxRedisFaults} \subseteq Nat
  /\ Now \notin Nat /\ NoId \notin Nat /\ Now # NoId

VARIABLES
  log,         \* vas:stream_events; the id of an entry is its index
  saved,       \* vas:last_event_id, or NoId
  consumer,    \* where the consumer is
  consuming,   \* _running
  listening,   \* whether the process has an inference loop
  client,      \* whether it has a client of the backend's Redis (_redis_client)
  lastId,      \* last_id of _run_once: an id, Now, or NoId between two calls
  from,        \* the position of the newest XREAD of this connection
  batch,       \* the entries it has returned that are not handled yet
  cache,       \* _vas_stream_state of the inference loop
  first,       \* history: the first event this process has handled
  vasFaults, redisFaults

eventsVars ==
  <<log, saved, consumer, consuming, listening, client, lastId, from, batch, cache, first,
    vasFaults, redisFaults>>

(* "connect" pings VAS (after the backoff, if it is not the first time),   *)
(* "load" reads the position, "wait" is in XREAD, "save" writes the        *)
(* position; "off" is a consumer that has ended, "down" a process.         *)
Places == {"down", "connect", "load", "read", "wait", "handle", "save", "off"}
Kinds == {"active", "paused", "other"}
Unknown == [s \in VASStreams |-> "unknown"]

EventsInit ==
  /\ log = <<>>
  /\ saved = NoId
  /\ consumer = "down"
  /\ consuming = FALSE
  /\ listening = FALSE /\ client = FALSE
  /\ lastId = NoId /\ from = NoId /\ batch = <<>>
  /\ cache = Unknown /\ first = NoId
  /\ vasFaults = 0 /\ redisFaults = 0

-----------------------------------------------------------------------------
(* VAS appends an event: one that makes the stream active, one that pauses *)
(* it, or one the consumer has no use for.                                 *)
VASPublishes ==
  /\ Len(log) < MaxEvents
  /\ \E s \in VASStreams, k \in Kinds : log' = Append(log, [stream |-> s, kind |-> k])
  /\ UNCHANGED <<saved, consumer, consuming, listening, client, lastId, from, batch, cache, first,
                 vasFaults, redisFaults>>

(* The application starts; the inference loop and the client of its Redis  *)
(* are optional, and without a VAS_REDIS_URL start() returns at once.      *)
Boot ==
  /\ consumer = "down"
  /\ listening' \in BOOLEAN /\ client' \in BOOLEAN
  /\ \/ consumer' = "connect" /\ consuming' = TRUE
     \/ consumer' = "off" /\ consuming' = FALSE
  /\ UNCHANGED <<log, saved, lastId, from, batch, cache, first, vasFaults, redisFaults>>

(* The connection of _run_once is gone, and its local variables with it.   *)
Disconnected(place) == consumer' = place /\ lastId' = NoId /\ from' = NoId /\ batch' = <<>>

(* The loop of start() begins an attempt, or ends after stop().            *)
Connect ==
  /\ consumer = "connect"
  /\ consumer' = IF consuming THEN "load" ELSE "off"
  /\ UNCHANGED <<log, saved, consuming, listening, client, lastId, from, batch, cache, first,
                 vasFaults, redisFaults>>

\* Mutant: the first error ends the consumer.
VASFails_Mutant ==
  /\ consumer \in {"connect", "wait"}
  /\ consuming
  /\ vasFaults < MaxVASFaults
  /\ vasFaults' = vasFaults + 1
  /\ Disconnected("off")
  /\ UNCHANGED <<log, saved, consuming, listening, client, cache, first, redisFaults>>

(* PING or XREAD raises: a backoff, and the next attempt.                  *)
VASFails ==
  /\ consumer \in {"connect", "wait"}
  /\ consuming
  /\ vasFaults < MaxVASFaults
  /\ vasFaults' = vasFaults + 1
  /\ Disconnected("connect")
  /\ UNCHANGED <<log, saved, consuming, listening, client, cache, first, redisFaults>>

RedisFails == redisFaults < MaxRedisFaults /\ redisFaults' = redisFaults + 1

\* Mutant: the position is not read again after a reconnection.
Loaded_Mutant == Now

(* val or "$", and "$" without a client.                                   *)
Loaded == IF ~client \/ saved = NoId THEN Now ELSE saved

(* _load_last_id: so does an error.                                        *)
Load ==
  /\ consumer = "load"
  /\ consumer' = "read"
  /\ \/ lastId' = Loaded /\ UNCHANGED redisFaults
     \/ client /\ RedisFails /\ lastId' = Now
  /\ UNCHANGED <<log, saved, consuming, listening, client, from, batch, cache, first, vasFaults>>

(* The head of the loop, and the call: "$" is the end of the stream then.  *)
Read ==
  /\ consumer = "read"
  /\ IF consuming
     THEN /\ from' = IF lastId = Now THEN Len(log) ELSE lastId
          /\ consumer' = "wait"
          /\ UNCHANGED <<lastId, batch>>
     ELSE Disconnected("off")
  /\ UNCHANGED <<log, saved, consuming, listening, client, cache, first, vasFaults, redisFaults>>

(* The oldest entries after that position.                                 *)
Entries ==
  LET more == Len(log) - from
  IN [i \in 1..(IF more < Count THEN more ELSE Count) |-> from + i]

(* XREAD returns them, or nothing when BLOCK has expired without one.      *)
Answer ==
  /\ consumer = "wait"
  /\ batch' = Entries
  /\ consumer' = IF Entries = <<>> THEN "read" ELSE "handle"
  /\ UNCHANGED <<log, saved, consuming, listening, client, lastId, from, cache, first,
                 vasFaults, redisFaults>>

\* Mutant: the first report about a stream is kept.
Told_Mutant(e) ==
  IF listening /\ e.kind # "other" /\ cache[e.stream] = "unknown"
  THEN [cache EXCEPT ![e.stream] = e.kind]
  ELSE cache

(* _handle_event: activate() or pause() of the loop, if there is one.      *)
Told(e) ==
  IF listening /\ e.kind # "other" THEN [cache EXCEPT ![e.stream] = e.kind] ELSE cache

Handle ==
  /\ consumer = "handle"
  /\ cache' = Told(log[Head(batch)])
  /\ lastId' = Head(batch)
  /\ first' = IF first = NoId THEN Head(batch) ELSE first
  /\ batch' = Tail(batch)
  /\ consumer' = "save"
  /\ UNCHANGED <<log, saved, consuming, listening, client, from, vasFaults, redisFaults>>

(* _save_last_id, whose error is only logged; then the next entry or read. *)
Save ==
  /\ consumer = "save"
  /\ \/ client /\ saved' = lastId /\ UNCHANGED redisFaults
     \/ client /\ RedisFails /\ UNCHANGED saved
     \/ ~client /\ UNCHANGED <<saved, redisFaults>>
  /\ consumer' = IF batch = <<>> THEN "read" ELSE "handle"
  /\ UNCHANGED <<log, consuming, listening, client, lastId, from, batch, cache, first, vasFaults>>

-----------------------------------------------------------------------------
(* stop() clears the flag and closes the connection to VAS, which ends an  *)
(* XREAD; an answer that is there already is handled to its end.           *)
StopConsumer ==
  /\ consuming
  /\ consuming' = FALSE
  /\ UNCHANGED <<log, saved, consumer, listening, client, lastId, from, batch, cache, first,
                 vasFaults, redisFaults>>

Closed ==
  /\ consumer = "wait"
  /\ ~consuming
  /\ Disconnected("off")
  /\ UNCHANGED <<log, saved, consuming, listening, client, cache, first, vasFaults, redisFaults>>

(* close_redis, which the shutdown gets to after stop().                   *)
CloseRedis ==
  /\ consumer # "down"
  /\ ~consuming
  /\ client
  /\ client' = FALSE
  /\ UNCHANGED <<log, saved, consumer, consuming, listening, lastId, from, batch, cache, first,
                 vasFaults, redisFaults>>

(* The process ends, after stop() or by a crash.                           *)
ProcessEnds ==
  /\ consumer # "down"
  /\ Disconnected("down")
  /\ consuming' = FALSE
  /\ listening' = FALSE /\ client' = FALSE
  /\ cache' = Unknown
  /\ first' = NoId
  /\ UNCHANGED <<log, saved, vasFaults, redisFaults>>

-----------------------------------------------------------------------------
Consume == Connect \/ Load \/ Read \/ Answer \/ Handle \/ Save \/ Closed

EventsNext ==
  VASPublishes \/ Boot \/ Consume \/ VASFails \/ StopConsumer \/ CloseRedis \/ ProcessEnds

EventsSpec == EventsInit /\ [][EventsNext]_eventsVars

(* The event loop resumes the consumer when an answer is there, and a      *)
(* process that has been told to stop ends. VAS, crashes and the start of  *)
(* the next process owe nothing.                                           *)
FairEventsSpec == EventsSpec /\ WF_eventsVars(Consume) /\ WF_eventsVars(ProcessEnds /\ ~consuming)

-----------------------------------------------------------------------------
Ids == 1..Len(log)

EventsTypeOK ==
  /\ log \in Seq([stream : VASStreams, kind : Kinds])
  /\ saved \in Ids \cup {NoId}
  /\ consumer \in Places
  /\ consuming \in BOOLEAN /\ listening \in BOOLEAN /\ client \in BOOLEAN
  /\ lastId \in Ids \cup {Now, NoId}
  /\ from \in 0..Len(log) \cup {NoId}
  /\ batch \in Seq(Ids)
  /\ cache \in [VASStreams -> {"active", "paused", "unknown"}]
  /\ first \in Ids \cup {NoId}
  /\ vasFaults \in 0..MaxVASFaults /\ redisFaults \in 0..MaxRedisFaults

(* The last event of this process: where it is, or where it was when it    *)
(* lost the connection.                                                    *)
Position == IF lastId \in Ids THEN lastId ELSE saved

(* The reports about a stream between the first event of this process and  *)
(* the last one.                                                           *)
Reports(s) == {i \in first..Position : log[i].stream = s /\ log[i].kind # "other"}

(* The cache has the newest of them, or there is none.                     *)
CacheSays(s) ==
  IF first = NoId \/ Reports(s) = {}
  THEN cache[s] = "unknown"
  ELSE \E i \in Reports(s) : cache[s] = log[i].kind /\ \A j \in Reports(s) : j <= i

(* While the backend's Redis answers, the state of the streams is what the *)
(* events say, every one from the first this process has seen to the last, *)
(* in their order, over reconnections, replays and answers of any length.  *)
CacheIsReplay ==
  redisFaults = 0 /\ client /\ listening => \A s \in VASStreams : CacheSays(s)

(* "restarts resume without replay/loss": while the backend's Redis        *)
(* answers, the position kept there moves by one event at a time, over any *)
(* crash, restart or reconnection, once there is one.                      *)
ResumesWhereItWas ==
  [][redisFaults' = 0 /\ saved # NoId => saved' \in {saved, saved + 1}]_eventsVars

(* A stream that is paused here and active again in VAS is not paused for  *)
(* ever: unless the position is lost with the backend's Redis, the event   *)
(* is reached.                                                             *)
PauseEnds ==
  \A s \in VASStreams, i \in 1..MaxEvents :
    (/\ cache[s] = "paused"
     /\ lastId \in 0..(i - 1)
     /\ i <= Len(log)
     /\ log[i] = [stream |-> s, kind |-> "active"])
      ~> (cache[s] # "paused" \/ lastId = Now)
=============================================================================
