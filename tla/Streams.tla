------------------------------ MODULE Streams -------------------------------
(***************************************************************************)
(* The requests that start, stop and list inference sessions: the routes   *)
(* of api/v1/devices.py over StreamService (services/stream_service.py),   *)
(* each with a database transaction of its own, and the cached list.       *)
(*                                                                         *)
(* The transaction commits when the route has returned, and is rolled back *)
(* when it has raised; the others see nothing of it before (READ           *)
(* COMMITTED). A step is what runs between two awaits.                     *)
(***************************************************************************)
EXTENDS Naturals, FiniteSets

CONSTANTS
  Sessions, Devices, DeviceOf,  \* as in the module Sessions
  Requests,                     \* the requests under way at a time
  OpsOf,                        \* what each request may do
  Faults,                       \* whether the backend dies and Redis or the commit fail
  None

Ops == {"start", "stop", "list", "stop_stream", "mark_error"}

ASSUME StreamsAssumption ==
  /\ DeviceOf \in [Sessions -> Devices]
  /\ OpsOf \in [Requests -> SUBSET Ops]
  /\ Faults \in BOOLEAN
  /\ None \notin Sessions \cup Devices

VARIABLES
  db,       \* the committed state of each session
  started,  \* the order of started_at, 0 before the session is created
  req,      \* the requests
  cache     \* the cached list: the devices it shows active, or None

vars == <<db, started, req, cache>>

DbStates == {"absent", "live", "stopped", "error"}

(* session: the row the transaction has created or changed; shows: the     *)
(* devices the list has found active. *)
Idle == [at |-> "idle", op |-> None, device |-> None, session |-> None, shows |-> {}]

Init ==
  /\ db = [s \in Sessions |-> "absent"]
  /\ started = [s \in Sessions |-> 0]
  /\ req = [r \in Requests |-> Idle]
  /\ cache = None

\* Mutant: LIVE is missing in active_states.
ActiveOf_Mutant(d) == {}

(* The committed sessions of a device that count as active. *)
ActiveOf(d) == {s \in Sessions : DeviceOf[s] = d /\ db[s] = "live"}

(* _get_active_session: the one that was started last. *)
Active(d) == CHOOSE s \in ActiveOf(d) : \A t \in ActiveOf(d) : started[t] <= started[s]

ActiveDevices == {d \in Devices : ActiveOf(d) # {}}

At(r, op, at) == req[r].op = op /\ req[r].at = at
Goto(r, at) == req' = [req EXCEPT ![r].at = at]
Ends(r) == req' = [req EXCEPT ![r] = Idle]

-----------------------------------------------------------------------------
Begin(r) ==
  /\ req[r] = Idle
  /\ \E op \in OpsOf[r], d \in Devices :
       req' = [req EXCEPT ![r].op = op, ![r].device = d, ![r].at = "check"]
  /\ UNCHANGED <<db, started, cache>>

(* start_inference and stop_inference look for an active session before    *)
(* they call the service, which looks again.                               *)
RouteCheck(r) ==
  /\ \/ At(r, "start", "check") /\ ActiveOf(req[r].device) = {}
     \/ At(r, "stop", "check") /\ ActiveOf(req[r].device) # {}
  /\ Goto(r, "again")
  /\ UNCHANGED <<db, started, cache>>

(* ... and answer at once when there is nothing to do. *)
RouteReplies(r) ==
  /\ \/ req[r].op = "start" /\ req[r].at \in {"check", "again"} /\ ActiveOf(req[r].device) # {}
     \/ req[r].op = "stop" /\ req[r].at \in {"check", "again"} /\ ActiveOf(req[r].device) = {}
     \/ req[r].op \in {"stop_stream", "mark_error"} /\ req[r].at = "check"
        /\ ActiveOf(req[r].device) = {}
  /\ Ends(r)
  /\ UNCHANGED <<db, started, cache>>

\* Mutant: a stopped row is started again.
Insert_Reuse(r) ==
  /\ At(r, "start", "again")
  /\ ActiveOf(req[r].device) = {}
  /\ \E s \in {s \in Sessions : DeviceOf[s] = req[r].device /\ db[s] \in {"absent", "stopped"}} :
       /\ started' = [started EXCEPT ![s] = 1]
       /\ req' = [req EXCEPT ![r].at = "vas", ![r].session = s]
  /\ UNCHANGED <<db, cache>>

(* start_stream creates the row, which is flushed and not committed.       *)
Insert(r) ==
  /\ At(r, "start", "again")
  /\ ActiveOf(req[r].device) = {}
  /\ \E s \in {s \in Sessions : DeviceOf[s] = req[r].device /\ started[s] = 0} :
       /\ started' = [started EXCEPT ![s] = 1 + Cardinality({t \in Sessions : started[t] # 0})]
       /\ req' = [req EXCEPT ![r].at = "vas", ![r].session = s]
  /\ UNCHANGED <<db, cache>>

(* VAS starts the stream: the row goes to LIVE.                            *)
VasStarted(r) ==
  /\ At(r, "start", "vas")
  /\ Goto(r, "invalidate")
  /\ UNCHANGED <<db, started, cache>>

(* VAS does not: the row is marked as an error, the exception the service  *)
(* and the route raise rolls it back. The same holds for stop_stream.      *)
VasFailed(r) ==
  /\ req[r].at = "vas"
  /\ Ends(r)
  /\ UNCHANGED <<db, started, cache>>

(* stop_inference of the service sets STOPPED.                             *)
SetStopped(r) ==
  /\ At(r, "stop", "again")
  /\ ActiveOf(req[r].device) # {}
  /\ req' = [req EXCEPT ![r].at = "invalidate", ![r].session = Active(req[r].device)]
  /\ UNCHANGED <<db, started, cache>>

(* The routes delete the cached list; an error of Redis is passed over.    *)
Invalidate(r) ==
  /\ req[r].at = "invalidate"
  /\ \/ cache' = None
     \/ Faults /\ cache' = cache
  /\ Goto(r, "commit")
  /\ UNCHANGED <<db, started>>

(* stop_stream asks VAS, mark_stream_error does not.                       *)
ReadActive(r) ==
  /\ \/ At(r, "stop_stream", "check")
     \/ At(r, "mark_error", "check")
  /\ ActiveOf(req[r].device) # {}
  /\ req' = [req EXCEPT ![r].at = IF req[r].op = "stop_stream" THEN "vas" ELSE "commit",
                        ![r].session = Active(req[r].device)]
  /\ UNCHANGED <<db, started, cache>>

(* VAS stopped the stream or did not know it, or force ignores the error.  *)
VasStopped(r) ==
  /\ At(r, "stop_stream", "vas")
  /\ Goto(r, "commit")
  /\ UNCHANGED <<db, started, cache>>

(* The state each operation writes, whatever the row holds by then.        *)
Written(op) ==
  CASE op = "start" -> "live"
    [] op \in {"stop", "stop_stream"} -> "stopped"
    [] op = "mark_error" -> "error"

(* get_db_session commits, or the commit fails. *)
Commit(r) ==
  /\ req[r].at = "commit"
  /\ \/ db' = [db EXCEPT ![req[r].session] = Written(req[r].op)]
     \/ Faults /\ db' = db
  /\ Ends(r)
  /\ UNCHANGED <<started, cache>>

-----------------------------------------------------------------------------
(* list_devices: a hit answers, a miss (or an error of Redis) composes the *)
(* list and caches it.                                                     *)
CacheHit(r) ==
  /\ At(r, "list", "check")
  /\ cache # None
  /\ Ends(r)
  /\ UNCHANGED <<db, started, cache>>

ListDevices(r) ==
  /\ At(r, "list", "check")
  /\ cache = None \/ Faults
  /\ req' = [req EXCEPT ![r].at = "store", ![r].shows = ActiveDevices]
  /\ UNCHANGED <<db, started, cache>>

CacheStore(r) ==
  /\ At(r, "list", "store")
  /\ \/ cache' = req[r].shows
     \/ Faults /\ cache' = cache
  /\ Ends(r)
  /\ UNCHANGED <<db, started>>

\* Mutant: the list is cached without a time to live.
Expire_Mutant == FALSE

(* DEVICES_LIST_CACHE_TTL_SECONDS *)
Expire ==
  /\ cache # None
  /\ cache' = None
  /\ UNCHANGED <<db, started, req>>

(* The backend dies and starts again: the database and the cache stay.     *)
Restart ==
  /\ Faults
  /\ \E r \in Requests : req[r] # Idle
  /\ req' = [r \in Requests |-> Idle]
  /\ UNCHANGED <<db, started, cache>>

-----------------------------------------------------------------------------
Continue(r) ==
  \/ RouteCheck(r) \/ RouteReplies(r) \/ Insert(r) \/ VasStarted(r) \/ VasFailed(r)
  \/ SetStopped(r) \/ Invalidate(r) \/ ReadActive(r) \/ VasStopped(r) \/ Commit(r)
  \/ CacheHit(r) \/ ListDevices(r) \/ CacheStore(r)

Next ==
  \/ \E r \in Requests : Begin(r) \/ Continue(r)
  \/ Expire
  \/ Restart

Spec == Init /\ [][Next]_vars

(* What has begun ends, and the time to live passes.                       *)
FairSpec == Spec /\ WF_vars(Expire) /\ \A r \in Requests : WF_vars(Continue(r))

-----------------------------------------------------------------------------
TypeOK ==
  /\ db \in [Sessions -> DbStates]
  /\ started \in [Sessions -> Nat]
  /\ req \in [Requests ->
       [at : {"idle", "check", "again", "vas", "invalidate", "commit", "store"},
        op : Ops \cup {None}, device : Devices \cup {None}, session : Sessions \cup {None},
        shows : SUBSET Devices]]
  /\ cache \in (SUBSET Devices) \cup {None}

(* What the inference loop sees of a row. *)
Visible == [s \in Sessions |-> IF db[s] \in {"stopped", "error"} THEN "over" ELSE db[s]]
Abstract == INSTANCE Sessions WITH session <- Visible

(* The operations are what the inference loop expects of them: whatever    *)
(* they overlap with, and wherever the backend dies or a commit fails, a   *)
(* session appears LIVE, never half started, and once it has stopped or    *)
(* failed it never comes back: the loop that let go of it need not look.   *)
ImplementsSessions == Abstract!SessionsSpec

(* When the sessions no longer change the list shows them, for ever: no    *)
(* answer that was composed before the last change stays.                  *)
CacheConverges == <>[](cache \in {None, ActiveDevices})

(* "This endpoint is idempotent. If a stream is already active for the     *)
(* device, it returns the existing session information." It does unless    *)
(* two starts overlap, which nothing prevents (README, section 7).         *)
AtMostOneActive ==
  \A s, t \in Sessions : db[s] = "live" /\ db[t] = "live" /\ DeviceOf[s] = DeviceOf[t] => s = t
=============================================================================
