--------------------------- MODULE InferenceLoop ----------------------------
(***************************************************************************)
(* InferenceLoopService (services/inference_loop.py): the main loop that   *)
(* starts and stops one asyncio task per LIVE session, the tasks, the      *)
(* detections and violations they publish, and the shutdown.               *)
(*                                                                         *)
(* asyncio runs one task at a time: a step is what runs between two        *)
(* awaits, and everything else may run in between. A cancelled task is     *)
(* resumed by a CancelledError at the await it is in.                      *)
(***************************************************************************)
EXTENDS Sessions, Naturals, FiniteSets, Functions

CONSTANTS
  TaskIds,    \* the asyncio tasks, used again when they are over
  Zones,      \* the restricted zones a detection may lie in
  MaxErrors,  \* max_consecutive_errors
  MaxRows,    \* bound: the violations recorded of a session
  None

ASSUME LoopAssumption ==
  /\ IsFiniteSet(Sessions)
  /\ MaxErrors \in Nat \ {0}
  /\ MaxRows \in Nat
  /\ None \notin Sessions \cup TaskIds

VARIABLES
  running,  \* _running
  scan,     \* the sessions the main loop has read, or None between two reads
  entry,    \* _session_tasks (and _session_devices): session -> task, or None
  task,     \* the tasks
  budget,   \* _budget._active
  latest,   \* _latest_detections: device -> the session that published, or None
  seen,     \* _violation_state of each session
  rows,     \* the violations recorded of each session
  stopper   \* stop(): where it is and what it iterates over

loopVars == <<running, scan, entry, task, budget, latest, seen, rows, stopper>>
vars == <<session, loopVars>>

(* Where a task awaits: "new" has not begun, "infer" runs an inference,    *)
(* "count" and "create" write the counter and the violation, "sleep" the   *)
(* interval, "backoff" the pause after an error; "created" follows the      *)
(* commit of the violation.                                                *)
Awaits == {"over", "new", "infer", "count", "create", "created", "sleep", "backoff"}

TaskStates ==
  [at : Awaits, session : Sessions \cup {None}, cancelled : BOOLEAN,
   errors : 0..(MaxErrors - 1), found : (SUBSET Zones) \cup {None}]

Over == [at |-> "over", session |-> None, cancelled |-> FALSE, errors |-> 0, found |-> None]
NewTask(s) == [Over EXCEPT !.at = "new", !.session = s]

Calm == [inViolation |-> FALSE, zones |-> {}]
Idle == [at |-> "off", visited |-> {}, size |-> 0, waits |-> None]

Init ==
  /\ SessionsInit
  /\ running = TRUE
  /\ scan = None
  /\ entry = [s \in Sessions |-> None]
  /\ task = [k \in TaskIds |-> Over]
  /\ budget = {}
  /\ latest = [d \in Devices |-> None]
  /\ seen = [s \in Sessions |-> Calm]
  /\ rows = [s \in Sessions |-> 0]
  /\ stopper = Idle

Listed == {s \in Sessions : entry[s] # None}
Alive(k) == task[k].at # "over"

-----------------------------------------------------------------------------
(* _main_loop reads the LIVE sessions; the read may fail, and then nothing *)
(* changes until the next one.                                             *)
Scan ==
  /\ scan = None
  /\ running
  /\ stopper.at # "stopped"
  /\ scan' = {s \in Sessions : session[s] = "live"}
  /\ UNCHANGED <<session, running, entry, task, budget, latest, seen, rows, stopper>>

\* Mutant: _stop_session_task leaves the last detections of the device.
LatestWithout_Mutant(stopped) == latest

(* _latest_detections once the sessions are stopped. *)
LatestWithout(stopped) ==
  [d \in Devices |-> IF \E s \in stopped : DeviceOf[s] = d THEN None ELSE latest[d]]

\* Mutant: _stop_session_task leaves the share of the session.
BudgetWithout_Mutant(stopped) == budget

(* _budget once the sessions are stopped. *)
BudgetWithout(stopped) == budget \ stopped

\* Mutant: a session that has a task gets another one.
NewSessions_Mutant == scan

(* The sessions that have no entry in _session_tasks. *)
NewSessions == scan \ Listed

(* _start_session_task and _stop_session_task for the sessions the main    *)
(* loop finds new and gone: begun gives each new one its task.             *)
Apply ==
  /\ scan # None
  /\ stopper.at # "stopped"
  /\ LET gone == Listed \ scan
         new  == NewSessions
     IN /\ \E begun \in Injection(new, {k \in TaskIds : ~Alive(k)}) :
             /\ entry' = [s \in Sessions |->
                  IF s \in gone THEN None ELSE IF s \in new THEN begun[s] ELSE entry[s]]
             /\ task' = [k \in TaskIds |->
                  IF k \in Range(begun) THEN NewTask(CHOOSE s \in new : begun[s] = k)
                  ELSE IF \E s \in gone : entry[s] = k THEN [task[k] EXCEPT !.cancelled = TRUE]
                  ELSE task[k]]
        /\ budget' = BudgetWithout(gone)
        /\ latest' = LatestWithout(gone)
  /\ scan' = None
  /\ UNCHANGED <<session, running, seen, rows, stopper>>

-----------------------------------------------------------------------------
\* Mutant: the entry stays, so the main loop never revives the session.
Exit_Mutant(k) ==
  /\ budget' = budget \ {task[k].session}
  /\ latest' = LatestWithout({task[k].session})
  /\ task' = [task EXCEPT ![k] = Over]
  /\ UNCHANGED <<session, running, scan, entry, seen, rows, stopper>>

(* The end of _inference_task: its share, its entry and its device's       *)
(* detections are dropped, whoever they belong to by then.                 *)
Exit(k) ==
  /\ budget' = budget \ {task[k].session}
  /\ entry' = [entry EXCEPT ![task[k].session] = None]
  /\ latest' = LatestWithout({task[k].session})
  /\ task' = [task EXCEPT ![k] = Over]
  /\ stopper' = [stopper EXCEPT !.visited = @ \ {task[k].session}]
  /\ UNCHANGED <<session, running, scan, seen, rows>>

(* The CancelledError reaches the task: inside the try block it breaks the *)
(* loop, and the task ends like any other; before the task has begun or in *)
(* the backoff of the except block it ends the task on the spot.           *)
Cancelled(k) ==
  /\ Alive(k)
  /\ task[k].cancelled
  /\ IF task[k].at \in {"new", "backoff"}
     THEN /\ task' = [task EXCEPT ![k] = Over]
          /\ UNCHANGED <<session, running, scan, entry, budget, latest, seen, rows, stopper>>
     ELSE Exit(k)

Awaiting(k, at) == task[k].at = at /\ ~task[k].cancelled

\* Mutant: the loop does not look at the flag.
Goes_Mutant(k) == entry[task[k].session] # None

(* The head of the loop: `while self._running and session_id in ...`.      *)
Goes(k) == running /\ entry[task[k].session] # None

(* The task begins, or goes on after a pause: the next inference, a round  *)
(* without one because the stream is paused, or the end.                   *)
Round(k) ==
  /\ \/ Awaiting(k, "new") \/ Awaiting(k, "sleep") \/ Awaiting(k, "backoff")
  /\ IF Goes(k)
     THEN /\ \E at \in {"infer", "sleep"} : task' = [task EXCEPT ![k].at = at]
          /\ budget' = IF task[k].at = "new" THEN budget \cup {task[k].session} ELSE budget
          /\ UNCHANGED <<session, running, scan, entry, latest, seen, rows, stopper>>
     ELSE Exit(k)

(* submit_inference answers: with detections, without a result, or with an *)
(* error, and the tenth in a row ends the task.                            *)
Answered(k) ==
  /\ Awaiting(k, "infer")
  /\ \E found \in (SUBSET Zones) \cup {None} :
       task' = [task EXCEPT ![k].at = "count", ![k].found = found]
  /\ UNCHANGED <<session, running, scan, entry, budget, latest, seen, rows, stopper>>

NoResult(k) ==
  /\ Awaiting(k, "infer")
  /\ task' = [task EXCEPT ![k].at = "sleep", ![k].errors = 0]
  /\ UNCHANGED <<session, running, scan, entry, budget, latest, seen, rows, stopper>>

Failed(k) ==
  /\ Awaiting(k, "infer")
  /\ IF task[k].errors + 1 >= MaxErrors
     THEN Exit(k)
     ELSE /\ task' = [task EXCEPT ![k].at = "backoff", ![k].errors = @ + 1]
          /\ UNCHANGED <<session, running, scan, entry, budget, latest, seen, rows, stopper>>

\* Mutant: every frame with a violation is recorded.
IsNew_Mutant(k) == TRUE

(* A frame with a violation is recorded when the last one had none, or it  *)
(* lies in a zone the last one did not. *)
IsNew(k) ==
  LET s == task[k].session IN
  ~seen[s].inViolation \/ task[k].found \ seen[s].zones # {}

Sleeps(k) == task' = [task EXCEPT ![k].at = "sleep", ![k].errors = 0, ![k].found = None]

(* The counter is written, or failed to be: the detections are published,  *)
(* and the frame is compared with the one before.                          *)
Publish(k) ==
  LET s == task[k].session IN
  /\ Awaiting(k, "count")
  /\ latest' = [latest EXCEPT ![DeviceOf[s]] = s]
  /\ \/ task[k].found = None /\ Sleeps(k) /\ seen' = [seen EXCEPT ![s] = Calm]
     \/ /\ task[k].found # None
        /\ IsNew(k)
        /\ task' = [task EXCEPT ![k].at = "create"]
        /\ UNCHANGED seen
     \/ /\ task[k].found # None
        /\ ~IsNew(k)
        /\ Sleeps(k)
        /\ seen' = [seen EXCEPT ![s] = [inViolation |-> TRUE, zones |-> task[k].found]]
  /\ UNCHANGED <<session, running, scan, entry, budget, rows, stopper>>

(* _create_violation commits the row, or logs the error.                   *)
Create(k) ==
  LET s == task[k].session IN
  /\ Awaiting(k, "create")
  /\ \/ /\ rows[s] < MaxRows
        /\ rows' = [rows EXCEPT ![s] = @ + 1]
        /\ task' = [task EXCEPT ![k].at = "created"]
     \/ task' = [task EXCEPT ![k].at = "created"] /\ UNCHANGED rows
  /\ UNCHANGED <<session, running, scan, entry, budget, latest, seen, stopper>>

(* It has refreshed the row and bumped the counter of the session, and the *)
(* task goes on in the same way in either case.                            *)
Created(k) ==
  LET s == task[k].session IN
  /\ Awaiting(k, "created")
  /\ seen' = [seen EXCEPT ![s] = [inViolation |-> TRUE, zones |-> task[k].found]]
  /\ Sleeps(k)
  /\ UNCHANGED <<session, running, scan, entry, budget, latest, rows, stopper>>

-----------------------------------------------------------------------------
(* stop(): one turn of `for session_id, task in self._session_tasks.items()`. *)
(* The next task is cancelled and awaited; when none is left the dictionary   *)
(* is cleared and the main loop is cancelled.                                 *)
Turn(visited) ==
  \/ /\ Listed \subseteq visited
     /\ stopper' = [Idle EXCEPT !.at = "stopped"]
     /\ entry' = [s \in Sessions |-> None]
     /\ UNCHANGED task
  \/ \E s \in Listed \ visited :
       /\ stopper' = [at |-> "wait", visited |-> visited \cup {s},
                      size |-> Cardinality(Listed), waits |-> entry[s]]
       /\ task' = [task EXCEPT ![entry[s]].cancelled = TRUE]
       /\ UNCHANGED entry

Stop ==
  /\ stopper.at = "off"
  /\ running' = FALSE
  /\ Turn({})
  /\ UNCHANGED <<session, scan, budget, latest, seen, rows>>

(* The awaited task is over. A dictionary that has another size by now     *)
(* ends the iteration, and stop(), with a RuntimeError.                    *)
StopResume ==
  /\ stopper.at = "wait"
  /\ ~Alive(stopper.waits)
  /\ IF Cardinality(Listed) = stopper.size
     THEN Turn(stopper.visited)
     ELSE stopper' = [Idle EXCEPT !.at = "failed"] /\ UNCHANGED <<entry, task>>
  /\ UNCHANGED <<session, running, scan, budget, latest, seen, rows>>

-----------------------------------------------------------------------------
(* The requests start and stop sessions.                                   *)
Requests == SessionsNext /\ UNCHANGED loopVars

TaskStep(k) ==
  Cancelled(k) \/ Round(k) \/ Answered(k) \/ NoResult(k) \/ Failed(k) \/ Publish(k)
  \/ Create(k) \/ Created(k)

Next ==
  \/ Requests
  \/ Scan \/ Apply
  \/ \E k \in TaskIds : TaskStep(k)
  \/ Stop \/ StopResume

Spec == Init /\ [][Next]_vars

(* The event loop resumes whatever can go on, and every await ends: the    *)
(* database and the runtime answer or time out.                            *)
FairSpec ==
  /\ Spec
  /\ WF_vars(Scan) /\ WF_vars(Apply)
  /\ \A k \in TaskIds : WF_vars(TaskStep(k))

-----------------------------------------------------------------------------
TypeOK ==
  /\ SessionsTypeOK
  /\ running \in BOOLEAN
  /\ scan \in (SUBSET Sessions) \cup {None}
  /\ entry \in [Sessions -> TaskIds \cup {None}]
  /\ task \in [TaskIds -> TaskStates]
  /\ budget \subseteq Sessions
  /\ latest \in [Devices -> Sessions \cup {None}]
  /\ seen \in [Sessions -> [inViolation : BOOLEAN, zones : SUBSET Zones]]
  /\ rows \in [Sessions -> 0..MaxRows]
  /\ stopper \in [at : {"off", "wait", "stopped", "failed"}, visited : SUBSET Sessions,
                  size : Nat, waits : TaskIds \cup {None}]

(* At most one task works for a session: no other task is alive than one   *)
(* that has been cancelled, whatever the order of scans, exits, errors and *)
(* the shutdown. Two would record each violation twice.                    *)
OneTaskPerSession ==
  \A j, k \in TaskIds :
    /\ Alive(j) /\ ~task[j].cancelled
    /\ Alive(k) /\ ~task[k].cancelled
    /\ task[j].session = task[k].session
    => j = k

(* While the loop runs an entry of _session_tasks is a live task of that   *)
(* session: no dead task keeps the main loop from starting a new one.      *)
EntriesAreAlive ==
  running => \A s \in Listed : Alive(entry[s]) /\ task[entry[s]].session = s

(* A task that nobody can stop any more, because its entry is gone, has    *)
(* been cancelled already.                                                 *)
UnlistedIsCancelled ==
  \A k \in TaskIds : Alive(k) /\ ~task[k].cancelled => entry[task[k].session] = k

(* The tasks, the entries of _session_tasks and the cancellations agree.   *)
TasksMatchEntries == TypeOK /\ OneTaskPerSession /\ EntriesAreAlive /\ UnlistedIsCancelled

(* "otherwise browsers would keep drawing ghost boxes": a detection that   *)
(* can be read was published by a session that is still listed.            *)
NoGhostDetections ==
  stopper.at # "stopped" => \A d \in Devices : latest[d] # None => latest[d] \in Listed

(* A session that is off has given its share of the GPU back.              *)
BudgetIsListed == stopper.at # "stopped" => budget \subseteq Listed

(* Nothing a session holds outlives its task.                              *)
NothingOutlivesTask == NoGhostDetections /\ BudgetIsListed

Served(s) ==
  \E k \in TaskIds : task[k].session = s /\ ~task[k].cancelled /\ task[k].at # "new"

(* A LIVE session is served again and again, also after its task gave up:  *)
(* "the next _main_loop pass spawns a fresh task".                         *)
LiveIsServed ==
  \A s \in Sessions : session[s] = "live" ~> (Served(s) \/ session[s] # "live" \/ ~running)

(* "Only create when they RE-ENTER after leaving": what the task read of   *)
(* the frames before still holds when it has awaited the counter and the   *)
(* insertion, so a stay in a zone is recorded once.                        *)
RecordedOncePerStay ==
  [][\A k \in TaskIds :
       LET s == task[k].session IN
       task[k].at = "create" /\ task'[k].at = "created" /\ rows'[s] > rows[s] =>
         ~seen[s].inViolation \/ task[k].found \ seen[s].zones # {}]_vars

(* Once stop() has been called every task ends, whether stop() completes   *)
(* or not.                                                                 *)
StopDrains == ~running ~> (\A k \in TaskIds : ~Alive(k))
=============================================================================
