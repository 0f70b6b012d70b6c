------------------------- MODULE InferenceLoopProofs -------------------------
(***************************************************************************)
(* The two background services of the backend, for any sizes: the loop of  *)
(* inferences over the live sessions, and the consumer of VAS's events.    *)
(*                                                                         *)
(* The loop: a session has one task that is not cancelled, the entries of  *)
(* _session_tasks are the tasks that run, nothing a session holds outlives *)
(* its task, and a stay in a zone is recorded once.  The end of a task     *)
(* drops the entry of its session whoever it belongs to by then.  That is  *)
(* harmless because a session never has two tasks alive, cancelled or not: *)
(* one that has lost its entry is over for good (Sessions), and the main   *)
(* loop does not find it again.                                            *)
(*                                                                         *)
(* The consumer: the cache is a replay of the events, and the position in  *)
(* the backend's Redis moves by one event at a time, whatever fails.       *)
(***************************************************************************)
EXTENDS InferenceLoop, VASEvents, TLAPS, FiniteSetTheorems

(* A task that is alive has a session, and a record what to record.        *)
TasksAreWhole ==
  \A k \in TaskIds :
    /\ Alive(k) => task[k].session \in Sessions
    /\ task[k].at \in {"create", "created"} => task[k].found # None

OneAlive ==
  \A j, k \in TaskIds :
    Alive(j) /\ Alive(k) /\ task[j].session = task[k].session => j = k

(* While the service runs, what is cancelled has lost its entry.           *)
CancelledIsUnlisted ==
  running => \A k \in TaskIds, s \in Sessions :
    Alive(k) /\ task[k].cancelled => entry[s] # k

(* A task without an entry belongs to a session that is over: the main     *)
(* loop has not read it LIVE and does not read it LIVE again.              *)
UnlistedIsOver ==
  stopper.at # "stopped" => \A k \in TaskIds :
    LET s == task[k].session IN
    Alive(k) /\ s \notin Listed => session[s] = "over" /\ (scan # None => s \notin scan)

(* What has been read or is listed has been LIVE, and what is listed but   *)
(* has not been read LIVE is over.                                         *)
ReadIsOld ==
  /\ \A s \in Listed : session[s] # "absent"
  /\ scan # None =>
       /\ \A s \in scan : session[s] # "absent"
       /\ \A s \in Listed \ scan : session[s] = "over"

(* stop() has cancelled what it has visited.                               *)
VisitedIsCancelled ==
  /\ stopper.at # "off" => ~running
  /\ stopper.at # "wait" => stopper.visited = {}
  /\ scan # None => stopper.visited \subseteq Listed
  /\ \A k \in TaskIds :
       Alive(k) /\ ~task[k].cancelled => task[k].session \notin stopper.visited

LatestIsOfDevice == \A d \in Devices : latest[d] # None => DeviceOf[latest[d]] = d

IInv ==
  /\ TypeOK /\ TasksAreWhole /\ OneAlive
  /\ EntriesAreAlive /\ UnlistedIsCancelled /\ CancelledIsUnlisted
  /\ UnlistedIsOver /\ ReadIsOld /\ VisitedIsCancelled
  /\ LatestIsOfDevice /\ NothingOutlivesTask

-----------------------------------------------------------------------------
LEMMA InitIInv == Init => IInv
<1>. SUFFICES ASSUME Init PROVE IInv
  OBVIOUS
<1>1. TypeOK
  BY LoopAssumption DEF Init, TypeOK, SessionsInit, SessionsTypeOK, SessionStates,
     TaskStates, Awaits, Over, Calm, Idle
<1>2. \A k \in TaskIds : ~Alive(k) /\ task[k].at = "over"
  BY DEF Init, Alive, Over
<1>3. Listed = {}
  BY DEF Init, Listed
<1>4. TasksAreWhole /\ OneAlive /\ UnlistedIsCancelled /\ CancelledIsUnlisted /\ UnlistedIsOver
  BY <1>2 DEF TasksAreWhole, OneAlive, UnlistedIsCancelled, CancelledIsUnlisted, UnlistedIsOver
<1>5. EntriesAreAlive /\ ReadIsOld
  BY <1>3 DEF Init, EntriesAreAlive, ReadIsOld
<1>6. VisitedIsCancelled
  BY <1>2 DEF Init, Idle, VisitedIsCancelled
<1>7. LatestIsOfDevice /\ NothingOutlivesTask
  BY DEF Init, LatestIsOfDevice, NothingOutlivesTask, NoGhostDetections, BudgetIsListed
<1>. QED BY <1>1, <1>4, <1>5, <1>6, <1>7 DEF IInv

(* What is said of tasks and entries only.                                 *)
LEMMA TasksKept ==
  ASSUME IInv, UNCHANGED <<running, entry, task>>
  PROVE  TasksAreWhole' /\ OneAlive' /\ UnlistedIsCancelled' /\ CancelledIsUnlisted' /\ EntriesAreAlive'
<1>1. Listed' = Listed /\ \A k : Alive(k)' = Alive(k)
  BY DEF Listed, Alive
<1>2. TasksAreWhole' /\ OneAlive'
  BY <1>1 DEF IInv, TasksAreWhole, OneAlive
<1>3. UnlistedIsCancelled' /\ CancelledIsUnlisted'
  BY <1>1 DEF IInv, UnlistedIsCancelled, CancelledIsUnlisted
<1>4. EntriesAreAlive'
  BY <1>1 DEF IInv, EntriesAreAlive, Alive
<1>. QED BY <1>2, <1>3, <1>4

(* A session appears or is over: nothing that is listed or was read LIVE   *)
(* can appear, and what is over stays over.                                *)
LEMMA RequestsIInv == ASSUME IInv, Requests PROVE IInv'
<1>1. /\ session' \in [Sessions -> SessionStates]
      /\ \A s \in Sessions : session[s] # "absent" => session'[s] # "absent"
      /\ \A s \in Sessions : session[s] = "over" => session'[s] = "over"
  BY DEF IInv, TypeOK, SessionsTypeOK, SessionStates, Requests, SessionsNext, GoLive, GoOver
<1>2. UNCHANGED loopVars /\ Listed' = Listed /\ \A k \in TaskIds : Alive(k)' = Alive(k)
  BY DEF Requests, loopVars, Listed, Alive
<1>3. TypeOK'
  BY <1>1, <1>2 DEF IInv, TypeOK, SessionsTypeOK, loopVars
<1>4. TasksAreWhole' /\ OneAlive' /\ UnlistedIsCancelled' /\ CancelledIsUnlisted' /\ EntriesAreAlive'
  BY <1>2, TasksKept DEF loopVars
<1>5. UnlistedIsOver'
  BY <1>1, <1>2 DEF IInv, UnlistedIsOver, TasksAreWhole, loopVars
<1>6. ReadIsOld'
  <2>1. Listed \subseteq Sessions /\ (scan # None => scan \subseteq Sessions)
    BY DEF IInv, TypeOK, Listed
  <2>. QED BY <1>1, <1>2, <2>1 DEF IInv, ReadIsOld, loopVars
<1>7. VisitedIsCancelled' /\ LatestIsOfDevice' /\ NothingOutlivesTask'
  BY <1>2 DEF IInv, VisitedIsCancelled, LatestIsOfDevice, NothingOutlivesTask,
     NoGhostDetections, BudgetIsListed, loopVars
<1>. QED BY <1>3, <1>4, <1>5, <1>6, <1>7 DEF IInv

(* The main loop reads the LIVE sessions: none of those that are over.     *)
LEMMA ScanIInv == ASSUME IInv, Scan PROVE IInv'
<1>1. /\ UNCHANGED <<session, running, entry, task, budget, latest, seen, rows, stopper>>
      /\ scan' = {s \in Sessions : session[s] = "live"} /\ running
  BY DEF Scan
<1>2. Listed' = Listed /\ \A k \in TaskIds : Alive(k)' = Alive(k)
  BY <1>1 DEF Listed, Alive
<1>3. TypeOK'
  BY <1>1 DEF IInv, TypeOK, SessionsTypeOK
<1>4. TasksAreWhole' /\ OneAlive' /\ UnlistedIsCancelled' /\ CancelledIsUnlisted' /\ EntriesAreAlive'
  BY <1>1, TasksKept
<1>5. UnlistedIsOver'
  BY <1>1, <1>2 DEF IInv, UnlistedIsOver
<1>6. ReadIsOld'
  <2>1. Listed \subseteq Sessions
    BY DEF Listed
  <2>. QED BY <1>1, <1>2, <2>1
         DEF IInv, TypeOK, SessionsTypeOK, SessionStates, ReadIsOld
<1>7. stopper.visited = {}
  BY <1>1 DEF IInv, VisitedIsCancelled
<1>8. VisitedIsCancelled'
  BY <1>1, <1>2, <1>7 DEF IInv, VisitedIsCancelled
<1>9. LatestIsOfDevice' /\ NothingOutlivesTask'
  BY <1>1, <1>2 DEF IInv, LatestIsOfDevice, NothingOutlivesTask, NoGhostDetections, BudgetIsListed
<1>. QED BY <1>3, <1>4, <1>5, <1>6, <1>8, <1>9 DEF IInv

(* A task that is not cancelled goes on: it is listed, so it may take a    *)
(* share of the budget and publish for its session.                        *)
LEMMA GoesOn ==
  ASSUME IInv, NEW k \in TaskIds, NEW t \in TaskStates,
         Alive(k), ~task[k].cancelled,
         t.at # "over", t.session = task[k].session, ~t.cancelled,
         t.at \in {"create", "created"} => t.found # None,
         task' = [task EXCEPT ![k] = t],
         UNCHANGED <<session, running, scan, entry, stopper>>,
         budget' \in {budget, budget \cup {t.session}},
         latest' \in {latest, [latest EXCEPT ![DeviceOf[t.session]] = t.session]},
         seen' \in [Sessions -> [inViolation : BOOLEAN, zones : SUBSET Zones]],
         rows' \in [Sessions -> 0..MaxRows]
  PROVE  IInv'
<1>. DEFINE s == t.session
<1>1. s \in Sessions /\ entry[s] = k /\ s \in Listed
  BY LoopAssumption DEF IInv, TasksAreWhole, UnlistedIsCancelled, Listed
<1>2. task' \in [TaskIds -> TaskStates]
  BY DEF IInv, TypeOK
<1>a. \A j \in TaskIds : task'[j] = IF j = k THEN t ELSE task[j]
  BY DEF IInv, TypeOK
<1>3. \A j \in TaskIds :
        /\ Alive(j)' <=> Alive(j)
        /\ task'[j].session = task[j].session
        /\ task'[j].cancelled <=> task[j].cancelled
  BY <1>a DEF Alive
<1>4. Listed' = Listed
  BY DEF Listed
<1>5. TypeOK'
  BY <1>1, <1>2, DeviceAssumption DEF IInv, TypeOK, SessionsTypeOK
<1>6. TasksAreWhole'
  BY <1>1, <1>a, <1>3 DEF IInv, TasksAreWhole
<1>7. OneAlive' /\ UnlistedIsCancelled' /\ CancelledIsUnlisted'
  BY <1>3 DEF IInv, OneAlive, UnlistedIsCancelled, CancelledIsUnlisted
<1>8. EntriesAreAlive'
  <2>1. \A u \in Listed : entry[u] \in TaskIds
    BY DEF IInv, TypeOK, Listed
  <2>. QED BY <1>3, <1>4, <2>1 DEF IInv, EntriesAreAlive
<1>9. UnlistedIsOver' /\ ReadIsOld' /\ VisitedIsCancelled'
  BY <1>3, <1>4 DEF IInv, UnlistedIsOver, ReadIsOld, VisitedIsCancelled
<1>10. \A d \in Devices : latest'[d] = latest[d] \/ (latest'[d] = s /\ d = DeviceOf[s])
  BY <1>1, DeviceAssumption DEF IInv, TypeOK
<1>11. LatestIsOfDevice' /\ NothingOutlivesTask'
  BY <1>1, <1>4, <1>10 DEF IInv, LatestIsOfDevice, NothingOutlivesTask, NoGhostDetections, BudgetIsListed
<1>. QED BY <1>5, <1>6, <1>7, <1>8, <1>9, <1>11 DEF IInv

(* A task ends and drops what its session has: since no other task of the  *)
(* session is alive, nobody else loses an entry.                           *)
LEMMA ExitIInv == ASSUME IInv, NEW k \in TaskIds, Alive(k), Exit(k) PROVE IInv'
<1>. DEFINE s == task[k].session
<1>1. /\ budget' = budget \ {s} /\ entry' = [entry EXCEPT ![s] = None]
      /\ latest' = LatestWithout({s}) /\ task' = [task EXCEPT ![k] = Over]
      /\ stopper' = [stopper EXCEPT !.visited = @ \ {s}]
      /\ UNCHANGED <<session, running, scan, seen, rows>>
  BY DEF Exit
<1>2. s \in Sessions
  BY DEF IInv, TasksAreWhole
<1>3. \A j \in TaskIds : task'[j] = IF j = k THEN Over ELSE task[j]
  BY <1>1 DEF IInv, TypeOK
<1>4. /\ ~Alive(k)'
      /\ \A j \in TaskIds : Alive(j)' => j # k /\ Alive(j) /\ task'[j] = task[j] /\ task[j].session # s
  BY <1>3 DEF IInv, OneAlive, Alive, Over
<1>5. \A u \in Sessions : entry'[u] = IF u = s THEN None ELSE entry[u]
  BY <1>1 DEF IInv, TypeOK
<1>6. Listed' = Listed \ {s}
  BY <1>2, <1>5 DEF Listed
<1>7. /\ stopper'.at = stopper.at /\ stopper'.visited = stopper.visited \ {s}
      /\ stopper' \in [at : {"off", "wait", "stopped", "failed"}, visited : SUBSET Sessions,
                       size : Nat, waits : TaskIds \cup {None}]
  BY <1>1 DEF IInv, TypeOK
<1>8. \A d \in Devices : latest'[d] = IF DeviceOf[s] = d THEN None ELSE latest[d]
  BY <1>1 DEF LatestWithout
<1>9. TypeOK'
  <2>1. task' \in [TaskIds -> TaskStates]
    BY <1>1, LoopAssumption DEF IInv, TypeOK, TaskStates, Over, Awaits
  <2>2. latest' \in [Devices -> Sessions \cup {None}]
    BY <1>1 DEF IInv, TypeOK, LatestWithout
  <2>3. entry' \in [Sessions -> TaskIds \cup {None}]
    BY <1>1 DEF IInv, TypeOK
  <2>. QED BY <1>1, <1>7, <2>1, <2>2, <2>3 DEF IInv, TypeOK, SessionsTypeOK
<1>10. TasksAreWhole'
  BY <1>3, <1>4 DEF IInv, TasksAreWhole, Over
<1>11. OneAlive'
  BY <1>4 DEF IInv, OneAlive
<1>12. UnlistedIsCancelled'
  BY <1>4, <1>5 DEF IInv, UnlistedIsCancelled, TasksAreWhole
<1>13. CancelledIsUnlisted'
  BY <1>1, <1>4, <1>5, LoopAssumption DEF IInv, CancelledIsUnlisted
<1>14. EntriesAreAlive'
  <2>. SUFFICES ASSUME running, NEW u \in Listed \ {s}
                PROVE  Alive(entry[u])' /\ task'[entry[u]].session = u
    BY <1>1, <1>5, <1>6 DEF EntriesAreAlive, Alive, Listed
  <2>1. entry[u] \in TaskIds /\ Alive(entry[u]) /\ task[entry[u]].session = u
    BY DEF IInv, TypeOK, EntriesAreAlive, Listed
  <2>2. entry[u] # k
    BY <2>1
  <2>3. task'[entry[u]] = task[entry[u]]
    BY <1>3, <2>1, <2>2
  <2>4. entry'[u] = entry[u]
    BY <1>5 DEF Listed
  <2>. QED BY <2>1, <2>3, <2>4 DEF Alive
<1>15. UnlistedIsOver'
  BY <1>1, <1>4, <1>6, <1>7 DEF IInv, UnlistedIsOver
<1>16. ReadIsOld'
  BY <1>1, <1>6 DEF IInv, ReadIsOld
<1>17. VisitedIsCancelled'
  BY <1>1, <1>4, <1>6, <1>7 DEF IInv, VisitedIsCancelled
<1>18. LatestIsOfDevice'
  BY <1>8 DEF IInv, LatestIsOfDevice
<1>19. NothingOutlivesTask'
  BY <1>1, <1>6, <1>7, <1>8
     DEF IInv, LatestIsOfDevice, NothingOutlivesTask, NoGhostDetections, BudgetIsListed
<1>. QED BY <1>9, <1>10, <1>11, <1>12, <1>13, <1>14, <1>15, <1>16, <1>17, <1>18, <1>19 DEF IInv

(* A cancelled task that ends on the spot leaves everything as it is.      *)
LEMMA DiesIInv ==
  ASSUME IInv, NEW k \in TaskIds, Alive(k), task[k].cancelled,
         task' = [task EXCEPT ![k] = Over],
         UNCHANGED <<session, running, scan, entry, budget, latest, seen, rows, stopper>>
  PROVE  IInv'
<1>1. \A j \in TaskIds : task'[j] = IF j = k THEN Over ELSE task[j]
  BY DEF IInv, TypeOK
<1>2. \A j \in TaskIds : Alive(j)' => j # k /\ Alive(j) /\ task'[j] = task[j]
  BY <1>1 DEF Alive, Over
<1>3. Listed' = Listed
  BY DEF Listed
<1>4. TypeOK'
  <2>1. task' \in [TaskIds -> TaskStates]
    BY LoopAssumption DEF IInv, TypeOK, TaskStates, Over, Awaits
  <2>. QED BY <2>1 DEF IInv, TypeOK, SessionsTypeOK
<1>5. TasksAreWhole'
  BY <1>1, <1>2 DEF IInv, TasksAreWhole, Over
<1>6. OneAlive'
  BY <1>2 DEF IInv, OneAlive
<1>7. UnlistedIsCancelled' /\ CancelledIsUnlisted'
  BY <1>2 DEF IInv, UnlistedIsCancelled, CancelledIsUnlisted
<1>8. EntriesAreAlive'
  <2>. SUFFICES ASSUME running, NEW u \in Listed
                PROVE  Alive(entry[u])' /\ task'[entry[u]].session = u
    BY <1>3 DEF EntriesAreAlive, Alive
  <2>1. entry[u] \in TaskIds /\ Alive(entry[u]) /\ task[entry[u]].session = u
    BY DEF IInv, TypeOK, EntriesAreAlive, Listed
  <2>2. entry[u] # k
    BY DEF IInv, CancelledIsUnlisted, Listed
  <2>. QED BY <1>1, <2>1, <2>2 DEF Alive
<1>9. UnlistedIsOver' /\ ReadIsOld' /\ VisitedIsCancelled'
  BY <1>2, <1>3 DEF IInv, UnlistedIsOver, ReadIsOld, VisitedIsCancelled
<1>10. LatestIsOfDevice' /\ NothingOutlivesTask'
  BY <1>3 DEF IInv, LatestIsOfDevice, NothingOutlivesTask, NoGhostDetections, BudgetIsListed
<1>. QED BY <1>4, <1>5, <1>6, <1>7, <1>8, <1>9, <1>10 DEF IInv

(* The main loop cancels the tasks of the sessions that are gone and gives *)
(* each new one a task that is free: nobody is alive for a new session.    *)
LEMMA ApplyIInv == ASSUME IInv, Apply PROVE IInv'
<1>. DEFINE gone == Listed \ scan
            new  == scan \ Listed
            free == {k \in TaskIds : ~Alive(k)}
<1>1. PICK begun \in Injection(new, free) :
        /\ entry' = [s \in Sessions |->
             IF s \in gone THEN None ELSE IF s \in new THEN begun[s] ELSE entry[s]]
        /\ task' = [k \in TaskIds |->
             IF k \in Range(begun) THEN NewTask(CHOOSE s \in new : begun[s] = k)
             ELSE IF \E s \in gone : entry[s] = k THEN [task[k] EXCEPT !.cancelled = TRUE]
             ELSE task[k]]
  BY DEF Apply, NewSessions
<1>2. /\ scan # None /\ stopper.at # "stopped" /\ scan' = None
      /\ budget' = budget \ gone /\ latest' = LatestWithout(gone)
      /\ UNCHANGED <<session, running, seen, rows, stopper>>
  BY DEF Apply, BudgetWithout
<1>3. /\ scan \subseteq Sessions /\ Listed \subseteq Sessions
      /\ new \subseteq Sessions /\ gone \subseteq Listed
  BY <1>2 DEF IInv, TypeOK, Listed
<1>4. /\ \A s \in new : begun[s] \in TaskIds /\ ~Alive(begun[s])
      /\ \A s, u \in new : begun[s] = begun[u] => s = u
      /\ Range(begun) = {begun[s] : s \in new}
  BY <1>1 DEF Injection, IsInjective, Range
<1>. HIDE DEF gone, new, free
<1>5. \A s \in new : task'[begun[s]] = NewTask(s)
  <2>. TAKE s \in new
  <2>1. (CHOOSE u \in new : begun[u] = begun[s]) = s
    BY <1>4
  <2>. QED BY <1>1, <1>4, <2>1
<1>6. \A k \in TaskIds : k \in Range(begun) <=> \E s \in new : k = begun[s]
  BY <1>4
<1>7. \A k \in TaskIds \ Range(begun) :
        /\ task'[k].at = task[k].at /\ task'[k].session = task[k].session
        /\ task'[k].found = task[k].found
        /\ task'[k].cancelled <=> task[k].cancelled \/ \E s \in gone : entry[s] = k
        /\ task'[k] \in TaskStates
  <2>. TAKE k \in TaskIds \ Range(begun)
  <2>1. task[k] \in TaskStates
    BY DEF IInv, TypeOK
  <2>2. task'[k] = IF \E s \in gone : entry[s] = k THEN [task[k] EXCEPT !.cancelled = TRUE] ELSE task[k]
    BY <1>1
  <2>3. CASE \E s \in gone : entry[s] = k
    <3>1. task'[k] = [task[k] EXCEPT !.cancelled = TRUE]
      BY <2>2, <2>3
    <3>. QED BY <2>1, <2>3, <3>1 DEF TaskStates
  <2>4. CASE ~\E s \in gone : entry[s] = k
    <3>1. task'[k] = task[k]
      BY <2>2, <2>4
    <3>. QED BY <2>1, <2>4, <3>1
  <2>. QED BY <2>3, <2>4
<1>8. \A s \in new : /\ NewTask(s) \in TaskStates
                     /\ NewTask(s).at = "new" /\ NewTask(s).session = s
                     /\ ~NewTask(s).cancelled
  <2>. TAKE s \in new
  <2>1. Over \in TaskStates /\ ~Over.cancelled
    BY LoopAssumption DEF Over, TaskStates, Awaits
  <2>. QED BY <1>3, <2>1 DEF NewTask, TaskStates, Awaits
<1>9. \A k \in TaskIds \ Range(begun) : Alive(k)' <=> Alive(k)
  BY <1>7 DEF Alive
<1>10. \A s \in new : Alive(begun[s])'
  BY <1>5, <1>8 DEF Alive
<1>11. \A s \in Sessions :
         entry'[s] = IF s \in gone THEN None ELSE IF s \in new THEN begun[s] ELSE entry[s]
  BY <1>1
<1>12. Listed' = (Listed \ gone) \cup new
  BY <1>3, <1>4, <1>11, LoopAssumption DEF Listed, new, gone
<1>13. TypeOK'
  <2>1. task' \in [TaskIds -> TaskStates]
    BY <1>1, <1>5, <1>6, <1>7, <1>8
  <2>2. entry' \in [Sessions -> TaskIds \cup {None}]
    BY <1>1, <1>4 DEF IInv, TypeOK
  <2>3. latest' \in [Devices -> Sessions \cup {None}]
    BY <1>2 DEF IInv, TypeOK, LatestWithout
  <2>. QED BY <1>2, <2>1, <2>2, <2>3 DEF IInv, TypeOK, SessionsTypeOK
(* Nobody alive works for a session that is new.                           *)
<1>14. \A k \in TaskIds : Alive(k) => task[k].session \notin new
  BY <1>2 DEF IInv, UnlistedIsOver, new
(* A task alive afterwards is a new one or one that was alive before.      *)
<1>15. \A k \in TaskIds : Alive(k)' =>
         \/ \E s \in new : /\ k = begun[s] /\ task'[k].session = s
                           /\ ~task'[k].cancelled /\ task'[k].at = "new"
         \/ /\ Alive(k) /\ k \notin Range(begun) /\ task'[k].session = task[k].session
  BY <1>5, <1>6, <1>7, <1>8, <1>9
<1>16. TasksAreWhole'
  <2>. SUFFICES ASSUME NEW k \in TaskIds
                PROVE  /\ Alive(k)' => task'[k].session \in Sessions
                       /\ task'[k].at \in {"create", "created"} => task'[k].found # None
    BY DEF TasksAreWhole
  <2>1. CASE k \in Range(begun)
    BY <1>3, <1>5, <1>6, <1>8, <2>1
  <2>2. CASE k \notin Range(begun)
    BY <1>7, <1>9, <2>2 DEF IInv, TasksAreWhole
  <2>. QED BY <2>1, <2>2
<1>17. OneAlive'
  BY <1>4, <1>14, <1>15 DEF IInv, OneAlive
<1>18. UnlistedIsCancelled'
  <2>. SUFFICES ASSUME NEW k \in TaskIds, Alive(k)', ~task'[k].cancelled
                PROVE  entry'[task'[k].session] = k
    BY DEF UnlistedIsCancelled
  <2>1. CASE \E s \in new : k = begun[s] /\ task'[k].session = s
    BY <1>3, <1>11, <2>1 DEF new, gone
  <2>2. CASE Alive(k) /\ k \notin Range(begun) /\ task'[k].session = task[k].session
    <3>1. ~task[k].cancelled /\ \A s \in gone : entry[s] # k
      BY <1>7, <2>2
    <3>2. entry[task[k].session] = k /\ task[k].session \in Sessions
      BY <2>2, <3>1 DEF IInv, UnlistedIsCancelled, TasksAreWhole
    <3>. QED BY <1>11, <1>14, <2>2, <3>1, <3>2
  <2>. QED BY <1>15, <2>1, <2>2
<1>19. EntriesAreAlive'
  <2>. SUFFICES ASSUME running, NEW s \in Listed'
                PROVE  task'[entry'[s]].at # "over" /\ task'[entry'[s]].session = s
    BY <1>2 DEF EntriesAreAlive, Alive
  <2>1. CASE s \in new
    <3>1. entry'[s] = begun[s]
      BY <1>3, <1>11, <2>1 DEF new, gone
    <3>. QED BY <1>5, <1>8, <2>1, <3>1
  <2>2. CASE s \in Listed \ gone /\ s \notin new
    <3>1. entry'[s] = entry[s] /\ entry[s] \in TaskIds
      BY <1>3, <1>11, <2>2 DEF IInv, TypeOK, Listed
    <3>2. Alive(entry[s]) /\ task[entry[s]].session = s
      BY <2>2 DEF IInv, EntriesAreAlive
    <3>3. entry[s] \notin Range(begun)
      BY <1>4, <1>6, <3>1, <3>2
    <3>. QED BY <1>7, <3>1, <3>2, <3>3 DEF Alive
  <2>. QED BY <1>12, <2>1, <2>2
<1>20. CancelledIsUnlisted'
  <2>. SUFFICES ASSUME running, NEW k \in TaskIds, NEW s \in Sessions,
                       Alive(k)', task'[k].cancelled, entry'[s] = k
                PROVE  FALSE
    BY <1>2 DEF CancelledIsUnlisted
  <2>1. Alive(k) /\ k \notin Range(begun)
    BY <1>15
  <2>2. s \notin gone /\ s \notin new /\ entry[s] = k
    BY <1>6, <1>11, <2>1, LoopAssumption
  <2>3. s \in Listed
    BY <2>2, LoopAssumption DEF Listed
  <2>4. ~task[k].cancelled
    BY <2>1, <2>2 DEF IInv, CancelledIsUnlisted
  <2>5. PICK u \in gone : entry[u] = k
    BY <1>7, <2>1, <2>4
  <2>6. task[k].session = u /\ task[k].session = s
    BY <1>3, <2>2, <2>3, <2>5 DEF IInv, EntriesAreAlive
  <2>. QED BY <2>2, <2>6
<1>21. UnlistedIsOver'
  <2>. SUFFICES ASSUME NEW k \in TaskIds, Alive(k)', task'[k].session \notin Listed'
                PROVE  session[task'[k].session] = "over"
    BY <1>2 DEF UnlistedIsOver
  <2>1. Alive(k) /\ task'[k].session = task[k].session
    BY <1>12, <1>15
  <2>2. CASE task[k].session \notin Listed
    BY <1>2, <2>1, <2>2 DEF IInv, UnlistedIsOver
  <2>3. CASE task[k].session \in gone
    BY <1>2, <2>1, <2>3 DEF IInv, ReadIsOld, gone
  <2>. QED BY <1>12, <2>1, <2>2, <2>3
<1>22. ReadIsOld'
  BY <1>2, <1>3, <1>12 DEF IInv, ReadIsOld, new
<1>23. VisitedIsCancelled'
  <2>1. stopper.visited \subseteq Listed
    BY <1>2 DEF IInv, VisitedIsCancelled
  <2>2. ASSUME NEW k \in TaskIds, Alive(k)', ~task'[k].cancelled
        PROVE  task'[k].session \notin stopper.visited
    BY <1>7, <1>15, <2>1, <2>2 DEF IInv, VisitedIsCancelled, new
  <2>. QED BY <1>2, <2>2 DEF IInv, VisitedIsCancelled
<1>24. \A d \in Devices :
         latest'[d] = IF \E s \in gone : DeviceOf[s] = d THEN None ELSE latest[d]
  BY <1>2 DEF LatestWithout
<1>25. LatestIsOfDevice'
  BY <1>24 DEF IInv, LatestIsOfDevice
<1>26. NothingOutlivesTask'
  BY <1>2, <1>12, <1>24
     DEF IInv, LatestIsOfDevice, NothingOutlivesTask, NoGhostDetections, BudgetIsListed
<1>. QED BY <1>13, <1>16, <1>17, <1>18, <1>19, <1>20, <1>21, <1>22, <1>23, <1>25, <1>26 DEF IInv

(* One turn of stop(): when all that is listed has been visited no task is *)
(* left that could go on, and the entries are dropped.                     *)
LEMMA TurnIInv ==
  ASSUME IInv, stopper.at \in {"off", "wait"}, Turn(stopper.visited), running' = FALSE,
         UNCHANGED <<session, scan, budget, latest, seen, rows>>
  PROVE  IInv'
<1>1. CASE /\ Listed \subseteq stopper.visited
           /\ stopper' = [Idle EXCEPT !.at = "stopped"]
           /\ entry' = [s \in Sessions |-> None]
           /\ UNCHANGED task
  <2>1. Listed' = {} /\ \A k \in TaskIds : Alive(k)' <=> Alive(k)
    BY <1>1 DEF Listed, Alive
  <2>2. \A k \in TaskIds : Alive(k) => task[k].cancelled
    BY <1>1, LoopAssumption
       DEF IInv, UnlistedIsCancelled, VisitedIsCancelled, Listed, TasksAreWhole
  <2>3. stopper'.at = "stopped" /\ stopper'.visited = {}
    BY <1>1 DEF Idle
  <2>4. TypeOK'
    BY <1>1 DEF IInv, TypeOK, SessionsTypeOK, Idle
  <2>5. TasksAreWhole' /\ OneAlive'
    BY <1>1, <2>1 DEF IInv, TasksAreWhole, OneAlive
  <2>6. UnlistedIsCancelled'
    BY <1>1, <2>1, <2>2 DEF UnlistedIsCancelled
  <2>7. CancelledIsUnlisted' /\ EntriesAreAlive'
    BY DEF CancelledIsUnlisted, EntriesAreAlive
  <2>8. UnlistedIsOver' /\ NothingOutlivesTask'
    BY <2>3 DEF UnlistedIsOver, NothingOutlivesTask, NoGhostDetections, BudgetIsListed
  <2>9. ReadIsOld'
    BY <2>1 DEF IInv, ReadIsOld
  <2>10. VisitedIsCancelled'
    BY <2>3 DEF VisitedIsCancelled
  <2>11. LatestIsOfDevice'
    BY DEF IInv, LatestIsOfDevice
  <2>. QED BY <2>4, <2>5, <2>6, <2>7, <2>8, <2>9, <2>10, <2>11 DEF IInv
<1>2. ASSUME NEW s \in Listed \ stopper.visited,
             stopper' = [at |-> "wait", visited |-> stopper.visited \cup {s},
                         size |-> Cardinality(Listed), waits |-> entry[s]],
             task' = [task EXCEPT ![entry[s]].cancelled = TRUE],
             UNCHANGED entry
      PROVE  IInv'
  <2>1. entry[s] \in TaskIds /\ s \in Sessions
    BY DEF IInv, TypeOK, Listed
  <2>2. \A k \in TaskIds :
          /\ task'[k].at = task[k].at /\ task'[k].session = task[k].session
          /\ task'[k].found = task[k].found
          /\ task'[k].cancelled <=> task[k].cancelled \/ k = entry[s]
    BY <1>2, <2>1 DEF IInv, TypeOK, TaskStates
  <2>3. Listed' = Listed /\ \A k \in TaskIds : Alive(k)' <=> Alive(k)
    BY <1>2, <2>2 DEF Listed, Alive
  <2>4. stopper.at # "stopped" /\ stopper'.at = "wait" /\ stopper'.visited = stopper.visited \cup {s}
    BY <1>2
  <2>5. TypeOK'
    <3>1. IsFiniteSet(Listed) /\ Cardinality(Listed) \in Nat /\ Listed \subseteq Sessions
      BY LoopAssumption, FS_Subset, FS_CardinalityType DEF Listed
    <3>2. task' \in [TaskIds -> TaskStates]
      <4>1. task \in [TaskIds -> TaskStates]
        BY DEF IInv, TypeOK
      <4>2. [task[entry[s]] EXCEPT !.cancelled = TRUE] \in TaskStates
        BY <2>1, <4>1 DEF TaskStates
      <4>3. task' = [task EXCEPT ![entry[s]] = [task[entry[s]] EXCEPT !.cancelled = TRUE]]
        BY <1>2
      <4>. QED BY <2>1, <4>1, <4>2, <4>3
    <3>. QED BY <1>2, <2>1, <3>1, <3>2 DEF IInv, TypeOK, SessionsTypeOK
  <2>6. TasksAreWhole' /\ OneAlive'
    BY <2>2, <2>3 DEF IInv, TasksAreWhole, OneAlive
  <2>7. UnlistedIsCancelled'
    BY <1>2, <2>2, <2>3 DEF IInv, UnlistedIsCancelled
  <2>8. CancelledIsUnlisted' /\ EntriesAreAlive'
    BY DEF CancelledIsUnlisted, EntriesAreAlive
  <2>9. UnlistedIsOver' /\ ReadIsOld'
    BY <2>2, <2>3, <2>4 DEF IInv, UnlistedIsOver, ReadIsOld
  <2>10. VisitedIsCancelled'
    <3>1. ASSUME NEW k \in TaskIds, Alive(k), ~task'[k].cancelled
          PROVE  task[k].session \notin stopper.visited \cup {s}
      BY <2>2, <3>1 DEF IInv, UnlistedIsCancelled, VisitedIsCancelled
    <3>. QED BY <2>2, <2>3, <2>4, <3>1 DEF IInv, VisitedIsCancelled
  <2>11. LatestIsOfDevice' /\ NothingOutlivesTask'
    BY <2>3, <2>4 DEF IInv, LatestIsOfDevice, NothingOutlivesTask, NoGhostDetections, BudgetIsListed
  <2>. QED BY <2>5, <2>6, <2>7, <2>8, <2>9, <2>10, <2>11 DEF IInv
<1>. QED BY <1>1, <1>2 DEF Turn

LEMMA StopIInv == ASSUME IInv, Stop \/ StopResume PROVE IInv'
<1>1. CASE Stop
  <2>1. stopper.visited = {}
    BY <1>1 DEF Stop, IInv, VisitedIsCancelled
  <2>. QED BY <1>1, <2>1, TurnIInv DEF Stop, Turn
<1>2. CASE StopResume /\ Cardinality(Listed) = stopper.size
  <2>1. running' = FALSE
    BY <1>2 DEF StopResume, IInv, VisitedIsCancelled, TypeOK
  <2>. QED BY <1>2, <2>1, TurnIInv DEF StopResume
<1>3. CASE StopResume /\ Cardinality(Listed) # stopper.size
  <2>1. /\ stopper.at = "wait" /\ stopper' = [Idle EXCEPT !.at = "failed"]
        /\ UNCHANGED <<session, running, scan, entry, task, budget, latest, seen, rows>>
    BY <1>3 DEF StopResume
  <2>2. Listed' = Listed /\ \A k \in TaskIds : Alive(k)' <=> Alive(k)
    BY <2>1 DEF Listed, Alive
  <2>3. stopper'.at = "failed" /\ stopper'.visited = {}
    BY <2>1 DEF Idle
  <2>4. TypeOK'
    BY <2>1 DEF IInv, TypeOK, SessionsTypeOK, Idle
  <2>5. UnlistedIsOver' /\ ReadIsOld'
    BY <2>1, <2>2, <2>3 DEF IInv, UnlistedIsOver, ReadIsOld
  <2>6. VisitedIsCancelled'
    BY <2>1, <2>3 DEF IInv, VisitedIsCancelled
  <2>7. LatestIsOfDevice' /\ NothingOutlivesTask'
    BY <2>1, <2>2, <2>3
       DEF IInv, LatestIsOfDevice, NothingOutlivesTask, NoGhostDetections, BudgetIsListed
  <2>. QED BY <2>1, <2>4, <2>5, <2>6, <2>7, TasksKept DEF IInv
<1>. QED BY <1>1, <1>2, <1>3

(* The steps of a task: it ends, dies on the spot, or goes on.             *)
LEMMA TaskIInv == ASSUME IInv, NEW k \in TaskIds, TaskStep(k) PROVE IInv'
<1>. DEFINE t == task'[k]
<1>0. /\ task \in [TaskIds -> TaskStates] /\ task[k] \in TaskStates
      /\ seen \in [Sessions -> [inViolation : BOOLEAN, zones : SUBSET Zones]]
      /\ rows \in [Sessions -> 0..MaxRows]
  BY DEF IInv, TypeOK
<1>a. 0 \in 0..(MaxErrors - 1)
  BY LoopAssumption
<1>1. CASE Cancelled(k)
  BY <1>1, ExitIInv, DiesIInv DEF Cancelled
<1>. SUFFICES ASSUME ~Cancelled(k) PROVE IInv'
  BY <1>1
<1>2. Alive(k) /\ ~task[k].cancelled
  BY DEF TaskStep, Round, Answered, NoResult, Failed, Publish, Create, Created, Awaiting, Alive
<1>3. task[k].session \in Sessions
  BY <1>2 DEF IInv, TasksAreWhole
<1>4. CASE Exit(k)
  BY <1>2, <1>4, ExitIInv
<1>5. CASE Round(k) /\ ~Exit(k)
  <2>1. PICK at \in {"infer", "sleep"} : task' = [task EXCEPT ![k].at = at]
    BY <1>5 DEF Round
  <2>2. /\ t \in TaskStates /\ task' = [task EXCEPT ![k] = t]
        /\ t.at = at /\ t.session = task[k].session /\ ~t.cancelled
    BY <1>0, <1>2, <2>1 DEF TaskStates, Awaits
  <2>3. /\ budget' \in {budget, budget \cup {task[k].session}}
        /\ UNCHANGED <<session, running, scan, entry, latest, seen, rows, stopper>>
    BY <1>5 DEF Round
  <2>. QED BY <1>0, <1>2, <2>1, <2>2, <2>3, GoesOn
<1>6. CASE Answered(k)
  <2>1. PICK found \in (SUBSET Zones) \cup {None} :
          task' = [task EXCEPT ![k].at = "count", ![k].found = found]
    BY <1>6 DEF Answered
  <2>2. /\ t \in TaskStates /\ task' = [task EXCEPT ![k] = t]
        /\ t.at = "count" /\ t.session = task[k].session /\ ~t.cancelled
    BY <1>0, <1>2, <2>1 DEF TaskStates, Awaits
  <2>. QED BY <1>0, <1>2, <1>6, <2>2, GoesOn DEF Answered
<1>7. CASE NoResult(k)
  <2>1. task' = [task EXCEPT ![k].at = "sleep", ![k].errors = 0]
    BY <1>7 DEF NoResult
  <2>2. /\ t \in TaskStates /\ task' = [task EXCEPT ![k] = t]
        /\ t.at = "sleep" /\ t.session = task[k].session /\ ~t.cancelled
    BY <1>0, <1>a, <1>2, <2>1 DEF TaskStates, Awaits
  <2>. QED BY <1>0, <1>2, <1>7, <2>2, GoesOn DEF NoResult
<1>8. CASE Failed(k) /\ ~Exit(k)
  <2>1. task' = [task EXCEPT ![k].at = "backoff", ![k].errors = @ + 1] /\ task[k].errors + 1 < MaxErrors
    BY <1>0, <1>8, LoopAssumption DEF Failed, TaskStates
  <2>2. task[k].errors + 1 \in 0..(MaxErrors - 1)
    BY <1>0, <2>1, LoopAssumption DEF TaskStates
  <2>3. /\ t \in TaskStates /\ task' = [task EXCEPT ![k] = t]
        /\ t.at = "backoff" /\ t.session = task[k].session /\ ~t.cancelled
    BY <1>0, <1>2, <2>1, <2>2 DEF TaskStates, Awaits
  <2>. QED BY <1>0, <1>2, <1>8, <2>3, GoesOn DEF Failed
<1>9. ASSUME Sleeps(k)
      PROVE  /\ t \in TaskStates /\ task' = [task EXCEPT ![k] = t]
             /\ t.at = "sleep" /\ t.session = task[k].session /\ ~t.cancelled
  BY <1>0, <1>a, <1>2, <1>9 DEF Sleeps, TaskStates, Awaits
<1>10. ASSUME task[k].found # None
       PROVE  [inViolation |-> TRUE, zones |-> task[k].found] \in [inViolation : BOOLEAN, zones : SUBSET Zones]
  BY <1>0, <1>10 DEF TaskStates
<1>11. CASE Publish(k)
  <2>1. /\ latest' = [latest EXCEPT ![DeviceOf[task[k].session]] = task[k].session]
        /\ UNCHANGED <<session, running, scan, entry, budget, rows, stopper>>
    BY <1>11 DEF Publish
  <2>2. CASE Sleeps(k)
    <3>1. seen' \in [Sessions -> [inViolation : BOOLEAN, zones : SUBSET Zones]]
      <4>1. Calm \in [inViolation : BOOLEAN, zones : SUBSET Zones]
        BY DEF Calm
      <4>2. \/ seen' = [seen EXCEPT ![task[k].session] = Calm]
            \/ seen' = seen
            \/ /\ task[k].found # None
               /\ seen' = [seen EXCEPT ![task[k].session] = [inViolation |-> TRUE, zones |-> task[k].found]]
        BY <1>11 DEF Publish
      <4>. QED BY <1>0, <1>10, <4>1, <4>2
    <3>. QED BY <1>0, <1>2, <1>9, <2>1, <2>2, <3>1, GoesOn
  <2>3. CASE task[k].found # None /\ task' = [task EXCEPT ![k].at = "create"] /\ UNCHANGED seen
    <3>1. /\ t \in TaskStates /\ task' = [task EXCEPT ![k] = t] /\ t.found # None
          /\ t.at = "create" /\ t.session = task[k].session /\ ~t.cancelled
      BY <1>0, <1>2, <2>3 DEF TaskStates, Awaits
    <3>. QED BY <1>0, <1>2, <2>1, <2>3, <3>1, GoesOn
  <2>. QED BY <1>11, <2>2, <2>3 DEF Publish
<1>12. CASE Create(k)
  <2>1. task' = [task EXCEPT ![k].at = "created"] /\ task[k].found # None
    BY <1>12 DEF Create, Awaiting, IInv, TasksAreWhole
  <2>2. /\ t \in TaskStates /\ task' = [task EXCEPT ![k] = t] /\ t.found # None
        /\ t.at = "created" /\ t.session = task[k].session /\ ~t.cancelled
    BY <1>0, <1>2, <2>1 DEF TaskStates, Awaits
  <2>3. rows' \in [Sessions -> 0..MaxRows]
    BY <1>0, <1>12, LoopAssumption DEF Create
  <2>. QED BY <1>0, <1>2, <1>12, <2>2, <2>3, GoesOn DEF Create
<1>13. CASE Created(k)
  <2>1. seen' \in [Sessions -> [inViolation : BOOLEAN, zones : SUBSET Zones]]
    BY <1>0, <1>10, <1>13 DEF Created, Awaiting, IInv, TasksAreWhole
  <2>. QED BY <1>0, <1>2, <1>9, <1>13, <2>1, GoesOn DEF Created
<1>. QED BY <1>4, <1>5, <1>6, <1>7, <1>8, <1>11, <1>12, <1>13 DEF TaskStep

LEMMA NextIInv == IInv /\ [Next]_vars => IInv'
<1>. SUFFICES ASSUME IInv, [Next]_vars PROVE IInv'
  OBVIOUS
<1>1. CASE Requests
  BY <1>1, RequestsIInv
<1>2. CASE Scan
  BY <1>2, ScanIInv
<1>3. CASE Apply
  BY <1>3, ApplyIInv
<1>4. ASSUME NEW k \in TaskIds, TaskStep(k) PROVE IInv'
  BY <1>4, TaskIInv
<1>5. CASE Stop \/ StopResume
  BY <1>5, StopIInv
<1>6. CASE UNCHANGED vars
  <2>1. UNCHANGED <<session, running, scan, entry, task, budget, latest, seen, rows, stopper>>
    BY <1>6 DEF vars, loopVars
  <2>2. Listed' = Listed /\ \A k \in TaskIds : Alive(k)' <=> Alive(k)
    BY <2>1 DEF Listed, Alive
  <2>3. TypeOK'
    BY <2>1 DEF IInv, TypeOK, SessionsTypeOK
  <2>4. UnlistedIsOver' /\ ReadIsOld' /\ VisitedIsCancelled'
    BY <2>1, <2>2 DEF IInv, UnlistedIsOver, ReadIsOld, VisitedIsCancelled
  <2>5. LatestIsOfDevice' /\ NothingOutlivesTask'
    BY <2>1, <2>2 DEF IInv, LatestIsOfDevice, NothingOutlivesTask, NoGhostDetections, BudgetIsListed
  <2>. QED BY <2>1, <2>3, <2>4, <2>5, TasksKept DEF IInv
<1>. QED BY <1>1, <1>2, <1>3, <1>4, <1>5, <1>6 DEF Next

-----------------------------------------------------------------------------
(* However scans, requests, ends and cancellations interleave, the         *)
(* invariant holds.                                                        *)
THEOREM Invariance == Spec => []IInv
<1>. QED BY InitIInv, NextIInv, PTL DEF Spec

(* The tasks, the entries of _session_tasks and the cancellations agree: a *)
(* session never has two tasks that go on.                                 *)
THEOREM TasksAreEntries == Spec => []TasksMatchEntries
<1>1. IInv => TasksMatchEntries
  BY DEF IInv, TasksMatchEntries, OneTaskPerSession, OneAlive
<1>. QED BY <1>1, Invariance, PTL

(* No detections and no share of the GPU budget are left of a session that *)
(* has no task.                                                            *)
THEOREM NothingOutlives == Spec => []NothingOutlivesTask
<1>1. IInv => NothingOutlivesTask
  BY DEF IInv
<1>. QED BY <1>1, Invariance, PTL

(* Stronger than what the run checks: not even a cancelled task is alive   *)
(* beside another one of its session, though tasks are ended one await     *)
(* after they are cancelled.                                               *)
THEOREM NeverTwoAlive == Spec => []OneAlive
<1>1. IInv => OneAlive
  BY DEF IInv
<1>. QED BY <1>1, Invariance, PTL
-----------------------------------------------------------------------------
(* What a frame waiting to be recorded was found to be, it still is.       *)
Fresh == \A k \in TaskIds : task[k].at = "create" => IsNew(k)

(* A task gets to the insertion by Publish alone, which has compared the   *)
(* frame; and what is compared with changes by a task of that session.     *)
LEMMA SeenStep ==
  ASSUME IInv, [Next]_vars
  PROVE  /\ \A k \in TaskIds : task'[k].at = "create" =>
              /\ task'[k].session = task[k].session /\ task'[k].found = task[k].found
              /\ task[k].at = "create" \/ (task[k].at = "count" /\ IsNew(k))
         /\ \A s \in Sessions : seen'[s] = seen[s] \/
              \E k \in TaskIds : Alive(k) /\ task[k].session = s /\ task'[k].at # "create"
<1>. DEFINE Goal == /\ \A k \in TaskIds : task'[k].at = "create" =>
                         /\ task'[k].session = task[k].session /\ task'[k].found = task[k].found
                         /\ task[k].at = "create" \/ (task[k].at = "count" /\ IsNew(k))
                    /\ \A s \in Sessions : seen'[s] = seen[s] \/
                         \E k \in TaskIds : Alive(k) /\ task[k].session = s /\ task'[k].at # "create"
<1>0. task \in [TaskIds -> TaskStates] /\ entry \in [Sessions -> TaskIds \cup {None}]
      /\ seen \in [Sessions -> [inViolation : BOOLEAN, zones : SUBSET Zones]]
  BY DEF IInv, TypeOK
<1>1. CASE UNCHANGED <<task, seen>>
  BY <1>1
<1>2. ASSUME UNCHANGED seen, NEW j \in TaskIds, NEW t, t.at # "create", task' = [task EXCEPT ![j] = t]
      PROVE  Goal
  BY <1>0, <1>2
<1>3. CASE Apply
  <2>1. UNCHANGED seen
    BY <1>3 DEF Apply
  <2>2. ASSUME NEW k \in TaskIds
        PROVE  task'[k] = task[k] \/ task'[k].at = "new" \/ task'[k] = [task[k] EXCEPT !.cancelled = TRUE]
    <3>1. \A s : NewTask(s).at = "new"
      BY DEF NewTask, Over
    <3>. QED BY <1>3, <3>1 DEF Apply
  <2>3. ASSUME NEW k \in TaskIds, task'[k].at = "create"
        PROVE  /\ task'[k].session = task[k].session /\ task'[k].found = task[k].found
               /\ task[k].at = "create"
    BY <1>0, <2>2, <2>3 DEF TaskStates
  <2>. QED BY <2>1, <2>3
<1>4. ASSUME NEW v, Turn(v), UNCHANGED seen PROVE Goal
  <2>1. CASE UNCHANGED task
    BY <1>4, <2>1
  <2>2. ASSUME NEW s \in Listed, task' = [task EXCEPT ![entry[s]].cancelled = TRUE]
        PROVE  Goal
    <3>1. \A k \in TaskIds : task'[k] = task[k] \/ task'[k] = [task[k] EXCEPT !.cancelled = TRUE]
      BY <1>0, <2>2
    <3>2. ASSUME NEW k \in TaskIds, task'[k].at = "create"
          PROVE  /\ task'[k].session = task[k].session /\ task'[k].found = task[k].found
                 /\ task[k].at = "create"
      BY <1>0, <3>1, <3>2 DEF TaskStates
    <3>. QED BY <1>4, <3>2
  <2>3. UNCHANGED task \/ \E s \in Listed : task' = [task EXCEPT ![entry[s]].cancelled = TRUE]
    BY <1>4 DEF Turn
  <2>. HIDE DEF Goal
  <2>. QED BY <2>1, <2>2, <2>3
<1>5. ASSUME NEW k \in TaskIds, TaskStep(k) PROVE Goal
  <2>1. Alive(k) /\ task[k].session \in Sessions
    BY <1>5 DEF TaskStep, Cancelled, Round, Awaiting, Answered, NoResult, Failed, Publish, Create,
       Created, Alive, IInv, TasksAreWhole
  <2>2. CASE task' = [task EXCEPT ![k] = Over] /\ UNCHANGED seen
    BY <1>2, <2>2 DEF Over
  <2>3. CASE Cancelled(k) \/ Failed(k)
    <3>1. CASE task' = [task EXCEPT ![k].at = "backoff", ![k].errors = @ + 1] /\ UNCHANGED seen
      <4>. DEFINE t == [task[k] EXCEPT !.at = "backoff", !.errors = @ + 1]
      <4>1. task' = [task EXCEPT ![k] = t] /\ t.at = "backoff"
        BY <1>0, <3>1 DEF TaskStates
      <4>. QED BY <1>2, <3>1, <4>1
    <3>. QED BY <2>2, <2>3, <3>1 DEF Cancelled, Failed, Exit
  <2>4. CASE Round(k)
    <3>1. ASSUME NEW at \in {"infer", "sleep"}, task' = [task EXCEPT ![k].at = at], UNCHANGED seen
          PROVE  Goal
      <4>. DEFINE t == [task[k] EXCEPT !.at = at]
      <4>1. task' = [task EXCEPT ![k] = t] /\ t.at = at
        BY <1>0, <3>1 DEF TaskStates
      <4>. QED BY <1>2, <3>1, <4>1
    <3>. QED BY <2>2, <2>4, <3>1 DEF Round, Exit
  <2>5. CASE Answered(k)
    <3>1. PICK found : task' = [task EXCEPT ![k].at = "count", ![k].found = found]
      BY <2>5 DEF Answered
    <3>. DEFINE t == [[task[k] EXCEPT !.at = "count"] EXCEPT !.found = found]
    <3>2. task' = [task EXCEPT ![k] = t] /\ t.at = "count"
      BY <1>0, <3>1 DEF TaskStates
    <3>. QED BY <1>2, <2>5, <3>2 DEF Answered
  <2>6. CASE NoResult(k)
    <3>. DEFINE t == [[task[k] EXCEPT !.at = "sleep"] EXCEPT !.errors = 0]
    <3>2. task' = [task EXCEPT ![k] = t] /\ t.at = "sleep"
      BY <1>0, <2>6 DEF TaskStates, NoResult
    <3>. QED BY <1>2, <2>6, <3>2 DEF NoResult
  <2>7. ASSUME Sleeps(k), NEW x, seen' = [seen EXCEPT ![task[k].session] = x] \/ UNCHANGED seen
        PROVE  Goal
    <3>1. task'[k].at = "sleep" /\ \A j \in TaskIds : j # k => task'[j] = task[j]
      BY <1>0, <2>7 DEF Sleeps, TaskStates
    <3>. QED BY <1>0, <2>1, <2>7, <3>1
  <2>8. CASE Publish(k)
    <3>1. CASE /\ IsNew(k) /\ task' = [task EXCEPT ![k].at = "create"] /\ UNCHANGED seen
      <4>1. /\ task'[k].session = task[k].session /\ task'[k].found = task[k].found
            /\ \A j \in TaskIds : j # k => task'[j] = task[j]
        BY <1>0, <3>1 DEF TaskStates
      <4>. QED BY <2>8, <3>1, <4>1 DEF Publish, Awaiting
    <3>. QED BY <2>7, <2>8, <3>1 DEF Publish
  <2>9. CASE Create(k)
    <3>. DEFINE t == [task[k] EXCEPT !.at = "created"]
    <3>2. task' = [task EXCEPT ![k] = t] /\ t.at = "created"
      BY <1>0, <2>9 DEF TaskStates, Create
    <3>. QED BY <1>2, <2>9, <3>2 DEF Create
  <2>10. CASE Created(k)
    BY <2>7, <2>10 DEF Created
  <2>. QED BY <1>5, <2>3, <2>4, <2>5, <2>6, <2>8, <2>9, <2>10 DEF TaskStep
<1>6. CASE Stop \/ StopResume
  BY <1>1, <1>4, <1>6 DEF Stop, StopResume
<1>. QED BY <1>1, <1>3, <1>5, <1>6 DEF Next, Requests, Scan, vars, loopVars

(* No other task of the session is alive, so what the frame was compared   *)
(* with is there until it is recorded.                                     *)
LEMMA FreshInv == IInv /\ Fresh /\ [Next]_vars => Fresh'
<1>. SUFFICES ASSUME IInv, Fresh, [Next]_vars, NEW k \in TaskIds, task'[k].at = "create"
              PROVE  IsNew(k)'
  BY DEF Fresh
<1>1. /\ task'[k].session = task[k].session /\ task'[k].found = task[k].found
      /\ Alive(k) /\ IsNew(k)
  BY SeenStep DEF Fresh, Alive
<1>2. task[k].session \in Sessions
  BY <1>1 DEF IInv, TasksAreWhole
<1>3. seen'[task[k].session] = seen[task[k].session]
  BY <1>1, <1>2, SeenStep DEF IInv, OneAlive
<1>. QED BY <1>1, <1>3 DEF IsNew

(* "Only create when they RE-ENTER after leaving" (_inference_task): at the*)
(* insertion of a violation the comparison made two awaits ago still holds,*)
(* so a stay in a zone is recorded once, in every interleaving of tasks.   *)
THEOREM RecordedOnce == Spec => RecordedOncePerStay
<1>1. Init => Fresh
  BY DEF Init, Fresh, Over
<1>2. Fresh => (\A k \in TaskIds :
       LET s == task[k].session IN
       task[k].at = "create" /\ task'[k].at = "created" /\ rows'[s] > rows[s] =>
         ~seen[s].inViolation \/ task[k].found \ seen[s].zones # {})
  BY DEF Fresh, IsNew
<1>. QED BY <1>1, <1>2, FreshInv, Invariance, PTL DEF Spec, RecordedOncePerStay

-----------------------------------------------------------------------------
(* The consumer of VAS's events (VASEvents).                               *)

(* Where the consumer is decides what its locals hold; the entries it has  *)
(* not handled follow the position without a gap.                          *)
Locals ==
  /\ lastId = NoId <=> consumer \in {"down", "connect", "load", "off"}
  /\ consumer \in {"wait", "handle", "save"} => from # NoId
  /\ consumer = "wait" /\ lastId # Now => from = lastId
  /\ batch # <<>> => consumer \in {"handle", "save"}
  /\ consumer = "handle" => batch # <<>>
  /\ consumer = "save" => lastId \in Ids
  /\ \A j \in 1..Len(batch) : batch[j] = (IF lastId = Now THEN from ELSE lastId) + j

(* Only between an event and its save is the position in Redis another     *)
(* one than the consumer's.                                                *)
Kept ==
  redisFaults = 0 /\ client =>
    /\ lastId = Now => saved = NoId
    /\ lastId \in Ids /\ consumer # "save" => saved = lastId
    /\ lastId \in Ids /\ consumer = "save" => saved \in {NoId, lastId - 1}

(* What a process has seen lies between its first event and its position.  *)
Seen ==
  /\ consumer = "down" => cache = Unknown /\ first = NoId
  /\ redisFaults = 0 /\ client /\ first # NoId => Position \in Ids /\ first <= Position

Inv == EventsTypeOK /\ Locals /\ Kept /\ Seen /\ CacheIsReplay

LEMMA InitInv == EventsInit => Inv
<1>. SUFFICES ASSUME EventsInit PROVE Inv
  OBVIOUS
<1>. USE EventsAssumption DEF EventsInit
<1>0. Unknown \in [VASStreams -> {"active", "paused", "unknown"}]
  BY DEF Unknown
<1>1. EventsTypeOK
  <2>1. <<>> \in Seq([stream : VASStreams, kind : Kinds]) /\ <<>> \in Seq(Ids)
    OBVIOUS
  <2>2. 0 \in 0..MaxVASFaults /\ 0 \in 0..MaxRedisFaults
    OBVIOUS
  <2>. QED BY <1>0, <2>1, <2>2 DEF EventsTypeOK, Places
<1>2. Locals
  BY DEF Locals, Ids
<1>3. Kept /\ Seen /\ CacheIsReplay
  BY DEF Kept, Seen, CacheIsReplay, Ids
<1>. QED BY <1>1, <1>2, <1>3 DEF Inv

-----------------------------------------------------------------------------
LEMMA PublishInv == Inv /\ VASPublishes => Inv'
<1>. SUFFICES ASSUME Inv, VASPublishes PROVE Inv'
  OBVIOUS
<1>. USE EventsAssumption
<1>1. PICK e \in [stream : VASStreams, kind : Kinds] : log' = Append(log, e)
  BY DEF VASPublishes
<1>2. /\ Len(log) \in Nat
      /\ Len(log') = Len(log) + 1
      /\ log' \in Seq([stream : VASStreams, kind : Kinds])
      /\ \A i \in Ids : log'[i] = log[i]
  BY <1>1 DEF Inv, EventsTypeOK, Ids
<1>3. /\ Ids \subseteq Ids'
      /\ UNCHANGED <<saved, consumer, consuming, listening, client, lastId, from, batch, cache, first,
                     vasFaults, redisFaults>>
  BY <1>2 DEF VASPublishes, Ids
<1>4. EventsTypeOK'
  <2>1. batch' \in Seq(Ids')
    <3>1. \A i \in 1..Len(batch) : batch[i] \in Ids
      BY DEF Inv, EventsTypeOK
    <3>2. batch \in Seq(Ids')
      BY <3>1, <1>3 DEF Inv, EventsTypeOK
    <3>. QED BY <3>2, <1>3
  <2>2. from' \in 0..Len(log') \cup {NoId}
    BY <1>2, <1>3 DEF Inv, EventsTypeOK
  <2>. QED BY <1>2, <1>3, <2>1, <2>2 DEF Inv, EventsTypeOK
<1>5. lastId \in Ids' <=> lastId \in Ids
  BY <1>2, <1>3 DEF Inv, EventsTypeOK, Ids
<1>6. Locals'
  BY <1>3, <1>5 DEF Inv, Locals
<1>7. Kept'
  BY <1>3, <1>5 DEF Inv, Kept
<1>8. Position' = Position
  BY <1>3, <1>5 DEF Position
<1>9. Seen'
  BY <1>3, <1>8 DEF Inv, Seen, Unknown
<1>10. CacheIsReplay'
  <2>. SUFFICES ASSUME redisFaults = 0, client, listening, NEW s \in VASStreams PROVE CacheSays(s)'
    BY <1>3 DEF CacheIsReplay
  <2>1. CacheSays(s)
    BY DEF Inv, CacheIsReplay
  <2>2. CASE first = NoId
    BY <2>1, <2>2, <1>3 DEF CacheSays
  <2>3. CASE first # NoId
    <3>1. first \in Ids /\ Position \in Ids
      BY <2>3 DEF Inv, EventsTypeOK, Seen
    <3>2. \A i \in first..Position : i \in Ids /\ log'[i] = log[i]
      BY <3>1, <1>2 DEF Ids
    <3>3. Reports(s)' = Reports(s)
      BY <3>2, <1>3, <1>8 DEF Reports
    <3>. QED BY <2>1, <2>3, <3>2, <3>3, <1>3 DEF CacheSays, Reports
  <2>. QED BY <2>2, <2>3
<1>. QED BY <1>4, <1>6, <1>7, <1>9, <1>10 DEF Inv

(* A step that leaves the events, the cache and the position alone leaves  *)
(* the cache the replay it is.                                             *)
LEMMA SameReplay ==
  ASSUME CacheIsReplay, Position' = Position,
         UNCHANGED <<log, listening, client, cache, first>>, redisFaults' = 0 => redisFaults = 0
  PROVE  CacheIsReplay'
BY DEF CacheIsReplay, CacheSays, Reports

(* The steps of the process: none appends an event.                        *)
LEMMA BootInv == Inv /\ Boot => Inv'
<1>. SUFFICES ASSUME Inv, Boot PROVE Inv'
  OBVIOUS
<1>. USE EventsAssumption DEF Boot, Inv
<1>1. EventsTypeOK'
  BY DEF EventsTypeOK, Places, Ids
<1>2. Locals'
  BY DEF Locals, Ids
<1>3. Position' = Position /\ first = NoId /\ cache = Unknown
  BY DEF Position, Seen, Ids
<1>4. Kept' /\ Seen'
  BY <1>3 DEF Locals, Kept, Seen, Unknown, Ids
<1>5. CacheIsReplay'
  BY <1>3 DEF CacheIsReplay, CacheSays, Unknown
<1>. QED BY <1>1, <1>2, <1>4, <1>5

LEMMA LoadInv == Inv /\ Load => Inv'
<1>. SUFFICES ASSUME Inv, Load PROVE Inv'
  OBVIOUS
<1>. USE EventsAssumption DEF Load, Inv
<1>1. EventsTypeOK'
  BY DEF EventsTypeOK, Places, Ids, RedisFails, Loaded
<1>2. Locals'
  BY DEF Locals, EventsTypeOK, Ids, RedisFails, Loaded
<1>3. redisFaults' = 0 /\ client => redisFaults = 0 /\ Position' = Position
  BY DEF Position, Locals, EventsTypeOK, Ids, RedisFails, Loaded
<1>4. Kept'
  BY <1>3 DEF Kept, EventsTypeOK, Ids, RedisFails, Loaded
<1>5. Seen'
  BY <1>3 DEF Seen, Ids
<1>6. CacheIsReplay'
  BY <1>3, SameReplay DEF CacheIsReplay
<1>. QED BY <1>1, <1>2, <1>4, <1>5, <1>6

LEMMA ReadInv == Inv /\ Read => Inv'
<1>. SUFFICES ASSUME Inv, Read PROVE Inv'
  OBVIOUS
<1>. USE EventsAssumption DEF Read, Inv, Disconnected
<1>1. EventsTypeOK'
  BY DEF EventsTypeOK, Places, Ids, Locals
<1>2. Locals'
  BY DEF Locals, EventsTypeOK, Ids
<1>3. redisFaults = 0 /\ client => Position' = Position
  BY DEF Position, Locals, EventsTypeOK, Ids, Kept
<1>4. Kept'
  BY DEF Kept, EventsTypeOK, Ids
<1>5. Seen'
  BY <1>3 DEF Seen, Ids
<1>6. CacheIsReplay'
  BY <1>3, SameReplay DEF CacheIsReplay
<1>. QED BY <1>1, <1>2, <1>4, <1>5, <1>6

LEMMA AnswerInv == Inv /\ Answer => Inv'
<1>. SUFFICES ASSUME Inv, Answer PROVE Inv'
  OBVIOUS
<1>. USE EventsAssumption DEF Answer, Inv
<1>1. /\ from \in 0..Len(log)
      /\ Len(log) \in Nat
  BY DEF Locals, EventsTypeOK
<1>2. PICK size \in Nat : /\ size <= Len(log) - from
                         /\ Entries = [i \in 1..size |-> from + i]
  <2>. DEFINE more == Len(log) - from
              size == IF more < Count THEN more ELSE Count
  <2>1. size \in Nat /\ size <= more
    BY <1>1
  <2>2. Entries = [i \in 1..size |-> from + i]
    BY DEF Entries
  <2>. QED BY <2>1, <2>2
<1>3. /\ batch' \in Seq(Ids)
      /\ Len(batch') = size
      /\ \A j \in 1..Len(batch') : batch'[j] = from + j
  BY <1>1, <1>2 DEF Ids
<1>4. EventsTypeOK'
  BY <1>3 DEF EventsTypeOK, Places, Ids
<1>5. Locals'
  BY <1>3, <1>1, lastId \in Ids \cup {Now} DEF Locals, EventsTypeOK, Ids
<1>6. Position' = Position
  BY DEF Position, Ids
<1>7. Kept' /\ Seen'
  BY <1>6 DEF Kept, Seen, Ids
<1>8. CacheIsReplay'
  BY <1>6, SameReplay
<1>. QED BY <1>4, <1>5, <1>7, <1>8

LEMMA SaveInv == Inv /\ Save => Inv'
<1>. SUFFICES ASSUME Inv, Save PROVE Inv'
  OBVIOUS
<1>. USE EventsAssumption DEF Save, Inv
<1>1. EventsTypeOK'
  BY DEF EventsTypeOK, Places, Ids, RedisFails, Locals
<1>2. Locals'
  BY DEF Locals, EventsTypeOK, Ids, RedisFails
<1>3. redisFaults' = 0 => redisFaults = 0
  BY DEF EventsTypeOK, RedisFails
<1>4. Position' = Position
  BY DEF Position, Locals, Ids
<1>5. Kept'
  BY <1>3 DEF Kept, Locals, EventsTypeOK, Ids, RedisFails
<1>6. Seen'
  BY <1>3, <1>4 DEF Seen, Ids
<1>7. CacheIsReplay'
  BY <1>3, <1>4, SameReplay
<1>. QED BY <1>1, <1>2, <1>5, <1>6, <1>7

(* Connect, VASFails, Stop, Closed: a position that is lost is kept in Redis.        *)
LEMMA OtherInv ==
  ASSUME Inv,
         Connect \/ VASFails \/ StopConsumer \/ Closed
  PROVE  Inv'
<1>. USE EventsAssumption DEF Inv, Disconnected
<1>0. UNCHANGED log /\ Ids' = Ids
  BY DEF Connect, VASFails, StopConsumer, Closed, Ids
<1>1. EventsTypeOK'
  <2>1. CASE Connect
    BY <1>0, <2>1 DEF EventsTypeOK, Connect, Places
  <2>2. CASE VASFails
    BY <1>0, <2>2 DEF EventsTypeOK, VASFails, Places
  <2>3. CASE StopConsumer
    BY <1>0, <2>3 DEF EventsTypeOK, StopConsumer
  <2>4. CASE Closed
    BY <1>0, <2>4 DEF EventsTypeOK, Closed, Places
  <2>. QED BY <2>1, <2>2, <2>3, <2>4
<1>2. /\ consumer' = "down" => consumer = "down"
      /\ UNCHANGED <<saved, listening, client, cache, first, redisFaults>>
      /\ \/ /\ UNCHANGED <<lastId, from, batch>>
            /\ consumer' = consumer \/ (consumer = "connect" /\ consumer' \in {"load", "off"})
         \/ /\ lastId' = NoId /\ from' = NoId /\ batch' = <<>>
            /\ consumer \in {"connect", "wait"} /\ consumer' \in {"connect", "off"}
  <2>1. CASE Connect
    BY <2>1 DEF Connect
  <2>2. CASE VASFails
    BY <2>2 DEF VASFails
  <2>3. CASE StopConsumer
    BY <2>3 DEF StopConsumer
  <2>4. CASE Closed
    BY <2>4 DEF Closed
  <2>. QED BY <2>1, <2>2, <2>3, <2>4
<1>. HIDE DEF Disconnected
<1>3. Locals'
  BY <1>0, <1>2 DEF Locals, EventsTypeOK
<1>4. redisFaults = 0 /\ client => Position' = Position
  BY <1>0, <1>2 DEF Position, Locals, EventsTypeOK, Kept, Ids
<1>5. Kept'
  BY <1>0, <1>2 DEF Kept, Locals, EventsTypeOK, Ids
<1>6. Seen'
  BY <1>0, <1>2, <1>4 DEF Seen
<1>7. CacheIsReplay'
  BY <1>0, <1>2, <1>4, SameReplay DEF CacheIsReplay
<1>. QED BY <1>1, <1>3, <1>5, <1>6, <1>7

LEMMA CloseRedisInv == Inv /\ CloseRedis => Inv'
<1>. SUFFICES ASSUME Inv, CloseRedis PROVE Inv'
  OBVIOUS
<1>. USE DEF CloseRedis, Inv
<1>1. Ids' = Ids
  BY DEF Ids
<1>2. EventsTypeOK' /\ Locals'
  BY <1>1 DEF EventsTypeOK, Locals
<1>3. Kept' /\ Seen' /\ CacheIsReplay'
  BY DEF Kept, Seen, CacheIsReplay, Unknown
<1>. QED BY <1>2, <1>3

LEMMA ExitInv == Inv /\ ProcessEnds => Inv'
<1>. SUFFICES ASSUME Inv, ProcessEnds PROVE Inv'
  OBVIOUS
<1>. USE EventsAssumption DEF ProcessEnds, Disconnected, Inv
<1>0. Unknown \in [VASStreams -> {"active", "paused", "unknown"}] /\ Ids' = Ids
  BY DEF Unknown, Ids
<1>1. EventsTypeOK'
  <2>1. <<>> \in Seq(Ids)
    OBVIOUS
  <2>2. /\ lastId' = NoId /\ from' = NoId /\ first' = NoId
        /\ batch' \in Seq(Ids')
        /\ cache' \in [VASStreams -> {"active", "paused", "unknown"}]
    BY <1>0, <2>1
  <2>3. /\ consuming' \in BOOLEAN /\ listening' \in BOOLEAN /\ client' \in BOOLEAN
        /\ consumer' \in Places
    BY DEF Places
  <2>4. /\ log' \in Seq([stream : VASStreams, kind : Kinds])
        /\ saved' \in Ids' \cup {NoId}
        /\ vasFaults' \in 0..MaxVASFaults /\ redisFaults' \in 0..MaxRedisFaults
    BY <1>0 DEF EventsTypeOK
  <2>. QED BY <2>2, <2>3, <2>4 DEF EventsTypeOK
<1>2. Locals'
  BY DEF Locals, Ids
<1>3. Kept' /\ Seen' /\ CacheIsReplay'
  BY DEF Kept, Seen, CacheIsReplay, Unknown, Ids
<1>. QED BY <1>1, <1>2, <1>3

LEMMA Element ==
  ASSUME NEW S, NEW q \in Seq(S), NEW i \in 1..Len(q)
  PROVE  q[i] \in S
OBVIOUS

(* The oldest entry that is not handled yet follows the last one.          *)
LEMMA HandleInv == Inv /\ Handle => Inv'
<1>. SUFFICES ASSUME Inv, Handle PROVE Inv'
  OBVIOUS
<1>. USE EventsAssumption DEF Inv
<1>1. batch \in Seq(Ids) /\ batch # <<>>
  BY DEF Handle, EventsTypeOK, Locals
<1>. DEFINE i == Head(batch)
<1>2. /\ i = batch[1]
      /\ i \in Ids
      /\ Tail(batch) \in Seq(Ids)
      /\ Len(batch) \in Nat
      /\ Len(Tail(batch)) = Len(batch) - 1
      /\ \A j \in 1..Len(Tail(batch)) : Tail(batch)[j] = batch[j + 1]
      /\ 1 \in 1..Len(batch)
  BY <1>1
<1>3. /\ consumer = "handle"
      /\ cache' = Told(log[i])
      /\ lastId' = i
      /\ first' = IF first = NoId THEN i ELSE first
      /\ batch' = Tail(batch)
      /\ consumer' = "save"
      /\ UNCHANGED <<log, saved, consuming, listening, client, from, vasFaults, redisFaults>>
  BY DEF Handle
<1>4. i = (IF lastId = Now THEN from ELSE lastId) + 1
  BY <1>2 DEF Locals
<1>. HIDE DEF i
<1>5. /\ log[i] \in [stream : VASStreams, kind : Kinds]
      /\ Len(log) \in Nat
      /\ lastId \in Ids \cup {Now}
      /\ lastId = Now => from \in 0..Len(log)
      /\ Ids' = Ids
  <2>. DEFINE Events == [stream : VASStreams, kind : Kinds]
  <2>1. log \in Seq(Events) /\ i \in 1..Len(log)
    BY <1>2 DEF EventsTypeOK, Ids
  <2>2. log[i] \in Events /\ Len(log) \in Nat
    <3>. HIDE DEF Events
    <3>. QED BY <2>1, Element
  <2>3. lastId \in Ids \cup {Now} /\ (lastId = Now => from \in 0..Len(log))
    BY <1>3 DEF EventsTypeOK, Locals
  <2>. QED BY <1>3, <2>2, <2>3 DEF Ids
<1>6. EventsTypeOK'
  <2>1. cache' \in [VASStreams -> {"active", "paused", "unknown"}]
    BY <1>3, <1>5 DEF EventsTypeOK, Told, Kinds
  <2>2. lastId' \in Ids /\ batch' \in Seq(Ids) /\ first' \in Ids \cup {NoId}
    BY <1>3, <1>2 DEF EventsTypeOK
  <2>. QED BY <1>3, <1>5, <2>1, <2>2 DEF EventsTypeOK, Places
<1>7. Locals'
  <2>1. \A j \in 1..Len(batch') : batch'[j] = i + j
    <3>. DEFINE base == IF lastId = Now THEN from ELSE lastId
    <3>1. base \in Nat /\ i = base + 1
      <4>1. CASE lastId = Now
        BY <4>1, <1>4, <1>5
      <4>2. CASE lastId # Now
        BY <4>2, <1>4, <1>5 DEF Ids
      <4>. QED BY <4>1, <4>2
    <3>2. \A j \in 1..Len(batch) : batch[j] = base + j
      BY DEF Locals
    <3>. HIDE DEF base
    <3>3. \A j \in 1..Len(Tail(batch)) : Tail(batch)[j] = base + (j + 1)
      <4>. SUFFICES ASSUME NEW j \in 1..Len(Tail(batch)) PROVE Tail(batch)[j] = base + (j + 1)
        OBVIOUS
      <4>1. j + 1 \in 1..Len(batch) /\ Tail(batch)[j] = batch[j + 1]
        BY <1>2
      <4>. QED BY <4>1, <3>2
    <3>4. Len(Tail(batch)) \in Nat
      BY <1>2
    <3>5. \A j \in 1..Len(Tail(batch)) : Tail(batch)[j] = i + j
      BY <3>1, <3>3, <3>4
    <3>. QED BY <1>3, <3>5
  <2>2. lastId' # NoId /\ lastId' # Now /\ lastId' \in Ids'
    BY <1>3, <1>2, <1>5 DEF Ids
  <2>. QED BY <1>3, <2>1, <2>2 DEF Locals
<1>8. Kept'
  <2>. SUFFICES ASSUME redisFaults = 0, client PROVE saved \in {NoId, i - 1}
    BY <1>3, <1>4, <1>2, <1>5 DEF Kept, Ids
  <2>. QED BY <1>3, <1>4, <1>2, <1>5 DEF Kept, Ids
<1>9. /\ Position' = i
      /\ i \in Nat
  BY <1>3, <1>2, <1>5 DEF Position, Ids
<1>10. redisFaults = 0 /\ client /\ first # NoId =>
          /\ first \in Nat
          /\ Position = i - 1
          /\ first <= i - 1
  BY <1>3, <1>4, <1>2, <1>5 DEF Position, Seen, Kept, EventsTypeOK, Ids
<1>11. Seen'
  <2>1. consumer' # "down"
    BY <1>3
  <2>2. Position' \in Ids'
    BY <1>2, <1>5, <1>9
  <2>3. redisFaults = 0 /\ client /\ first = NoId => first' <= Position'
    BY <1>3, <1>9
  <2>4. redisFaults = 0 /\ client /\ first # NoId => first' <= Position'
    BY <1>3, <1>9, <1>10
  <2>5. redisFaults' = redisFaults /\ client' = client
    BY <1>3
  <2>. QED BY <2>1, <2>2, <2>3, <2>4, <2>5 DEF Seen
<1>12. CacheIsReplay'
  <2>. SUFFICES ASSUME redisFaults = 0, client, listening, NEW s \in VASStreams PROVE CacheSays(s)'
    BY <1>3 DEF CacheIsReplay
  <2>. DEFINE told == log[i].stream = s /\ log[i].kind # "other"
  <2>1. CacheSays(s)
    BY <1>4 DEF CacheIsReplay
  <2>2. cache'[s] = IF told THEN log[i].kind ELSE cache[s]
    BY <1>3, <1>4, <1>5 DEF Told, EventsTypeOK
  <2>3. first' # NoId /\ first' \in Nat
    BY <1>3, <1>4, <1>2, <1>9, <1>10
  <2>4. Reports(s)' = (IF first = NoId THEN {} ELSE Reports(s)) \cup (IF told THEN {i} ELSE {})
    <3>1. CASE first = NoId
      BY <1>3, <3>1, <1>9 DEF Reports
    <3>2. CASE first # NoId
      <4>1. first..i = first..(i - 1) \cup {i}
        BY <1>3, <3>2, <1>9, <1>10
      <4>. QED BY <1>3, <3>2, <4>1, <1>9, <1>10 DEF Reports
    <3>. QED BY <1>3, <3>1, <3>2
  <2>5. first # NoId => \A j \in Reports(s) : j \in Nat /\ j <= i
    BY <1>9, <1>10 DEF Reports
  <2>6. CASE told
    <3>1. /\ i \in Reports(s)'
          /\ cache'[s] = log'[i].kind
          /\ \A j \in Reports(s)' : j <= i
      BY <1>3, <2>2, <2>4, <2>5, <2>6, <1>9
    <3>. QED BY <1>3, <2>3, <3>1 DEF CacheSays
  <2>7. CASE ~told
    <3>1. CASE first = NoId
      BY <2>1, <2>2, <2>4, <2>7, <3>1 DEF CacheSays
    <3>2. CASE first # NoId
      <4>1. Reports(s)' = Reports(s) /\ cache'[s] = cache[s]
        BY <1>3, <2>2, <2>4, <2>7, <3>2
      <4>. QED BY <1>3, <2>1, <2>3, <3>2, <4>1 DEF CacheSays
    <3>. QED BY <1>3, <3>1, <3>2
  <2>. QED BY <1>3, <2>6, <2>7
<1>. QED BY <1>6, <1>7, <1>8, <1>11, <1>12

LEMMA NextInv == Inv /\ [EventsNext]_eventsVars => Inv'
<1>1. Inv /\ UNCHANGED eventsVars => Inv'
  <2>. SUFFICES ASSUME Inv, UNCHANGED eventsVars PROVE Inv'
    OBVIOUS
  <2>1. Ids' = Ids /\ Position' = Position
    BY DEF eventsVars, Ids, Position
  <2>2. EventsTypeOK' /\ Locals'
    BY <2>1 DEF eventsVars, Inv, EventsTypeOK, Locals
  <2>3. Kept' /\ Seen'
    BY <2>1 DEF eventsVars, Inv, Kept, Seen, Unknown
  <2>4. CacheIsReplay'
    BY <2>1, SameReplay DEF eventsVars, Inv
  <2>. QED BY <2>2, <2>3, <2>4 DEF Inv
<1>. QED
  BY <1>1, PublishInv, BootInv, LoadInv, ReadInv, AnswerInv, HandleInv, SaveInv, OtherInv,
     CloseRedisInv, ExitInv
     DEF EventsNext, Consume

THEOREM EventsInvariance == EventsSpec => []Inv
BY InitInv, NextInv, PTL DEF EventsSpec

-----------------------------------------------------------------------------
(* The variables keep their types (TypeOK).                                *)
THEOREM EventsTypeCorrect == EventsSpec => []EventsTypeOK
<1>1. Inv => EventsTypeOK
  BY DEF Inv
<1>. QED BY EventsInvariance, <1>1, PTL

(* While the backend's Redis answers, what the loop believes of VAS's      *)
(* streams is the events of VAS, replayed from the first this process has  *)
(* handled to the last (CacheIsReplay).                                    *)
THEOREM CacheIsAReplay == EventsSpec => []CacheIsReplay
<1>1. Inv => CacheIsReplay
  BY DEF Inv
<1>. QED BY EventsInvariance, <1>1, PTL

(* And the position in Redis neither skips an event nor goes back, over    *)
(* any crash or reconnection (ResumesWhereItWas).                          *)
THEOREM NothingSkipped == EventsSpec => ResumesWhereItWas
<1>1. Inv /\ [EventsNext]_eventsVars =>
        [redisFaults' = 0 /\ saved # NoId => saved' \in {saved, saved + 1}]_eventsVars
  <2>. SUFFICES ASSUME Inv, [EventsNext]_eventsVars, redisFaults' = 0, saved # NoId
                PROVE  saved' \in {saved, saved + 1}
    OBVIOUS
  <2>1. CASE Save
    <3>1. CASE client
      <4>1. redisFaults = 0 /\ lastId \in Ids /\ consumer = "save"
        BY <2>1 DEF Inv, Save, RedisFails, EventsTypeOK, Locals
      <4>2. saved = lastId - 1
        BY <3>1, <4>1 DEF Inv, Kept
      <4>. QED BY <2>1, <4>1, <4>2 DEF Save, Ids
    <3>2. CASE ~client
      BY <2>1, <3>2 DEF Save
    <3>. QED BY <3>1, <3>2
  <2>2. CASE ~Save
    <3>. QED BY <2>2 DEF EventsNext, Consume, eventsVars, VASPublishes, Boot, Connect, VASFails, Load, Read, Answer,
                Handle, StopConsumer, Closed, CloseRedis, ProcessEnds
  <2>. QED BY <2>1, <2>2
<1>. QED BY EventsInvariance, <1>1, PTL DEF EventsSpec, ResumesWhereItWas
=============================================================================
