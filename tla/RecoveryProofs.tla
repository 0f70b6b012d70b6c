--------------------------- MODULE RecoveryProofs ---------------------------
(***************************************************************************)
(* The recovery manager for every set of versions and threads and every    *)
(* policy: no recovery starts that the breaker would refuse at that        *)
(* moment, and no trip that races a re-enable is lost.                     *)
(***************************************************************************)
EXTENDS Recovery, TLAPS

Pending(v) == Busy(v, {"disable", "marking"}) # {}

(* A thread that has begun an operation works on a version. *)
TaskHasVersion ==
  \A t \in Threads : task[t].step # "idle" => task[t].version \in Versions

(* A version without state counts as closed. *)
UntrackedClosed == \A v \in Versions \ tracked : circuit[v].state = "closed"

(* What enable_model checked still holds when it prepares. *)
EnableStillAllowed ==
  \A t \in Threads, v \in Versions :
    task[t].step = "enable" /\ task[t].version = v => CanAttemptRecovery(v)

(* A trip between prepare_recovery and the update is followed by a disable *)
(* that waits for the manager's lock.                                      *)
TripNotLost ==
  \A t \in Threads, v \in Versions :
    task[t].step = "update" /\ task[t].version = v /\ circuit[v].state = "open" =>
      Pending(v)

IInv == /\ TypeOK /\ LockHeldByOne /\ AttemptsBounded /\ OpenIsNotReloaded
        /\ TaskHasVersion /\ UntrackedClosed /\ EnableStillAllowed /\ TripNotLost

-----------------------------------------------------------------------------
(* What the operations of CircuitBreakerState return. *)
LEMMA RecordedType ==
  ASSUME NEW c \in CircuitStates, NEW type \in Types
  PROVE  /\ Recorded(c, type) \in CircuitStates
         /\ Recorded(c, type).state = c.state /\ Recorded(c, type).attempts = c.attempts
<1>1. /\ c.failures + 1 \in Nat /\ c.timeouts + 1 \in Nat /\ c.unhealthy + 1 \in Nat
      /\ c.timeouts \in Nat /\ c.unhealthy \in Nat
  BY DEF CircuitStates
<1>. DEFINE f == c.failures + 1
            u == IF type = "unhealthy_transition" THEN c.unhealthy + 1 ELSE c.unhealthy
            o == IF type = "timeout" THEN c.timeouts + 1 ELSE 0
<1>2. f \in Nat /\ u \in Nat /\ o \in Nat
  BY <1>1
<1>3. Recorded(c, type) = [c EXCEPT !.failures = f, !.timeouts = o, !.unhealthy = u]
  BY DEF Recorded, CircuitStates
<1>. HIDE DEF f, u, o
<1>. QED BY <1>2, <1>3 DEF CircuitStates

LEMMA OpenedType ==
  ASSUME NEW c \in CircuitStates, NEW r \in Reasons
  PROVE  Opened(c, r) \in CircuitStates /\ Opened(c, r).attempts = c.attempts
BY DEF CircuitStates, Opened

LEMMA ReasonType ==
  ASSUME NEW c \in CircuitStates
  PROVE  Reason(c) \in Reasons \cup {None}
BY DEF Reason, Reasons

LEMMA ClosedType ==
  ASSUME NEW c \in CircuitStates
  PROVE  /\ Closed(c) \in CircuitStates
         /\ Closed(c).state = "closed" /\ Closed(c).attempts = c.attempts
         /\ ForceClosed(c) \in CircuitStates
         /\ ForceClosed(c).state = "closed" /\ ForceClosed(c).attempts = 0
BY DEF CircuitStates, Closed, ForceClosed

LEMMA SucceededType ==
  ASSUME NEW c \in CircuitStates
  PROVE  /\ Succeeded(c) \in CircuitStates
         /\ Succeeded(c).state = c.state /\ Succeeded(c).attempts = c.attempts
         /\ Succeeded(c).cooled = c.cooled /\ Succeeded(c).spaced = c.spaced
<1>. DEFINE n == IF c.state = "half_open" THEN c.successes + 1 ELSE c.successes
<1>1. n \in Nat
  BY DEF CircuitStates
<1>. DEFINE d == [c EXCEPT !.timeouts = 0, !.successes = n]
<1>2. Succeeded(c) = d
  BY DEF Succeeded, CircuitStates
<1>. HIDE DEF n
<1>3. d \in CircuitStates
  BY <1>1 DEF CircuitStates
<1>4. d.state = c.state /\ d.attempts = c.attempts /\ d.cooled = c.cooled /\ d.spaced = c.spaced
  BY DEF CircuitStates
<1>. HIDE DEF d
<1>. QED BY <1>2, <1>3, <1>4

LEMMA HalfOpenedType ==
  ASSUME NEW c \in CircuitStates
  PROVE  /\ HalfOpened(c) \in CircuitStates
         /\ HalfOpened(c).state = "half_open" /\ HalfOpened(c).attempts = c.attempts + 1
<1>. DEFINE n == c.attempts + 1
<1>1. n \in Nat
  BY DEF CircuitStates
<1>. DEFINE d == [c EXCEPT !.state = "half_open", !.successes = 0, !.attempts = n, !.spaced = FALSE]
<1>2. HalfOpened(c) = d
  BY DEF HalfOpened, CircuitStates
<1>3. d \in CircuitStates /\ d.state = "half_open" /\ d.attempts = n
  <2>. HIDE DEF n
  <2>. QED BY <1>1 DEF CircuitStates
<1>. HIDE DEF d
<1>. QED BY <1>2, <1>3

-----------------------------------------------------------------------------
(* An operation on one version. *)
LEMMA OneWrite ==
  ASSUME BreakerTypeOK, NEW v \in Versions, NEW d \in CircuitStates, Write(v, d),
         tracked' \subseteq Versions, stuck' \in BOOLEAN,
         UNCHANGED <<persistent, disk, warned, saver>>
  PROVE  /\ BreakerTypeOK'
         /\ circuit' \in [Versions -> CircuitStates]
         /\ \A w \in Versions : circuit'[w] = IF w = v THEN d ELSE circuit[w]
<1>1. /\ circuit \in [Versions -> CircuitStates] /\ circuit[v] \in CircuitStates
      /\ before \in [Versions -> CircuitStates \cup {None}]
  BY DEF BreakerTypeOK
<1>2. /\ circuit' = [circuit EXCEPT ![v] = d]
      /\ \E b \in CircuitStates \cup {None} : before' = [before EXCEPT ![v] = b]
  BY <1>1 DEF Write
<1>3. /\ circuit' \in [Versions -> CircuitStates]
      /\ \A w \in Versions : circuit'[w] = IF w = v THEN d ELSE circuit[w]
      /\ before' \in [Versions -> CircuitStates \cup {None}]
  BY <1>1, <1>2
<1>4. BreakerTypeOK'
  BY <1>3 DEF BreakerTypeOK
<1>. QED BY <1>3, <1>4

(* How the breaker's operations change a circuit, as far as recovery goes. *)
LEMMA FailureEffect ==
  ASSUME BreakerTypeOK, NEW v \in Versions, NEW type \in Types, RecordFailure(v, type)
  PROVE  /\ BreakerTypeOK'
         /\ \A w \in Versions : circuit'[w].attempts = circuit[w].attempts
         /\ \A w \in Versions : circuit[w].state = "open" => circuit'[w] = circuit[w]
         /\ \A w \in Versions : circuit'[w].state = "open" =>
              circuit[w].state = "open" \/ (w = v /\ Trips(v, type))
         /\ \A w \in Versions : circuit'[w].state # circuit[w].state => w = v
         /\ tracked' = tracked \cup {v}
<1>. DEFINE c == Recorded(circuit[v], type)
            d == IF circuit[v].state = "open" THEN circuit[v]
                 ELSE IF Trips(v, type) THEN Opened(c, Reason(c)) ELSE c
<1>1. circuit \in [Versions -> CircuitStates] /\ circuit[v] \in CircuitStates
  BY DEF BreakerTypeOK
<1>2. c \in CircuitStates /\ c.state = circuit[v].state /\ c.attempts = circuit[v].attempts
  BY <1>1, RecordedType
<1>3. ASSUME Trips(v, type) PROVE Reason(c) \in Reasons
  BY <1>2, <1>3, ReasonType DEF Trips
<1>. HIDE DEF c
<1>4. d \in CircuitStates /\ d.attempts = circuit[v].attempts
      /\ (circuit[v].state = "open" => d = circuit[v])
      /\ (d.state = "open" => circuit[v].state = "open" \/ Trips(v, type))
  BY <1>1, <1>2, <1>3, OpenedType
<1>5. /\ Write(v, d) /\ tracked' = tracked \cup {v} /\ tracked' \subseteq Versions
      /\ stuck' \in BOOLEAN /\ UNCHANGED <<persistent, disk, warned, saver>>
  BY DEF RecordFailure, c, BreakerTypeOK
<1>. HIDE DEF d
<1>6. BreakerTypeOK' /\ \A w \in Versions : circuit'[w] = IF w = v THEN d ELSE circuit[w]
  BY <1>4, <1>5, OneWrite
<1>. QED BY <1>4, <1>5, <1>6

LEMMA SuccessEffect ==
  ASSUME BreakerTypeOK, NEW v \in Versions, RecordSuccess(v)
  PROVE  /\ BreakerTypeOK'
         /\ \A w \in Versions : circuit'[w].attempts = circuit[w].attempts
         /\ \A w \in Versions : circuit[w].state = "open" =>
              /\ circuit'[w].state = "open"
              /\ circuit'[w].cooled = circuit[w].cooled /\ circuit'[w].spaced = circuit[w].spaced
         /\ \A w \in Versions : circuit'[w].state = "open" => circuit[w].state = "open"
         /\ \A w \in Versions : circuit'[w].state # circuit[w].state => w = v
         /\ tracked' = tracked \cup {v}
<1>. DEFINE d == IF Closes(v) THEN Closed(circuit[v]) ELSE Succeeded(circuit[v])
<1>1. circuit \in [Versions -> CircuitStates] /\ circuit[v] \in CircuitStates
  BY DEF BreakerTypeOK
<1>4. /\ d \in CircuitStates /\ d.attempts = circuit[v].attempts
      /\ circuit[v].state = "open" =>
           d.state = "open" /\ d.cooled = circuit[v].cooled /\ d.spaced = circuit[v].spaced
      /\ d.state = "open" => circuit[v].state = "open"
  BY <1>1, ClosedType, SucceededType DEF Closes
<1>5. /\ Write(v, d) /\ tracked' = tracked \cup {v} /\ tracked' \subseteq Versions
      /\ stuck' \in BOOLEAN /\ UNCHANGED <<persistent, disk, warned, saver>>
  BY DEF RecordSuccess, BreakerTypeOK
<1>. HIDE DEF d
<1>6. BreakerTypeOK' /\ \A w \in Versions : circuit'[w] = IF w = v THEN d ELSE circuit[w]
  BY <1>4, <1>5, OneWrite
<1>. QED BY <1>4, <1>5, <1>6

LEMMA AbortEffect ==
  ASSUME BreakerTypeOK, NEW v \in Versions, AbortRecovery(v)
  PROVE  /\ BreakerTypeOK'
         /\ \A w \in Versions : circuit'[w].attempts = circuit[w].attempts
         /\ \A w \in Versions : circuit[w].state = "open" => circuit'[w] = circuit[w]
         /\ \A w \in Versions : circuit'[w].state = "open" => circuit[w].state = "open" \/ w = v
         /\ \A w \in Versions : circuit'[w].state # circuit[w].state => w \in tracked
         /\ tracked' = tracked
<1>. DEFINE d == IF v \in tracked /\ circuit[v].state = "half_open"
                 THEN [circuit[v] EXCEPT !.state = "open", !.successes = 0] ELSE circuit[v]
<1>1. circuit \in [Versions -> CircuitStates] /\ circuit[v] \in CircuitStates
  BY DEF BreakerTypeOK
<1>4. /\ d \in CircuitStates /\ d.attempts = circuit[v].attempts
      /\ circuit[v].state = "open" => d = circuit[v]
      /\ d.state # circuit[v].state => v \in tracked
  BY <1>1 DEF CircuitStates
<1>5. /\ Write(v, d) /\ tracked' \subseteq Versions /\ stuck' \in BOOLEAN
      /\ UNCHANGED <<persistent, tracked, disk, warned, saver>>
  BY DEF AbortRecovery, BreakerTypeOK
<1>. HIDE DEF d
<1>6. BreakerTypeOK' /\ \A w \in Versions : circuit'[w] = IF w = v THEN d ELSE circuit[w]
  BY <1>4, <1>5, OneWrite
<1>. QED BY <1>4, <1>5, <1>6

-----------------------------------------------------------------------------
(* A thread takes up another task. *)
LEMMA TaskMove ==
  ASSUME TypeOK, NEW t \in Threads, NEW k \in Tasks, task' = [task EXCEPT ![t] = k]
  PROVE  /\ task' \in [Threads -> Tasks]
         /\ \A u \in Threads : task'[u] = IF u = t THEN k ELSE task[u]
BY DEF TypeOK

LEMMA TaskTypes ==
  ASSUME NEW s \in Steps, NEW v \in Versions
  PROVE  /\ Task(s, v) \in Tasks /\ Task(s, v).step = s /\ Task(s, v).version = v
         /\ NoTask \in Tasks /\ NoTask.step = "idle"
BY DEF Task, Tasks, NoTask, Steps

(* A disable that is pending stays so while its thread keeps its task.     *)
LEMMA PendingKept ==
  ASSUME NEW v \in Versions, NEW t \in Threads, Pending(v),
         \A u \in Threads : u # t => task'[u] = task[u],
         task[t].step \notin {"disable", "marking"}
  PROVE  Pending(v)'
<1>1. PICK u \in Threads : task[u].version = v /\ task[u].step \in {"disable", "marking"}
  BY DEF Pending, Busy
<1>2. u # t /\ task'[u] = task[u]
  BY <1>1
<1>. QED BY <1>1, <1>2 DEF Pending, Busy

(* What enable_model checked is only undone by closing or reopening the    *)
(* circuit.                                                                *)
LEMMA EnableKept ==
  ASSUME IInv, NEW t \in Threads, task'[t].step # "enable",
         \A u \in Threads : u # t => task'[u] = task[u],
         \A w \in Versions : CanAttemptRecovery(w) => CanAttemptRecovery(w)'
  PROVE  EnableStillAllowed'
<1>. SUFFICES ASSUME NEW u \in Threads, NEW w \in Versions,
                     task'[u].step = "enable", task'[u].version = w
              PROVE  CanAttemptRecovery(w)'
  BY DEF EnableStillAllowed
<1>1. task'[u] = task[u]
  OBVIOUS
<1>. QED BY <1>1 DEF IInv, EnableStillAllowed

(* What a thread that saves may hold. *)
SaverStates ==
  [stage : {"idle", "copy", "wait", "save"}, live : SUBSET Versions,
   gone : [Versions -> CircuitStates \cup {None}], at : [Versions -> 1..AllRead],
   file : [Versions -> CircuitStates \cup {None}]]

LEMMA IdleType ==
  /\ IdleSaver \in SaverStates
  /\ IdleSaver.stage = "idle" /\ IdleSaver.live = {}
  /\ \A v \in Versions : IdleSaver.at[v] = AllRead /\ IdleSaver.file[v] = None
                         /\ IdleSaver.gone[v] = None
<1>1. NoStates \in [Versions -> CircuitStates \cup {None}] /\ \A v \in Versions : NoStates[v] = None
  BY DEF NoStates
<1>2. [v \in Versions |-> AllRead] \in [Versions -> 1..AllRead]
  BY DEF AllRead
<1>. QED BY <1>1, <1>2 DEF IdleSaver, SaverStates

LEMMA InitIInv == Init => IInv
<1>. SUFFICES ASSUME Init PROVE IInv
  OBVIOUS
<1>1. NewCircuit \in CircuitStates /\ NewCircuit.state = "closed" /\ NewCircuit.attempts = 0
  BY DEF NewCircuit, CircuitStates
<1>2. \A v \in Versions : circuit[v] = NewCircuit
  BY DEF Init, BreakerInit
<1>3. \A t \in Threads : task[t] = NoTask /\ task[t].step = "idle"
  BY DEF Init, NoTask
<1>4. BreakerTypeOK
  <2>1. saver \in [Savers -> SaverStates] /\ NoStates \in [Versions -> CircuitStates \cup {None}]
    BY IdleType DEF Init, BreakerInit, NoStates
  <2>. QED BY <1>1, <2>1 DEF Init, BreakerInit, BreakerTypeOK, SaverStates
<1>5. TypeOK
  BY <1>4 DEF TypeOK, Init, LoadStates, Tasks, NoTask, Steps
<1>6. LockHeldByOne
  BY <1>3, HolderAssumption DEF LockHeldByOne, Init
<1>7. AttemptsBounded
  BY <1>1, <1>2, BreakerAssumption DEF AttemptsBounded
<1>8. OpenIsNotReloaded /\ UntrackedClosed
  BY <1>1, <1>2 DEF OpenIsNotReloaded, UntrackedClosed
<1>9. TaskHasVersion /\ EnableStillAllowed /\ TripNotLost
  BY <1>3 DEF TaskHasVersion, EnableStillAllowed, TripNotLost
<1>. QED BY <1>5, <1>6, <1>7, <1>8, <1>9 DEF IInv

-----------------------------------------------------------------------------
LEMMA ReportStep ==
  ASSUME IInv, NEW t \in Threads, NEW v \in Versions, NEW type \in Types, Report(t, v, type)
  PROVE  IInv'
<1>0. TypeOK /\ BreakerTypeOK /\ RecordFailure(v, type) /\ task[t] = NoTask
      /\ UNCHANGED <<registry, holder>>
  BY DEF IInv, TypeOK, Report
<1>1. /\ BreakerTypeOK'
      /\ \A w \in Versions : circuit'[w].attempts = circuit[w].attempts
      /\ \A w \in Versions : circuit[w].state = "open" => circuit'[w] = circuit[w]
      /\ \A w \in Versions : circuit'[w].state = "open" =>
           circuit[w].state = "open" \/ (w = v /\ Trips(v, type))
      /\ \A w \in Versions : circuit'[w].state # circuit[w].state => w = v
      /\ tracked' = tracked \cup {v}
  BY <1>0, FailureEffect
<1>. DEFINE k == IF Trips(v, type) THEN Task("disable", v) ELSE NoTask
<1>2. k \in Tasks /\ (Trips(v, type) => k.step = "disable" /\ k.version = v)
      /\ (~Trips(v, type) => k.step = "idle") /\ NoTask.step = "idle"
  BY TaskTypes DEF Steps
<1>3. task' = [task EXCEPT ![t] = k]
  BY <1>0 DEF Report
<1>. HIDE DEF k
<1>4. /\ task' \in [Threads -> Tasks]
      /\ \A u \in Threads : task'[u] = IF u = t THEN k ELSE task[u]
  BY <1>0, <1>2, <1>3, TaskMove
<1>5. TypeOK'
  BY <1>0, <1>1, <1>4 DEF TypeOK
<1>6. \A w \in Versions : Pending(w) => Pending(w)'
  BY <1>0, <1>2, <1>4, PendingKept
<1>7. Trips(v, type) => Pending(v)'
  BY <1>2, <1>4 DEF Pending, Busy
<1>8. LockHeldByOne'
  BY <1>0, <1>2, <1>4 DEF IInv, LockHeldByOne
<1>9. AttemptsBounded'
  BY <1>1 DEF IInv, AttemptsBounded
<1>10. OpenIsNotReloaded'
  BY <1>0, <1>1, <1>6, <1>7 DEF IInv, OpenIsNotReloaded, Pending
<1>11. TaskHasVersion'
  BY <1>2, <1>4 DEF IInv, TaskHasVersion
<1>12. UntrackedClosed'
  BY <1>1 DEF IInv, UntrackedClosed
<1>13. EnableStillAllowed'
  <2>1. task'[t].step # "enable" /\ \A u \in Threads : u # t => task'[u] = task[u]
    BY <1>2, <1>4
  <2>2. \A w \in Versions : CanAttemptRecovery(w) => CanAttemptRecovery(w)'
    BY <1>1 DEF CanAttemptRecovery
  <2>. QED BY <2>1, <2>2, EnableKept
<1>14. TripNotLost'
  <2>. SUFFICES ASSUME NEW u \in Threads, NEW w \in Versions, task'[u].step = "update",
                       task'[u].version = w, circuit'[w].state = "open"
                PROVE  Pending(w)'
    BY DEF TripNotLost
  <2>1. task'[u] = task[u]
    BY <1>2, <1>4
  <2>2. CASE circuit[w].state = "open"
    BY <1>6, <2>1, <2>2 DEF IInv, TripNotLost
  <2>. QED BY <1>1, <1>7, <2>2
<1>. QED BY <1>5, <1>8, <1>9, <1>10, <1>11, <1>12, <1>13, <1>14 DEF IInv

-----------------------------------------------------------------------------
(* A step that leaves tasks and the manager's lock alone, opens no circuit *)
(* and discovers no version.                                               *)
LEMMA QuietStep ==
  ASSUME IInv, UNCHANGED <<task, holder>>, TypeOK',
         \A w \in Versions : circuit'[w].attempts = circuit[w].attempts,
         \A w \in Versions : circuit'[w].state = "open" => circuit[w].state = "open",
         \A w \in Versions : registry'[w] = "discovered" => registry[w] = "discovered",
         \A w \in Versions : CanAttemptRecovery(w) => CanAttemptRecovery(w)',
         UntrackedClosed'
  PROVE  IInv'
<1>1. \A w \in Versions : Pending(w)' <=> Pending(w)
  BY DEF Pending, Busy
<1>2. LockHeldByOne' /\ TaskHasVersion'
  BY DEF IInv, LockHeldByOne, TaskHasVersion
<1>3. AttemptsBounded'
  BY DEF IInv, AttemptsBounded
<1>4. OpenIsNotReloaded'
  BY <1>1 DEF IInv, OpenIsNotReloaded, Pending
<1>5. EnableStillAllowed' /\ TripNotLost'
  BY <1>1 DEF IInv, EnableStillAllowed, TripNotLost
<1>. QED BY <1>2, <1>3, <1>4, <1>5 DEF IInv

LEMMA SucceedStep ==
  ASSUME IInv, NEW v \in Versions, Succeed(v)
  PROVE  IInv'
<1>0. TypeOK /\ BreakerTypeOK /\ RecordSuccess(v) /\ UNCHANGED <<registry, holder, task>>
  BY DEF IInv, TypeOK, Succeed
<1>1. /\ BreakerTypeOK'
      /\ \A w \in Versions : circuit'[w].attempts = circuit[w].attempts
      /\ \A w \in Versions : circuit[w].state = "open" =>
           /\ circuit'[w].state = "open"
           /\ circuit'[w].cooled = circuit[w].cooled /\ circuit'[w].spaced = circuit[w].spaced
      /\ \A w \in Versions : circuit'[w].state = "open" => circuit[w].state = "open"
      /\ \A w \in Versions : circuit'[w].state # circuit[w].state => w = v
      /\ tracked' = tracked \cup {v}
  BY <1>0, SuccessEffect
<1>2. TypeOK'
  BY <1>0, <1>1 DEF TypeOK
<1>3. \A w \in Versions : CanAttemptRecovery(w) => CanAttemptRecovery(w)'
  BY <1>1 DEF CanAttemptRecovery
<1>4. UntrackedClosed'
  BY <1>1 DEF IInv, UntrackedClosed
<1>. QED BY <1>0, <1>1, <1>2, <1>3, <1>4, QuietStep

LEMMA TimePassesStep ==
  ASSUME IInv, NEW v \in Versions, TimePasses(v)
  PROVE  IInv'
<1>0. TypeOK /\ BreakerTypeOK /\ Elapse(v) /\ UNCHANGED <<registry, holder, task>>
  BY DEF IInv, TypeOK, TimePasses
<1>1. PICK d \in CircuitStates :
        /\ circuit' = [circuit EXCEPT ![v] = d]
        /\ d.state = circuit[v].state /\ d.attempts = circuit[v].attempts
        /\ circuit[v].cooled => d.cooled
        /\ circuit[v].spaced => d.spaced
  <2>0. circuit \in [Versions -> CircuitStates] /\ circuit[v] \in CircuitStates
    BY <1>0 DEF BreakerTypeOK
  <2>1. CASE circuit' = [circuit EXCEPT ![v].cooled = TRUE]
    <3>. DEFINE d == [circuit[v] EXCEPT !.cooled = TRUE]
    <3>1. circuit' = [circuit EXCEPT ![v] = d]
      BY <2>1
    <3>2. d \in CircuitStates
      BY <2>0 DEF CircuitStates
    <3>. QED BY <2>0, <3>1, <3>2 DEF CircuitStates
  <2>2. CASE circuit' = [circuit EXCEPT ![v].spaced = TRUE]
    <3>. DEFINE d == [circuit[v] EXCEPT !.spaced = TRUE]
    <3>1. circuit' = [circuit EXCEPT ![v] = d]
      BY <2>2
    <3>2. d \in CircuitStates
      BY <2>0 DEF CircuitStates
    <3>. QED BY <2>0, <3>1, <3>2 DEF CircuitStates
  <2>3. CASE circuit[v].failures > 0 /\ circuit' = [circuit EXCEPT ![v].failures = @ - 1]
    <3>. DEFINE n == circuit[v].failures - 1
                d == [circuit[v] EXCEPT !.failures = n]
    <3>0. n \in Nat
      BY <2>0, <2>3 DEF CircuitStates
    <3>1. circuit' = [circuit EXCEPT ![v] = d]
      BY <2>3
    <3>. HIDE DEF n
    <3>2. d \in CircuitStates
      BY <2>0, <3>0 DEF CircuitStates
    <3>. QED BY <2>0, <3>1, <3>2 DEF CircuitStates
  <2>. QED BY <1>0, <2>1, <2>2, <2>3 DEF Elapse
<1>2. UNCHANGED <<persistent, tracked, before, stuck, disk, warned, saver>>
  BY <1>0 DEF Elapse
<1>3. \A w \in Versions : circuit'[w] = IF w = v THEN d ELSE circuit[w]
  BY <1>0, <1>1 DEF BreakerTypeOK
<1>4. circuit' \in [Versions -> CircuitStates]
  BY <1>0, <1>1 DEF BreakerTypeOK
<1>5. TypeOK'
  BY <1>0, <1>2, <1>4 DEF TypeOK, BreakerTypeOK
<1>6. \A w \in Versions : CanAttemptRecovery(w) => CanAttemptRecovery(w)'
  BY <1>1, <1>2, <1>3 DEF CanAttemptRecovery
<1>7. UntrackedClosed'
  BY <1>1, <1>2, <1>3 DEF IInv, UntrackedClosed
<1>. QED BY <1>0, <1>1, <1>3, <1>5, <1>6, <1>7, QuietStep

LEMMA UnregisterStep ==
  ASSUME IInv, NEW v \in Versions, Unregister(v)
  PROVE  IInv'
<1>0. TypeOK /\ registry' = [registry EXCEPT ![v] = "absent"]
      /\ UNCHANGED <<breakerVars, holder, task>>
  BY DEF IInv, Unregister
<1>1. TypeOK'
  BY <1>0 DEF TypeOK, BreakerTypeOK, breakerVars, LoadStates
<1>2. \A w \in Versions : registry'[w] = "discovered" => registry[w] = "discovered"
  BY <1>0 DEF TypeOK
<1>3. \A w \in Versions : CanAttemptRecovery(w) => CanAttemptRecovery(w)'
  BY <1>0 DEF CanAttemptRecovery, breakerVars
<1>4. UntrackedClosed'
  BY <1>0 DEF IInv, UntrackedClosed, breakerVars
<1>. QED BY <1>0, <1>1, <1>2, <1>3, <1>4, QuietStep DEF breakerVars

-----------------------------------------------------------------------------
(* A thread that has no disable pending moves on, discovers no version and *)
(* leaves no circuit open that nobody is going to disable.                 *)
LEMMA CalmMove ==
  ASSUME IInv, TypeOK', LockHeldByOne', UntrackedClosed',
         NEW t \in Threads, NEW k \in Tasks, task' = [task EXCEPT ![t] = k],
         task[t].step \notin {"disable", "marking"},
         k.step # "update", k.step # "idle" => k.version \in Versions,
         k.step = "enable" => CanAttemptRecovery(k.version),
         \A w \in Versions : circuit'[w].attempts = circuit[w].attempts,
         \A w \in Versions : CanAttemptRecovery(w) => CanAttemptRecovery(w)',
         \A w \in Versions : registry'[w] = "discovered" => registry[w] = "discovered",
         \A w \in Versions : circuit'[w].state = "open" =>
           circuit[w].state = "open" \/ (k.step = "disable" /\ k.version = w)
  PROVE  IInv'
<1>0. TypeOK
  BY DEF IInv
<1>1. \A u \in Threads : task'[u] = IF u = t THEN k ELSE task[u]
  BY <1>0, TaskMove
<1>2. \A w \in Versions : Pending(w) => Pending(w)'
  BY <1>1, PendingKept
<1>3. \A w \in Versions : k.step = "disable" /\ k.version = w => Pending(w)'
  BY <1>1 DEF Pending, Busy
<1>4. TaskHasVersion'
  BY <1>1 DEF IInv, TaskHasVersion
<1>5. AttemptsBounded'
  BY DEF IInv, AttemptsBounded
<1>6. OpenIsNotReloaded'
  BY <1>2, <1>3 DEF IInv, OpenIsNotReloaded, Pending
<1>7. EnableStillAllowed'
  BY <1>1 DEF IInv, EnableStillAllowed
<1>8. TripNotLost'
  BY <1>1, <1>2, <1>3 DEF IInv, TripNotLost
<1>. QED BY <1>4, <1>5, <1>6, <1>7, <1>8 DEF IInv

(* A thread that moves between two places outside the manager's lock.      *)
LEMMA LockAlone ==
  ASSUME IInv, NEW t \in Threads, NEW k \in Tasks, task' = [task EXCEPT ![t] = k],
         UNCHANGED holder,
         task[t].step \notin {"marking", "enable", "force", "update"},
         k.step \notin {"marking", "enable", "force", "update"}
  PROVE  LockHeldByOne'
<1>1. \A u \in Threads : task'[u] = IF u = t THEN k ELSE task[u]
  BY TaskMove DEF IInv
<1>. QED BY <1>1 DEF IInv, LockHeldByOne

LEMMA ManualDisableStep ==
  ASSUME IInv, NEW t \in Threads, NEW v \in Versions, ManualDisable(t, v)
  PROVE  IInv'
<1>. DEFINE k == Task("disable", v)
<1>0. TypeOK /\ task[t] = NoTask /\ task' = [task EXCEPT ![t] = k]
      /\ UNCHANGED <<breakerVars, registry, holder>>
  BY DEF IInv, ManualDisable
<1>1. k \in Tasks /\ k.step = "disable" /\ k.version = v /\ task[t].step = "idle"
  BY <1>0, TaskTypes DEF Steps
<1>. HIDE DEF k
<1>2. TypeOK' /\ UntrackedClosed'
  BY <1>0, <1>1, TaskMove DEF TypeOK, BreakerTypeOK, breakerVars, IInv, UntrackedClosed
<1>3. LockHeldByOne'
  BY <1>0, <1>1, LockAlone
<1>4. \A w \in Versions : CanAttemptRecovery(w) => CanAttemptRecovery(w)'
  BY <1>0 DEF CanAttemptRecovery, breakerVars
<1>. QED BY <1>0, <1>1, <1>2, <1>3, <1>4, CalmMove DEF breakerVars

LEMMA EnableBeginStep ==
  ASSUME IInv, NEW t \in Threads, NEW v \in Versions, NEW force \in BOOLEAN,
         EnableBegin(t, v, force)
  PROVE  IInv'
<1>. DEFINE k == Task(IF force THEN "force" ELSE "enable", v)
<1>0. TypeOK /\ task[t] = NoTask /\ task' = [task EXCEPT ![t] = k]
      /\ holder = None /\ holder' = t /\ EnableAllowed(v, force)
      /\ UNCHANGED <<breakerVars, registry>>
  BY DEF IInv, EnableBegin
<1>1. k \in Tasks /\ k.step \in {"force", "enable"} /\ k.version = v /\ task[t].step = "idle"
      /\ (k.step = "enable" => ~force)
  BY <1>0, TaskTypes DEF Steps
<1>. HIDE DEF k
<1>2. /\ task' \in [Threads -> Tasks]
      /\ \A u \in Threads : task'[u] = IF u = t THEN k ELSE task[u]
  BY <1>0, <1>1, TaskMove
<1>3. TypeOK' /\ UntrackedClosed'
  BY <1>0, <1>2 DEF TypeOK, BreakerTypeOK, breakerVars, IInv, UntrackedClosed
<1>4. LockHeldByOne'
  BY <1>0, <1>1, <1>2, HolderAssumption DEF IInv, LockHeldByOne
<1>5. \A w \in Versions : CanAttemptRecovery(w) => CanAttemptRecovery(w)'
  BY <1>0 DEF CanAttemptRecovery, breakerVars
<1>6. k.step = "enable" => CanAttemptRecovery(k.version)
  BY <1>0, <1>1 DEF EnableAllowed
<1>. QED BY <1>0, <1>1, <1>3, <1>4, <1>5, <1>6, CalmMove DEF breakerVars

LEMMA StartLoadStep ==
  ASSUME IInv, NEW t \in Threads, NEW v \in Versions, StartLoad(t, v)
  PROVE  IInv'
<1>. DEFINE k == Task("loading", v)
<1>0. TypeOK /\ task[t] = NoTask /\ task' = [task EXCEPT ![t] = k]
      /\ UpdateState(v, "loading") /\ UNCHANGED <<breakerVars, holder>>
  BY DEF IInv, StartLoad
<1>1. k \in Tasks /\ k.step = "loading" /\ k.version = v /\ task[t].step = "idle"
  BY <1>0, TaskTypes DEF Steps
<1>. HIDE DEF k
<1>2. registry' \in [Versions -> LoadStates]
      /\ \A w \in Versions : registry'[w] = "discovered" => registry[w] = "discovered"
  BY <1>0 DEF TypeOK, UpdateState, LoadStates
<1>3. TypeOK' /\ UntrackedClosed'
  BY <1>0, <1>1, <1>2, TaskMove DEF TypeOK, BreakerTypeOK, breakerVars, IInv, UntrackedClosed
<1>4. LockHeldByOne'
  BY <1>0, <1>1, LockAlone
<1>5. \A w \in Versions : CanAttemptRecovery(w) => CanAttemptRecovery(w)'
  BY <1>0 DEF CanAttemptRecovery, breakerVars
<1>. QED BY <1>0, <1>1, <1>2, <1>3, <1>4, <1>5, CalmMove DEF breakerVars

LEMMA FinishLoadStep ==
  ASSUME IInv, NEW t \in Threads, NEW v \in Versions, FinishLoad(t, v)
  PROVE  IInv'
<1>0. TypeOK /\ task[t] = Task("loading", v) /\ task[t].step = "loading"
      /\ UNCHANGED <<breakerVars, holder>>
  BY TaskTypes DEF IInv, FinishLoad, Steps
<1>1. PICK k \in {Task("loaded", v), Task("failed", v)}, s \in {"ready", "failed"} :
        task' = [task EXCEPT ![t] = k] /\ UpdateState(v, s)
  BY DEF FinishLoad
<1>2. k \in Tasks /\ k.step \in {"loaded", "failed"} /\ k.version = v
  BY <1>1, TaskTypes DEF Steps
<1>3. registry' \in [Versions -> LoadStates]
      /\ \A w \in Versions : registry'[w] = "discovered" => registry[w] = "discovered"
  BY <1>0, <1>1 DEF TypeOK, UpdateState, LoadStates
<1>4. TypeOK' /\ UntrackedClosed'
  BY <1>0, <1>1, <1>2, <1>3, TaskMove DEF TypeOK, BreakerTypeOK, breakerVars, IInv, UntrackedClosed
<1>5. LockHeldByOne'
  BY <1>0, <1>1, <1>2, LockAlone
<1>6. \A w \in Versions : CanAttemptRecovery(w) => CanAttemptRecovery(w)'
  BY <1>0 DEF CanAttemptRecovery, breakerVars
<1>. QED BY <1>0, <1>1, <1>2, <1>3, <1>4, <1>5, <1>6, CalmMove DEF breakerVars

LEMMA NotifyLoadSuccessStep ==
  ASSUME IInv, NEW t \in Threads, NEW v \in Versions, NotifyLoadSuccess(t, v)
  PROVE  IInv'
<1>0. TypeOK /\ BreakerTypeOK /\ task[t].step = "loaded" /\ RecordSuccess(v)
      /\ task' = [task EXCEPT ![t] = NoTask] /\ UNCHANGED <<registry, holder>>
  BY TaskTypes DEF IInv, TypeOK, NotifyLoadSuccess, Steps
<1>1. /\ BreakerTypeOK'
      /\ \A w \in Versions : circuit'[w].attempts = circuit[w].attempts
      /\ \A w \in Versions : circuit[w].state = "open" =>
           /\ circuit'[w].state = "open"
           /\ circuit'[w].cooled = circuit[w].cooled /\ circuit'[w].spaced = circuit[w].spaced
      /\ \A w \in Versions : circuit'[w].state = "open" => circuit[w].state = "open"
      /\ \A w \in Versions : circuit'[w].state # circuit[w].state => w = v
      /\ tracked' = tracked \cup {v}
  BY <1>0, SuccessEffect
<1>2. NoTask \in Tasks /\ NoTask.step = "idle"
  BY TaskTypes DEF Steps
<1>3. TypeOK'
  BY <1>0, <1>1, <1>2, TaskMove DEF TypeOK
<1>4. UntrackedClosed'
  BY <1>1 DEF IInv, UntrackedClosed
<1>5. LockHeldByOne'
  BY <1>0, <1>2, LockAlone
<1>6. \A w \in Versions : CanAttemptRecovery(w) => CanAttemptRecovery(w)'
  BY <1>1 DEF CanAttemptRecovery
<1>. QED BY <1>0, <1>1, <1>2, <1>3, <1>4, <1>5, <1>6, CalmMove

LEMMA NotifyLoadFailureStep ==
  ASSUME IInv, NEW t \in Threads, NEW v \in Versions, NotifyLoadFailure(t, v)
  PROVE  IInv'
<1>. DEFINE k == Task("disable", v)
<1>0. TypeOK /\ BreakerTypeOK /\ task[t].step = "failed" /\ AbortRecovery(v)
      /\ task' = [task EXCEPT ![t] = k] /\ UNCHANGED <<registry, holder>>
  BY TaskTypes DEF IInv, TypeOK, NotifyLoadFailure, Steps
<1>1. /\ BreakerTypeOK'
      /\ \A w \in Versions : circuit'[w].attempts = circuit[w].attempts
      /\ \A w \in Versions : circuit[w].state = "open" => circuit'[w] = circuit[w]
      /\ \A w \in Versions : circuit'[w].state = "open" => circuit[w].state = "open" \/ w = v
      /\ \A w \in Versions : circuit'[w].state # circuit[w].state => w \in tracked
      /\ tracked' = tracked
  BY <1>0, AbortEffect
<1>2. k \in Tasks /\ k.step = "disable" /\ k.version = v
  BY TaskTypes DEF Steps
<1>. HIDE DEF k
<1>3. TypeOK'
  BY <1>0, <1>1, <1>2, TaskMove DEF TypeOK
<1>4. UntrackedClosed'
  BY <1>1 DEF IInv, UntrackedClosed
<1>5. LockHeldByOne'
  BY <1>0, <1>2, LockAlone
<1>6. \A w \in Versions : CanAttemptRecovery(w) => CanAttemptRecovery(w)'
  BY <1>1 DEF CanAttemptRecovery
<1>. QED BY <1>0, <1>1, <1>2, <1>3, <1>4, <1>5, <1>6, CalmMove


-----------------------------------------------------------------------------
(* disable_model gives up on a version that is absent or disabled already, *)
(* and otherwise keeps the disable pending.                                *)
LEMMA DisableBeginStep ==
  ASSUME IInv, NEW t \in Threads, NEW v \in Versions, DisableBegin(t, v)
  PROVE  IInv'
<1>0. /\ TypeOK /\ task[t].step = "disable" /\ task[t].version = v /\ holder = None
      /\ UNCHANGED <<breakerVars, registry>>
  BY TaskTypes DEF IInv, DisableBegin, Steps
<1>1. PICK k \in Tasks :
        /\ task' = [task EXCEPT ![t] = k]
        /\ \/ registry[v] # "discovered" /\ k.step = "idle" /\ holder' = None
           \/ k.step = "marking" /\ k.version = v /\ holder' = t
  <2>1. CASE registry[v] \in {"absent", "disabled"}
    <3>1. NoTask \in Tasks /\ NoTask.step = "idle"
      BY TaskTypes DEF Steps
    <3>2. task' = [task EXCEPT ![t] = NoTask] /\ holder' = None /\ registry[v] # "discovered"
      BY <1>0, <2>1 DEF DisableBegin
    <3>. QED BY <3>1, <3>2
  <2>2. CASE registry[v] \notin {"absent", "disabled"}
    <3>1. Task("marking", v) \in Tasks /\ Task("marking", v).step = "marking"
          /\ Task("marking", v).version = v
      BY TaskTypes DEF Steps
    <3>2. task' = [task EXCEPT ![t] = Task("marking", v)] /\ holder' = t
      BY <2>2 DEF DisableBegin
    <3>. QED BY <3>1, <3>2
  <2>. QED BY <2>1, <2>2
<1>2. /\ task' \in [Threads -> Tasks]
      /\ \A u \in Threads : task'[u] = IF u = t THEN k ELSE task[u]
  BY <1>0, <1>1, TaskMove
<1>3. \A u \in Threads : task[u].step \notin {"marking", "enable", "force", "update"}
  BY <1>0, HolderAssumption DEF IInv, LockHeldByOne
<1>4. TypeOK'
  BY <1>0, <1>1, <1>2 DEF TypeOK, BreakerTypeOK, breakerVars
<1>5. LockHeldByOne'
  BY <1>0, <1>1, <1>2, <1>3, HolderAssumption DEF LockHeldByOne
<1>6. \A w \in Versions : Pending(w) /\ ~(w = v /\ registry[v] # "discovered") => Pending(w)'
  <2>. SUFFICES ASSUME NEW w \in Versions, Pending(w), ~(w = v /\ registry[v] # "discovered")
                PROVE  Pending(w)'
    OBVIOUS
  <2>1. PICK u \in Threads : task[u].version = w /\ task[u].step \in {"disable", "marking"}
    BY DEF Pending, Busy
  <2>2. task'[u].version = w /\ task'[u].step \in {"disable", "marking"}
    BY <1>0, <1>1, <1>2, <2>1
  <2>. QED BY <2>2 DEF Pending, Busy
<1>7. OpenIsNotReloaded'
  BY <1>0, <1>6 DEF IInv, OpenIsNotReloaded, Pending, breakerVars
<1>8. AttemptsBounded' /\ UntrackedClosed'
  BY <1>0 DEF IInv, AttemptsBounded, UntrackedClosed, breakerVars
<1>9. TaskHasVersion'
  BY <1>1, <1>2 DEF IInv, TaskHasVersion
<1>10. EnableStillAllowed' /\ TripNotLost'
  BY <1>1, <1>2, <1>3 DEF EnableStillAllowed, TripNotLost
<1>. QED BY <1>4, <1>5, <1>7, <1>8, <1>9, <1>10 DEF IInv

(* The lock is held: no recovery is half way, and the version is disabled. *)
LEMMA DisableMarkStep ==
  ASSUME IInv, NEW t \in Threads, NEW v \in Versions, DisableMark(t, v)
  PROVE  IInv'
<1>0. /\ TypeOK /\ task[t].step = "marking" /\ task[t].version = v /\ holder' = None
      /\ task' = [task EXCEPT ![t] = NoTask] /\ UpdateState(v, "disabled")
      /\ UNCHANGED breakerVars
  BY TaskTypes DEF IInv, DisableMark, Steps
<1>1. NoTask \in Tasks /\ NoTask.step = "idle"
  BY TaskTypes DEF Steps
<1>2. /\ task' \in [Threads -> Tasks]
      /\ \A u \in Threads : task'[u] = IF u = t THEN NoTask ELSE task[u]
  BY <1>0, <1>1, TaskMove
<1>3. holder = t
  BY <1>0 DEF IInv, LockHeldByOne
<1>3a. \A u \in Threads : task'[u].step \notin {"marking", "enable", "force", "update"}
  BY <1>1, <1>2, <1>3 DEF IInv, LockHeldByOne
<1>4. registry' \in [Versions -> LoadStates]
      /\ \A w \in Versions : registry'[w] = "discovered" => w # v /\ registry[w] = "discovered"
  BY <1>0 DEF TypeOK, UpdateState, LoadStates
<1>5. TypeOK'
  BY <1>0, <1>2, <1>4 DEF TypeOK, BreakerTypeOK, breakerVars
<1>6. LockHeldByOne'
  BY <1>0, <1>3a, HolderAssumption DEF LockHeldByOne
<1>7. \A w \in Versions : Pending(w) /\ w # v => Pending(w)'
  <2>. SUFFICES ASSUME NEW w \in Versions, Pending(w), w # v
                PROVE  Pending(w)'
    OBVIOUS
  <2>1. PICK u \in Threads : task[u].version = w /\ task[u].step \in {"disable", "marking"}
    BY DEF Pending, Busy
  <2>. QED BY <1>0, <1>2, <2>1 DEF Pending, Busy
<1>8. OpenIsNotReloaded'
  BY <1>0, <1>4, <1>7 DEF IInv, OpenIsNotReloaded, Pending, breakerVars
<1>9. AttemptsBounded' /\ UntrackedClosed'
  BY <1>0 DEF IInv, AttemptsBounded, UntrackedClosed, breakerVars
<1>10. TaskHasVersion'
  BY <1>1, <1>2 DEF IInv, TaskHasVersion
<1>11. EnableStillAllowed' /\ TripNotLost'
  BY <1>3a DEF EnableStillAllowed, TripNotLost
<1>. QED BY <1>5, <1>6, <1>8, <1>9, <1>10, <1>11 DEF IInv

-----------------------------------------------------------------------------
(* The thread that holds the lock closes or half-opens its circuit and     *)
(* goes on to the update.                                                  *)
LEMMA RecoveryMove ==
  ASSUME IInv, NEW t \in Threads, NEW v \in Versions, task[t].step \in {"force", "enable"},
         task[t].version = v, NEW d \in CircuitStates,
         d.state \in {"closed", "half_open"}, d.attempts <= MaxAttempts,
         v \notin tracked => d.state = "closed",
         Write(v, d), task' = [task EXCEPT ![t] = Task("update", v)],
         UNCHANGED <<persistent, tracked, stuck, disk, warned, saver, registry, holder>>
  PROVE  IInv'
<1>. DEFINE k == Task("update", v)
<1>0. TypeOK /\ k \in Tasks /\ k.step = "update" /\ k.version = v
  BY TaskTypes DEF IInv, Steps
<1>. HIDE DEF k
<1>1. /\ task' \in [Threads -> Tasks]
      /\ \A u \in Threads : task'[u] = IF u = t THEN k ELSE task[u]
  BY <1>0, TaskMove DEF k
<1>2. BreakerTypeOK' /\ \A w \in Versions : circuit'[w] = IF w = v THEN d ELSE circuit[w]
  <2>1. BreakerTypeOK /\ tracked' \subseteq Versions /\ stuck' \in BOOLEAN
    BY <1>0 DEF TypeOK, BreakerTypeOK
  <2>. QED BY <2>1, OneWrite
<1>3. holder = t /\ \A u \in Threads :
        u # t => task[u].step \notin {"marking", "enable", "force", "update"}
  BY DEF IInv, LockHeldByOne
<1>4. TypeOK'
  BY <1>0, <1>1, <1>2 DEF TypeOK
<1>5. LockHeldByOne'
  BY <1>0, <1>1, <1>3 DEF LockHeldByOne
<1>6. AttemptsBounded' /\ UntrackedClosed'
  BY <1>2 DEF IInv, AttemptsBounded, UntrackedClosed
<1>7. \A w \in Versions : Pending(w) => Pending(w)'
  <2>1. \A u \in Threads : u # t => task'[u] = task[u]
    BY <1>1
  <2>. QED BY <2>1, PendingKept
<1>8. OpenIsNotReloaded'
  BY <1>2, <1>7 DEF IInv, OpenIsNotReloaded, Pending
<1>9. TaskHasVersion'
  BY <1>0, <1>1 DEF IInv, TaskHasVersion
<1>10. EnableStillAllowed'
  BY <1>0, <1>1, <1>3 DEF EnableStillAllowed
<1>11. TripNotLost'
  BY <1>0, <1>1, <1>2, <1>3 DEF TripNotLost
<1>. QED BY <1>4, <1>5, <1>6, <1>8, <1>9, <1>10, <1>11 DEF IInv

LEMMA EnableForceStep ==
  ASSUME IInv, NEW t \in Threads, NEW v \in Versions, EnableForce(t, v)
  PROVE  IInv'
<1>. DEFINE d == IF v \in tracked THEN ForceClosed(circuit[v]) ELSE circuit[v]
<1>0. /\ TypeOK /\ task[t].step = "force" /\ task[t].version = v
      /\ circuit \in [Versions -> CircuitStates] /\ circuit[v] \in CircuitStates
  BY TaskTypes DEF IInv, EnableForce, Steps, TypeOK, BreakerTypeOK
<1>1. d \in CircuitStates /\ d.state = "closed"
  BY <1>0, ClosedType DEF IInv, UntrackedClosed
<1>2. d.attempts <= MaxAttempts
  BY <1>0, ClosedType, BreakerAssumption DEF IInv, AttemptsBounded
<1>3. Write(v, d)
  BY DEF EnableForce
<1>4. /\ task' = [task EXCEPT ![t] = Task("update", v)]
      /\ UNCHANGED <<persistent, tracked, stuck, disk, warned, saver, registry, holder>>
  BY DEF EnableForce
<1>. HIDE DEF d
<1>. QED BY <1>0, <1>1, <1>2, <1>3, <1>4, RecoveryMove

(* prepare_recovery does not fail: the lock keeps others from recovering   *)
(* the version, and a report only ever opens its circuit.                  *)
LEMMA EnablePrepareStep ==
  ASSUME IInv, NEW t \in Threads, NEW v \in Versions, EnablePrepare(t, v)
  PROVE  IInv'
<1>. DEFINE d == HalfOpened(circuit[v])
<1>0. /\ TypeOK /\ task[t].step = "enable" /\ task[t].version = v
      /\ circuit \in [Versions -> CircuitStates] /\ circuit[v] \in CircuitStates
  BY TaskTypes DEF IInv, EnablePrepare, Steps, TypeOK, BreakerTypeOK
<1>1. CanAttemptRecovery(v)
  BY <1>0 DEF IInv, EnableStillAllowed
<1>2. d \in CircuitStates /\ d.state = "half_open" /\ d.attempts = circuit[v].attempts + 1
  BY <1>0, HalfOpenedType
<1>3. d.attempts <= MaxAttempts
  <2>1. circuit[v].attempts \in Nat /\ MaxAttempts \in Nat
        /\ circuit[v].attempts < MaxAttempts
    BY <1>0, <1>1, BreakerAssumption DEF CanAttemptRecovery, CircuitStates
  <2>. HIDE DEF d
  <2>. QED BY <1>2, <2>1
<1>4. /\ Write(v, d)
      /\ task' = [task EXCEPT ![t] = Task("update", v)]
      /\ UNCHANGED <<persistent, tracked, stuck, disk, warned, saver, registry, holder>>
  BY <1>1 DEF EnablePrepare, PrepareRecovery, CanAttemptRecovery
<1>5. v \in tracked
  BY <1>1 DEF CanAttemptRecovery
<1>. HIDE DEF d
<1>. QED BY <1>0, <1>2, <1>3, <1>4, <1>5, RecoveryMove

(* A version that is discovered with an open circuit was tripped again     *)
(* since it was prepared, and its disable waits for the lock.              *)
LEMMA EnableUpdateStep ==
  ASSUME IInv, NEW t \in Threads, NEW v \in Versions, EnableUpdate(t, v)
  PROVE  IInv'
<1>0. /\ TypeOK /\ BreakerTypeOK /\ task[t].step = "update" /\ task[t].version = v
      /\ holder' = None /\ task' = [task EXCEPT ![t] = NoTask]
      /\ UpdateState(v, "discovered")
  BY TaskTypes DEF IInv, EnableUpdate, Steps, TypeOK
<1>1. NoTask \in Tasks /\ NoTask.step = "idle"
  BY TaskTypes DEF Steps
<1>2. /\ task' \in [Threads -> Tasks]
      /\ \A u \in Threads : task'[u] = IF u = t THEN NoTask ELSE task[u]
  BY <1>0, <1>1, TaskMove
<1>3. \A u \in Threads : task'[u].step \notin {"marking", "enable", "force", "update"}
  BY <1>0, <1>1, <1>2 DEF IInv, LockHeldByOne
<1>4. /\ BreakerTypeOK'
      /\ \A w \in Versions : circuit'[w].attempts = circuit[w].attempts
      /\ \A w \in Versions : circuit'[w].state = "open" =>
           circuit[w].state = "open" \/ (w = v /\ registry[v] = "absent")
      /\ \A w \in Versions : circuit'[w].state # circuit[w].state => w \in tracked
      /\ tracked' = tracked
  <2>1. CASE registry[v] = "absent"
    <3>1. AbortRecovery(v)
      BY <2>1 DEF EnableUpdate
    <3>. QED BY <1>0, <2>1, <3>1, AbortEffect
  <2>2. CASE registry[v] # "absent"
    <3>1. UNCHANGED breakerVars
      BY <2>2 DEF EnableUpdate
    <3>. QED BY <1>0, <3>1 DEF breakerVars, BreakerTypeOK
  <2>. QED BY <2>1, <2>2
<1>5. registry' \in [Versions -> LoadStates]
      /\ \A w \in Versions : registry'[w] = "discovered" =>
           registry[w] = "discovered" \/ (w = v /\ registry[v] # "absent")
  BY <1>0 DEF TypeOK, UpdateState, LoadStates
<1>6. TypeOK'
  BY <1>0, <1>2, <1>4, <1>5 DEF TypeOK
<1>7. LockHeldByOne'
  BY <1>0, <1>3, HolderAssumption DEF LockHeldByOne
<1>8. \A w \in Versions : Pending(w) => Pending(w)'
  <2>1. \A u \in Threads : u # t => task'[u] = task[u]
    BY <1>2
  <2>. QED BY <1>0, <2>1, PendingKept
<1>9. OpenIsNotReloaded'
  <2>. SUFFICES ASSUME NEW w \in Versions, circuit'[w].state = "open",
                       registry'[w] = "discovered"
                PROVE  Pending(w)'
    BY DEF OpenIsNotReloaded, Pending
  <2>1. CASE w = v
    <3>1. registry[v] # "absent"
      BY <1>0, <2>1 DEF TypeOK, UpdateState
    <3>2. circuit[v].state = "open"
      BY <1>4, <2>1, <3>1
    <3>3. Pending(v)
      BY <1>0, <3>2 DEF IInv, TripNotLost
    <3>. QED BY <1>8, <2>1, <3>3
  <2>2. CASE w # v
    <3>1. circuit[w].state = "open" /\ registry[w] = "discovered"
      BY <1>4, <1>5, <2>2
    <3>2. Pending(w)
      BY <3>1 DEF IInv, OpenIsNotReloaded, Pending
    <3>. QED BY <1>8, <3>2
  <2>. QED BY <2>1, <2>2
<1>10. AttemptsBounded' /\ UntrackedClosed'
  BY <1>4 DEF IInv, AttemptsBounded, UntrackedClosed
<1>11. TaskHasVersion'
  BY <1>1, <1>2 DEF IInv, TaskHasVersion
<1>12. EnableStillAllowed' /\ TripNotLost'
  BY <1>3 DEF EnableStillAllowed, TripNotLost
<1>. QED BY <1>6, <1>7, <1>9, <1>10, <1>11, <1>12 DEF IInv

-----------------------------------------------------------------------------
LEMMA NextIInv == IInv /\ [Next]_vars => IInv'
<1>. SUFFICES ASSUME IInv, [Next]_vars PROVE IInv'
  OBVIOUS
<1>1. CASE UNCHANGED vars
  <2>1. UNCHANGED <<persistent, tracked, circuit, before, stuck, disk, warned, saver, registry,
                  holder, task>>
    BY <1>1 DEF vars, breakerVars
  <2>2. TypeOK' /\ UntrackedClosed'
    BY <2>1 DEF IInv, TypeOK, BreakerTypeOK, UntrackedClosed
  <2>3. \A w \in Versions : CanAttemptRecovery(w) => CanAttemptRecovery(w)'
    BY <2>1 DEF CanAttemptRecovery
  <2>. QED BY <2>1, <2>2, <2>3, QuietStep
<1>2. ASSUME NEW t \in Threads, Begin(t) PROVE IInv'
  BY <1>2, ReportStep, ManualDisableStep, EnableBeginStep, StartLoadStep DEF Begin
<1>3. ASSUME NEW t \in Threads, Continue(t) PROVE IInv'
  BY <1>3, DisableBeginStep, DisableMarkStep, EnableForceStep, EnablePrepareStep,
     EnableUpdateStep, FinishLoadStep, NotifyLoadSuccessStep, NotifyLoadFailureStep
     DEF Continue
<1>4. ASSUME NEW v \in Versions, Succeed(v) \/ Unregister(v) \/ TimePasses(v) PROVE IInv'
  BY <1>4, SucceedStep, UnregisterStep, TimePassesStep
<1>. QED BY <1>1, <1>2, <1>3, <1>4 DEF Next

(* The inductive invariant holds in every state. *)
THEOREM Invariance == Spec => []IInv
BY InitIInv, NextIInv, PTL DEF Spec

(* The breaker's states, the registry's, the lock and the tasks have their *)
(* types.                                                                  *)
THEOREM TypeCorrect == Spec => []TypeOK
<1>1. IInv => TypeOK
  BY DEF IInv
<1>. QED BY Invariance, <1>1, PTL

(* No version is recovered more than max_recovery_attempts times between   *)
(* two admin resets, whatever the policy and however many threads.         *)
THEOREM RecoveriesBounded == Spec => []AttemptsBounded
<1>1. IInv => AttemptsBounded
  BY DEF IInv
<1>. QED BY Invariance, <1>1, PTL

(* disable_model and enable_model under the manager's lock never leave a   *)
(* version whose circuit is open to be loaded, unless the thread that      *)
(* tripped it is still going to disable it.                                *)
THEOREM TripsAreKept == Spec => []OpenIsNotReloaded
<1>1. IInv => OpenIsNotReloaded
  BY DEF IInv
<1>. QED BY Invariance, <1>1, PTL

-----------------------------------------------------------------------------
(* Which steps take a circuit from open to half open. *)
LEMMA OnlyPrepareHalfOpens ==
  ASSUME IInv, Next, NEW v \in Versions,
         circuit[v].state = "open", circuit'[v].state = "half_open"
  PROVE  CanAttemptRecovery(v)
<1>0. TypeOK /\ BreakerTypeOK /\ circuit \in [Versions -> CircuitStates]
  BY DEF IInv, TypeOK, BreakerTypeOK
<1>1. ASSUME NEW w \in Versions, NEW type \in Types, RecordFailure(w, type) PROVE FALSE
  BY <1>0, <1>1, FailureEffect
<1>2. ASSUME NEW w \in Versions, RecordSuccess(w) PROVE FALSE
  BY <1>0, <1>2, SuccessEffect
<1>3. ASSUME NEW w \in Versions, AbortRecovery(w) PROVE FALSE
  BY <1>0, <1>3, AbortEffect
<1>4. ASSUME NEW w \in Versions, TimePasses(w) PROVE FALSE
  BY <1>0, <1>4 DEF TimePasses, Elapse, CircuitStates
<1>5. ASSUME NEW t \in Threads, NEW w \in Versions, EnableForce(t, w) PROVE FALSE
  <2>1. circuit[w] \in CircuitStates
    BY <1>0
  <2>2. ForceClosed(circuit[w]).state = "closed"
    BY <2>1, ClosedType
  <2>. QED BY <1>0, <1>5, <2>2 DEF EnableForce, Write
<1>6. ASSUME NEW t \in Threads, NEW w \in Versions, EnablePrepare(t, w)
      PROVE  CanAttemptRecovery(v)
  <2>1. task[t].step = "enable" /\ task[t].version = w
    BY <1>6, TaskTypes DEF EnablePrepare, Steps
  <2>2. CanAttemptRecovery(w)
    BY <2>1 DEF IInv, EnableStillAllowed
  <2>3. v = w
    BY <1>0, <1>6 DEF EnablePrepare, PrepareRecovery, Write, breakerVars
  <2>. QED BY <2>2, <2>3
<1>7. ASSUME UNCHANGED breakerVars PROVE FALSE
  BY <1>7 DEF breakerVars
<1>8. ASSUME NEW t \in Threads, Begin(t) PROVE FALSE
  BY <1>1, <1>7, <1>8 DEF Begin, Report, ManualDisable, EnableBegin, StartLoad
<1>9. ASSUME NEW t \in Threads, Continue(t) PROVE CanAttemptRecovery(v)
  BY <1>2, <1>3, <1>5, <1>6, <1>7, <1>9 DEF Continue, DisableBegin, DisableMark,
     EnableUpdate, FinishLoad, NotifyLoadSuccess, NotifyLoadFailure
<1>10. ASSUME NEW w \in Versions, Succeed(w) \/ Unregister(w) PROVE FALSE
  BY <1>2, <1>7, <1>10 DEF Succeed, Unregister
<1>. QED BY <1>4, <1>8, <1>9, <1>10 DEF Next

(* can_attempt_recovery and prepare_recovery are two critical sections of  *)
(* the breaker, and yet what the first allowed holds when the second acts. *)
THEOREM RecoveriesAllowed == Spec => RecoveryIsAllowed
<1>1. IInv /\ [Next]_vars =>
        [\A v \in Versions :
           circuit[v].state = "open" /\ circuit[v]'.state = "half_open" =>
             CanAttemptRecovery(v)]_vars
  BY OnlyPrepareHalfOpens
<1>. QED BY Invariance, <1>1, PTL DEF Spec, RecoveryIsAllowed
-----------------------------------------------------------------------------
(* The breaker alone, with its file and the restarts.                      *)
(*                                                                         *)
(* A file may bring back a closed circuit with a count at its threshold,   *)
(* so being below the thresholds is no invariant here. What each operation *)
(* keeps is: the circuit is below them, or it was not before and no        *)
(* failure was counted.                                                    *)
Below(c) == c.state = "closed" => BelowThresholds(c)

KeepsBelow(c, d) == Below(d) \/ (~Below(c) /\ d.failures <= c.failures)

(* What has been read so far is a state, which is then read into. *)
CopiesRead ==
  \A t \in Savers, v \in Versions : saver[t].at[v] # AllRead => saver[t].file[v] \in CircuitStates

BreakerInv == BreakerTypeOK /\ CopiesRead

(* What the operations return is below the thresholds.                     *)
LEMMA NewBelow == NewCircuit \in CircuitStates /\ Below(NewCircuit)
BY BreakerAssumption DEF NewCircuit, CircuitStates, Below, BelowThresholds

LEMMA RecordedBelow ==
  ASSUME NEW c \in CircuitStates, NEW type \in Types
  PROVE  LET d == Recorded(c, type) IN
         /\ Reason(d) = None => Below(d)
         /\ Reason(d) # None => Below(Opened(d, Reason(d)))
<1>. DEFINE d == Recorded(c, type)
<1>1. d \in CircuitStates
  BY RecordedType
<1>2. Reason(d) = None => Below(d)
  BY <1>1, NoneAssumption, BreakerAssumption
     DEF Reason, Reasons, Below, BelowThresholds, CircuitStates
<1>3. Opened(d, Reason(d)).state = "open"
  BY <1>1 DEF Opened, CircuitStates
<1>. QED BY <1>2, <1>3 DEF Below

LEMMA ClosedBelow ==
  ASSUME NEW c \in CircuitStates
  PROVE  Below(Closed(c)) /\ Below(ForceClosed(c))
BY BreakerAssumption DEF Below, BelowThresholds, Closed, ForceClosed, CircuitStates

LEMMA SameKeeps ==
  ASSUME NEW c \in CircuitStates
  PROVE  KeepsBelow(c, c)
<1>1. c.failures \in Nat
  BY DEF CircuitStates
<1>. QED BY <1>1 DEF KeepsBelow

LEMMA SucceededKeeps ==
  ASSUME NEW c \in CircuitStates
  PROVE  KeepsBelow(c, Succeeded(c))
<1>. DEFINE n == IF c.state = "half_open" THEN c.successes + 1 ELSE c.successes
            d == [c EXCEPT !.timeouts = 0, !.successes = n]
<1>1. Succeeded(c) = d
  BY DEF Succeeded, CircuitStates
<1>2. d.state = c.state /\ d.failures = c.failures /\ d.unhealthy = c.unhealthy /\ d.timeouts = 0
      /\ c.failures \in Nat
  BY DEF CircuitStates
<1>. HIDE DEF d
<1>. QED BY <1>1, <1>2, BreakerAssumption DEF KeepsBelow, Below, BelowThresholds

(* An operation on one version, as far as the thresholds go.               *)
LEMMA OneCircuitChanges ==
  ASSUME BreakerInv, NEW v \in Versions, NEW d \in CircuitStates, KeepsBelow(circuit[v], d),
         Write(v, d), tracked' \subseteq Versions, stuck' \in BOOLEAN,
         UNCHANGED <<persistent, disk, warned, saver>>
  PROVE  BreakerInv' /\ \A w \in Versions : KeepsBelow(circuit[w], circuit'[w])
<1>1. BreakerTypeOK' /\ \A w \in Versions : circuit'[w] = IF w = v THEN d ELSE circuit[w]
  BY OneWrite DEF BreakerInv
<1>2. CopiesRead'
  BY DEF BreakerInv, CopiesRead
<1>3. \A w \in Versions : circuit[w] \in CircuitStates
  BY DEF BreakerInv, BreakerTypeOK
<1>4. ASSUME NEW w \in Versions PROVE KeepsBelow(circuit[w], circuit'[w])
  BY <1>1, <1>3, SameKeeps
<1>. QED BY <1>1, <1>2, <1>4 DEF BreakerInv

(* A step that leaves the circuits alone. *)
LEMMA NoCircuitChanges ==
  ASSUME BreakerInv, circuit' = circuit
  PROVE  \A w \in Versions : KeepsBelow(circuit[w], circuit'[w])
BY SameKeeps DEF BreakerInv, BreakerTypeOK

LEMMA RecordFailureKeeps ==
  ASSUME BreakerInv, NEW v \in Versions, NEW type \in Types, RecordFailure(v, type)
  PROVE  BreakerInv' /\ \A w \in Versions : KeepsBelow(circuit[w], circuit'[w])
<1>. DEFINE c == Recorded(circuit[v], type)
            d == IF circuit[v].state = "open" THEN circuit[v]
                 ELSE IF Trips(v, type) THEN Opened(c, Reason(c)) ELSE c
<1>1. circuit[v] \in CircuitStates
  BY DEF BreakerInv, BreakerTypeOK
<1>2. c \in CircuitStates /\ (Reason(c) = None => Below(c))
      /\ (Reason(c) # None => Below(Opened(c, Reason(c))))
  BY <1>1, RecordedType, RecordedBelow
<1>3. Reason(c) # None => Opened(c, Reason(c)) \in CircuitStates
  BY <1>2, ReasonType, OpenedType
<1>4. circuit[v].state # "open" => (Trips(v, type) <=> Reason(c) # None)
  BY DEF Trips
<1>. HIDE DEF c
<1>5. d \in CircuitStates /\ KeepsBelow(circuit[v], d)
  <2>1. circuit[v].state = "open" => Below(circuit[v])
    BY DEF Below
  <2>. QED BY <1>1, <1>2, <1>3, <1>4, <2>1 DEF KeepsBelow
<1>6. /\ Write(v, d) /\ tracked' \subseteq Versions
      /\ stuck' \in BOOLEAN /\ UNCHANGED <<persistent, disk, warned, saver>>
  BY DEF RecordFailure, c, BreakerInv, BreakerTypeOK
<1>. HIDE DEF d
<1>. QED BY <1>5, <1>6, OneCircuitChanges

LEMMA RecordSuccessKeeps ==
  ASSUME BreakerInv, NEW v \in Versions, RecordSuccess(v)
  PROVE  BreakerInv' /\ \A w \in Versions : KeepsBelow(circuit[w], circuit'[w])
<1>. DEFINE d == IF Closes(v) THEN Closed(circuit[v]) ELSE Succeeded(circuit[v])
<1>1. circuit[v] \in CircuitStates
  BY DEF BreakerInv, BreakerTypeOK
<1>2. d \in CircuitStates /\ KeepsBelow(circuit[v], d)
  BY <1>1, ClosedType, SucceededType, ClosedBelow, SucceededKeeps DEF KeepsBelow
<1>3. /\ Write(v, d) /\ tracked' \subseteq Versions
      /\ stuck' \in BOOLEAN /\ UNCHANGED <<persistent, disk, warned, saver>>
  BY DEF RecordSuccess, BreakerInv, BreakerTypeOK
<1>. HIDE DEF d
<1>. QED BY <1>2, <1>3, OneCircuitChanges

LEMMA PrepareRecoveryKeeps ==
  ASSUME BreakerInv, NEW v \in Versions, PrepareRecovery(v)
  PROVE  BreakerInv' /\ \A w \in Versions : KeepsBelow(circuit[w], circuit'[w])
<1>1. circuit[v] \in CircuitStates
  BY DEF BreakerInv, BreakerTypeOK
<1>2. HalfOpened(circuit[v]) \in CircuitStates
      /\ KeepsBelow(circuit[v], HalfOpened(circuit[v]))
  BY <1>1, HalfOpenedType DEF KeepsBelow, Below
<1>3. /\ Write(v, HalfOpened(circuit[v])) /\ tracked' \subseteq Versions
      /\ stuck' \in BOOLEAN /\ UNCHANGED <<persistent, disk, warned, saver>>
  BY DEF PrepareRecovery, BreakerInv, BreakerTypeOK
<1>. QED BY <1>2, <1>3, OneCircuitChanges

LEMMA AbortRecoveryKeeps ==
  ASSUME BreakerInv, NEW v \in Versions, AbortRecovery(v)
  PROVE  BreakerInv' /\ \A w \in Versions : KeepsBelow(circuit[w], circuit'[w])
<1>. DEFINE c == circuit[v]
            e == [c EXCEPT !.state = "open", !.successes = 0]
            d == IF v \in tracked /\ c.state = "half_open" THEN e ELSE c
<1>1. c \in CircuitStates
  BY DEF BreakerInv, BreakerTypeOK
<1>2. /\ Write(v, d) /\ tracked' \subseteq Versions
      /\ stuck' \in BOOLEAN /\ UNCHANGED <<persistent, disk, warned, saver>>
  BY DEF AbortRecovery, BreakerInv, BreakerTypeOK
<1>. HIDE DEF c
<1>3. e \in CircuitStates /\ e.state = "open"
  BY <1>1 DEF CircuitStates
<1>. HIDE DEF e
<1>4. KeepsBelow(c, e) /\ KeepsBelow(c, c)
  BY <1>1, <1>3, SameKeeps DEF KeepsBelow, Below
<1>5. d \in CircuitStates /\ KeepsBelow(circuit[v], d)
  BY <1>1, <1>3, <1>4 DEF c
<1>. HIDE DEF d
<1>. QED BY <1>2, <1>5, OneCircuitChanges

LEMMA ElapseKeeps ==
  ASSUME BreakerInv, NEW v \in Versions, Elapse(v)
  PROVE  BreakerInv' /\ \A w \in Versions : KeepsBelow(circuit[w], circuit'[w])
<1>. DEFINE c == circuit[v]
<1>1. circuit \in [Versions -> CircuitStates] /\ c \in CircuitStates
  BY DEF BreakerInv, BreakerTypeOK
<1>2. UNCHANGED <<persistent, tracked, before, stuck, disk, warned, saver>>
  BY DEF Elapse
<1>3. \E d \in CircuitStates : KeepsBelow(c, d) /\ circuit' = [circuit EXCEPT ![v] = d]
  <2>1. CASE circuit' = [circuit EXCEPT ![v].cooled = TRUE]
    <3>. DEFINE d == [c EXCEPT !.cooled = TRUE]
    <3>1. d \in CircuitStates /\ d.state = c.state /\ d.failures = c.failures
          /\ d.unhealthy = c.unhealthy /\ d.timeouts = c.timeouts /\ c.failures \in Nat
      BY <1>1 DEF CircuitStates
    <3>2. circuit' = [circuit EXCEPT ![v] = d]
      BY <2>1
    <3>. HIDE DEF d, c
    <3>3. KeepsBelow(c, d)
      BY <3>1 DEF KeepsBelow, Below, BelowThresholds
    <3>. QED BY <3>1, <3>2, <3>3
  <2>2. CASE circuit' = [circuit EXCEPT ![v].spaced = TRUE]
    <3>. DEFINE d == [c EXCEPT !.spaced = TRUE]
    <3>1. d \in CircuitStates /\ d.state = c.state /\ d.failures = c.failures
          /\ d.unhealthy = c.unhealthy /\ d.timeouts = c.timeouts /\ c.failures \in Nat
      BY <1>1 DEF CircuitStates
    <3>2. circuit' = [circuit EXCEPT ![v] = d]
      BY <2>2
    <3>. HIDE DEF d, c
    <3>3. KeepsBelow(c, d)
      BY <3>1 DEF KeepsBelow, Below, BelowThresholds
    <3>. QED BY <3>1, <3>2, <3>3
  <2>3. CASE c.failures > 0 /\ circuit' = [circuit EXCEPT ![v].failures = @ - 1]
    <3>. DEFINE n == c.failures - 1
                d == [c EXCEPT !.failures = n]
    <3>1. n \in Nat /\ n < c.failures /\ c.failures \in Nat
      BY <1>1, <2>3 DEF CircuitStates
    <3>2. circuit' = [circuit EXCEPT ![v] = d]
      BY <2>3
    <3>. HIDE DEF n
    <3>3. d \in CircuitStates /\ d.state = c.state /\ d.failures = n
          /\ d.unhealthy = c.unhealthy /\ d.timeouts = c.timeouts
      BY <1>1, <3>1 DEF CircuitStates
    <3>. HIDE DEF d, c
    <3>4. KeepsBelow(c, d)
      BY <3>1, <3>3, BreakerAssumption DEF KeepsBelow, Below, BelowThresholds
    <3>. QED BY <3>2, <3>3, <3>4
  <2>. QED BY <2>1, <2>2, <2>3 DEF Elapse
<1>4. PICK d \in CircuitStates : KeepsBelow(c, d) /\ circuit' = [circuit EXCEPT ![v] = d]
  BY <1>3
<1>5. circuit' \in [Versions -> CircuitStates]
      /\ \A w \in Versions : circuit'[w] = IF w = v THEN d ELSE circuit[w]
  BY <1>1, <1>4
<1>6. BreakerInv'
  BY <1>2, <1>5 DEF BreakerInv, BreakerTypeOK, CopiesRead
<1>7. ASSUME NEW w \in Versions PROVE KeepsBelow(circuit[w], circuit'[w])
  BY <1>1, <1>4, <1>5, SameKeeps
<1>. QED BY <1>6, <1>7

-----------------------------------------------------------------------------
(* The operations that save, and the restart.                              *)
(* A record with some of its fields replaced. *)
Held(p, l, g, a, f) == [stage |-> p, live |-> l, gone |-> g, at |-> a, file |-> f]

LEMMA ReadSaver ==
  ASSUME NEW s \in SaverStates, NEW a, NEW f
  PROVE  [s EXCEPT !.at = a, !.file = f] = Held(s.stage, s.live, s.gone, a, f)
<1>. DEFINE y == [s EXCEPT !.at = a]
            P == {"idle", "copy", "wait", "save"}
            L == SUBSET Versions
            G == [Versions -> CircuitStates \cup {None}]
            T == [Versions -> 1..AllRead]
<1>0. s \in [stage : P, live : L, gone : G, at : T, file : G]
  BY DEF SaverStates
<1>. HIDE DEF P, L, G, T
<1>1. [s EXCEPT !.at = a, !.file = f] = [y EXCEPT !.file = f]
  BY <1>0
<1>2. y = Held(s.stage, s.live, s.gone, a, s.file)
  BY <1>0 DEF Held
<1>. HIDE DEF y
<1>3. [y EXCEPT !.file = f] = Held(s.stage, s.live, s.gone, a, f)
  BY <1>2 DEF Held
<1>. QED BY <1>1, <1>3

LEMMA RemovedSaver ==
  ASSUME NEW s \in SaverStates, NEW p, NEW l, NEW g
  PROVE  [s EXCEPT !.stage = p, !.live = l, !.gone = g] = Held(p, l, g, s.at, s.file)
<1>. DEFINE u == [s EXCEPT !.stage = p]
            v == [u EXCEPT !.live = l]
            P == {"idle", "copy", "wait", "save"}
            L == SUBSET Versions
            G == [Versions -> CircuitStates \cup {None}]
            T == [Versions -> 1..AllRead]
<1>0. s \in [stage : P, live : L, gone : G, at : T, file : G]
  BY DEF SaverStates
<1>. HIDE DEF P, L, G, T
<1>1. [s EXCEPT !.stage = p, !.live = l, !.gone = g] = [v EXCEPT !.gone = g]
  BY <1>0
<1>2. u = Held(p, s.live, s.gone, s.at, s.file)
  BY <1>0 DEF Held
<1>. HIDE DEF u
<1>3. v = Held(p, l, s.gone, s.at, s.file)
  BY <1>2 DEF Held
<1>. HIDE DEF v
<1>4. [v EXCEPT !.gone = g] = Held(p, l, g, s.at, s.file)
  BY <1>3 DEF Held
<1>. QED BY <1>1, <1>4

(* One thread that saves moves on. *)
LEMMA OneSaverMoves ==
  ASSUME BreakerInv, NEW t \in Savers, NEW x \in SaverStates,
         \A v \in Versions : x.at[v] # AllRead => x.file[v] \in CircuitStates,
         saver' = [saver EXCEPT ![t] = x]
  PROVE  /\ saver' \in [Savers -> SaverStates] /\ CopiesRead'
         /\ \A u \in Savers : saver'[u] = IF u = t THEN x ELSE saver[u]
<1>1. saver \in [Savers -> SaverStates] /\ CopiesRead
  BY DEF BreakerInv, BreakerTypeOK, SaverStates
<1>2. saver' \in [Savers -> SaverStates]
      /\ \A u \in Savers : saver'[u] = IF u = t THEN x ELSE saver[u]
  BY <1>1
<1>3. CopiesRead'
  BY <1>1, <1>2 DEF CopiesRead
<1>. QED BY <1>2, <1>3

LEMMA ForceCloseKeeps ==
  ASSUME BreakerInv, NEW t \in Savers, NEW v \in Versions, ForceClose(t, v)
  PROVE  BreakerInv' /\ \A w \in Versions : KeepsBelow(circuit[w], circuit'[w])
<1>. DEFINE d == ForceClosed(circuit[v])
            g == IF persistent THEN "copy" ELSE "idle"
            x == [saver[t] EXCEPT !.stage = g]
<1>1. BreakerTypeOK /\ CopiesRead /\ circuit[v] \in CircuitStates /\ saver[t] \in SaverStates
  BY DEF BreakerInv, BreakerTypeOK, SaverStates
<1>2. d \in CircuitStates /\ KeepsBelow(circuit[v], d)
  BY <1>1, ClosedType, ClosedBelow DEF KeepsBelow
<1>3. /\ Write(v, d) /\ saver' = [saver EXCEPT ![t] = x]
      /\ UNCHANGED <<persistent, tracked, stuck, disk, warned>>
  BY DEF ForceClose
<1>4. x \in SaverStates /\ x.at = saver[t].at /\ x.file = saver[t].file
  BY <1>1 DEF SaverStates
<1>5. \A w \in Versions : x.at[w] # AllRead => x.file[w] \in CircuitStates
  BY <1>1, <1>4 DEF CopiesRead
<1>. HIDE DEF d, x
<1>6. saver' \in [Savers -> SaverStates] /\ CopiesRead'
  BY <1>3, <1>4, <1>5, OneSaverMoves
<1>7. /\ circuit' \in [Versions -> CircuitStates]
      /\ before' \in [Versions -> CircuitStates \cup {None}]
      /\ \A w \in Versions : circuit'[w] = IF w = v THEN d ELSE circuit[w]
  BY <1>1, <1>2, <1>3 DEF Write, BreakerTypeOK
<1>8. BreakerTypeOK'
  BY <1>1, <1>3, <1>6, <1>7 DEF BreakerTypeOK, SaverStates
<1>9. ASSUME NEW w \in Versions PROVE KeepsBelow(circuit[w], circuit'[w])
  BY <1>1, <1>2, <1>7, SameKeeps DEF BreakerTypeOK
<1>. QED BY <1>6, <1>8, <1>9 DEF BreakerInv

LEMMA RemoveStateKeeps ==
  ASSUME BreakerInv, NEW t \in Savers, NEW v \in Versions, RemoveState(t, v)
  PROVE  BreakerInv' /\ \A w \in Versions : KeepsBelow(circuit[w], circuit'[w])
<1>1. BreakerTypeOK /\ CopiesRead /\ circuit \in [Versions -> CircuitStates]
      /\ circuit[v] \in CircuitStates /\ saver \in [Savers -> SaverStates]
  BY DEF BreakerInv, BreakerTypeOK, SaverStates
<1>2. circuit' \in [Versions -> CircuitStates]
      /\ \A w \in Versions : circuit'[w] = IF w = v THEN NewCircuit ELSE circuit[w]
  BY <1>1, NewBelow DEF RemoveState
<1>. DEFINE s(u) == IF u = t /\ persistent THEN "copy" ELSE saver[u].stage
            g(u) == IF v \in saver[u].live THEN circuit[v] ELSE saver[u].gone[v]
            x(u) == Held(s(u), saver[u].live \ {v}, [saver[u].gone EXCEPT ![v] = g(u)],
                         saver[u].at, saver[u].file)
<1>3. /\ tracked' = tracked \ {v} /\ UNCHANGED <<persistent, before, stuck, disk, warned>>
      /\ saver' = [u \in Savers |-> [saver[u] EXCEPT
           !.stage = s(u), !.live = @ \ {v}, !.gone[v] = g(u)]]
  BY <1>1 DEF RemoveState, SaverStates
<1>4. ASSUME NEW u \in Savers
      PROVE  [saver[u] EXCEPT !.stage = s(u), !.live = @ \ {v}, !.gone[v] = g(u)] = x(u)
             /\ x(u) \in SaverStates
  <2>1. saver[u] \in SaverStates /\ s(u) \in {"idle", "copy", "wait", "save"}
        /\ g(u) \in CircuitStates \cup {None}
    BY <1>1 DEF SaverStates
  <2>. HIDE DEF s, g
  <2>2. [saver[u].gone EXCEPT ![v] = g(u)] \in [Versions -> CircuitStates \cup {None}]
    BY <2>1 DEF SaverStates
  <2>3. [saver[u] EXCEPT !.stage = s(u), !.live = @ \ {v}, !.gone[v] = g(u)] =
        [saver[u] EXCEPT !.stage = s(u), !.live = saver[u].live \ {v},
                         !.gone = [saver[u].gone EXCEPT ![v] = g(u)]]
    BY <2>1 DEF SaverStates
  <2>4. [saver[u] EXCEPT !.stage = s(u), !.live = saver[u].live \ {v},
                         !.gone = [saver[u].gone EXCEPT ![v] = g(u)]] = x(u)
    BY <2>1, RemovedSaver
  <2>5. x(u) \in SaverStates
    BY <2>1, <2>2 DEF SaverStates, Held
  <2>. QED BY <2>3, <2>4, <2>5
<1>. HIDE DEF s, g
<1>5. \A u \in Savers : saver'[u] = x(u)
  BY <1>3, <1>4
<1>6. saver' \in [Savers -> SaverStates]
  <2>1. saver' = [u \in Savers |-> x(u)]
    BY <1>3, <1>4
  <2>. HIDE DEF x
  <2>. QED BY <2>1, <1>4
<1>7. CopiesRead'
  <2>1. \A u \in Savers : x(u).at = saver[u].at /\ x(u).file = saver[u].file
    BY DEF Held
  <2>. HIDE DEF x
  <2>2. \A u \in Savers : saver'[u].at = saver[u].at /\ saver'[u].file = saver[u].file
    BY <1>5, <2>1
  <2>. QED BY <1>1, <2>2 DEF CopiesRead
<1>8. BreakerTypeOK'
  BY <1>1, <1>2, <1>3, <1>6 DEF BreakerTypeOK, SaverStates
<1>9. ASSUME NEW w \in Versions PROVE KeepsBelow(circuit[w], circuit'[w])
  BY <1>1, <1>2, NewBelow, SameKeeps DEF KeepsBelow
<1>. QED BY <1>7, <1>8, <1>9 DEF BreakerInv

(* The steps of a save leave the circuits alone. *)
LEMMA SaveStepKeeps ==
  ASSUME BreakerInv, NEW t \in Savers, NEW x \in SaverStates,
         \A v \in Versions : x.at[v] # AllRead => x.file[v] \in CircuitStates,
         saver' = [saver EXCEPT ![t] = x],
         UNCHANGED <<persistent, tracked, circuit, before, stuck>>,
         disk' \in [Versions -> CircuitStates \cup {None}], warned' \in BOOLEAN
  PROVE  BreakerInv' /\ \A w \in Versions : KeepsBelow(circuit[w], circuit'[w])
<1>1. saver' \in [Savers -> SaverStates] /\ CopiesRead'
  BY OneSaverMoves
<1>2. BreakerTypeOK'
  BY <1>1 DEF BreakerInv, BreakerTypeOK, SaverStates
<1>. QED BY <1>1, <1>2, NoCircuitChanges DEF BreakerInv

LEMMA PersistCopyKeeps ==
  ASSUME BreakerInv, NEW t \in Savers, PersistCopy(t)
  PROVE  BreakerInv' /\ \A w \in Versions : KeepsBelow(circuit[w], circuit'[w])
<1>. DEFINE a == [v \in Versions |-> IF v \in tracked THEN 1 ELSE AllRead]
            f == [v \in Versions |-> IF v \in tracked THEN NewCircuit ELSE None]
            x == Held("wait", tracked, NoStates, a, f)
<1>1. saver[t] \in SaverStates /\ tracked \in SUBSET Versions
      /\ disk \in [Versions -> CircuitStates \cup {None}] /\ warned \in BOOLEAN
      /\ saver \in [Savers -> SaverStates]
  BY DEF BreakerInv, BreakerTypeOK, SaverStates
<1>2. /\ a \in [Versions -> 1..AllRead] /\ f \in [Versions -> CircuitStates \cup {None}]
      /\ \A v \in Versions : a[v] # AllRead => f[v] \in CircuitStates
  BY NewBelow DEF AllRead
<1>3. UNCHANGED <<persistent, tracked, circuit, before, stuck, disk, warned>>
  BY DEF PersistCopy
<1>4. saver' = [saver EXCEPT ![t] = x]
  BY DEF PersistCopy, Held
<1>. HIDE DEF a, f
<1>5. x \in SaverStates
  BY <1>1, <1>2, IdleType DEF SaverStates, Held, IdleSaver
<1>6. disk' \in [Versions -> CircuitStates \cup {None}] /\ warned' \in BOOLEAN
  BY <1>1, <1>3
<1>7. \A v \in Versions : x.at[v] # AllRead => x.file[v] \in CircuitStates
  BY <1>2 DEF Held
<1>. HIDE DEF x
<1>. QED BY <1>3, <1>4, <1>5, <1>6, <1>7, SaveStepKeeps

LEMMA SaveBeginKeeps ==
  ASSUME BreakerInv, NEW t \in Savers, SaveBegin(t)
  PROVE  BreakerInv' /\ \A w \in Versions : KeepsBelow(circuit[w], circuit'[w])
<1>. DEFINE x == [saver[t] EXCEPT !.stage = "save"]
<1>1. saver[t] \in SaverStates /\ CopiesRead
      /\ disk \in [Versions -> CircuitStates \cup {None}] /\ warned \in BOOLEAN
  BY DEF BreakerInv, BreakerTypeOK, SaverStates
<1>2. x \in SaverStates /\ x.at = saver[t].at /\ x.file = saver[t].file
  BY <1>1 DEF SaverStates
<1>3. /\ UNCHANGED <<persistent, tracked, circuit, before, stuck, disk, warned>>
      /\ saver' = [saver EXCEPT ![t] = x]
  BY DEF SaveBegin
<1>4. \A v \in Versions : x.at[v] # AllRead => x.file[v] \in CircuitStates
  BY <1>1, <1>2 DEF CopiesRead
<1>5. disk' \in [Versions -> CircuitStates \cup {None}] /\ warned' \in BOOLEAN
  BY <1>1, <1>3
<1>. HIDE DEF x
<1>. QED BY <1>2, <1>3, <1>4, <1>5, SaveStepKeeps

(* A field of one state read into another gives a state. *)
LEMMA FieldRead ==
  ASSUME NEW c \in CircuitStates, NEW e \in CircuitStates, NEW n \in 1..AllRead, n # AllRead
  PROVE  [e EXCEPT ![Fields[n]] = c[Fields[n]]] \in CircuitStates
<1>1. n = 1 \/ n = 2 \/ n = 3 \/ n = 4 \/ n = 5
  BY DEF AllRead
<1>2. CASE n = 1
  <2>1. Fields[n] = "state"
    BY <1>2 DEF Fields
  <2>. QED BY <2>1 DEF CircuitStates
<1>3. CASE n = 2
  <2>1. Fields[n] = "unhealthy"
    BY <1>3 DEF Fields
  <2>. QED BY <2>1 DEF CircuitStates
<1>4. CASE n = 3
  <2>1. Fields[n] = "timeouts"
    BY <1>4 DEF Fields
  <2>. QED BY <2>1 DEF CircuitStates
<1>5. CASE n = 4
  <2>1. Fields[n] = "attempts"
    BY <1>5 DEF Fields
  <2>. QED BY <2>1 DEF CircuitStates
<1>6. CASE n = 5
  <2>1. Fields[n] = "reason"
    BY <1>6 DEF Fields
  <2>. QED BY <2>1 DEF CircuitStates
<1>. QED BY <1>1, <1>2, <1>3, <1>4, <1>5, <1>6

LEMMA SaveReadKeeps ==
  ASSUME BreakerInv, NEW t \in Savers, NEW v \in Versions, SaveRead(t, v)
  PROVE  BreakerInv' /\ \A w \in Versions : KeepsBelow(circuit[w], circuit'[w])
<1>. DEFINE n == saver[t].at[v]
            e == saver[t].file[v]
<1>1. saver[t] \in SaverStates /\ saver \in [Savers -> SaverStates] /\ CopiesRead
      /\ disk \in [Versions -> CircuitStates \cup {None}] /\ warned \in BOOLEAN
      /\ circuit[v] \in CircuitStates /\ before[v] \in CircuitStates \cup {None}
  BY DEF BreakerInv, BreakerTypeOK, SaverStates
<1>2. n \in 1..AllRead /\ n # AllRead /\ e \in CircuitStates /\ n + 1 \in 1..AllRead
  BY <1>1 DEF SaveRead, SaverStates, CopiesRead, AllRead
<1>3. PICK c \in Readable(t, v) :
        LET f == Fields[saver[t].at[v]] IN
        saver' = [saver EXCEPT ![t].at[v] = @ + 1, ![t].file[v] = [@ EXCEPT ![f] = c[f]]]
  BY DEF SaveRead
<1>4. c \in CircuitStates
  BY <1>1 DEF Readable, SaverStates
<1>. DEFINE r == [e EXCEPT ![Fields[n]] = c[Fields[n]]]
            a == [saver[t].at EXCEPT ![v] = n + 1]
            g == [saver[t].file EXCEPT ![v] = r]
            x == Held(saver[t].stage, saver[t].live, saver[t].gone, a, g)
<1>5. r \in CircuitStates
  BY <1>2, <1>4, FieldRead
<1>6. saver' = [saver EXCEPT ![t].at = a, ![t].file = g]
  BY <1>1, <1>3 DEF SaverStates
<1>. HIDE DEF r
<1>7. /\ a \in [Versions -> 1..AllRead] /\ g \in [Versions -> CircuitStates \cup {None}]
      /\ \A w \in Versions : /\ a[w] = IF w = v THEN n + 1 ELSE saver[t].at[w]
                             /\ g[w] = IF w = v THEN r ELSE saver[t].file[w]
  BY <1>1, <1>2, <1>5 DEF SaverStates
<1>. HIDE DEF a, g
<1>8. saver' = [saver EXCEPT ![t] = x]
  <2>1. [saver[t] EXCEPT !.at = a, !.file = g] = x
    BY <1>1, ReadSaver
  <2>2. saver' = [saver EXCEPT ![t] = [saver[t] EXCEPT !.at = a, !.file = g]]
    BY <1>1, <1>6 DEF SaverStates
  <2>. QED BY <2>1, <2>2
<1>9. x \in SaverStates
  BY <1>1, <1>7 DEF SaverStates, Held
<1>10. \A w \in Versions : x.at[w] # AllRead => x.file[w] \in CircuitStates
  BY <1>1, <1>5, <1>7 DEF CopiesRead, Held
<1>11. UNCHANGED <<persistent, tracked, circuit, before, stuck, disk, warned>>
  BY DEF SaveRead
<1>12. disk' \in [Versions -> CircuitStates \cup {None}] /\ warned' \in BOOLEAN
  BY <1>1, <1>11
<1>. HIDE DEF x
<1>. QED BY <1>8, <1>9, <1>10, <1>11, <1>12, SaveStepKeeps

LEMMA SaveEndKeeps ==
  ASSUME BreakerInv, NEW t \in Savers, SaveWrite(t) \/ SaveFail(t)
  PROVE  BreakerInv' /\ \A w \in Versions : KeepsBelow(circuit[w], circuit'[w])
<1>1. /\ UNCHANGED <<persistent, tracked, circuit, before, stuck>>
      /\ saver' = [saver EXCEPT ![t] = IdleSaver]
  BY DEF SaveWrite, SaveFail
<1>2. /\ saver[t].file \in [Versions -> CircuitStates \cup {None}]
      /\ disk \in [Versions -> CircuitStates \cup {None}]
  BY DEF BreakerInv, BreakerTypeOK
<1>3. disk' \in [Versions -> CircuitStates \cup {None}] /\ warned' \in BOOLEAN
  BY <1>2 DEF SaveWrite, SaveFail
<1>. QED BY <1>1, <1>3, IdleType, SaveStepKeeps

LEMMA RestartTypes == ASSUME BreakerInv, Restart PROVE BreakerInv'
<1>0. PICK loaded \in SUBSET {v \in Versions : disk[v] # None} :
        /\ tracked' = loaded
        /\ circuit' = [v \in Versions |-> IF v \in loaded THEN Loaded(disk[v]) ELSE NewCircuit]
        /\ before' = NoStates /\ stuck' = FALSE
        /\ warned' = (\E v \in Versions \ loaded : disk[v] # None)
        /\ saver' = [t \in Savers |-> IdleSaver]
        /\ UNCHANGED <<persistent, disk>>
  BY DEF Restart
<1>1. BreakerTypeOK
  BY DEF BreakerInv
<1>2. ASSUME NEW v \in loaded PROVE Loaded(disk[v]) \in CircuitStates
  <2>1. disk[v] \in CircuitStates
    BY <1>0, <1>1 DEF BreakerTypeOK
  <2>. QED BY <2>1 DEF Loaded, CircuitStates
<1>3. circuit' \in [Versions -> CircuitStates]
  BY <1>0, <1>2, NewBelow
<1>4. warned' \in BOOLEAN
  <2>1. (\E v \in Versions \ loaded : disk[v] # None) \in BOOLEAN
    OBVIOUS
  <2>. QED BY <1>0, <2>1
<1>5. saver' \in [Savers -> SaverStates] /\ \A t \in Savers : saver'[t] = IdleSaver
  BY <1>0, IdleType
<1>6. before' \in [Versions -> CircuitStates \cup {None}]
  BY <1>0 DEF NoStates
<1>7. BreakerTypeOK'
  BY <1>0, <1>1, <1>3, <1>4, <1>5, <1>6 DEF BreakerTypeOK, SaverStates
<1>8. CopiesRead'
  BY <1>5, IdleType DEF CopiesRead
<1>. QED BY <1>7, <1>8 DEF BreakerInv

LEMMA WrittenKeeps ==
  ASSUME BreakerInv, NEW v \in Versions, Written(v)
  PROVE  BreakerInv' /\ \A w \in Versions : KeepsBelow(circuit[w], circuit'[w])
<1>1. UNCHANGED <<persistent, tracked, circuit, stuck, disk, warned, saver>>
      /\ before' \in [Versions -> CircuitStates \cup {None}]
  BY DEF Written, BreakerInv, BreakerTypeOK
<1>2. BreakerInv'
  BY <1>1 DEF BreakerInv, BreakerTypeOK, CopiesRead
<1>. QED BY <1>1, <1>2, NoCircuitChanges

LEMMA InitBreakerInv == BreakerInit => BreakerInv
<1>. SUFFICES ASSUME BreakerInit PROVE BreakerInv
  OBVIOUS
<1>1. saver \in [Savers -> SaverStates] /\ \A t \in Savers : saver[t] = IdleSaver
  BY IdleType DEF BreakerInit
<1>2. NoStates \in [Versions -> CircuitStates \cup {None}]
  BY DEF NoStates
<1>3. BreakerTypeOK
  BY <1>1, <1>2, NewBelow DEF BreakerInit, BreakerTypeOK, SaverStates
<1>4. CopiesRead
  BY <1>1, IdleType DEF CopiesRead
<1>. QED BY <1>3, <1>4 DEF BreakerInv

LEMMA NextBreakerInv ==
  ASSUME BreakerInv, [BreakerNext]_breakerVars
  PROVE  /\ BreakerInv'
         /\ Restart \/ \A w \in Versions : KeepsBelow(circuit[w], circuit'[w])
<1>. DEFINE Done == /\ BreakerInv'
                    /\ Restart \/ \A w \in Versions : KeepsBelow(circuit[w], circuit'[w])
<1>1. ASSUME UNCHANGED breakerVars PROVE Done
  <2>1. BreakerInv' /\ circuit' = circuit
    BY <1>1 DEF breakerVars, BreakerInv, BreakerTypeOK, CopiesRead
  <2>. QED BY <2>1, NoCircuitChanges
<1>2. ASSUME Restart PROVE Done
  BY <1>2, RestartTypes
<1>3. ASSUME NEW v \in Versions,
             \/ Written(v)
             \/ \E type \in Types : RecordFailure(v, type)
             \/ RecordSuccess(v)
             \/ PrepareRecovery(v)
             \/ AbortRecovery(v)
             \/ Elapse(v)
      PROVE  Done
  BY <1>3, WrittenKeeps, RecordFailureKeeps, RecordSuccessKeeps, PrepareRecoveryKeeps,
     AbortRecoveryKeeps, ElapseKeeps
<1>4. ASSUME NEW v \in Versions, NEW t \in Savers,
             ForceClose(t, v) \/ RemoveState(t, v) \/ SaveRead(t, v)
      PROVE  Done
  BY <1>4, ForceCloseKeeps, RemoveStateKeeps, SaveReadKeeps
<1>5. ASSUME NEW t \in Savers,
             PersistCopy(t) \/ SaveBegin(t) \/ SaveWrite(t) \/ SaveFail(t)
      PROVE  Done
  BY <1>5, PersistCopyKeeps, SaveBeginKeeps, SaveEndKeeps
<1>. HIDE DEF Done
<1>6. Done
  BY <1>1, <1>2, <1>3, <1>4, <1>5 DEF BreakerNext
<1>. QED BY <1>6 DEF Done

(* The breaker with its file, its savers and its restarts keeps its types. *)
THEOREM BreakerInvariance == BreakerSpec => []BreakerInv
<1>1. BreakerInv /\ [BreakerNext]_breakerVars => BreakerInv'
  BY NextBreakerInv
<1>. QED BY InitBreakerInv, <1>1, PTL DEF BreakerSpec

(* Whatever a torn file has brought back, no failure is counted that       *)
(* leaves a circuit closed at a threshold, in any order of failures,       *)
(* successes, recoveries, removals, saves and restarts and whatever the    *)
(* policy.                                                                 *)
THEOREM FailuresAlwaysTrip == BreakerSpec => FailuresTrip
<1>1. BreakerInv /\ [BreakerNext]_breakerVars =>
        [\A v \in Versions :
           circuit[v]'.state = "closed" /\ ~BelowThresholds(circuit[v]') =>
             \/ Restart
             \/ /\ circuit[v].state = "closed" /\ ~BelowThresholds(circuit[v])
                /\ circuit[v]'.failures <= circuit[v].failures]_breakerVars
  <2>. SUFFICES ASSUME BreakerInv, [BreakerNext]_breakerVars, NEW v \in Versions,
                       circuit'[v].state = "closed", ~BelowThresholds(circuit'[v]), ~Restart
                PROVE  /\ circuit[v].state = "closed" /\ ~BelowThresholds(circuit[v])
                       /\ circuit'[v].failures <= circuit[v].failures
    OBVIOUS
  <2>1. KeepsBelow(circuit[v], circuit'[v])
    BY NextBreakerInv
  <2>. QED BY <2>1 DEF KeepsBelow, Below
<1>. QED BY BreakerInvariance, <1>1, PTL DEF BreakerSpec, FailuresTrip

(* A version that is disabled for good: who may let it go.                 *)
LEMMA ExhaustedStays ==
  ASSUME BreakerInv, [BreakerNext]_breakerVars, NEW v \in Versions,
         circuit[v].state = "open", circuit[v].attempts >= MaxAttempts
  PROVE  circuit'[v].state = "open" \/ circuit'[v].attempts = 0 \/ Restart
<1>0. BreakerTypeOK /\ circuit \in [Versions -> CircuitStates]
      /\ \A w \in Versions : circuit[w] \in CircuitStates
  BY DEF BreakerInv, BreakerTypeOK
<1>1. CASE UNCHANGED breakerVars
  BY <1>1 DEF breakerVars
<1>2. ASSUME NEW w \in Versions, NEW type \in Types, RecordFailure(w, type)
      PROVE  circuit'[v].state = "open"
  BY <1>0, <1>2, FailureEffect
<1>3. ASSUME NEW w \in Versions, RecordSuccess(w) PROVE circuit'[v].state = "open"
  BY <1>0, <1>3, SuccessEffect
<1>4. ASSUME NEW w \in Versions, CanAttemptRecovery(w), PrepareRecovery(w)
      PROVE  circuit'[v].state = "open"
  <2>1. w # v
    BY <1>0, <1>4, BreakerAssumption DEF CanAttemptRecovery, CircuitStates
  <2>. QED BY <1>0, <1>4, <2>1 DEF PrepareRecovery, Write
<1>5. ASSUME NEW w \in Versions, AbortRecovery(w) PROVE circuit'[v].state = "open"
  BY <1>0, <1>5, AbortEffect
<1>6. ASSUME NEW w \in Versions, Elapse(w) PROVE circuit'[v].state = "open"
  BY <1>0, <1>6 DEF Elapse, CircuitStates
<1>7. ASSUME NEW w \in Versions, NEW t \in Savers, ForceClose(t, w) \/ RemoveState(t, w)
      PROVE  circuit'[v].state = "open" \/ circuit'[v].attempts = 0
  <2>1. circuit'[v] \in {circuit[v], ForceClosed(circuit[v]), NewCircuit}
    BY <1>0, <1>7 DEF ForceClose, Write, RemoveState
  <2>2. ForceClosed(circuit[v]).attempts = 0 /\ NewCircuit.attempts = 0
    BY <1>0, ClosedType DEF NewCircuit
  <2>. QED BY <2>1, <2>2
<1>8. ASSUME NEW t \in Savers, NEW w \in Versions,
             \/ PersistCopy(t) \/ SaveBegin(t) \/ SaveWrite(t) \/ SaveFail(t)
             \/ SaveRead(t, w)
      PROVE  circuit'[v] = circuit[v]
  BY <1>8 DEF PersistCopy, SaveBegin, SaveRead, SaveWrite, SaveFail
<1>9. ASSUME NEW w \in Versions, Written(w) PROVE circuit'[v] = circuit[v]
  BY <1>9 DEF Written
<1>. QED BY <1>1, <1>2, <1>3, <1>4, <1>5, <1>6, <1>7, <1>8, <1>9 DEF BreakerNext

(* While the process lives, only an admin brings back a version that has   *)
(* used up max_recovery_attempts.                                          *)
THEOREM DisabledForGood == BreakerSpec => PermanentlyDisabled
<1>1. BreakerInv /\ [BreakerNext]_breakerVars =>
        [\A v \in Versions :
           circuit[v].state = "open" /\ circuit[v].attempts >= MaxAttempts =>
             circuit[v]'.state = "open" \/ circuit[v]'.attempts = 0 \/ Restart]_breakerVars
  BY ExhaustedStays
<1>. QED BY BreakerInvariance, <1>1, PTL DEF BreakerSpec, PermanentlyDisabled

-----------------------------------------------------------------------------
(* The file, when one thread at most saves: what it has copied is still    *)
(* there, and what is in the file and no more in the breaker is about to   *)
(* be saved away, unless a load or a save has failed.                      *)
SavesNeverOverlap == \A t, u \in Savers : t = u

FileFollows ==
  /\ \A t \in Savers :
       /\ saver[t].live \subseteq tracked
       /\ \A v \in Versions : saver[t].file[v] # None => v \in saver[t].live
       /\ \A v \in Versions : saver[t].gone[v] = None
       /\ saver[t].stage = "idle" => saver[t].live = {}
       /\ ~persistent => saver[t].stage = "idle"
  /\ \A v \in Versions : disk[v] # None =>
       persistent /\ (v \in tracked \/ warned \/ \E t \in Savers : saver[t].stage # "idle")

(* The operations that only add versions and save nothing.                 *)
LEMMA NothingSaved ==
  ASSUME FileFollows, tracked \subseteq tracked', UNCHANGED <<persistent, disk, warned, saver>>
  PROVE  FileFollows'
BY DEF FileFollows

LEMMA FileStep ==
  ASSUME SavesNeverOverlap, BreakerInv, FileFollows, [BreakerNext]_breakerVars
  PROVE  FileFollows'
<1>0. BreakerTypeOK /\ CopiesRead /\ saver \in [Savers -> SaverStates]
  BY DEF BreakerInv, BreakerTypeOK, SaverStates
<1>1. CASE UNCHANGED breakerVars
  BY <1>1, NothingSaved DEF breakerVars
<1>2. ASSUME NEW v \in Versions,
             \/ Written(v)
             \/ \E type \in Types : RecordFailure(v, type)
             \/ RecordSuccess(v)
             \/ PrepareRecovery(v)
             \/ AbortRecovery(v)
             \/ Elapse(v)
      PROVE  FileFollows'
  <2>1. tracked \subseteq tracked' /\ UNCHANGED <<persistent, disk, warned, saver>>
    BY <1>2 DEF Written, RecordFailure, RecordSuccess, PrepareRecovery, AbortRecovery, Elapse
  <2>. QED BY <2>1, NothingSaved
<1>3. ASSUME NEW v \in Versions, NEW t \in Savers, ForceClose(t, v) PROVE FileFollows'
  <2>1. /\ UNCHANGED <<persistent, tracked, disk, warned>> /\ saver[t].stage = "idle"
        /\ saver' = [saver EXCEPT ![t].stage = IF persistent THEN "copy" ELSE "idle"]
    BY <1>3 DEF ForceClose
  <2>2. /\ saver'[t].live = saver[t].live /\ saver'[t].gone = saver[t].gone
        /\ saver'[t].file = saver[t].file
        /\ saver'[t].stage = IF persistent THEN "copy" ELSE "idle"
    BY <1>0, <2>1 DEF SaverStates
  <2>. QED BY <2>1, <2>2 DEF FileFollows, SavesNeverOverlap
<1>4. ASSUME NEW v \in Versions, NEW t \in Savers, RemoveState(t, v) PROVE FileFollows'
  <2>1. /\ UNCHANGED <<persistent, disk, warned>> /\ tracked' = tracked \ {v}
        /\ saver[t].stage = "idle" /\ saver[t].live = {}
    BY <1>4 DEF RemoveState, FileFollows
  <2>2. /\ saver'[t].live = {} /\ saver'[t].file = saver[t].file
        /\ saver'[t].stage = IF persistent THEN "copy" ELSE "idle"
    BY <1>0, <1>4, <2>1 DEF RemoveState, SaverStates
  <2>3. saver'[t].gone = [saver[t].gone EXCEPT ![v] = saver[t].gone[v]]
    BY <1>0, <1>4, <2>1 DEF RemoveState, SaverStates
  <2>4. \A w \in Versions : saver'[t].gone[w] = None
    BY <1>0, <2>1, <2>3 DEF FileFollows, SaverStates
  <2>5. \A w \in Versions : saver'[t].file[w] = None
    BY <2>1, <2>2 DEF FileFollows
  <2>6. \A w \in Versions : disk'[w] # None => persistent' /\ (w \in tracked' \/ warned' \/ saver'[t].stage # "idle")
    BY <2>1, <2>2 DEF FileFollows, SavesNeverOverlap
  <2>7. ~persistent' => saver'[t].stage = "idle"
    BY <2>1, <2>2
  <2>. QED BY <2>2, <2>4, <2>5, <2>6, <2>7 DEF FileFollows, SavesNeverOverlap
<1>5. ASSUME NEW t \in Savers, PersistCopy(t) PROVE FileFollows'
  <2>1. UNCHANGED <<persistent, tracked, disk, warned>> /\ saver[t].stage = "copy"
    BY <1>5 DEF PersistCopy
  <2>2. /\ saver'[t].stage = "wait" /\ saver'[t].live = tracked /\ saver'[t].gone = NoStates
        /\ saver'[t].file = [v \in Versions |-> IF v \in tracked THEN NewCircuit ELSE None]
    BY <1>0, <1>5 DEF PersistCopy, SaverStates
  <2>. QED BY <2>1, <2>2 DEF FileFollows, NoStates, SavesNeverOverlap
<1>6. ASSUME NEW t \in Savers, SaveBegin(t) PROVE FileFollows'
  <2>1. UNCHANGED <<persistent, tracked, disk, warned>> /\ saver[t].stage = "wait"
    BY <1>6 DEF SaveBegin
  <2>2. /\ saver'[t].stage = "save" /\ saver'[t].live = saver[t].live /\ saver'[t].gone = saver[t].gone
        /\ saver'[t].file = saver[t].file
    BY <1>0, <1>6 DEF SaveBegin, SaverStates
  <2>. QED BY <2>1, <2>2 DEF FileFollows, SavesNeverOverlap
<1>7. ASSUME NEW t \in Savers, NEW w \in Versions, SaveRead(t, w) PROVE FileFollows'
  <2>1. UNCHANGED <<persistent, tracked, disk, warned>> /\ saver[t].stage = "save"
    BY <1>7 DEF SaveRead
  <2>2. saver'[t].stage = "save" /\ saver'[t].live = saver[t].live /\ saver'[t].gone = saver[t].gone
    BY <1>0, <1>7 DEF SaveRead, SaverStates
  <2>3. \A v \in Versions : v # w => saver'[t].file[v] = saver[t].file[v]
    BY <1>0, <1>7 DEF SaveRead, SaverStates
  <2>4. w \in saver[t].live
    <3>1. \E c \in Readable(t, w) : c # None
      BY <1>7 DEF SaveRead, Readable
    <3>. QED BY <3>1 DEF Readable, FileFollows
  <2>. QED BY <2>1, <2>2, <2>3, <2>4 DEF FileFollows, SavesNeverOverlap
<1>8. ASSUME NEW t \in Savers, SaveWrite(t) PROVE FileFollows'
  <2>1. /\ UNCHANGED <<persistent, tracked>> /\ disk' = saver[t].file
        /\ saver[t].stage = "save" /\ saver'[t] = IdleSaver
    BY <1>0, <1>8 DEF SaveWrite
  <2>2. persistent /\ \A v \in Versions : disk'[v] # None => v \in tracked
    BY <2>1 DEF FileFollows
  <2>. QED BY <2>1, <2>2, IdleType DEF FileFollows, SavesNeverOverlap
<1>9. ASSUME NEW t \in Savers, SaveFail(t) PROVE FileFollows'
  <2>1. UNCHANGED <<persistent, tracked, disk>> /\ warned' /\ saver'[t] = IdleSaver
    BY <1>0, <1>9 DEF SaveFail
  <2>. QED BY <2>1, IdleType DEF FileFollows, SavesNeverOverlap
<1>10. ASSUME Restart PROVE FileFollows'
  <2>1. /\ UNCHANGED <<persistent, disk>>
        /\ \A v \in Versions : disk[v] # None => v \in tracked' \/ warned'
        /\ \A t \in Savers : saver'[t] = IdleSaver
    BY <1>10 DEF Restart
  <2>. QED BY <2>1, IdleType DEF FileFollows
<1>. QED BY <1>1, <1>2, <1>3, <1>4, <1>5, <1>6, <1>7, <1>8, <1>9, <1>10 DEF BreakerNext

(* If removals and forced closings do not overlap, a removed version is    *)
(* out of the file as soon as its save is done, unless that save or a load *)
(* has failed and none has gone through since. With two threads that save  *)
(* it is not so.                                                           *)
THEOREM RemovedForgotten ==
  ASSUME SavesNeverOverlap
  PROVE  BreakerSpec => []RemovedIsForgotten
<1>1. BreakerInit => FileFollows
  BY IdleType DEF BreakerInit, FileFollows, NoStates
<1>2. BreakerInv /\ FileFollows /\ [BreakerNext]_breakerVars => FileFollows'
  BY SavesNeverOverlap, FileStep
<1>3. FileFollows => RemovedIsForgotten
  BY DEF FileFollows, RemovedIsForgotten
<1>. QED BY BreakerInvariance, <1>1, <1>2, <1>3, PTL DEF BreakerSpec

-----------------------------------------------------------------------------
(* The breaker inside the recovery manager. enable_model asks it twice,    *)
(* with its own lock let go in between: once whether a recovery is         *)
(* allowed, then to prepare it. All the same, every step of the manager,   *)
(* the reporters, the admins and the loader is a step of the breaker's     *)
(* specification, in which the two are one, or none at all. No thread ever *)
(* saves here: the breaker has no file.                                    *)
NothingSaving == [t \in Threads |-> IdleSaver]

Breaker == INSTANCE CircuitBreaker WITH Savers <- Threads, saver <- NothingSaving

(* Without its file a trip does not wait for the lock it holds, and no     *)
(* save sees a state change.                                               *)
Unsaved == ~persistent /\ ~stuck /\ \A t \in Savers : saver[t].stage = "idle"

LEMMA NothingIsSaving ==
  /\ \A t \in Threads : NothingSaving[t].stage = "idle"
                        /\ [NothingSaving EXCEPT ![t].stage = "idle"] = NothingSaving
  /\ NothingSaving' = NothingSaving
<1>1. IdleSaver.stage = "idle" /\ [IdleSaver EXCEPT !.stage = "idle"] = IdleSaver
  BY DEF IdleSaver
<1>2. NothingSaving' = NothingSaving
  BY DEF NothingSaving
<1>. HIDE DEF IdleSaver
<1>. QED BY <1>1, <1>2 DEF NothingSaving

(* An operation that is not seen halfway. *)
LEMMA SameWrite ==
  ASSUME Unsaved, NEW v \in Versions, NEW d, Write(v, d)
  PROVE  Breaker!Write(v, d) /\ before' = [before EXCEPT ![v] = None] /\ before = NoStates
<1>1. ~BeingRead(v)
  BY DEF Unsaved, BeingRead
<1>2. ~Breaker!BeingRead(v)
  BY NothingIsSaving DEF Breaker!BeingRead
<1>3. Breaker!LockFree /\ before = NoStates
  BY DEF Write, LockFree, Breaker!LockFree, Breaker!NoStates, NoStates
<1>4. circuit' = [circuit EXCEPT ![v] = d] /\ before' = [before EXCEPT ![v] = None]
  BY <1>1 DEF Write
<1>. QED BY <1>2, <1>3, <1>4 DEF Breaker!Write

(* The operations of the instance are those of the breaker. *)
LEMMA SameOperations ==
  ASSUME Unsaved, NEW v \in Versions
  PROVE  /\ \A type \in Types : RecordFailure(v, type) => Breaker!RecordFailure(v, type)
         /\ RecordSuccess(v) => Breaker!RecordSuccess(v)
         /\ CanAttemptRecovery(v) /\ PrepareRecovery(v) =>
              Breaker!CanAttemptRecovery(v) /\ Breaker!PrepareRecovery(v)
         /\ AbortRecovery(v) => Breaker!AbortRecovery(v)
         /\ Elapse(v) => Breaker!Elapse(v)
<1>1. ASSUME NEW type \in Types, RecordFailure(v, type) PROVE Breaker!RecordFailure(v, type)
  <2>. DEFINE c == Recorded(circuit[v], type)
              d == IF circuit[v].state = "open" THEN circuit[v]
                   ELSE IF Trips(v, type) THEN Opened(c, Reason(c)) ELSE c
              bc == Breaker!Recorded(circuit[v], type)
              bd == IF circuit[v].state = "open" THEN circuit[v]
                    ELSE IF Breaker!Trips(v, type) THEN Breaker!Opened(bc, Breaker!Reason(bc)) ELSE bc
  <2>1. \A e : Breaker!Recorded(e, type) = Recorded(e, type) /\ Breaker!Reason(e) = Reason(e)
    BY DEF Breaker!Recorded, Recorded, Breaker!Reason, Reason
  <2>2. \A e, reason : Breaker!Opened(e, reason) = Opened(e, reason)
    BY DEF Breaker!Opened, Opened
  <2>3. Breaker!Trips(v, type) <=> Trips(v, type)
    BY <2>1 DEF Breaker!Trips, Trips
  <2>4. bd = d
    BY <2>1, <2>2, <2>3
  <2>5. /\ tracked' = tracked \cup {v} /\ Write(v, d)
        /\ UNCHANGED <<persistent, disk, warned>>
    BY <1>1 DEF RecordFailure
  <2>6. stuck' = (persistent /\ Trips(v, type))
    BY <1>1 DEF RecordFailure
  <2>7. stuck' = (persistent /\ Breaker!Trips(v, type))
    BY <2>3, <2>6, Zenon
  <2>. HIDE DEF d, bd
  <2>8. Breaker!Write(v, bd)
    BY <2>4, <2>5, SameWrite
  <2>. USE DEF bd
  <2>. QED BY <2>5, <2>7, <2>8, NothingIsSaving DEF Breaker!RecordFailure
<1>2. ASSUME RecordSuccess(v) PROVE Breaker!RecordSuccess(v)
  <2>. DEFINE d == IF Closes(v) THEN Closed(circuit[v]) ELSE Succeeded(circuit[v])
              bd == IF Breaker!Closes(v) THEN Breaker!Closed(circuit[v])
                    ELSE Breaker!Succeeded(circuit[v])
  <2>1. \A c : Breaker!Closed(c) = Closed(c) /\ Breaker!Succeeded(c) = Succeeded(c)
    BY DEF Breaker!Closed, Closed, Breaker!Succeeded, Succeeded
  <2>2. Breaker!Closes(v) <=> Closes(v)
    BY DEF Breaker!Closes, Closes
  <2>3. bd = d
    BY <2>1, <2>2
  <2>4. /\ tracked' = tracked \cup {v} /\ Write(v, d)
        /\ UNCHANGED <<persistent, disk, warned>>
    BY <1>2 DEF RecordSuccess
  <2>5. stuck' = (persistent /\ Closes(v))
    BY <1>2 DEF RecordSuccess
  <2>6. stuck' = (persistent /\ Breaker!Closes(v))
    BY <2>2, <2>5, Zenon
  <2>. HIDE DEF d, bd
  <2>7. Breaker!Write(v, bd)
    BY <2>3, <2>4, SameWrite
  <2>. USE DEF bd
  <2>. QED BY <2>4, <2>6, <2>7, NothingIsSaving DEF Breaker!RecordSuccess
<1>3. CanAttemptRecovery(v) => Breaker!CanAttemptRecovery(v)
  BY DEF Breaker!CanAttemptRecovery, CanAttemptRecovery
<1>4. PrepareRecovery(v) => Breaker!PrepareRecovery(v)
  <2>1. Breaker!HalfOpened(circuit[v]) = HalfOpened(circuit[v])
    BY DEF Breaker!HalfOpened, HalfOpened
  <2>. QED BY <2>1, SameWrite, NothingIsSaving DEF Breaker!PrepareRecovery, PrepareRecovery
<1>5. AbortRecovery(v) => Breaker!AbortRecovery(v)
  BY SameWrite, NothingIsSaving DEF Breaker!AbortRecovery, AbortRecovery
<1>6. Elapse(v) => Breaker!Elapse(v)
  BY NothingIsSaving DEF Breaker!Elapse, Elapse
<1>. QED BY <1>1, <1>2, <1>3, <1>4, <1>5, <1>6

(* force_close of the manager is that of a thread that saves nothing. *)
LEMMA ForceIsBreakers ==
  ASSUME Unsaved, NEW t \in Threads, NEW v \in Versions, EnableForce(t, v), v \in tracked
  PROVE  Breaker!ForceClose(t, v)
<1>1. Breaker!ForceClosed(circuit[v]) = ForceClosed(circuit[v])
  BY DEF Breaker!ForceClosed, ForceClosed, Breaker!Closed, Closed
<1>2. /\ Write(v, ForceClosed(circuit[v]))
      /\ UNCHANGED <<persistent, tracked, stuck, disk, warned>>
  BY DEF EnableForce
<1>3. Breaker!Write(v, Breaker!ForceClosed(circuit[v]))
  BY <1>1, <1>2, SameWrite
<1>4. NothingSaving' = [NothingSaving EXCEPT ![t].stage = IF persistent THEN "copy" ELSE "idle"]
  BY NothingIsSaving DEF Unsaved
<1>. QED BY <1>2, <1>3, <1>4, NothingIsSaving DEF Breaker!ForceClose

LEMMA BreakerStep ==
  ASSUME IInv, Unsaved, [Next]_vars
  PROVE  [Breaker!BreakerNext]_Breaker!breakerVars /\ Unsaved'
<1>0. BreakerTypeOK
  BY DEF IInv, TypeOK
<1>. DEFINE Op(v) == \/ \E type \in Types : RecordFailure(v, type)
                     \/ RecordSuccess(v)
                     \/ CanAttemptRecovery(v) /\ PrepareRecovery(v)
                     \/ AbortRecovery(v)
                     \/ Elapse(v)
            Done == [Breaker!BreakerNext]_Breaker!breakerVars /\ Unsaved'
<1>1. ASSUME NEW v \in Versions, Op(v) PROVE Done
  <2>1. Breaker!BreakerNext
    BY <1>1, SameOperations DEF Breaker!BreakerNext, Types, Breaker!Types
  <2>2. ASSUME NEW type \in Types, RecordFailure(v, type) PROVE Unsaved'
    BY <2>2 DEF Unsaved, RecordFailure
  <2>3. ASSUME RecordSuccess(v) PROVE Unsaved'
    BY <2>3 DEF Unsaved, RecordSuccess
  <2>4. UNCHANGED <<persistent, stuck, saver>> => Unsaved'
    BY DEF Unsaved
  <2>5. PrepareRecovery(v) \/ AbortRecovery(v) \/ Elapse(v) =>
          UNCHANGED <<persistent, stuck, saver>>
    BY DEF PrepareRecovery, AbortRecovery, Elapse
  <2>. QED BY <1>1, <2>1, <2>2, <2>3, <2>4, <2>5
<1>2. ASSUME UNCHANGED breakerVars PROVE Done
  BY <1>2, NothingIsSaving DEF breakerVars, Unsaved, Breaker!breakerVars
<1>3. ASSUME NEW t \in Threads, NEW v \in Versions, EnableForce(t, v) PROVE Done
  <2>1. CASE v \in tracked
    <3>1. Unsaved'
      BY <1>3 DEF EnableForce, Unsaved
    <3>. QED BY <1>3, <2>1, <3>1, ForceIsBreakers DEF Breaker!BreakerNext
  <2>2. CASE v \notin tracked
    <3>1. Write(v, circuit[v])
      BY <1>3, <2>2 DEF EnableForce
    <3>2. circuit' = circuit
      BY <1>0, <3>1 DEF Write, BreakerTypeOK
    <3>3. before' = before
      BY <3>1, SameWrite DEF NoStates
    <3>. QED BY <1>2, <1>3, <3>2, <3>3 DEF EnableForce, breakerVars
  <2>. QED BY <2>1, <2>2
<1>4. ASSUME NEW t \in Threads, NEW v \in Versions, EnablePrepare(t, v) PROVE Done
  <2>1. task[t].step = "enable" /\ task[t].version = v
    BY <1>4, TaskTypes DEF EnablePrepare, Steps
  <2>2. CanAttemptRecovery(v)
    BY <2>1 DEF IInv, EnableStillAllowed
  <2>. QED BY <1>1, <1>2, <1>4, <2>2 DEF EnablePrepare
<1>. HIDE DEF Done
<1>5. ASSUME NEW t \in Threads, Begin(t) PROVE Done
  BY <1>1, <1>2, <1>5 DEF Begin, Report, ManualDisable, EnableBegin, StartLoad
<1>6. ASSUME NEW t \in Threads, Continue(t) PROVE Done
  BY <1>1, <1>2, <1>3, <1>4, <1>6 DEF Continue, DisableBegin, DisableMark,
     EnableUpdate, FinishLoad, NotifyLoadSuccess, NotifyLoadFailure
<1>7. ASSUME NEW v \in Versions, Succeed(v) \/ Unregister(v) \/ TimePasses(v) PROVE Done
  BY <1>1, <1>2, <1>7 DEF Succeed, Unregister, TimePasses
<1>8. ASSUME UNCHANGED vars PROVE Done
  BY <1>2, <1>8 DEF vars
<1>9. Done
  BY <1>5, <1>6, <1>7, <1>8 DEF Next
<1>. QED BY <1>9 DEF Done

(* However reports, admins, recoveries and loads interleave, what happens  *)
(* to the circuits is what the breaker allows: a circuit only goes half    *)
(* open when a recovery is allowed at that very step.                      *)
THEOREM ImplementsBreaker == Spec => Breaker!BreakerSpec
<1>1. Init => Breaker!BreakerInit /\ Unsaved
  <2>1. Breaker!NewCircuit = NewCircuit /\ Breaker!IdleSaver = IdleSaver
        /\ Breaker!NoStates = NoStates
    BY DEF Breaker!NewCircuit, NewCircuit, Breaker!IdleSaver, IdleSaver, Breaker!NoStates,
       NoStates, Breaker!AllRead, AllRead
  <2>2. IdleSaver.stage = "idle"
    BY DEF IdleSaver
  <2>. QED BY <2>1, <2>2 DEF Init, BreakerInit, Breaker!BreakerInit, Unsaved, NothingSaving
<1>2. IInv /\ Unsaved /\ [Next]_vars => [Breaker!BreakerNext]_Breaker!breakerVars /\ Unsaved'
  BY BreakerStep
<1>. QED BY <1>1, <1>2, Invariance, PTL DEF Spec, Breaker!BreakerSpec

-----------------------------------------------------------------------------
(* Without restarts, what the breaker keeps it keeps among recoveries.     *)
CircuitsBelow == BreakerInv /\ \A v \in Versions : Below(circuit[v])

LEMMA ForceKeepsBelow ==
  ASSUME CircuitsBelow, NEW t \in Threads, NEW v \in Versions, EnableForce(t, v)
  PROVE  CircuitsBelow'
<1>. DEFINE d == IF v \in tracked THEN ForceClosed(circuit[v]) ELSE circuit[v]
<1>1. circuit[v] \in CircuitStates /\ Below(circuit[v]) /\ BreakerInv
  BY DEF CircuitsBelow, BreakerInv, BreakerTypeOK
<1>2. d \in CircuitStates /\ KeepsBelow(circuit[v], d)
  BY <1>1, ClosedType, ClosedBelow DEF KeepsBelow
<1>3. /\ Write(v, d)
      /\ tracked' \subseteq Versions /\ stuck' \in BOOLEAN
      /\ UNCHANGED <<persistent, disk, warned, saver>>
  BY <1>1 DEF EnableForce, BreakerInv, BreakerTypeOK
<1>. HIDE DEF d
<1>4. BreakerInv' /\ \A w \in Versions : KeepsBelow(circuit[w], circuit'[w])
  BY <1>1, <1>2, <1>3, OneCircuitChanges
<1>. QED BY <1>4 DEF CircuitsBelow, KeepsBelow

LEMMA CircuitStep ==
  ASSUME IInv, CircuitsBelow, [Next]_vars
  PROVE  /\ CircuitsBelow'
         /\ \A v \in Versions :
              circuit[v].state = "open" /\ circuit[v].attempts >= MaxAttempts =>
                circuit'[v].state = "open" \/ \E t \in Threads : EnableForce(t, v)
<1>0. BreakerInv /\ BreakerTypeOK /\ circuit \in [Versions -> CircuitStates]
  BY DEF CircuitsBelow, BreakerInv, BreakerTypeOK
<1>. DEFINE Stays == \A v \in Versions : circuit[v].state = "open" /\ circuit[v].attempts >= MaxAttempts =>
                       circuit'[v].state = "open"
            Kept == \A v \in Versions : circuit[v].state = "open" /\ circuit[v].attempts >= MaxAttempts =>
                       circuit'[v].state = "open" \/ \E t \in Threads : EnableForce(t, v)
            Op(v) == \/ \E type \in Types : RecordFailure(v, type)
                     \/ RecordSuccess(v)
                     \/ CanAttemptRecovery(v) /\ PrepareRecovery(v)
                     \/ AbortRecovery(v)
                     \/ Elapse(v)
            Done == CircuitsBelow' /\ Kept
<1>1. ASSUME NEW v \in Versions, Op(v) PROVE Done
  <2>1. BreakerInv' /\ \A w \in Versions : KeepsBelow(circuit[w], circuit'[w])
    BY <1>0, <1>1, RecordFailureKeeps, RecordSuccessKeeps, PrepareRecoveryKeeps,
       AbortRecoveryKeeps, ElapseKeeps
  <2>2. CircuitsBelow'
    BY <2>1 DEF CircuitsBelow, KeepsBelow
  <2>3. ASSUME NEW type \in Types, RecordFailure(v, type) PROVE Stays
    BY <1>0, <2>3, FailureEffect
  <2>4. ASSUME RecordSuccess(v) PROVE Stays
    BY <1>0, <2>4, SuccessEffect
  <2>5. ASSUME CanAttemptRecovery(v), PrepareRecovery(v) PROVE Stays
    <3>1. ~(circuit[v].attempts >= MaxAttempts)
      BY <1>0, <2>5, BreakerAssumption DEF CanAttemptRecovery, CircuitStates
    <3>. QED BY <1>0, <2>5, <3>1 DEF PrepareRecovery, Write
  <2>6. ASSUME AbortRecovery(v) PROVE Stays
    BY <1>0, <2>6, AbortEffect
  <2>7. ASSUME Elapse(v) PROVE Stays
    BY <1>0, <2>7 DEF Elapse, CircuitStates
  <2>. QED BY <1>1, <2>2, <2>3, <2>4, <2>5, <2>6, <2>7
<1>2. ASSUME UNCHANGED breakerVars PROVE Done
  BY <1>2 DEF breakerVars, CircuitsBelow, BreakerInv, BreakerTypeOK, CopiesRead, Below,
     BelowThresholds
<1>3. ASSUME NEW t \in Threads, NEW v \in Versions, EnableForce(t, v) PROVE Done
  <2>1. \A w \in Versions : w # v => circuit'[w] = circuit[w]
    BY <1>0, <1>3 DEF EnableForce, Write
  <2>. QED BY <1>3, <2>1, ForceKeepsBelow
<1>4. ASSUME NEW t \in Threads, NEW v \in Versions, EnablePrepare(t, v) PROVE Done
  <2>1. task[t].step = "enable" /\ task[t].version = v
    BY <1>4, TaskTypes DEF EnablePrepare, Steps
  <2>2. CanAttemptRecovery(v)
    BY <2>1 DEF IInv, EnableStillAllowed
  <2>. QED BY <1>1, <1>2, <1>4, <2>2 DEF EnablePrepare
<1>. HIDE DEF Done
<1>5. ASSUME NEW t \in Threads, Begin(t) PROVE Done
  BY <1>1, <1>2, <1>5 DEF Begin, Report, ManualDisable, EnableBegin, StartLoad
<1>6. ASSUME NEW t \in Threads, Continue(t) PROVE Done
  BY <1>1, <1>2, <1>3, <1>4, <1>6 DEF Continue, DisableBegin, DisableMark,
     EnableUpdate, FinishLoad, NotifyLoadSuccess, NotifyLoadFailure
<1>7. ASSUME NEW v \in Versions, Succeed(v) \/ Unregister(v) \/ TimePasses(v) PROVE Done
  BY <1>1, <1>2, <1>7 DEF Succeed, Unregister, TimePasses
<1>8. ASSUME UNCHANGED vars PROVE Done
  BY <1>2, <1>8 DEF vars
<1>9. Done
  BY <1>5, <1>6, <1>7, <1>8 DEF Next
<1>. QED BY <1>9 DEF Done

LEMMA CircuitInvariance == Spec => []CircuitsBelow
<1>1. Init => CircuitsBelow
  BY InitBreakerInv, NewBelow DEF Init, BreakerInit, CircuitsBelow
<1>2. IInv /\ CircuitsBelow /\ [Next]_vars => CircuitsBelow'
  BY CircuitStep
<1>. QED BY <1>1, <1>2, Invariance, PTL DEF Spec

(* With a breaker that has no file, a version whose circuit is closed has  *)
(* no count at its threshold, with recoveries, forced enables and loads    *)
(* racing the reports. A torn file may bring one back that has.            *)
THEOREM ClosedAmongRecoveries == Spec => []ClosedBelowThresholds
<1>1. CircuitsBelow => ClosedBelowThresholds
  BY DEF CircuitsBelow, Below, ClosedBelowThresholds
<1>. QED BY CircuitInvariance, <1>1, PTL

(* An open circuit that has used up max_recovery_attempts is left by one   *)
(* thing alone, an admin who forces the enable: no check made before the   *)
(* last attempt was counted lets another recovery in.                      *)
THEOREM OnlyForceRevives ==
  Spec => [][\A v \in Versions :
               circuit[v].state = "open" /\ circuit[v].attempts >= MaxAttempts =>
                 circuit[v]'.state = "open" \/ \E t \in Threads : EnableForce(t, v)]_vars
<1>1. IInv /\ CircuitsBelow /\ [Next]_vars =>
        [\A v \in Versions :
           circuit[v].state = "open" /\ circuit[v].attempts >= MaxAttempts =>
             circuit[v]'.state = "open" \/ \E t \in Threads : EnableForce(t, v)]_vars
  BY CircuitStep
<1>. QED BY <1>1, Invariance, CircuitInvariance, PTL DEF Spec
=============================================================================
