# Verification of the Ruth AI runtime and backend

TLA+ models of the concurrent and fault-prone parts of Ruth AI, the TLC
instances that check them, and theorems about them that the TLA+ proof system
checks. Everything here is translated from the Python source; paths below are
relative to the root of the repository (`ai/...` and `ruth-ai-backend/...`).

1. [The system](#1-the-system)
2. [Modules and how they relate](#2-modules-and-how-they-relate)
3. [What each module models](#3-what-each-module-models)
4. [Runs](#4-runs)
5. [Fairness](#5-fairness)
6. [Proofs](#6-proofs)
7. [Where the code disagrees with its own documentation](#7-where-the-code-disagrees-with-its-own-documentation)
8. [What is not modelled](#8-what-is-not-modelled)
9. [Plan](#9-plan)

To run one instance: `tlc -config RWLock.cfg MCRWLock`; to check the proofs of a
module: `tlapm RWLockProofs.tla`. `PROJECT.json` lists every run, the source
lines of every definition (`map`), the hazards of the code and the property that
covers each, and for every property a plausible bug that would break it
(`mutants`, the definitions preceded by a comment that begins with Mutant).

## 1. The system

Cameras are recorded and streamed by an external video analytics system (VAS).
The **backend** (`ruth-ai-backend/app`, FastAPI, asyncio, PostgreSQL, Redis) lets
an operator start an inference session on a camera, fetches frames while it is
LIVE, sends them to the **AI runtime** (`ai/runtime` and `ai/server`, threads),
and records violations with evidence. The runtime holds versions of detection
models, isolates them, limits how many requests run, disables versions that
fail and tells the backend what it can do. A **chat service** and a **frontend**
read what the backend stores.

| component | state it keeps | operations | talks to | what is hard |
|---|---|---|---|---|
| concurrency and admission, `ai/runtime/concurrency.py` | counters per model and version, a global counter, the slots handed out, a shutdown flag | register, limit a version, unregister, try_acquire, release, shutdown, report | the pipeline takes and returns a slot for each inference | releases race; models come and go under running slots; boundaries of back-pressure |
| registry lock, `ai/runtime/registry.py` (`_RWLock`) | readers, waiting writers, active writer, two wait queues | acquire and release for reading and for writing | every registry method runs under it | lost wake-ups, starvation, fairness |
| model registry, `ai/runtime/registry.py` | load state and health of each version | register, update state and health, query, events | loader, recovery, sandboxes, pipeline, publisher | states are overwritten without looking; events leave the lock before they are delivered |
| circuit breaker and recovery, `ai/runtime/recovery.py` | per version: failures in a window, circuit, recovery attempts; a state file | record, disable, enable, prepare, abort, force, load outcome, persist | sandbox health callbacks, registry, loader | two locks, a file written outside the lock, late reports, attempts that accumulate |
| loader, `ai/runtime/loader.py` | the module of each version | load, warm up, unload | registry, sandbox | partial failure, zombie threads on timeout |
| sandbox and executor, `ai/runtime/sandbox.py` | health and counters of each version, pending futures | execute with a timeout, health transitions | pipeline, recovery | overlapping outcomes, callbacks outside the lock, threads that survive their timeout |
| coordinator, `ai/runtime/coordinator.py` | the sandbox of each active version | activate, deactivate | registry, sandboxes | callbacks with the lock held; only tests call it at present |
| GPU manager, `ai/runtime/gpu_manager.py` | reservations of each device | allocate, release, fall back to the CPU | loader | check and reservation in two critical sections |
| pipeline, `ai/runtime/pipeline.py` | none of its own | infer, available models | registry, admission, sandboxes | what changes between its steps |
| versioning, `ai/runtime/versioning.py` | lifecycle state of each version | compare, resolve, mark ready | registry, pipeline | the order of versions, unguarded writes |
| capacity, health and publisher, `ai/runtime/reporting.py`, `backend_client.py` | capacity slots, a queue of updates, the worker thread | acquire, report, start, stop, publish, retry | the backend's internal API | a bounded queue, retries, a late registration after deregistration |
| server, `ai/server/` | the set of loaded models | start-up, shutdown, routes | all of the runtime | a load that fails half way |
| stream sessions, `ruth-ai-backend/app/services/stream_service.py` and `api/v1/devices.py` | rows of `stream_sessions`, the cached device list | start, stop, list; stop_stream and mark_stream_error without a route | VAS, PostgreSQL, Redis | check and insert separated by calls of VAS, commit after the answer, a cache deleted before the commit |
| inference loop, `.../services/inference_loop.py` | one task per LIVE session, last detections, violation state, GPU budget | scan, start and stop tasks, rounds, violations, shutdown | the database, the runtime, VAS | cancellation at any await, state read before an await |
| violations, events, evidence, `.../services/violation_service.py`, `event_ingestion_service.py`, `evidence_service.py`, `api/internal/events.py` | violations with their review status, snapshots, bookmarks | aggregate an event, review, reopen, capture | runtime, VAS | check then insert, lost updates of the status |
| bookmark analyses, `.../services/bookmark_analysis_worker.py` | an analysis and its status | run, poll | runtime, VAS | a worker that dies between two commits |
| VAS event consumer, `.../services/vas_event_consumer.py` | position in a Redis stream, paused streams | read, handle, reconnect | the inference loop | events lost between reads and over a restart |
| runtime registrations, `.../api/internal/ai_runtime.py` | the registered runtimes | register, push health, deregister | the publisher | calls out of order |
| runtime router and VAS client, `.../integrations/` | a token, connections | infer, stream calls | runtime, VAS | external calls that fail or take long |
| devices, shifts, exports, analytics | mostly none | queries | database | none of its own |
| chat service, detectors, frontend | none shared | read-only queries, numeric code, presentation | backend | none of its own |

What makes each of them correct is what section 3 states for the components that
are modelled; section 8 says what is left out of the others and why.

The parts with the hardest behaviour and the most consequences are modelled:
who may run (admission, registry lock), which version answers (versioning) and
how it runs (sandbox, pipeline), what may serve (circuit breaker and recovery),
who is told (publisher), what is watched (sessions, the inference loop and the
events of VAS that pause it) and what is recorded of it (violations and their
evidence).

## 2. Modules and how they relate

```
Admission     <--implements--  Concurrency    <-- MCConcurrency, ConcurrencyProofs
                               RWLock         <-- MCRWLock, RWLockProofs
CircuitBreaker  <--extends--   Recovery       <-- MCRecovery, RecoveryProofs
      ^-- MCCircuitBreaker
Sandbox         <--extends--   Pipeline       <-- MCPipeline, RuntimeProofs
SemVer          <--extends--   Versioning     <-- MCVersioning, VersioningProofs
                               Publisher      <-- MCPublisher, RuntimeProofs
Sessions      <--implements--  Streams        <-- MCStreams, StreamsProofs
      ^---------extends------  InferenceLoop  <-- MCInferenceLoop, InferenceLoopProofs
                               Violations     <-- MCViolations, ViolationsProofs
                               VASEvents      <-- MCVASEvents, InferenceLoopProofs
```

* `Admission` and `Sessions` are abstract: what a component promises the ones
  around it. `Concurrency` implements the first, `Streams` the second; both are
  checked as PROPERTIES through `INSTANCE` and proved.
* `Recovery` composes the circuit breaker with the registry's load states, the
  manager's lock and the loader; its actions conjoin the breaker's actions, and
  its steps are proved to be steps of the breaker's specification
  (`ImplementsBreaker`).
* `InferenceLoop` runs over `Sessions` rather than over `Streams`: the loop sees
  only what other transactions have committed, and that is exactly what
  `Sessions` describes and `Streams` is shown to do with the routes there are.
* `Pipeline` composes the sandbox with what a request meets on the way to it: the
  registry's entry, read twice, the slot, the box. Admission is one counter there,
  which is proved to be an instance of the same `Admission` that `Concurrency`
  implements in full (`SlotsAreAdmission`).
* `Versioning` is the resolver over a registry that changes; the order of
  versions it sorts by is in `SemVer`, with the orders other files use.
* An `MC...` module gives names to small sets; the `.cfg` files choose among them.

## 3. What each module models

### Concurrency, Admission

`ConcurrencyManager`, its `ConcurrencySlot`s and the one report of
`FairScheduler` that touches the manager. Each method of the manager holds one
non-reentrant lock from beginning to end, so each is one action
(`RegisterModel`, `RegisterVersionLimit`, `UnregisterModel`, `Acquire`,
`Reject`, `Shutdown`). `ConcurrencySlot.release` is not: it tests `_released`
before the lock and sets it after, so it is three actions (`ReleaseCheck`,
`ReleaseSlot`, `ReleaseMark`) and `pc[s][c]` says where caller `c` of slot `s`
is. A request that is rejected changes nothing but the auto-registration of its
model; the order of the rejections is `Decision`, with the ratio tests of
back-pressure multiplied out (`10 * globalActive >= 9 * GlobalLimit`). Counters
that the code clamps are clamped (`Floor0`). A model that is unregistered takes
its state with it while its slots are still out, and a release then takes the
branch without a state.

`SteadySpec` is the manager without `unregister_model` and without the report
that locks up; `Spec` has both. What holds of `Spec`: the counters of registered
models equal the slots listed for them and no slot that has come back is listed
(`SlotsAccounted`, the parts `CountersMatchSlots` and `NoDeadSlot`), and the
global counter never exceeds the slots listed, so capacity is never lost
(`NoCapacityLeak`). What holds only of `SteadySpec`: the global count is exact
(`GlobalCountExact`), the global limit holds at any time and the limits per model
and version at every start (`LimitsEnforced`, the parts `GlobalLimitEnforced` and
`PerModelLimitsEnforced`), a second `release` changes nothing
(`ReleaseIdempotent`), and the whole implements `Admission`. The capacity in that refinement is not the limit
but `EffectiveCapacity`, the least integer not below nine tenths of it: hard
back-pressure refuses everybody from 90 % on, so the test of the global limit
that follows it in the code never refuses anybody. (The soft threshold of 0.7 is
advice for the callers and decides nothing.) Shutdown rejects newcomers and
waits for no one; `ShutdownDrains` says that what runs comes back and that
nothing starts any more.

Abstracted: time of a slot and statistics, the weights of `FairScheduler` (it
orders nothing that waits: a rejected request does not queue), the wording of
rejections.

### RWLock

`_RWLock`: one mutex, `_readers_ok` and `_writers_ok`. A thread runs from one
wait to the next with the mutex held, so every such stretch is one action.
`at[t]` tells whether a thread is idle, sleeps in a condition's queue, has been
notified and competes for the mutex again, or is inside. `_writers_ok` is kept
as a sequence because `notify` wakes the oldest waiter; `notify_all` empties the
queue of readers. CPython's conditions have no spurious wake-ups, and there are
none in the model. Nothing bounds readers or writers but `Threads`.

Correct means: writers exclude everybody (`Exclusion`); nobody sleeps without
somebody who will wake them (`NoLostWakeup`, which is `SleepingReaderHasWaker`
and `SleepingWriterHasWaker`: the absence of lost wake-ups in a form that can be
proved); a reader that arrives while a writer waits does not overtake it
(`ReadersQueueBehindWriters`, proved); a writer gets in (`WritersNotStarved`).

### CircuitBreaker

`CircuitBreaker` and its state file. `circuit[v]` is the state of a version as
`_states` keeps it, `tracked` the keys of `_states`, `disk` the file. Failures
of the window are a count (only their number is ever read); types of failure and
reasons of a trip are kept because the thresholds differ per type. Time is
abstract: `Elapse` lets a failure leave the window, a cooldown end or the minimum
interval between recoveries pass at any moment, so what is shown holds for every
policy. `persistent` is chosen when the breaker is made and never changes. With
it, `record_failure` and `record_success` call `_persist_state` inside the lock
it takes again, which is `stuck`. The callers that persist outside the lock copy
the dictionary under it (`PersistCopy`), and `save_state` then reads the live
state objects field by field without it, one thread at a time (`SaveBegin`,
`SaveRead`). Meanwhile operations change them (`Write`), and as long as one does,
either what the state was (`before`) or what it will be may be read of each field
(`Written` ends that): an entry of the file may be torn. `live` are the copied
objects that are still the breaker's, `gone` those that were removed since. The
save replaces the file as a whole (`SaveWrite`) or, after any exception, leaves it
as it was and returns False, which nobody looks at (`SaveFail`). `Restart` is the
death of the process and the load of the file, of which any entry may be dropped
and all are if it cannot be read. Of `warned` the log tells: a save or a load has
failed since the last save that did not. Of the fields of the file `disabled_at`
is left out, which only says how long a cooldown lasts.

Correct means: no failure is counted that leaves a circuit closed with a count at
its threshold (`FailuresTrip`; a torn entry may bring such a circuit back from the
file, and it trips on its next failure), an open circuit that has used up its
attempts stays open until somebody resets it or the process restarts
(`PermanentlyDisabled`; a restart brings back what the file says, and with two
versions the file may say half open of one that has been disabled for good since:
`DisabledAcrossRestart` in section 7), and a version that was removed is not in
the file once nobody saves any more and no save or load has failed since the last
good save (`RemovedIsForgotten`, true while one thread saves at a time and refuted
for two). `ClosedBelowThresholds`, that no closed circuit has a count at its
threshold, holds of a breaker without a file (section 6) and is refuted of one
with it (section 7).

### Recovery

`RecoveryManager` with the breaker, the load states of the registry and the
loader that picks up a version that has become DISCOVERED. Each thread does one
operation at a time; each call into the breaker or the registry is a step of its
own, and `holder` is the manager's own lock (held across the calls of
`_disable_model` and `enable_model`). A thread reports a failure or a success,
disables, enables with or without force, or loads. The loads and their two
notifications follow `ai/validation_scenarios.py`, the only place that
wires all three together. The breaker runs without its file here because with
it the first trip never returns (section 7, `NeverSelfDeadlocked`). `TypeOK`
covers the breaker's state too.

Correct means: a version leaves DISABLED only when the policy or force allows it
(`RecoveryIsAllowed`), at most `max_recovery_attempts` are made
(`AttemptsBounded`), and an open circuit is never handed to the loader
(`OpenIsNotReloaded`).

### Sessions, Streams

`Streams` are the routes of `api/v1/devices.py` over `StreamService`, each in a
transaction of its own. A step is what a request runs between two awaits:
`RouteCheck`, `Insert`, the answer of VAS (`VasStarted`, `VasFailed`),
`SetStopped`, `Invalidate`, the reply, then `Commit` by the `get_db` dependency
after the route has returned. Nothing uncommitted is visible to others (READ
COMMITTED). `db` is the committed state; a row that is STARTING or STOPPING is
only ever inside a transaction (`start_stream` flushes, it does not commit), so
these two states appear in `req`, never in `db`: `recover_stuck_sessions` looks
for a state that no other transaction can see, and nothing calls it. The cached
device list is `cache`, with its expiry. `stop_stream` and `mark_stream_error`
have no route; they are included all the same, since the service offers them.
`Faults` are the death of the backend (`Restart`: every transaction is rolled
back), Redis calls that fail, and a commit that fails.

Correct means: as others see it, a session appears LIVE once and is over once,
and no overlap, crash, rollback or retry brings it back (`ImplementsSessions`,
under the mapping `Visible`, which takes STOPPED and ERROR for over); the list
tells the truth in the end (`CacheConverges`). That a device has one active
session (`AtMostOneActive`) is refuted, and proved for the case that no two
starts of a device overlap (`DuplicatesNeedOverlap`): nothing but that can make
two sessions of one device.

### InferenceLoop

`InferenceLoopService` in asyncio: a step is what runs between two awaits, and
all else may run in between. `Scan` reads the LIVE sessions, `Apply` compares
what it has read with the tasks it has, removes, cancels and creates. A task
looks at the flag and its entry (`Goes`) before each round (`Round`), runs an
inference (`Answered`, `NoResult`, `Failed`), publishes (`Publish`), looks at the
zones, inserts a violation (`Create`) and sets the state after the insertion
(`Created`), sleeps, and so on; it gives up after `MaxErrors` consecutive
errors. Where a cancelled task is resumed, it takes the handler its await is in
(`Cancelled`): most handlers break the loop and run the end of the task
(`Exit`). `Stop` and `Turn` are `stop()`, which iterates over the dictionary its
tasks change. The frame fetch, the GPU semaphore and the inference are one await,
a paused stream a round without a result. `entry` is `_session_tasks` together
with `_session_devices`, which are always written together.

Correct means: never two tasks for a session, an entry is a task that runs, a
task without an entry is on its way out (`TasksMatchEntries`, which is
`OneTaskPerSession`, `EntriesAreAlive`, `UnlistedIsCancelled` and the types); no
detections of a session that is not served, no share of the GPU budget for a
session without a task (`NothingOutlivesTask`, which is `NoGhostDetections` and
`BudgetIsListed`); one record for a stay in a zone (`RecordedOncePerStay`); and
every LIVE session is served again and again (`LiveIsServed`).

### Sandbox, Pipeline

`Sandbox` is `SandboxManager`, `ExecutionSandbox`, `TimeoutExecutor` and
`HealthManager` for one version. The manager holds one box (`live`); a box that
is replaced or removed goes on for those who already have it, so `box[t]` says
which box each caller is in. A stage of an execution is submitted (`Submit`),
waits in the pool's queue, is started by a free worker (`Start`), and answers,
raises or times out; on a time-out the future is cancelled if it has not started
and its thread runs on as a zombie if it has (`zombies`), which keeps the worker.
`Record` writes metrics and health under the box's lock; `Report` is the callback
after the lock has been given up. `_pending_futures` is left out: only statistics
and logs read it, and a future leaves it when its caller stops waiting, so
`get_zombie_tasks` never reports a zombie. `cured` is a variable of the environment that says that the model's
code returns in time from now on.

`Pipeline` is `infer` for a request that names a version: `Resolve` and `Check`
read the registry, `TryAcquire` takes the slot, `Enter` looks the box up,
`Release` is the `finally`. The registry's entry may change between any two.
`wired` is chosen at the start: the server creates its boxes without the
callback, `ai/validation_scenarios.py` with it.

`infer` is not what the server serves. Its route
(`ai/server/routes/inference.py`, 309-385) looks the version up in the registry,
asks whether its state is available, and calls the sandbox manager itself: no
slot is taken, so admission and back-pressure do not bound it, and the health in
the registry is not looked at. The call blocks the event loop, so the requests of
that route run one at a time. From `Enter` on its requests take the same steps,
in the module `Sandbox`; `Resolve`, `Check`, `TryAcquire` and `Release`, and the
runs and theorems as far as they are about them, speak of the callers of the
pipeline, which are the tests and `ai/validation_scenarios.py`.

Correct means: health is the function of the two streaks that `HealthManager`
describes, over any overlap of executions (`StreaksDecideHealth`); every change
is reported once and as what it was, though callbacks overtake each other
(`ChangesReportedOnce`: the sum over reports telescopes); every request ends,
whatever hangs or is removed (`RequestEnds`); a box that was removed drains
(`RemovedGoesQuiet`); a version whose model works again is healthy again, with
one exception that is a real trap (`HealthReturns`: once the registry has been
told UNHEALTHY no request reaches the box, so nothing can ever tell it
otherwise).

### SemVer, Versioning

`SemVer` has the three orders the runtime uses: `SemVer.__lt__` of versioning.py,
the key of `latest_version` in models.py, and plain comparison of strings in
pipeline.py; and the definition they are measured by, `Precedes`, written from
the rules of SemVer 2.0.0 (the least field in which two versions differ decides).
A version is a record of its numbers and identifiers; letters are abstract words
under an order that is a parameter.

`Versioning` is `VersionResolver.resolve` without a version. The registry hands
out its live descriptors, so a resolution reads the dictionary of versions, then
for each the state (`ReadState`) and later the health (`ReadHealth`) with any
change of the registry in between; a version that is registered meanwhile makes
the iteration raise (`Raise`). `always` and `quiet` are history variables: the
versions that have been eligible ever since a resolution began, and whether
nothing has changed since.

Correct means: no version that was eligible all the time is passed over for a
lower one (`NotPassedOver`); the answer is the one highest when nothing changes,
in whatever order the versions were found (`QuietAnswerIsHighest`); the other
order in use agrees as far as it can (`LatestIsHighest`).

### Publisher

`CapabilityPublisher` with its queue and worker thread, the client's retries, the
server's start and stop of both, and the registrations the backend keeps. A
report is read version by version while the registry changes (`Read`), each try of
its post sends the same one, and what a retry timer asks for is read anew. A post fails in three ways (`Unanswered`): it never
arrives, it was handled and the answer was lost, or it arrives later (`wire`,
`Arrives`). `stop()` is three steps (`Stop`, `PutStop`, `Join`) during which
events, timers and the worker go on, and `join` has a time limit. A process
registers under a fresh id, so what a dead one left behind stays. That is the
default (`config.py` makes one up); a deployment that configures a runtime id
registers under the same one again and overwrites what its predecessor left, and
the model does not speak of it.

Correct means: a runtime that has stopped in good order is not listed again,
whatever was in its queue, its timers or its listeners (`CleanStopUnlists`); the
backend's list converges to what a running runtime can serve (`ListedConverges`).
The condition "in good order" is the point: without it (`StaysUnlisted`,
section 7) a worker that outlived the join, or a post under way, lists a dead
runtime.

### Violations

The violations of one session and kind with the snapshots taken of them:
`ViolationService.process_event`, the internal event route, the inference loop's
own insertion, review, `EvidenceService` and the routes that call them. Each
request is a transaction over `READ COMMITTED` that keeps what it has assigned in
`tx` and writes it at the commit, without a version check, as SQLAlchemy's UPDATE
does. VAS accepts a job, refuses, or its answer is lost (`VasAccepts`,
`VasFails`, `VasUnexpected`), and finishes it at some time (`VasFinishes`);
reading a violation synchronises what is still PROCESSING (`GetViolation`,
`SyncHears`).

Correct means: a snapshot in the database belongs to a violation in the database,
and one that waits for VAS has a job there (`EvidenceHasSource`); a final status
is not overwritten by what was read before it, but for two overlapping reviews
(`FinalStays`); what VAS works on is settled (`EvidenceSettles`).

### VASEvents

`VASEventConsumer` tails a Redis stream of VAS and tells the inference loop which
streams are paused. `log` is that stream, `saved` the position in the backend's
own Redis, `lastId` the one in memory (`Now` for "$"), `cache` the loop's
`_vas_stream_state`. A step runs from one await to the next: `Load`, `Read` (the
call of XREAD, which is when "$" is given a meaning), `Answer`, and for each entry
`Handle` and `Save`. A connection that fails (`VASFails`) takes the position in
memory with it; a Redis that fails makes a load answer "$" and a save be skipped;
`client` is whether the process has a client of that Redis at all, which it may
not have from the start and no longer has after `close_redis`. `ProcessEnds` is the end
of the process at any step, by a crash or after `stop()`; the cache goes with it,
the position stays. `first` is a history variable: the first event the process
has handled. `VASEvents` is a module of its own because `InferenceLoop` lets any
round be skipped, which is more than the cache can do. VAS is taken to keep all
of its stream (it is another program, and nothing in the repository says what it
trims): events it has trimmed before the consumer came back are lost to it, and
the properties below say nothing of that.

Correct means: the cache is what the events say, each from the first this process
has seen to its position, in their order, whatever is read again or reconnected
(`CacheIsReplay`); the position in Redis moves by one event at a time over
restarts (`ResumesWhereItWas`); and a stream that VAS has made active again does
not stay paused (`PauseEnds`, for failures of the backend's Redis too, as long as
the position is not lost). The first two are claimed while that Redis answers;
what happens otherwise is in section 7.

## 4. Runs

Most take seconds, `concurrency_steady`, `breaker`, `pipeline`, `publisher`,
`violations` and `vas_events` up to three minutes on two workers. Bounds are named in
the `.cfg`; every set is one of the small sets of the `MC` module.

| run | instance | shows |
|---|---|---|
| `concurrency_steady` | one model, two versions, three slots, two callers of `release` on each slot, global limit 2, model limits 2 and 1; `FairSteadySpec`; 306,744 states | `LimitsEnforced`, `GlobalCountExact`, `ReleaseIdempotent`, `ImplementsAdmission`, `ShutdownDrains` |
| `concurrency_unregister` | two models, two versions, two slots, two callers, symmetric; `Spec`, with `unregister_model` and the report; 192,906 states | `TypeOK`, `SlotsAccounted`, `NoCapacityLeak` |
| `rwlock` | four threads, each a reader or a writer whenever it likes; `FairSpec`; 1,232 states | `Exclusion`, `NoLostWakeup`, `WritersNotStarved` |
| `breaker` | one version, thresholds of 2, two attempts, two successes to close, no count beyond 3 (`BoundedSpec`), one thread that saves, with and without the file; 836,514 states | `RemovedIsForgotten`, `PermanentlyDisabled`, `FailuresTrip` |
| `recovery` | one version, two threads, all thresholds 2; 189,021 states | `RecoveryIsAllowed`, `AttemptsBounded`, `OpenIsNotReloaded` |
| `streams` | one device, two sessions it can get, two requests of any kind, a third that lists, faults; `FairSpec`; 120,936 states | `ImplementsSessions`, `CacheConverges` |
| `loop` | one session with a zone, three tasks, two errors in a row end a task, at most two records; `FairSpec`; 10,518 states | `TasksMatchEntries`, `NothingOutlivesTask`, `LiveIsServed`, `StopDrains`, `RecordedOncePerStay` |
| `pipeline` | two threads, one box, two stages, one worker, thresholds 1, 2 and 4, two slots, with and without the callback; 167,776 states | `StreaksDecideHealth`, `ChangesReportedOnce`, `RequestEnds`, `RemovedGoesQuiet`, `HealthReturns` |
| `versioning` | six versions (a release, its prereleases, numeric and alphanumeric identifiers, one that does not parse), of which up to three are found in any order, one resolution at a time, a minimum; 495,728 states | `NotPassedOver`, `QuietAnswerIsHighest`, `LatestIsHighest` |
| `publisher` | one version, two starts, one retry of a post, two failures that end the retries by timer, a queue of two, one timer, change, fault and delayed post; 1,061,341 states | `CleanStopUnlists`, `ListedConverges` |
| `violations` | two requests, one violation, two snapshots, confidences 1 to 3, one commit that fails; `FairSpec`; 258,088 states | `EvidenceHasSource`, `FinalStays`, `EvidenceSettles` |
| `vas_events` | two streams, three events, answers of up to two entries, one failure of each Redis, any number of processes; `FairEventsSpec`; 1,200,724 states | `CacheIsReplay`, `ResumesWhereItWas`, `PauseEnds` |

Why the bounds are enough:

* Concurrency: a slot that is released twice needs two callers; going over the
  limit needs one slot more than the limit; a limit that is lowered under running
  requests needs two values of it. Models and versions do not interact but
  through the global counter, and two of each are there in
  `concurrency_unregister`. The theorems of section 6 have no bounds.
* RWLock: the interesting states have two waiters of one kind, one of the other
  and a holder.
* Breaker: a torn entry mixes two states of one version, so one version is
  enough for it. Thresholds of 2 put a state between zero and the limit, and two
  attempts a first before the last. Torn entries that are loaded again and again
  let a count grow without end, a failure at a time; `MaxCount` stops it one past
  the threshold. Versions meet in the file: two of them with thresholds of 1 and
  one attempt are too many states for a regular run (21 million without an error
  when TLC was stopped). With two threads that save, one version, one success to close
  and no count beyond 2, `PermanentlyDisabled` and `FailuresTrip` passed (5 minutes
  on four workers). The theorems of section 6 have any number of both.
* Recovery, without the file: versions do not interact (every update is at one
  key), so one is enough; two attempts show the first, the last and the one too
  many. Two threads make every pair of operations overlap. The code's policies have larger
  values (10, 3 and 5 by default); nothing compares them with each other.
* Streams: two sessions of one device are the first and the one that should not
  be; three requests are a change, a change that overlaps it and an observer.
  Different devices share only the cached list, which every change deletes.
* Loop: three tasks are one that has an entry, and two that are cancelled and not
  over. Two sessions of one device, which compete for its detections, passed with
  the invariants (three interchangeable tasks, `Symmetry`: 526,434 states) and,
  without a zone, with everything (1,042,890 states, too long for a regular run);
  the theorems of section 6 have the invariants for any number of sessions.
  `MaxErrors` is 2 for the code's 10, the smallest
  number with an error that does not end the task; `MaxRows` bounds the records
  a session can get, and a task whose record does not fit takes the path of a
  failed insertion, which the code has too.

* Pipeline: an overlap needs two callers, and with one worker for both a queued
  task and one that holds the worker; two stages are a first and a last. The
  thresholds leave room for each arm of `determine_health` (the recovery
  threshold is 4 so that its half lies strictly between one and the whole). With
  one box, "removed" is the end of the box; two boxes, one replacing the other
  under running requests, passed with the safety properties (3.6 million states,
  too long for a regular run).
* Versioning: an answer is decided by a comparison of two versions and an order
  of three; the six contain a pair for each rule of precedence. Resolutions do not
  interact, and the theorems of section 6 have no bounds.
* Publisher: two processes are one that is dead and one that runs; one version
  is enough for a report that is older than the registry; longer queues and more
  timers hold more of the same request. Two changes or two faults passed too (2.0
  and 2.7 million states).
* Violations: a lost update needs two requests, a duplicate two snapshots; two
  violations do not interact but through the search for an open one, and passed
  too (1.2 million states).
* VASEvents: three events are a pause, an activation and one before, between or
  after them; two streams keep their reports apart; answers of two entries leave
  a save between two events of one answer. The theorems of section 6 have no
  bounds.

Deadlock is not checked where the system may stop or lock up for good: in
`concurrency_unregister` because the fairness report never lets the lock go, in
`loop` because the service can be shut down, in `pipeline` and
`publisher` because boxes, processes and faults are bounded, in `violations`
because the rows are, in `vas_events` because the consumer may be switched off.

The type invariants of `RWLock`, `CircuitBreaker` with `Recovery`, `Streams`,
`InferenceLoop` and `VASEvents` are theorems (section 6); they can be added to the
runs, which pass with them. Those of `Sandbox` with `Pipeline` and of `Publisher`
are a part of `StreaksDecideHealth` and `CleanStopUnlists`.

Every property has a mutant in `PROJECT.json`: a definition of the model changed
as a bug in that code would change it (a test left out, a count not given back,
an entry not removed), under which TLC refutes the property in the same run.

## 5. Fairness

* `FairSteadySpec` (Concurrency): every caller that has a slot goes on releasing
  it. The pipeline releases in a `finally`, and nothing in `release` blocks but
  the manager's lock, whose holders do not block either (in `SteadySpec`, where
  the report is left out).
* `FairSpec` (RWLock): a notified thread gets the mutex in the end, and whoever
  is inside leaves: the bodies under the registry's lock only touch dictionaries.
  Nothing is assumed about who asks.
* `FairSpec` (Streams): what a request has begun ends (VAS calls have timeouts,
  the database answers or raises), and the time to live of the cached list
  passes. Nothing is assumed of new requests.
* `FairSpec` (InferenceLoop): the main loop goes round, and every await of a task
  ends. `asyncio` resumes what is ready in the order it became ready; the runtime
  client and the database have timeouts. Whether a result is a success or an
  error is left open, so is the start of any session.

* `Spec` (Pipeline): a thread that has begun goes on (`Serve`), and its waits time
  out; free workers take tasks (the thread pool's own loop); requests keep coming
  (`Resolve`, enabled only while the version is eligible); main.py marks what it
  has made READY as HEALTHY. Answers and the end of zombies are fair only once
  the model is cured. Nothing is assumed of trips, replacements or the cure.
* `PublisherSpec` (Publisher): the timer of a minute, the worker and retry timers are
  threads that run; a post ends with or without an answer, for the client has a
  time limit; a delayed post arrives. One assumption is strong: of the posts that
  are made again and again one is answered (`SF` of `PostSucceeds`), without
  which no retry could ever help.
* `FairSpec` (Violations): what a request has begun ends, and VAS finishes its
  jobs. Strong fairness for two things: somebody opens the violation again
  (`GetViolation`, disabled while all requests are busy), and of the questions to
  VAS one is answered (`SyncHears`). The code has no worker that would poll
  (`poll_evidence` has no caller), so this is an assumption on its users.
* `FairEventsSpec` (VASEvents): the event loop resumes the consumer when its await is
  over, and XREAD and the backoff end (`Consume`); a process that was told to stop
  ends. Nothing is assumed of VAS, of crashes or of the next start.

Elsewhere weak fairness suffices: no step that has to happen is disabled again
and again by others. `StrongSpec` of MCRWLock is there only to show that not even
strong fairness of the mutex helps the readers. The run `versioning` has safety
properties only: a resolution is a loop over a finite list.

## 6. Proofs

`tlapm` checks eight modules. Assumptions are those of the constants only, and
TLC evaluates them in each run. Seven theorems assume more of a behaviour and say so
in their statement: `RemovedForgotten`, `DuplicatesNeedOverlap`,
`StaleListNeedsOverlap`, `SecondSnapshotNeedsOverlap`, `ResolvedIsLostToOverlap`,
`ConfidenceDropNeedsOverlap` and `UpdatesAreHeld`. The first assumes what the code
around the breaker might arrange; the others say of a promise that the code does
not keep (section 7), or that only the periodic refresh keeps, what exactly it
takes to break it. Every invariant and every action property of a run is a
theorem, as are the two refinements that runs check; two more, `SlotsAreAdmission`
and `ImplementsBreaker`, are theorems only.

**ConcurrencyProofs** (from `ConcurrencyAssumption`: finitely many slots, limits
are naturals, None is none of them). For `Spec`: `TypeCorrect`,
`CountersCorrect`, `DeadSlotFree`, `SlotsAccountedFor`, `CapacityKept`. For `SteadySpec`:
`CountExact`, `GlobalLimitHolds`, `PerModelLimitsHold`, `LimitsHold`,
`ReleaseIdempotentHolds`, `AdmissionImplemented`. The counters alone are not
inductive: a release that comes late must be known to work on a slot that exists,
and one past the lock on a slot that was returned; a model without state must
list no slot. That is `SlotDiscipline`, and with it `TypeOK`,
`CountersMatchSlots`, `NoDeadSlot` and `NoCapacityLeak` carry over each action.
`ShutdownIsFinal` and `DrainedForGood` (for `Spec`) are the safety half of
`ShutdownDrains`: no request starts after `shutdown()`, and once the last one has
ended nothing is in flight or counted for good, which `NoCapacityLeak` and
`NoDeadSlot` give. That it comes to this is TLC's part.
For the steady system `BooksExact` is added: the slots a model lists are exactly
those in flight for it, so counts and cardinalities can be exchanged. The limit,
the per-model limits and the refinement then follow from the guard of `Acquire`.
Cardinalities move by the library's theorems on adding and removing an element.

**RWLockProofs** (from `RWLockAssumption`: finitely many threads). `TypeCorrect`,
`ExclusionHolds`, `NoLostReaderWakeup`, `NoLostWriterWakeup`, `NoWakeupLost`,
`WritersGoFirst`.
The invariant adds `CountersExact` (each counter is the number of threads at the
places it counts) and `QueueExact` (the queue holds every sleeping writer once),
for a wake-up is decided by counters and the queue while the properties speak of
threads.

**RecoveryProofs** (from `BreakerAssumption`: thresholds are positive;
`NoneAssumption` and `HolderAssumption`: None is no reason and no thread).
`Invariance`, `TypeCorrect`, `RecoveriesBounded`, `TripsAreKept`,
`RecoveriesAllowed`. `OpenIsNotReloaded` needs to know who is about to disable a
version: `LockHeldByOne` (the manager's lock is held by exactly the thread in a
step that needs it, so two never work on the manager's part), `TripNotLost` (from
the trip until the version is DISABLED some thread is bound to disable it),
`EnableStillAllowed` (what `can_attempt_recovery` allowed is still allowed when
`prepare_recovery` acts, though the breaker's lock was given up in between),
`UntrackedClosed` (a version without a state is closed) and `TaskHasVersion`.
The breaker alone, with its file and its restarts (`BreakerSpec`):
`BreakerInvariance`, `FailuresAlwaysTrip`, `DisabledForGood`, `RemovedForgotten`.
That a closed circuit is below its thresholds is no invariant here, as a torn
entry may be loaded that is not; what every operation but the restart keeps is a
relation of two states (`KeepsBelow`: the circuit is below, or it was not before
and no failure was counted), and that gives `FailuresTrip`. `BreakerInv` is the
types, and that what a save has read so far is a state to read into
(`CopiesRead`). `RemovedForgotten`
assumes that at most one thread saves (`SavesNeverOverlap`, the theorem's own
assumption): then what was copied is still tracked, and a version that is in the
file but not tracked has a save under way, or a warning of one that failed
(`FileFollows`). Without the assumption it is false (section 7).

The two come together in `ImplementsBreaker`: the recovery manager asks the
breaker whether a recovery is allowed and prepares it in two steps, and the loader
and the registry act in between, but `EnableStillAllowed` makes the second step
one of `BreakerSpec`, where the two are one. There the breaker has no file and
does not restart, so `KeepsBelow` makes `ClosedBelowThresholds` an invariant
(`ClosedAmongRecoveries`); and `OnlyForceRevives`: a circuit that is open
with its attempts used up is left by a forced enable alone.

**StreamsProofs** (from `StreamsAssumption`). `TypeCorrect`,
`SessionsImplemented`, `DuplicatesNeedOverlap`, for `Spec`, which has the failures and the death of the
backend. The abstract module sees a commit as one step, while the row it
writes was chosen transactions ago. So the invariant says who has which row in
hand: a start holds one it has inserted, which nobody else holds and which is not
committed (`OwnsItsRow`); everybody else holds one that is (`HoldsCommitted`). A
commit is then a start or an end of `Sessions`, and everything else a stutter.
`Numbered` (finitely many rows inserted, none started after the last) is there
for the type of a look-up: of the active rows of a device one is the latest.
`DuplicatesNeedOverlap` says how bad the missing check of section 7 is:
`AtMostOneActive` holds of every behaviour in which of the starts of one device
at most one at a time is between its look for an active session and its commit
(`StartsNeverOverlap`, the theorem's own assumption, which the code does not
ensure). The invariant for it is `FoundNoneStill`: what a start found it still
finds when it commits, whatever stops, errors, failed commits and a death of the
backend do meanwhile.
`StaleListNeedsOverlap` says the same of the cached list: it shows the active
devices at every moment if no list is between its reads and its store while a
change waits for its commit (`ListsApart`), and if what goes to its commit has
deleted the list (`ChangesDropList`: `stop_stream` and `mark_stream_error` do not,
nor does anybody while Redis is away). The invariant is `ListsFresh`: until a
change has committed nothing is cached, and what a list has in hand is current.

**InferenceLoopProofs** (from `LoopAssumption`, `DeviceAssumption`).
`TasksAreEntries`, `NothingOutlives`, `NeverTwoAlive`, `RecordedOnce`. A task that ends pops the
entry of its session and frees its share of the budget without looking whose they
are by then. That is right only because no successor can be there: `OneAlive`, of
all tasks of a session one at most is not done, cancelled or not. The argument
for that goes through the sessions: a task is cancelled when its session is over
in the scan (`UnlistedIsOver`), a session that is over stays over (`Sessions`),
so no later scan finds it; and the answer of a scan may be old, but only in the
direction that a session it calls LIVE has ended since (`ReadIsOld`). The shutdown
cancels everybody while it waits, which is `VisitedIsCancelled` and
`CancelledIsUnlisted`. `RecordedOnce` rests on `OneAlive` too: a frame is compared
with the state of its session two awaits before it is recorded, and the
comparison is still right then (`Fresh`), because only a task of the session
writes that state and no other one is alive.

The same module has the consumer of VAS's events (from `EventsAssumption`):
`EventsInvariance`, `EventsTypeCorrect`, `CacheIsAReplay`, `NothingSkipped`. What
an answer holds follows the position without a gap, and where the consumer is
decides what its locals are (`Locals`); the position in Redis is the consumer's,
but for the event between `Handle` and `Save` (`Kept`): so a reconnection, which
has only Redis to go by, goes on where the cache is. `Seen` says that what was
handled lies between `first` and the position.

**RuntimeProofs** (from `SandboxAssumption`: finitely many callers, positive
thresholds; `PipelineAssumption`, `PublisherAssumption`). Of the sandbox and the
pipeline: `Invariance`, `HealthFollows`, `EachChangeReported`,
`TasksHaveCallers`, `NoExecutorLeaks`, `ClosedTakesNothing`,
`SlotsAreAdmission`. The code never compares what a pool runs with its number of
workers and never looks for a task before it submits one, so both need to know
whose the tasks are: `OneTaskEach`, a caller that waits for a box has one task
there, queued or running, and every task but a zombie has such a caller. Health
follows from the streaks because every outcome leaves it where it was or moves it
across a threshold just reached (`Agree`). That the reports balance
(`ChangesReportedOnce`) goes over the callers that still owe one: who enters or
leaves the sets `Entering` and `Leaving` moves the sum by one, and the callback by
one the other way. `OpenIsKnown` keeps the executors: one that accepts tasks is
the manager's or is about to be shut down, and then it stays shut
(`ClosedForGood`). `SlotsAreAdmission` maps the requests that hold a slot to
what `Admission` calls in flight, and `WorkIsAdmitted` says what admission bounds:
every task in any box, queued or running, is that of a request that holds a slot,
so there are never more of them than slots taken. The threads of executions that
have timed out are not among them (`SlotsBoundTheModel`, section 7).

Of the publisher: `PublisherInvariance`, `CleanStops`. A runtime that is gone is
not listed because nothing can speak for it any more: its worker is done and no
post of it is under way (`GoneIsSilent`). That the worker is done when the process
closes in good order is `WorkerEnds`; the rest are types, where the queue has one
place more than its bound for the "stop" (`RequestsFit`).
`UpdatesAreHeld` is the safety half of `ListedConverges`, and without the periodic
refresh: when nothing is pending and the worker waits, the backend lists what the
runtime advertises (`NothingLost`). The event comes after the change and what a
retry timer asks for is read anew, so at each moment either the backend is right, or the worker holds a
report that is right as far as it has read, or something pending will make it read
once more (`UpToDate`). It assumes away the four things that the refresh is there
for, or that nothing mends: the change to UNLOADING, which no event announces, a
restart of the backend (`Undisturbed`), a post that its client has given up and
that may still arrive, and retries that have ended (`Answered`).

**ViolationsProofs** (from `ViolationsAssumption`). `EvidenceSourced`,
`FinalIsKept`. What is committed says nothing of what is about to be, so the
invariant adds the transactions under way: that they are typed, and `AllSound`,
what each has in hand is what it may commit (a row that waits for VAS has a job
there, one inserted with its violation is inserted with it and not without, news
is only of snapshots that were PROCESSING and of which VAS has a final state).
`FinalStays` then follows action by action from the columns a transaction
assigns. Three promises of the comments that TLC refutes hold as long as requests
do not overlap in one way each: `SecondSnapshotNeedsOverlap` (two captures of a
violation), `ResolvedIsLostToOverlap` (two reviews), `ConfidenceDropNeedsOverlap`
(two events). What a request has looked up at its begin is then still so at its
commit: no snapshot yet (`Looked`), not resolved by another (`NobodyReviews`), a
lower confidence (`Raising`). All three rest on `EachStep`: a transaction begins with
what it has read, goes on with what it is about or ends, and only a commit and
the loop write to the tables. Duplicated violations are not among the three: the
internal route and the loop create without a look, and a dismissed violation can be
opened again next to another.

**VersioningProofs** (from `SemVerAssumption`: the order of words is a strict
total order; and `VersioningAssumption`). `OrderIsSemVer`: for all versions,
`SemVer.__lt__` as coded is the precedence defined; `PrecedenceIsTotal`: that is
a strict total order. Both rest on the least place in which two sequences differ,
which exists because the naturals are well founded (no induction is needed, only
the library's theorem on least elements). Of resolution: `Invariance`,
`NothingPassedOver`, `QuietAnswerHighest`, `LatestHighest`. The invariant adds to
the types: where a scan stands and that all it has gone past is kept or was not
eligible all the time (`Scanning`), what an undisturbed scan has kept
(`Undisturbed`), what `always` means now (`AlwaysIsNow`), and what the answer was
chosen from (`Answered`). A highest version exists because finite sets under a
total order have one.

Only model-checked: liveness
(`ShutdownDrains`, `WritersNotStarved`, `CacheConverges`, `LiveIsServed`,
`StopDrains`, `RequestEnds`, `RemovedGoesQuiet`, `HealthReturns`,
`ListedConverges`, `EvidenceSettles`, `PauseEnds`): fairness and ENABLED are out of the
prover's reach. So is induction over data and so are RECURSIVE operators; the
modules that are proved about need neither.

## 7. Where the code disagrees with its own documentation

Each of these came up while modelling. They are stated at the end of the
module named, an `MC` module most often (or are the property of a run, asked of another specification):
add one as INVARIANT or PROPERTY to the instance of that module's run, changed as
noted, and TLC shows the trace.

| statement | quoted from | what happens |
|---|---|---|
| `NeverSelfDeadlocked` (MCCircuitBreaker) | recovery.py:506, "Save outside lock to avoid blocking" | `record_failure` persists with the lock held, and persisting takes the lock: the first trip blocks the breaker for good |
| `OpenMeansDisabled` (MCRecovery) | recovery.py:203, "Tripped, model should be disabled" | the end of a load writes READY over the DISABLED of a trip |
| `AtMostOneActive` (Streams) | devices.py, "This endpoint is idempotent" | two starts overlap and the device has two LIVE sessions |
| `StopCompletes` (MCInferenceLoop) | inference_loop.py, "Cancel all session tasks" | the awaited task pops its entry of the dictionary being iterated over: RuntimeError |
| `GlobalLimitEnforced` of `Spec` (Concurrency; 3 slots, limit 1) | concurrency.py, "Active slots are NOT released - they will be released normally." | `unregister_model` takes the running slots out of the global count, and each release takes its slot out again |
| `PerModelLimitsEnforced` of `Spec` (Concurrency) | concurrency.py:28, "GUARANTEED: Per-model limits are enforced" | a model that is unregistered and asked for again counts from zero |
| `ReleaseIdempotent` of `Spec` (Concurrency) | concurrency.py, "Safe to call multiple times (idempotent)." | two racing releases of a slot whose model is gone both decrement |
| `NeverSelfDeadlocked` (MCConcurrency, `Spec`) | concurrency.py, "No blocking operations" | the fairness report takes the manager's lock twice |
| `ReadersNotStarved` (MCRWLock, `StrongSpec`, three threads) | registry.py:654, "Fair read-write lock" | writers that keep overlapping keep every reader out |
| `RemovedIsForgotten` with two savers | recovery.py:74, "saved on significant changes" | the save that copied first writes last |
| `RemovedStaysForgotten` (MCCircuitBreaker) | the same | the save of a removal fails, the warning is all that comes of it, and the version is back after a restart |
| `ClosedBelowThresholds` (CircuitBreaker, `BoundedSpec`) | recovery.py:242, "Consecutive timeouts before disable" | `save_state` reads "closed" before a trip and the timeouts after it, and a restart loads that |
| `TripsAtThreshold` (MCCircuitBreaker) | recovery.py, "Failures before circuit opens" | attempts survive a successful recovery, and the next single failure trips the circuit for good |
| `DisabledAcrossRestart` (MCCircuitBreaker, two versions, one attempt, `MaxCount` 1) | recovery.py:250, "Max recovery attempts before permanent disable" | a trip is never saved, and a save for another version may have caught this one half open: after a restart it is, and two successes close it |
| `HalfOpenEnds` (MCCircuitBreaker, `FairBreakerSpec`) | recovery.py:252, "Time to allow half-open testing" | nothing reads the time limit |
| `CanRecoverIsHonest` (MCRecovery) | recovery.py:1254, "No circuit breaker state, recovery allowed" | `enable_model` refuses what `can_recover` allows |
| `CooldownRefusalEnds` (MCRecovery, `FairSpec`) | recovery.py:1129, "Recovery cooldown not elapsed." | a version disabled by hand with a closed circuit is refused for ever |
| `CacheIsFresh` (MCStreams) | devices.py, "the next /devices request reflects the new session immediately" | the cache is deleted before the commit, and a list in between stores the old state |
| `FailedStartIsMarked` (MCStreams) | stream_service.py:178, "mark as error" | the exception that follows rolls the mark back |
| `TransitionsValid` (MCStreams, all operations) | stream_service.py:70, "Enforces valid state transitions" | a STOPPED row becomes ERROR |
| `CancelledTakesNothing` (MCInferenceLoop, two sessions) | inference_loop.py, "a cancelled task never reaches this line" | it does, and takes the detections of another session of the device |
| `ViolationIsRecorded` (MCInferenceLoop) | inference_loop.py:13, "create a violation record" | a failed insertion is logged and the state says it is recorded |
| `SlotsBoundTheModel` (MCPipeline) | sandbox.py:370, "Resource exhaustion is managed by admission control" | a request that timed out gives its slot back while its thread runs on in the model |
| `FailureNeverImproves` (MCPipeline) | sandbox.py:310, "HEALTHY → DEGRADED" and "DEGRADED → UNHEALTHY" are all a failure does | UNHEALTHY, one success, then failures up to the lower threshold: the model is DEGRADED, and serves |
| `RegistryAgrees` (MCPipeline) | sandbox.py:616, "Optional callback when health changes" | two reports reach the registry in the other order and the older one stays |
| `UnhealthyReturns` (MCPipeline) | sandbox.py:314, "UNHEALTHY → HEALTHY: consecutive_successes >= recovery_threshold" | a version the registry calls UNHEALTHY gets no request, so its health never changes again |
| `AnyLatestIsHighest` (MCVersioning) | models.py:408, "Return highest semantic version" | prereleases compare as texts: rc.2 is above rc.10 |
| `HealthIsOfResolved` (MCVersioning) | pipeline.py:1130, "Specific version (or None for latest)" | the latest is the greatest string: 1.9.0, not 1.10.0 |
| `NeverRaises` (MCVersioning) | versioning.py:496, "ResolutionResult with descriptor or error" | a version that is found meanwhile makes the iteration raise a RuntimeError |
| `KeptIsEligible` (MCVersioning) | versioning.py:17, "State = READY", "Health = HEALTHY or DEGRADED" | state and health are read one after the other: the version chosen need never have had both |
| `StaysUnlisted` (MCPublisher) | ai_runtime.py, "This prevents the backend from routing requests to a shutting-down runtime" | a post that was given up, or a worker that outlived the join, registers the runtime after it has left |
| `DeadIsUnlisted` (MCPublisher) | health_service.py:249, "usually only one" | a runtime that crashed stays listed, and the first one listed is the one that is asked |
| `NeverDuplicated` (MCViolations) | violation_service.py:100, "Violations are NEVER duplicated" | two events find no open violation and create one each |
| `TerminalIsFinal` (Violations) | violation_service.py:75, "Terminal states (cannot be modified)" | of two reviews that overlap the second overwrites RESOLVED |
| `ConfidenceNeverDrops` (Violations) | violation_service.py, "if the new event has higher confidence" | of two events the lower one commits last |
| `OneSnapshot` (Violations) | evidence_service.py, "Enforces idempotency per (violation_id, evidence_type)" | two requests insert one each, and from then on the look-up raises |
| `ReadyIsReady` (MCViolations) | models/evidence.py, "VAS completes: status=ready" | the inference loop inserts READY when VAS has only accepted the job |
| `PendingSettles` (MCViolations) | models/evidence.py, "If VAS fails: status=failed" | an exception that is no VASError leaves the row PENDING, and only PROCESSING is synchronised |
| `ReadsJoin` (MCVASEvents) | vas_event_consumer.py:10, "restarts resume without replay/loss" | until the first event was handled the position is "$", the end of the stream at each call: what arrives between two calls is lost |
| `EndsSaved` (MCVASEvents) | the same | a process that dies between an event and its save leaves it to the next one, which handles it again |
| `PauseAlwaysEnds` (MCVASEvents) | inference_loop.py:288, "True only when VAS has explicitly reported this stream as paused" | a save fails, then the connection is lost, and the position is "$" again: the activation in between is never read and the stream stays paused until its next event |

Not in a model, because it changes nothing there: the cooldown between
violations of one zone is tested in a branch that does nothing
(inference_loop.py:553), so a second violation is recorded as soon as one frame
without it lay in between.

## 8. What is not modelled

* Data: frames, detections beyond the zones they lie in, scores, timings,
  metrics, log lines, the wording of answers.
* Discovery, validation and error classes of the runtime: sequential, no state
  survives a call.
* The routes of devices, shifts, exports, analytics, hardware and health: reads.
* The chat service (read-only SQL), the detectors (numeric, vendored), the
  frontend (presentation), migrations, scripts and examples.
* `update_model_config` (changes no state of a session) and
  `recover_stuck_sessions` (no caller, and it finds nothing: section 3).
* The internal event route creates LIVE sessions for streams it does not know.
  `Streams` and `Violations` leave that out: a session made this way has no
  stream behind it, and the operations modelled treat it like any other.
* The rest of the registry: queries, counters, `unregister_model` (no caller).
* `clear_state` of the breaker's file: only a test calls it.
* The GPU manager: it checks and reserves in two critical sections, but its one
  caller, the server, loads models one after the other.
* The coordinator: only tests call it; the server wires the parts itself.
* The steps of the loader: imports and checks in sequence on one thread. What a
  load does to the registry, and that it may fail, is in `Recovery`.
* The capacity tracker and `HealthAggregator`: no caller keeps state in the first,
  the second is a fold over what the registry says.
* Bookmark analyses: one worker takes one analysis through its states. If it dies
  between two commits the analysis stays RUNNING; the code has no step that
  would look for it, so there is nothing to check but that.
* `EventIngestionService`, `poll_evidence`, `retry_failed_evidence`: only tests
  call them. Bookmarks of a violation repeat the code of snapshots.
* The runtime router and the VAS client: each call is an answer, an error or a
  wait in the modules that make it.
* PostgreSQL beyond READ COMMITTED, Redis beyond single commands, the network
  beyond "an answer, an error, or later".

## 9. Plan

In order of what a fault there would cost:

1. *done* `Concurrency`, `Admission`, `ConcurrencyProofs`.
2. *done* `RWLock`, `RWLockProofs`.
3. *done* `CircuitBreaker`, `Recovery`, `RecoveryProofs`.
4. *done* `Sessions`, `Streams`, `InferenceLoop`, `StreamsProofs`,
   `InferenceLoopProofs`.
5. *done* `Sandbox`, `Pipeline`, `RuntimeProofs`.
6. *done* `Violations`, `ViolationsProofs`.
7. *done* `Publisher`, proved in `RuntimeProofs`.
8. *done* `SemVer`, `Versioning`, `VersioningProofs`.
9. *done* `VASEvents`, proved in `InferenceLoopProofs`.
10. `Lifecycle`: loader and server start-up as one protocol over the registry,
   with GPU reservations, should loads ever become concurrent.

The project keeps to a dozen runs, one per module and two for `Concurrency`, to forty properties, and to the forty hazards that matter most.
