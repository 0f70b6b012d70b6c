----------------------------- MODULE Publisher -----------------------------
(***************************************************************************)
(* CapabilityPublisher (ai/runtime/reporting.py), the HTTP client it posts *)
(* with (ai/runtime/backend_client.py), the start and the stop of both in  *)
(* ai/server/main.py, and the registrations the backend keeps of them      *)
(* (app/api/internal/ai_runtime.py).                                       *)
(*                                                                         *)
(* Changes of the registry, a timer every minute and the retries of failed *)
(* publications fill a queue; one worker takes a request, reads the        *)
(* registry version by version and posts what it has read.  A post may be  *)
(* lost before or after the backend has handled it, or arrive when the     *)
(* client no longer waits.  Each process registers under an id of its own: *)
(* the default of config.py, where no runtime id is configured.  With one  *)
(* that is, a restart registers over what its predecessor left.            *)
(***************************************************************************)
EXTENDS Integers, Sequences, FiniteSets, SequencesExt

CONSTANTS
  Versions,    \* versions the runtime may advertise
  Retries,     \* max_retries of a post
  FailLimit,   \* failures in a row that end the retries by timer
  QueueMax,    \* bound: requests in the queue (more of them change nothing)
  MaxTimers,   \* bound: pending retry timers (more of them change nothing)
  MaxChanges,  \* bound: changes of the registry
  MaxFaults,   \* bound: crashes of the runtime and restarts of the backend
  MaxDelayed,  \* bound: posts under way that their client has given up
  MaxProcs,    \* bound: starts of the runtime
  Unlisted

Procs == 1..MaxProcs

ASSUME PublisherAssumption ==
  /\ Retries \in Nat /\ FailLimit \in Nat \ {0} /\ QueueMax \in Nat \ {0, 1}
  /\ MaxTimers \in Nat \ {0} /\ MaxProcs \in Nat \ {0}
  /\ MaxChanges \in Nat /\ MaxFaults \in Nat /\ MaxDelayed \in Nat
  /\ \A S \in SUBSET Versions : S # Unlisted

VARIABLES
  proc,        \* number of the process, its runtime_id
  phase,       \* down, up, and the steps of the shutdown
  advertised,  \* versions that are READY and HEALTHY or DEGRADED
  emitting,    \* changes whose event is on its way to the listener
  requests,       \* _publish_queue: "publish" and the "stop" that ends it
  worker,      \* the worker thread: where it is, and the report in its hands
  failures,    \* _consecutive_failures, up to FailLimit
  timers,      \* pending retry timers
  attempts,    \* posts of the deregistration so far
  unclean,     \* stop() gave up waiting for the worker
  wire,        \* posts under way that their client has given up
  listed,      \* listed[p]: _registered_runtimes of the backend
  gone,        \* processes that left in good order
  changes, faults

inputs  == <<advertised, emitting, changes>>
retries == <<failures, timers>>
exit    == <<attempts, unclean, gone>>
backend == <<wire, listed>>
publisherVars    == <<proc, phase, inputs, requests, worker, retries, exit, backend, faults>>

running == phase = "up"

Idle == [at |-> "get",  todo |-> {}, report |-> {}, tries |-> 0]
Over == [at |-> "done", todo |-> {}, report |-> {}, tries |-> 0]

PublisherInit ==
  /\ proc = 0 /\ phase = "down"
  /\ advertised = {} /\ emitting = 0 /\ changes = 0
  /\ requests = <<>> /\ worker = Over
  /\ failures = 0 /\ timers = 0
  /\ attempts = 0 /\ unclean = FALSE /\ gone = {}
  /\ wire = {} /\ listed = [p \in Procs |-> Unlisted]
  /\ faults = 0

Enqueued(q) == IF Len(q) < QueueMax THEN Append(q, "publish") ELSE q

-----------------------------------------------------------------------------
(* What fills the queue.                                                   *)

(* The registry changes under its lock and emits the event after it.  Each *)
(* change of what is advertised is announced but the one to UNLOADING.     *)
Change(v) ==
  /\ phase # "down" /\ changes < MaxChanges
  /\ changes' = changes + 1
  /\ \/ /\ v \in advertised /\ advertised' = advertised \ {v}
        /\ UNCHANGED emitting
     \/ /\ advertised' = (advertised \ {v}) \union ({v} \ advertised)
        /\ emitting' = IF phase \in {"up", "signalled"} THEN emitting + 1 ELSE emitting
  /\ UNCHANGED <<proc, phase, requests, worker, retries, exit, backend, faults>>

(* _on_registry_event; the list of listeners was copied before the call.   *)
Emit ==
  /\ emitting > 0
  /\ emitting' = emitting - 1
  /\ requests' = Enqueued(requests)
  /\ UNCHANGED <<proc, phase, advertised, changes, worker, retries, exit, backend, faults>>

\* Mutant: there is no periodic refresh.
Periodic_Mutant == FALSE /\ UNCHANGED publisherVars

Periodic ==
  /\ running
  /\ requests' = Enqueued(requests)
  /\ UNCHANGED <<proc, phase, inputs, worker, retries, exit, backend, faults>>

(* A retry timer enqueues whether or not the publisher has been stopped.   *)
TimerFires ==
  /\ timers > 0
  /\ timers' = timers - 1
  /\ requests' = Enqueued(requests)
  /\ UNCHANGED <<proc, phase, inputs, worker, failures, exit, backend, faults>>

-----------------------------------------------------------------------------
(* _worker_loop and _do_publish.                                           *)

Take ==
  /\ worker.at = "get" /\ requests # <<>>
  /\ requests' = Tail(requests)
  /\ worker' = IF Head(requests) = "stop" THEN Over
               ELSE [Idle EXCEPT !.at = "reading", !.todo = Versions]
  /\ UNCHANGED <<proc, phase, inputs, retries, exit, backend, faults>>

(* get() times out after a second, and the loop looks at _running.         *)
Empty ==
  /\ worker.at = "get" /\ requests = <<>> /\ ~running
  /\ worker' = Over
  /\ UNCHANGED <<proc, phase, inputs, requests, retries, exit, backend, faults>>

(* _build_report reads one version after the other, without a lock.        *)
Read(v) ==
  /\ worker.at = "reading" /\ v \in worker.todo
  /\ worker' = [worker EXCEPT !.todo = @ \ {v}, !.report = @ \union ({v} \intersect advertised)]
  /\ UNCHANGED <<proc, phase, inputs, requests, retries, exit, backend, faults>>

Send ==
  /\ worker.at = "reading" /\ worker.todo = {} /\ phase # "closed"
  /\ worker' = [worker EXCEPT !.at = "sent"]
  /\ UNCHANGED <<proc, phase, inputs, requests, retries, exit, backend, faults>>

(* while self._running                                                     *)
NextRound == IF running THEN Idle ELSE Over

(* The backend registers the runtime and the client reads its answer.      *)
PostSucceeds ==
  /\ worker.at = "sent" /\ phase # "closed"
  /\ listed' = [listed EXCEPT ![proc] = worker.report]
  /\ worker' = NextRound
  /\ failures' = 0
  /\ UNCHANGED <<proc, phase, inputs, requests, timers, exit, wire, faults>>

(* _on_publish_failure: another try by timer, while it runs.               *)
GiveUp ==
  /\ worker' = NextRound
  /\ failures' = IF failures < FailLimit THEN failures + 1 ELSE failures
  /\ timers' = IF running /\ failures + 1 < FailLimit /\ timers < MaxTimers
                 THEN timers + 1 ELSE timers

(* What a post without an answer has done: nothing, all, or not yet.       *)
Unanswered(report) ==
  \/ UNCHANGED backend
  \/ listed' = [listed EXCEPT ![proc] = report] /\ UNCHANGED wire
  \/ /\ Cardinality(wire) < MaxDelayed
     /\ wire' = wire \union {[proc |-> proc, report |-> report]}
     /\ UNCHANGED listed

(* _post_with_retry after an error, a time-out or a 5xx.                   *)
PostFails ==
  /\ worker.at = "sent"
  /\ Unanswered(worker.report)
  /\ IF worker.tries < Retries
       THEN /\ worker' = [worker EXCEPT !.at = "reading", !.tries = @ + 1]
            /\ UNCHANGED retries
       ELSE GiveUp
  /\ UNCHANGED <<proc, phase, inputs, requests, exit, faults>>

(* A 4xx is not retried; a closed client raises at every try.              *)
PostRefused ==
  /\ \/ worker.at = "sent"
     \/ worker.at = "reading" /\ worker.todo = {} /\ phase = "closed"
  /\ GiveUp
  /\ UNCHANGED <<proc, phase, inputs, requests, exit, backend, faults>>

Work ==
  Take \/ Empty \/ (\E v \in Versions : Read(v)) \/ Send

-----------------------------------------------------------------------------
(* The start and the stop of the runtime.                                  *)

(* Models are loaded, then the publisher starts with a STARTUP request.    *)
StartRuntime ==
  /\ phase = "down" /\ proc < MaxProcs
  /\ proc' = proc + 1 /\ phase' = "up"
  /\ \E S \in SUBSET Versions : advertised' = S
  /\ requests' = <<"publish">> /\ worker' = Idle
  /\ emitting' = 0 /\ failures' = 0 /\ timers' = 0 /\ attempts' = 0 /\ unclean' = FALSE
  /\ UNCHANGED <<changes, gone, backend, faults>>

(* stop() clears _running ...                                              *)
Stop ==
  /\ phase = "up"
  /\ phase' = "signalled"
  /\ UNCHANGED <<proc, inputs, requests, worker, retries, exit, backend, faults>>

(* ... leaves the registry's listeners, and wakes the worker.              *)
PutStop ==
  /\ phase = "signalled"
  /\ phase' = "joining"
  /\ requests' = Append(requests, "stop")
  /\ UNCHANGED <<proc, inputs, worker, retries, exit, backend, faults>>

\* Mutant: stop() does not wait for its worker.
WorkerJoined_Mutant == TRUE

(* join() returns for a worker that has ended ...                          *)
WorkerJoined == worker.at = "done"

(* ... or when its time is over, and stop() does not ask which.            *)
Join ==
  /\ phase = "joining"
  /\ phase' = "leaving"
  /\ unclean' = ~WorkerJoined
  /\ UNCHANGED <<proc, inputs, requests, worker, retries, attempts, gone, backend, faults>>

(* No post of p is under way that its client has given up.                 *)
Quiet(p) == \A post \in wire : post.proc # p

(* deregister is answered.                                                 *)
Deregister ==
  /\ phase = "leaving"
  /\ phase' = "closed"
  /\ listed' = [listed EXCEPT ![proc] = Unlisted]
  /\ gone' = IF ~unclean /\ Quiet(proc) THEN gone \union {proc} ELSE gone
  /\ UNCHANGED <<proc, inputs, requests, worker, retries, attempts, unclean, wire, faults>>

(* It is not: one retry, and the client is closed all the same.            *)
DeregisterFails ==
  /\ phase = "leaving"
  /\ Unanswered(Unlisted)
  /\ attempts' = attempts + 1
  /\ phase' = IF attempts < 1 THEN "leaving" ELSE "closed"
  /\ UNCHANGED <<proc, inputs, requests, worker, retries, unclean, gone, faults>>

(* The process ends, by the book or not.                                   *)
Exit ==
  /\ phase # "down"
  /\ IF phase = "closed" THEN UNCHANGED faults
     ELSE faults < MaxFaults /\ faults' = faults + 1
  /\ phase' = "down"
  /\ worker' = Over /\ requests' = <<>> /\ emitting' = 0 /\ timers' = 0
  /\ UNCHANGED <<proc, advertised, changes, failures, exit, backend>>

-----------------------------------------------------------------------------
(* The network and the backend.                                            *)

Arrives(post) ==
  /\ post \in wire
  /\ wire' = wire \ {post}
  /\ listed' = [listed EXCEPT ![post.proc] = post.report]
  /\ UNCHANGED <<proc, phase, inputs, requests, worker, retries, exit, faults>>

(* The registrations are kept in memory.                                   *)
BackendRestarts ==
  /\ faults < MaxFaults /\ faults' = faults + 1
  /\ listed' = [p \in Procs |-> Unlisted]
  /\ UNCHANGED <<proc, phase, inputs, requests, worker, retries, exit, wire>>

-----------------------------------------------------------------------------
PublisherNext ==
  \/ \E v \in Versions : Change(v)
  \/ Emit \/ Periodic \/ TimerFires
  \/ Work \/ PostSucceeds \/ PostFails \/ PostRefused
  \/ StartRuntime \/ Stop \/ PutStop \/ Join \/ Deregister \/ DeregisterFails \/ Exit
  \/ \E post \in wire : Arrives(post)
  \/ BackendRestarts

(* The threads of a runtime go on, its posts end, and one of those that are*)
(* made again and again is answered; a delayed post arrives.  The clock is *)
(* the minute of the periodic refresh.                                     *)
PublisherFairness ==
  /\ WF_publisherVars(Periodic) /\ WF_publisherVars(Work) /\ WF_publisherVars(TimerFires)
  /\ WF_publisherVars(PostSucceeds \/ PostFails \/ PostRefused) /\ SF_publisherVars(PostSucceeds)
  /\ WF_publisherVars(\E post \in wire : Arrives(post))

PublisherSafe == PublisherInit /\ [][PublisherNext]_publisherVars
PublisherSpec == PublisherSafe /\ PublisherFairness

-----------------------------------------------------------------------------
(* Properties.                                                             *)

Reported(x) == x = Unlisted \/ x \subseteq Versions

(* The state has its type; the worker outlives neither its process nor a   *)
(* join that did not time out.                                             *)
PublisherTypeOK ==
  /\ proc \in 0..MaxProcs
  /\ phase \in {"down", "up", "signalled", "joining", "leaving", "closed"}
  /\ advertised \subseteq Versions /\ emitting \in 0..MaxChanges
  /\ Range(requests) \subseteq {"publish", "stop"} /\ Len(requests) <= QueueMax + 1
  /\ worker.at \in {"get", "reading", "sent", "done"}
  /\ worker.todo \subseteq Versions /\ worker.report \subseteq Versions \ worker.todo
  /\ worker.tries \in 0..Retries
  /\ failures \in 0..FailLimit /\ timers \in 0..MaxTimers
  /\ \A p \in Procs : Reported(listed[p])
  /\ \A post \in wire : post.proc \in Procs /\ Reported(post.report)
  /\ gone \subseteq 1..proc
  /\ phase = "down" => worker.at = "done"
  /\ phase \in {"leaving", "closed"} /\ ~unclean => worker.at = "done"

(* A runtime that stopped in good order (its worker ended in time, and no  *)
(* post it had given up was still under way) is not listed again: not by a *)
(* request left in the queue, a retry timer, or an event of the registry.  *)
CleanStopUnlists == PublisherTypeOK /\ \A p \in gone : listed[p] = Unlisted

(* The backend lists in the end what a running runtime can serve: whatever *)
(* posts fail, arrive late or read the registry while it changes, with     *)
(* events, retries and the periodic refresh.                               *)
ListedConverges ==
  \A p \in Procs : <>[](running /\ proc = p) => <>[](listed[p] = advertised)

-----------------------------------------------------------------------------
(* Without the periodic refresh: what the events and the retries promise   *)
(* by themselves (proved in RuntimeProofs; no run checks it).              *)

(* A version goes to UNLOADING, the one change no event announces.         *)
Silent == advertised' # advertised /\ emitting' = emitting

Undisturbed == running => ~Silent /\ ~BackendRestarts

(* No post of this process is on its way unknown to its client, and fewer  *)
(* failed in a row than end the retries.                                   *)
Answered == running => Quiet(proc) /\ failures < FailLimit

(* When no event, timer or request is pending and the worker waits, the    *)
(* backend lists exactly what the runtime advertises.                      *)
NothingLost ==
  running /\ emitting = 0 /\ timers = 0 /\ requests = <<>> /\ worker.at = "get" =>
    listed[proc] = advertised
=============================================================================
