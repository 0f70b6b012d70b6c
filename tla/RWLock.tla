------------------------------- MODULE RWLock -------------------------------
(***************************************************************************)
(* _RWLock, the read-write lock every ModelRegistry method runs under      *)
(* (ai/runtime/registry.py).  It is one mutex and two condition variables. *)
(* Between two waits a thread holds the mutex, so each stretch is a step;  *)
(* a thread that waits is in the condition's queue until it is notified    *)
(* and then competes for the mutex with everybody else.                    *)
(***************************************************************************)
EXTENDS Integers, Sequences, FiniteSets

CONSTANT Threads

ASSUME RWLockAssumption == IsFiniteSet(Threads)

VARIABLES
  readers,         \* _readers
  writersWaiting,  \* _writers_waiting
  writerActive,    \* _writer_active
  writersOk,       \* the threads waiting on _writers_ok, oldest first
  at               \* where each thread is

vars == <<readers, writersWaiting, writerActive, writersOk, at>>

(* "waitRead": in the queue of _readers_ok; "wokenRead": notified, not yet *)
(* past the loop test again; likewise for writers.                         *)
Places == {"idle", "waitRead", "wokenRead", "reading",
           "waitWrite", "wokenWrite", "writing"}

ThreadsAt(places) == {t \in Threads : at[t] \in places}

Init ==
  /\ readers = 0
  /\ writersWaiting = 0
  /\ writerActive = FALSE
  /\ writersOk = <<>>
  /\ at = [t \in Threads |-> "idle"]

-----------------------------------------------------------------------------
\* Mutant: readers only look at the active writer.
ReadersBlocked_Mutant == writerActive

(* The loop test of _acquire_read. *)
ReadersBlocked == writerActive \/ writersWaiting > 0

\* Mutant: writers only look at the active writer.
WritersBlocked_Mutant == writerActive

(* The loop test of _acquire_write. *)
WritersBlocked == readers > 0 \/ writerActive

(* _acquire_read, from its start or from a notified wait up to the next    *)
(* wait or to its end.                                                     *)
AcquireRead(t) ==
  /\ at[t] \in {"idle", "wokenRead"}
  /\ IF ReadersBlocked
     THEN /\ at' = [at EXCEPT ![t] = "waitRead"]
          /\ UNCHANGED readers
     ELSE /\ at' = [at EXCEPT ![t] = "reading"]
          /\ readers' = readers + 1
  /\ UNCHANGED <<writersWaiting, writerActive, writersOk>>

(* _writers_ok.notify(): the oldest waiter, if there is one, is woken.     *)
NotifyWriter(t) ==
  IF writersOk = <<>>
  THEN /\ at' = [at EXCEPT ![t] = "idle"]
       /\ UNCHANGED writersOk
  ELSE /\ at' = [at EXCEPT ![t] = "idle", ![Head(writersOk)] = "wokenWrite"]
       /\ writersOk' = Tail(writersOk)

\* Mutant: the reader that leaves never wakes a writer.
ReleaseRead_Mutant(t) ==
  /\ at[t] = "reading"
  /\ readers' = readers - 1
  /\ at' = [at EXCEPT ![t] = "idle"]
  /\ UNCHANGED <<writersOk, writersWaiting, writerActive>>

(* _release_read *)
ReleaseRead(t) ==
  /\ at[t] = "reading"
  /\ readers' = readers - 1
  /\ IF readers = 1
     THEN NotifyWriter(t)
     ELSE /\ at' = [at EXCEPT ![t] = "idle"]
          /\ UNCHANGED writersOk
  /\ UNCHANGED <<writersWaiting, writerActive>>

(* _acquire_write, from its start up to its first wait or to its end: the  *)
(* count of waiting writers is only seen by others when it waits.          *)
AcquireWrite(t) ==
  /\ at[t] = "idle"
  /\ IF WritersBlocked
     THEN /\ at' = [at EXCEPT ![t] = "waitWrite"]
          /\ writersOk' = Append(writersOk, t)
          /\ writersWaiting' = writersWaiting + 1
          /\ UNCHANGED writerActive
     ELSE /\ at' = [at EXCEPT ![t] = "writing"]
          /\ writerActive' = TRUE
          /\ UNCHANGED <<writersOk, writersWaiting>>
  /\ UNCHANGED readers

(* _acquire_write, from a notified wait on. *)
ResumeWrite(t) ==
  /\ at[t] = "wokenWrite"
  /\ IF WritersBlocked
     THEN /\ at' = [at EXCEPT ![t] = "waitWrite"]
          /\ writersOk' = Append(writersOk, t)
          /\ UNCHANGED <<writerActive, writersWaiting>>
     ELSE /\ at' = [at EXCEPT ![t] = "writing"]
          /\ writerActive' = TRUE
          /\ writersWaiting' = writersWaiting - 1
          /\ UNCHANGED writersOk
  /\ UNCHANGED readers

\* Mutant: the writer that leaves wakes nobody.
WakeReaders_Mutant(t) ==
  at' = [u \in Threads |-> IF u = t THEN "idle" ELSE at[u]]

(* _readers_ok.notify_all() by the writer that leaves. *)
WakeReaders(t) ==
  at' = [u \in Threads |->
           IF u = t THEN "idle" ELSE IF at[u] = "waitRead" THEN "wokenRead" ELSE at[u]]

(* _release_write *)
ReleaseWrite(t) ==
  /\ at[t] = "writing"
  /\ writerActive' = FALSE
  /\ IF writersWaiting > 0
     THEN NotifyWriter(t)
     ELSE WakeReaders(t) /\ UNCHANGED writersOk
  /\ UNCHANGED <<readers, writersWaiting>>

-----------------------------------------------------------------------------
Next ==
  \E t \in Threads :
    \/ AcquireRead(t) \/ ReleaseRead(t)
    \/ AcquireWrite(t) \/ ResumeWrite(t) \/ ReleaseWrite(t)

Spec == Init /\ [][Next]_vars

(* A notified thread gets the mutex, and every critical section of the     *)
(* registry ends: its bodies only touch dictionaries.                      *)
Progress ==
  \A t \in Threads :
    /\ WF_vars(at[t] = "wokenRead" /\ AcquireRead(t))
    /\ WF_vars(ReleaseRead(t))
    /\ WF_vars(ResumeWrite(t))
    /\ WF_vars(ReleaseWrite(t))

FairSpec == Spec /\ Progress

-----------------------------------------------------------------------------
TypeOK ==
  /\ readers \in Nat
  /\ writersWaiting \in Nat
  /\ writerActive \in BOOLEAN
  /\ writersOk \in Seq(Threads)
  /\ at \in [Threads -> Places]

(* "Allows multiple concurrent readers but exclusive writers": a writer is *)
(* alone, whoever was woken and whoever overtook whom.                     *)
Exclusion ==
  \A t \in ThreadsAt({"writing"}) : ThreadsAt({"reading", "writing"}) = {t}

(* The counters are what they count.                                       *)
CountersExact ==
  /\ readers = Cardinality(ThreadsAt({"reading"}))
  /\ writersWaiting = Cardinality(ThreadsAt({"waitWrite", "wokenWrite"}))
  /\ writerActive <=> ThreadsAt({"writing"}) # {}

(* The queue of _writers_ok holds every sleeping writer exactly once.      *)
QueueExact ==
  /\ \A t \in Threads : at[t] = "waitWrite" => \E i \in DOMAIN writersOk : writersOk[i] = t
  /\ \A i \in DOMAIN writersOk : at[writersOk[i]] = "waitWrite"
  /\ \A i, j \in DOMAIN writersOk : writersOk[i] = writersOk[j] => i = j

(* No wakeup is lost on the reader side: a reader only sleeps while a      *)
(* writer is active or queued, whose release is going to wake it.          *)
SleepingReaderHasWaker ==
  ThreadsAt({"waitRead"}) # {} =>
    ThreadsAt({"writing", "waitWrite", "wokenWrite"}) # {}

(* No wakeup is lost on the writer side: a writer only sleeps while        *)
(* somebody holds the lock or another writer has been woken.               *)
SleepingWriterHasWaker ==
  ThreadsAt({"waitWrite"}) # {} =>
    ThreadsAt({"reading", "writing", "wokenWrite"}) # {}

(* No thread sleeps on a lock that nobody is going to give it.             *)
NoLostWakeup == SleepingReaderHasWaker /\ SleepingWriterHasWaker

(* "When a writer is waiting, new readers block": no reader gets in while  *)
(* a writer waits.                                                         *)
ReadersQueueBehindWriters ==
  [][ThreadsAt({"waitWrite", "wokenWrite"}) # {} =>
       ThreadsAt({"reading"})' \subseteq ThreadsAt({"reading"})]_vars

(* "This prevents the case where a continuous stream of readers could      *)
(* indefinitely block a waiting writer": while a writer waits, some writer *)
(* eventually gets in.                                                     *)
WritersNotStarved ==
  ThreadsAt({"waitWrite"}) # {} ~> ThreadsAt({"writing"}) # {}
=============================================================================
