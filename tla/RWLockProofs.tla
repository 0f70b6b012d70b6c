---------------------------- MODULE RWLockProofs ----------------------------
(***************************************************************************)
(* Mutual exclusion and the absence of lost wakeups in _RWLock, for every  *)
(* finite set of threads.                                                  *)
(***************************************************************************)
EXTENDS RWLock, FiniteSetTheorems, TLAPS

LEMMA ThreadsAtFinite ==
  ASSUME NEW P
  PROVE  IsFiniteSet(ThreadsAt(P)) /\ Cardinality(ThreadsAt(P)) \in Nat
<1>1. ThreadsAt(P) \subseteq Threads
  BY DEF ThreadsAt
<1>. QED BY <1>1, FS_Subset, FS_CardinalityType, RWLockAssumption

(* One thread more, or less, in a set of places changes its count by one.  *)
LEMMA CountUp ==
  ASSUME NEW S, IsFiniteSet(S), NEW t, t \notin S
  PROVE  Cardinality(S \cup {t}) = Cardinality(S) + 1
BY FS_AddElement

LEMMA CountDown ==
  ASSUME NEW S, IsFiniteSet(S), NEW t \in S
  PROVE  Cardinality(S \ {t}) = Cardinality(S) - 1
BY FS_RemoveElement

LEMMA CountZero ==
  ASSUME NEW S, IsFiniteSet(S)
  PROVE  Cardinality(S) = 0 <=> S = {}
BY FS_EmptySet

IInv == TypeOK /\ Exclusion /\ CountersExact /\ QueueExact
        /\ SleepingReaderHasWaker /\ SleepingWriterHasWaker

Readers == ThreadsAt({"reading"})
Waiting == ThreadsAt({"waitWrite", "wokenWrite"})
Writing == ThreadsAt({"writing"})

LEMMA InitIInv == Init => IInv
<1>. SUFFICES ASSUME Init PROVE IInv
  OBVIOUS
<1>1. TypeOK
  <2>1. <<>> \in Seq(Threads)
    OBVIOUS
  <2>. QED BY <2>1 DEF Init, TypeOK, Places
<1>2. QueueExact
  <2>1. DOMAIN writersOk = {} /\ \A t \in Threads : at[t] # "waitWrite"
    BY DEF Init
  <2>. QED BY <2>1 DEF QueueExact
<1>3. CountersExact
  <2>1. Readers = {} /\ Waiting = {} /\ Writing = {}
    BY DEF Init, Readers, Waiting, Writing, ThreadsAt
  <2>. QED BY <2>1, FS_EmptySet DEF Init, CountersExact, Readers, Waiting, Writing
<1>4. Exclusion /\ SleepingReaderHasWaker /\ SleepingWriterHasWaker
  <2>1. /\ ThreadsAt({"writing"}) = {} /\ ThreadsAt({"waitRead"}) = {}
        /\ ThreadsAt({"waitWrite"}) = {}
    BY DEF Init, ThreadsAt
  <2>. QED BY <2>1 DEF Exclusion, SleepingReaderHasWaker, SleepingWriterHasWaker
<1>. QED BY <1>1, <1>2, <1>3, <1>4 DEF IInv

-----------------------------------------------------------------------------
(* The counters tell whether there are readers and waiting writers.        *)
LEMMA CountersSay ==
  ASSUME IInv
  PROVE  /\ readers > 0 <=> Readers # {}
         /\ writersWaiting > 0 <=> Waiting # {}
         /\ writerActive <=> Writing # {}
         /\ readers = Cardinality(Readers)
         /\ writersWaiting = Cardinality(Waiting)
         /\ IsFiniteSet(Readers) /\ IsFiniteSet(Waiting)
<1>1. /\ readers = Cardinality(Readers) /\ writersWaiting = Cardinality(Waiting)
      /\ writerActive <=> Writing # {}
  BY DEF IInv, CountersExact, Readers, Waiting, Writing
<1>2. IsFiniteSet(Readers) /\ IsFiniteSet(Waiting)
  BY ThreadsAtFinite DEF Readers, Waiting
<1>3. (Cardinality(Readers) = 0 <=> Readers = {}) /\ (Cardinality(Waiting) = 0 <=> Waiting = {})
  BY <1>2, CountZero
<1>. QED BY <1>1, <1>2, <1>3 DEF IInv, TypeOK

(* A step that moves one thread from one place to another. *)
Moves(t, p) == at' = [at EXCEPT ![t] = p]

LEMMA ReadStep ==
  ASSUME IInv, NEW t \in Threads, AcquireRead(t)
  PROVE  IInv'
<1>. USE DEF TypeOK, Places
<1>0. TypeOK /\ at[t] \in {"idle", "wokenRead"}
  BY DEF IInv, AcquireRead
<1>1. CASE ReadersBlocked
  <2>1. /\ Moves(t, "waitRead")
        /\ UNCHANGED <<readers, writersWaiting, writerActive, writersOk>>
    BY <1>1 DEF AcquireRead, Moves
  <2>2. Readers' = Readers /\ Waiting' = Waiting /\ Writing' = Writing
    BY <1>0, <2>1 DEF Moves, Readers, Waiting, Writing, ThreadsAt
  <2>3. TypeOK' /\ Exclusion' /\ QueueExact'
    BY <1>0, <2>1 DEF Moves, IInv, Exclusion, QueueExact, ThreadsAt
  <2>4. CountersExact'
    BY <2>1, <2>2 DEF IInv, CountersExact, Readers, Waiting, Writing
  <2>5. SleepingReaderHasWaker'
    <3>1. Writing # {} \/ Waiting # {}
      BY <1>1, CountersSay DEF ReadersBlocked
    <3>. QED BY <2>2, <3>1 DEF SleepingReaderHasWaker, Waiting, Writing, ThreadsAt
  <2>6. SleepingWriterHasWaker'
    BY <1>0, <2>1 DEF Moves, IInv, SleepingWriterHasWaker, ThreadsAt
  <2>. QED BY <2>3, <2>4, <2>5, <2>6 DEF IInv
<1>2. CASE ~ReadersBlocked
  <2>1. /\ Moves(t, "reading") /\ readers' = readers + 1
        /\ UNCHANGED <<writersWaiting, writerActive, writersOk>>
    BY <1>2 DEF AcquireRead, Moves
  <2>2. /\ Readers' = Readers \cup {t} /\ t \notin Readers
        /\ Waiting' = Waiting /\ Writing' = Writing
    BY <1>0, <2>1 DEF Moves, Readers, Waiting, Writing, ThreadsAt
  <2>3. Writing = {} /\ Waiting = {}
    BY <1>2, CountersSay DEF ReadersBlocked, IInv
  <2>4. TypeOK' /\ QueueExact'
    BY <1>0, <2>1 DEF Moves, IInv, QueueExact
  <2>5. Exclusion'
    BY <2>2, <2>3 DEF Exclusion, Writing
  <2>6. CountersExact'
    <3>1. readers' = Cardinality(Readers')
      BY <2>1, <2>2, CountersSay, CountUp
    <3>. QED BY <2>1, <2>2, <3>1 DEF IInv, CountersExact, Readers, Waiting, Writing
  <2>7. SleepingReaderHasWaker'
    BY <1>0, <2>1, <2>2, <2>3 DEF Moves, IInv, SleepingReaderHasWaker, Writing, Waiting, ThreadsAt
  <2>8. SleepingWriterHasWaker'
    BY <1>0, <2>1 DEF Moves, IInv, SleepingWriterHasWaker, ThreadsAt
  <2>. QED BY <2>4, <2>5, <2>6, <2>7, <2>8 DEF IInv
<1>. QED BY <1>1, <1>2

-----------------------------------------------------------------------------
(* notify() moves the head of the queue, and only it, out of the wait.     *)
LEMMA NotifyStep ==
  ASSUME IInv, NEW t \in Threads, at[t] \in {"reading", "writing"}, NotifyWriter(t)
  PROVE  /\ at' \in [Threads -> Places] /\ writersOk' \in Seq(Threads) /\ QueueExact'
         /\ Waiting' = Waiting /\ Readers' = Readers \ {t} /\ Writing' = Writing \ {t}
         /\ ThreadsAt({"waitRead"})' = ThreadsAt({"waitRead"})
         /\ ThreadsAt({"waitWrite"})' # {} => ThreadsAt({"wokenWrite"})' # {}
<1>. USE DEF Places
<1>0. TypeOK /\ QueueExact
  BY DEF IInv
<1>1. CASE writersOk = <<>>
  <2>1. at' = [at EXCEPT ![t] = "idle"] /\ writersOk' = writersOk
    BY <1>1 DEF NotifyWriter
  <2>2. ThreadsAt({"waitWrite"}) = {}
    BY <1>0, <1>1 DEF QueueExact, ThreadsAt
  <2>3. ThreadsAt({"waitWrite"})' = {}
    BY <1>0, <2>1, <2>2 DEF TypeOK, ThreadsAt
  <2>4. at' \in [Threads -> Places] /\ writersOk' \in Seq(Threads) /\ QueueExact'
    BY <1>0, <2>1 DEF TypeOK, QueueExact
  <2>5. /\ Waiting' = Waiting /\ Readers' = Readers \ {t} /\ Writing' = Writing \ {t}
        /\ ThreadsAt({"waitRead"})' = ThreadsAt({"waitRead"})
    BY <1>0, <2>1 DEF TypeOK, Waiting, Readers, Writing, ThreadsAt
  <2>. QED BY <2>3, <2>4, <2>5
<1>2. CASE writersOk # <<>>
  <2>. DEFINE h == Head(writersOk)
  <2>1. /\ h = writersOk[1] /\ 1 \in DOMAIN writersOk /\ h \in Threads
        /\ DOMAIN writersOk = 1..Len(writersOk) /\ Len(writersOk) \in Nat
        /\ Tail(writersOk) \in Seq(Threads)
        /\ DOMAIN Tail(writersOk) = 1..(Len(writersOk) - 1)
        /\ \A i \in 1..(Len(writersOk) - 1) : Tail(writersOk)[i] = writersOk[i + 1]
    BY <1>0, <1>2 DEF TypeOK
  <2>2. at[h] = "waitWrite" /\ h # t
    BY <1>0, <2>1 DEF QueueExact
  <2>3. at' = [at EXCEPT ![t] = "idle", ![h] = "wokenWrite"] /\ writersOk' = Tail(writersOk)
    BY <1>2 DEF NotifyWriter
  <2>. HIDE DEF h
  <2>4. at' \in [Threads -> Places] /\ writersOk' \in Seq(Threads)
    BY <1>0, <2>1, <2>3 DEF TypeOK
  <2>5. /\ \A u \in Threads : at'[u] = IF u = t THEN "idle" ELSE IF u = h THEN "wokenWrite" ELSE at[u]
    BY <1>0, <2>1, <2>2, <2>3 DEF TypeOK
  <2>6. QueueExact'
    <3>1. \A u \in Threads : at'[u] = "waitWrite" => \E i \in DOMAIN writersOk' : writersOk'[i] = u
      <4>. SUFFICES ASSUME NEW u \in Threads, at'[u] = "waitWrite"
                    PROVE  \E i \in DOMAIN writersOk' : writersOk'[i] = u
        OBVIOUS
      <4>1. at[u] = "waitWrite" /\ u # h
        BY <2>5
      <4>2. PICK i \in DOMAIN writersOk : writersOk[i] = u
        BY <1>0, <4>1 DEF QueueExact
      <4>3. i # 1 /\ i - 1 \in 1..(Len(writersOk) - 1)
        BY <2>1, <4>1, <4>2
      <4>4. Tail(writersOk)[i - 1] = u
        BY <2>1, <4>2, <4>3
      <4>. QED BY <2>1, <2>3, <4>3, <4>4
    <3>2. \A i \in DOMAIN writersOk' : at'[writersOk'[i]] = "waitWrite"
      <4>. SUFFICES ASSUME NEW i \in 1..(Len(writersOk) - 1)
                    PROVE  at'[writersOk[i + 1]] = "waitWrite"
        BY <2>1, <2>3
      <4>1. i + 1 \in DOMAIN writersOk /\ i + 1 # 1
        BY <2>1
      <4>2. writersOk[i + 1] \in Threads /\ at[writersOk[i + 1]] = "waitWrite" /\ writersOk[i + 1] # h
        BY <1>0, <2>1, <4>1 DEF QueueExact, TypeOK
      <4>. QED BY <2>5, <4>2
    <3>3. \A i, j \in DOMAIN writersOk' : writersOk'[i] = writersOk'[j] => i = j
      <4>. SUFFICES ASSUME NEW i \in 1..(Len(writersOk) - 1), NEW j \in 1..(Len(writersOk) - 1),
                           writersOk[i + 1] = writersOk[j + 1]
                    PROVE  i = j
        BY <2>1, <2>3
      <4>1. i + 1 \in DOMAIN writersOk /\ j + 1 \in DOMAIN writersOk
        BY <2>1
      <4>2. i + 1 = j + 1
        BY <1>0, <4>1 DEF QueueExact
      <4>. QED BY <2>1, <4>2
    <3>. QED BY <3>1, <3>2, <3>3 DEF QueueExact
  <2>7. /\ Waiting' = Waiting /\ Readers' = Readers \ {t} /\ Writing' = Writing \ {t}
        /\ ThreadsAt({"waitRead"})' = ThreadsAt({"waitRead"})
        /\ h \in ThreadsAt({"wokenWrite"})'
    BY <2>1, <2>2, <2>5 DEF Waiting, Readers, Writing, ThreadsAt
  <2>. QED BY <2>4, <2>6, <2>7
<1>. QED BY <1>1, <1>2

-----------------------------------------------------------------------------
LEMMA ReleaseReadStep ==
  ASSUME IInv, NEW t \in Threads, ReleaseRead(t)
  PROVE  IInv'
<1>. USE DEF Places
<1>0. TypeOK /\ at[t] = "reading" /\ readers' = readers - 1
      /\ UNCHANGED <<writersWaiting, writerActive>>
  BY DEF IInv, ReleaseRead
<1>1. t \in Readers /\ Writing = {}
  BY <1>0 DEF IInv, Exclusion, Readers, Writing, ThreadsAt
<1>2. CASE readers = 1
  <2>1. NotifyWriter(t)
    BY <1>2 DEF ReleaseRead
  <2>2. /\ at' \in [Threads -> Places] /\ writersOk' \in Seq(Threads) /\ QueueExact'
        /\ Waiting' = Waiting /\ Readers' = Readers \ {t} /\ Writing' = Writing \ {t}
        /\ ThreadsAt({"waitRead"})' = ThreadsAt({"waitRead"})
        /\ ThreadsAt({"waitWrite"})' # {} => ThreadsAt({"wokenWrite"})' # {}
    BY <1>0, <2>1, NotifyStep
  <2>3. TypeOK' /\ QueueExact'
    BY <1>0, <1>2, <2>2 DEF TypeOK
  <2>4. Cardinality(Readers') = readers'
    BY <1>0, <1>1, <2>2, CountersSay, CountDown
  <2>5. CountersExact'
    BY <1>0, <1>1, <2>2, <2>4 DEF IInv, CountersExact, Readers, Waiting, Writing
  <2>6. Exclusion'
    BY <1>1, <2>2 DEF Exclusion, Writing
  <2>7. SleepingReaderHasWaker'
    BY <1>1, <2>2 DEF IInv, SleepingReaderHasWaker, Waiting, Writing, ThreadsAt
  <2>8. SleepingWriterHasWaker'
    BY <2>2 DEF SleepingWriterHasWaker, ThreadsAt
  <2>. QED BY <2>3, <2>5, <2>6, <2>7, <2>8 DEF IInv
<1>3. CASE readers # 1
  <2>1. at' = [at EXCEPT ![t] = "idle"] /\ writersOk' = writersOk
    BY <1>3 DEF ReleaseRead
  <2>2. /\ Waiting' = Waiting /\ Readers' = Readers \ {t} /\ Writing' = Writing
        /\ ThreadsAt({"waitRead"})' = ThreadsAt({"waitRead"})
        /\ ThreadsAt({"waitWrite"})' = ThreadsAt({"waitWrite"})
    BY <1>0, <2>1 DEF TypeOK, Waiting, Readers, Writing, ThreadsAt
  <2>4. Cardinality(Readers') = readers'
    BY <1>0, <1>1, <2>2, CountersSay, CountDown
  <2>3. TypeOK' /\ QueueExact'
    <3>1. readers > 0
      BY <1>1, CountersSay
    <3>. QED BY <1>0, <1>3, <2>1, <3>1 DEF IInv, TypeOK, QueueExact
  <2>5. CountersExact'
    BY <1>0, <2>2, <2>4 DEF IInv, CountersExact, Readers, Waiting, Writing
  <2>6. Exclusion'
    BY <1>1, <2>2 DEF Exclusion, Writing
  <2>7. SleepingReaderHasWaker'
    BY <2>2 DEF IInv, SleepingReaderHasWaker, Waiting, Writing, ThreadsAt
  <2>8. SleepingWriterHasWaker'
    <3>1. readers > 1
      BY <1>0, <1>1, <1>3, CountersSay DEF TypeOK
    <3>2. readers' # 0
      BY <1>0, <3>1 DEF TypeOK
    <3>3. Readers' # {}
      BY <2>4, <3>2, FS_EmptySet
    <3>. QED BY <3>3 DEF SleepingWriterHasWaker, Readers, ThreadsAt
  <2>. QED BY <2>3, <2>5, <2>6, <2>7, <2>8 DEF IInv
<1>. QED BY <1>2, <1>3

-----------------------------------------------------------------------------
(* A writer that has to wait joins the end of the queue. *)
LEMMA QueueUp ==
  ASSUME IInv, NEW t \in Threads, at[t] \in {"idle", "wokenWrite"},
         at' = [at EXCEPT ![t] = "waitWrite"], writersOk' = Append(writersOk, t)
  PROVE  at' \in [Threads -> Places] /\ writersOk' \in Seq(Threads) /\ QueueExact'
<1>. USE DEF Places
<1>0. TypeOK /\ QueueExact
  BY DEF IInv
<1>1. /\ DOMAIN writersOk = 1..Len(writersOk) /\ Len(writersOk) \in Nat
      /\ DOMAIN writersOk' = 1..(Len(writersOk) + 1)
      /\ writersOk' \in Seq(Threads)
      /\ writersOk'[Len(writersOk) + 1] = t
      /\ \A i \in 1..Len(writersOk) : writersOk'[i] = writersOk[i] /\ writersOk[i] \in Threads
  BY <1>0 DEF TypeOK
<1>2. \A i \in 1..Len(writersOk) : writersOk[i] # t
  BY <1>0, <1>1 DEF QueueExact
<1>3. \A u \in Threads : at'[u] = IF u = t THEN "waitWrite" ELSE at[u]
  BY <1>0 DEF TypeOK
<1>4. \A u \in Threads : at'[u] = "waitWrite" => \E i \in DOMAIN writersOk' : writersOk'[i] = u
  <2>. SUFFICES ASSUME NEW u \in Threads, at'[u] = "waitWrite"
                PROVE  \E i \in DOMAIN writersOk' : writersOk'[i] = u
    OBVIOUS
  <2>1. CASE u = t
    <3>1. Len(writersOk) + 1 \in DOMAIN writersOk'
      BY <1>1
    <3>. QED BY <1>1, <2>1, <3>1
  <2>2. CASE u # t
    <3>1. PICK i \in DOMAIN writersOk : writersOk[i] = u
      BY <1>0, <1>3, <2>2 DEF QueueExact
    <3>2. i \in DOMAIN writersOk' /\ writersOk'[i] = u
      BY <1>1, <3>1
    <3>. QED BY <3>2
  <2>. QED BY <2>1, <2>2
<1>5. \A i \in DOMAIN writersOk' : at'[writersOk'[i]] = "waitWrite"
  <2>. SUFFICES ASSUME NEW i \in 1..(Len(writersOk) + 1)
                PROVE  at'[writersOk'[i]] = "waitWrite"
    BY <1>1
  <2>1. CASE i = Len(writersOk) + 1
    BY <1>1, <1>3, <2>1
  <2>2. CASE i # Len(writersOk) + 1
    <3>1. i \in 1..Len(writersOk)
      BY <1>1, <2>2
    <3>2. at[writersOk[i]] = "waitWrite"
      BY <1>0, <1>1, <3>1 DEF QueueExact
    <3>. QED BY <1>1, <1>2, <1>3, <3>1, <3>2
  <2>. QED BY <2>1, <2>2
<1>6. \A i, j \in DOMAIN writersOk' : writersOk'[i] = writersOk'[j] => i = j
  <2>. SUFFICES ASSUME NEW i \in 1..(Len(writersOk) + 1), NEW j \in 1..(Len(writersOk) + 1),
                       writersOk'[i] = writersOk'[j]
                PROVE  i = j
    BY <1>1
  <2>1. CASE i \in 1..Len(writersOk) /\ j \in 1..Len(writersOk)
    BY <1>0, <1>1, <2>1 DEF QueueExact
  <2>2. CASE i = Len(writersOk) + 1 \/ j = Len(writersOk) + 1
    BY <1>1, <1>2, <2>2
  <2>. QED BY <1>1, <2>1, <2>2
<1>7. at' \in [Threads -> Places]
  BY <1>0 DEF TypeOK
<1>. QED BY <1>1, <1>4, <1>5, <1>6, <1>7 DEF QueueExact

(* A writer that gets in found nobody inside. *)
LEMMA WriterEnters ==
  ASSUME IInv, NEW t \in Threads, ~WritersBlocked, at[t] \in {"idle", "wokenWrite"},
         at' = [at EXCEPT ![t] = "writing"], writerActive' = TRUE,
         UNCHANGED <<writersOk, readers>>,
         writersWaiting' \in Nat, writersWaiting' = Cardinality(Waiting')
  PROVE  IInv'
<1>0. TypeOK
  BY DEF IInv
<1>1. Readers = {} /\ Writing = {}
  BY <1>0, CountersSay DEF WritersBlocked, TypeOK
<1>2. Readers' = {} /\ Writing' = {t}
      /\ ThreadsAt({"waitWrite"})' = ThreadsAt({"waitWrite"})
  BY <1>0, <1>1 DEF TypeOK, Readers, Writing, ThreadsAt
<1>3. TypeOK'
  BY <1>0 DEF TypeOK, Places
<1>4. Exclusion'
  <2>1. ThreadsAt({"reading", "writing"})' = {t}
    BY <1>2 DEF Readers, Writing, ThreadsAt
  <2>. QED BY <1>2, <2>1 DEF Exclusion, Writing
<1>5. CountersExact'
  <2>1. readers = Cardinality(Readers)
    BY CountersSay
  <2>. QED BY <1>1, <1>2, <2>1 DEF CountersExact, Readers, Waiting, Writing
<1>6. QueueExact'
  <2>1. \A u \in Threads : at'[u] = "waitWrite" <=> at[u] = "waitWrite"
    BY <1>0 DEF TypeOK
  <2>2. \A i \in DOMAIN writersOk : writersOk[i] \in Threads
    BY <1>0 DEF TypeOK
  <2>. QED BY <2>1, <2>2 DEF IInv, QueueExact
<1>7. SleepingReaderHasWaker' /\ SleepingWriterHasWaker'
  BY <1>2 DEF SleepingReaderHasWaker, SleepingWriterHasWaker, Writing, ThreadsAt
<1>. QED BY <1>3, <1>4, <1>5, <1>6, <1>7 DEF IInv

LEMMA AcquireWriteStep ==
  ASSUME IInv, NEW t \in Threads, AcquireWrite(t)
  PROVE  IInv'
<1>0. TypeOK /\ at[t] = "idle" /\ readers' = readers
  BY DEF IInv, AcquireWrite
<1>1. CASE WritersBlocked
  <2>1. /\ at' = [at EXCEPT ![t] = "waitWrite"] /\ writersOk' = Append(writersOk, t)
        /\ writersWaiting' = writersWaiting + 1 /\ writerActive' = writerActive
    BY <1>1 DEF AcquireWrite
  <2>2. /\ Readers' = Readers /\ Writing' = Writing
        /\ Waiting' = Waiting \cup {t} /\ t \notin Waiting
        /\ ThreadsAt({"waitRead"})' = ThreadsAt({"waitRead"})
    BY <1>0, <2>1 DEF TypeOK, Readers, Waiting, Writing, ThreadsAt
  <2>9. at' \in [Threads -> Places] /\ writersOk' \in Seq(Threads) /\ QueueExact'
    BY <1>0, <2>1, QueueUp
  <2>3. TypeOK' /\ QueueExact'
    BY <1>0, <2>1, <2>9 DEF TypeOK
  <2>4. writersWaiting' = Cardinality(Waiting')
    BY <2>1, <2>2, CountersSay, CountUp
  <2>5. CountersExact'
    BY <1>0, <2>1, <2>2, <2>4 DEF IInv, CountersExact, Readers, Waiting, Writing
  <2>6. Exclusion'
    BY <1>0, <2>1 DEF TypeOK, IInv, Exclusion, ThreadsAt
  <2>7. SleepingReaderHasWaker'
    BY <2>2 DEF SleepingReaderHasWaker, Waiting, ThreadsAt
  <2>8. SleepingWriterHasWaker'
    <3>1. Readers # {} \/ Writing # {}
      BY <1>1, CountersSay DEF WritersBlocked
    <3>. QED BY <2>2, <3>1 DEF SleepingWriterHasWaker, Readers, Writing, ThreadsAt
  <2>. QED BY <2>3, <2>5, <2>6, <2>7, <2>8 DEF IInv
<1>2. CASE ~WritersBlocked
  <2>1. /\ at' = [at EXCEPT ![t] = "writing"] /\ writerActive' = TRUE
        /\ UNCHANGED <<writersOk, writersWaiting>>
    BY <1>2 DEF AcquireWrite
  <2>2. /\ Readers' = Readers /\ Waiting' = Waiting /\ Writing' = Writing \cup {t}
        /\ ThreadsAt({"waitRead"})' = ThreadsAt({"waitRead"})
        /\ ThreadsAt({"waitWrite"})' = ThreadsAt({"waitWrite"})
    BY <1>0, <2>1 DEF TypeOK, Readers, Waiting, Writing, ThreadsAt
  <2>3. writersWaiting' \in Nat /\ writersWaiting' = Cardinality(Waiting')
    BY <1>0, <2>1, <2>2, CountersSay DEF TypeOK
  <2>. QED BY <1>0, <1>2, <2>1, <2>3, WriterEnters
<1>. QED BY <1>1, <1>2

LEMMA ResumeWriteStep ==
  ASSUME IInv, NEW t \in Threads, ResumeWrite(t)
  PROVE  IInv'
<1>0. TypeOK /\ at[t] = "wokenWrite" /\ readers' = readers
  BY DEF IInv, ResumeWrite
<1>1. CASE WritersBlocked
  <2>1. /\ at' = [at EXCEPT ![t] = "waitWrite"] /\ writersOk' = Append(writersOk, t)
        /\ UNCHANGED <<writersWaiting, writerActive>>
    BY <1>1 DEF ResumeWrite
  <2>2. /\ Readers' = Readers /\ Writing' = Writing /\ Waiting' = Waiting /\ t \in Waiting
        /\ ThreadsAt({"waitRead"})' = ThreadsAt({"waitRead"})
    BY <1>0, <2>1 DEF TypeOK, Readers, Waiting, Writing, ThreadsAt
  <2>3. TypeOK' /\ QueueExact'
    BY <1>0, <2>1, QueueUp DEF TypeOK
  <2>5. CountersExact'
    BY <1>0, <2>1, <2>2 DEF IInv, CountersExact, Readers, Waiting, Writing
  <2>6. Exclusion'
    BY <1>0, <2>1 DEF TypeOK, IInv, Exclusion, ThreadsAt
  <2>7. SleepingReaderHasWaker'
    BY <2>2 DEF SleepingReaderHasWaker, Waiting, ThreadsAt
  <2>8. SleepingWriterHasWaker'
    <3>1. Readers # {} \/ Writing # {}
      BY <1>1, CountersSay DEF WritersBlocked
    <3>. QED BY <2>2, <3>1 DEF SleepingWriterHasWaker, Readers, Writing, ThreadsAt
  <2>. QED BY <2>3, <2>5, <2>6, <2>7, <2>8 DEF IInv
<1>2. CASE ~WritersBlocked
  <2>1. /\ at' = [at EXCEPT ![t] = "writing"] /\ writerActive' = TRUE
        /\ writersWaiting' = writersWaiting - 1 /\ writersOk' = writersOk
    BY <1>2 DEF ResumeWrite
  <2>2. /\ Readers' = Readers /\ Waiting' = Waiting \ {t} /\ t \in Waiting
        /\ Writing' = Writing \cup {t}
        /\ ThreadsAt({"waitRead"})' = ThreadsAt({"waitRead"})
        /\ ThreadsAt({"waitWrite"})' = ThreadsAt({"waitWrite"})
    BY <1>0, <2>1 DEF TypeOK, Readers, Waiting, Writing, ThreadsAt
  <2>3. writersWaiting' = Cardinality(Waiting')
    BY <2>1, <2>2, CountersSay, CountDown
  <2>4. writersWaiting' \in Nat
    <3>1. writersWaiting > 0
      BY <2>2, CountersSay
    <3>. QED BY <1>0, <2>1, <3>1 DEF TypeOK
  <2>. QED BY <1>0, <1>2, <2>1, <2>2, <2>3, <2>4, WriterEnters DEF TypeOK
<1>. QED BY <1>1, <1>2

-----------------------------------------------------------------------------
LEMMA ReleaseWriteStep ==
  ASSUME IInv, NEW t \in Threads, ReleaseWrite(t)
  PROVE  IInv'
<1>0. TypeOK /\ at[t] = "writing" /\ writerActive' = FALSE
      /\ UNCHANGED <<readers, writersWaiting>>
  BY DEF IInv, ReleaseWrite
<1>1. Writing = {t} /\ Readers = {}
  BY <1>0 DEF IInv, Exclusion, Readers, Writing, ThreadsAt
<1>2. CASE writersWaiting > 0
  <2>1. NotifyWriter(t)
    BY <1>2 DEF ReleaseWrite
  <2>2. /\ at' \in [Threads -> Places] /\ writersOk' \in Seq(Threads) /\ QueueExact'
        /\ Waiting' = Waiting /\ Readers' = Readers \ {t} /\ Writing' = Writing \ {t}
        /\ ThreadsAt({"waitWrite"})' # {} => ThreadsAt({"wokenWrite"})' # {}
    BY <1>0, <2>1, NotifyStep
  <2>3. Readers' = {} /\ Writing' = {} /\ Waiting' # {}
    <3>1. Waiting # {}
      BY <1>2, CountersSay
    <3>. QED BY <1>1, <2>2, <3>1
  <2>4. TypeOK'
    BY <1>0, <2>2 DEF TypeOK
  <2>5. CountersExact'
    BY <1>0, <1>1, <2>2, <2>3 DEF IInv, CountersExact, Readers, Waiting, Writing
  <2>6. Exclusion' /\ SleepingReaderHasWaker' /\ SleepingWriterHasWaker'
    BY <2>2, <2>3 DEF Exclusion, SleepingReaderHasWaker, SleepingWriterHasWaker,
                      Waiting, Writing, ThreadsAt
  <2>. QED BY <2>2, <2>4, <2>5, <2>6 DEF IInv
<1>3. CASE ~(writersWaiting > 0)
  <2>1. WakeReaders(t) /\ writersOk' = writersOk
    BY <1>3 DEF ReleaseWrite
  <2>2. \A u \in Threads : at'[u] = IF u = t THEN "idle"
                                    ELSE IF at[u] = "waitRead" THEN "wokenRead" ELSE at[u]
    BY <2>1 DEF WakeReaders
  <2>3. at' \in [Threads -> Places]
    BY <1>0, <2>1 DEF WakeReaders, TypeOK, Places
  <2>4. /\ Readers' = Readers /\ Waiting' = Waiting /\ Writing' = {}
        /\ ThreadsAt({"waitRead"})' = {} /\ ThreadsAt({"waitWrite"})' = ThreadsAt({"waitWrite"})
    BY <1>0, <1>1, <2>2 DEF Readers, Waiting, Writing, ThreadsAt
  <2>5. QueueExact'
    <3>1. \A u \in Threads : at'[u] = "waitWrite" <=> at[u] = "waitWrite"
      BY <1>0, <2>2
    <3>2. \A i \in DOMAIN writersOk : writersOk[i] \in Threads
      BY <1>0 DEF TypeOK
    <3>. QED BY <2>1, <3>1, <3>2 DEF IInv, QueueExact
  <2>6. Waiting = {}
    BY <1>3, CountersSay
  <2>7. CountersExact'
    BY <1>0, <2>4 DEF IInv, CountersExact, Readers, Waiting, Writing
  <2>8. Exclusion' /\ SleepingReaderHasWaker'
    BY <2>4 DEF Exclusion, SleepingReaderHasWaker, Writing
  <2>9. SleepingWriterHasWaker'
    BY <2>4, <2>6 DEF SleepingWriterHasWaker, Waiting, ThreadsAt
  <2>. QED BY <1>0, <2>1, <2>3, <2>5, <2>7, <2>8, <2>9 DEF IInv, TypeOK
<1>. QED BY <1>2, <1>3

-----------------------------------------------------------------------------
LEMMA NextIInv == IInv /\ [Next]_vars => IInv'
<1>. SUFFICES ASSUME IInv, [Next]_vars PROVE IInv'
  OBVIOUS
<1>1. CASE UNCHANGED vars
  BY <1>1 DEF vars, IInv, TypeOK, Exclusion, CountersExact, QueueExact,
              SleepingReaderHasWaker, SleepingWriterHasWaker, ThreadsAt
<1>2. CASE Next
  <2>1. PICK t \in Threads : \/ AcquireRead(t) \/ ReleaseRead(t)
                             \/ AcquireWrite(t) \/ ResumeWrite(t) \/ ReleaseWrite(t)
    BY <1>2 DEF Next
  <2>. QED BY <2>1, ReadStep, ReleaseReadStep, AcquireWriteStep, ResumeWriteStep,
              ReleaseWriteStep
<1>. QED BY <1>1, <1>2

LEMMA Invariance == Spec => []IInv
BY InitIInv, NextIInv, PTL DEF Spec

(* The counters stay natural numbers and every thread is where the code    *)
(* can put it.                                                             *)
THEOREM TypeCorrect == Spec => []TypeOK
<1>1. IInv => TypeOK
  BY DEF IInv
<1>. QED BY <1>1, Invariance, PTL

(* _RWLock: "multiple concurrent readers but exclusive writers".           *)
THEOREM ExclusionHolds == Spec => []Exclusion
<1>1. IInv => Exclusion
  BY DEF IInv
<1>. QED BY <1>1, Invariance, PTL

(* No notify of _release_write is missing: a sleeping reader always has a  *)
(* writer ahead of it.                                                     *)
THEOREM NoLostReaderWakeup == Spec => []SleepingReaderHasWaker
<1>1. IInv => SleepingReaderHasWaker
  BY DEF IInv
<1>. QED BY <1>1, Invariance, PTL

(* No notify of _release_read or _release_write is missing: a sleeping     *)
(* writer always has a holder of the lock, or a woken writer, ahead of it. *)
THEOREM NoLostWriterWakeup == Spec => []SleepingWriterHasWaker
<1>1. IInv => SleepingWriterHasWaker
  BY DEF IInv
<1>. QED BY <1>1, Invariance, PTL

(* Neither kind of notify is missing.                                      *)
THEOREM NoWakeupLost == Spec => []NoLostWakeup
BY NoLostReaderWakeup, NoLostWriterWakeup, PTL DEF NoLostWakeup

(* _RWLock: "when a writer is waiting, new readers block".                 *)
LEMMA ReadersStayOut ==
  ASSUME IInv, [Next]_vars, ThreadsAt({"waitWrite", "wokenWrite"}) # {}
  PROVE  ThreadsAt({"reading"})' \subseteq ThreadsAt({"reading"})
<1>0. ReadersBlocked /\ TypeOK
  BY CountersSay DEF ReadersBlocked, Waiting, IInv
<1>1. CASE UNCHANGED vars
  BY <1>1 DEF vars, ThreadsAt
<1>2. ASSUME NEW t \in Threads, AcquireRead(t)
      PROVE  ThreadsAt({"reading"})' \subseteq ThreadsAt({"reading"})
  <2>1. at' = [at EXCEPT ![t] = "waitRead"]
    BY <1>0, <1>2 DEF AcquireRead
  <2>. QED BY <1>0, <2>1 DEF ThreadsAt, TypeOK
<1>3. ASSUME NEW t \in Threads, ReleaseRead(t) \/ ReleaseWrite(t)
      PROVE  ThreadsAt({"reading"})' \subseteq ThreadsAt({"reading"})
  <2>1. at[t] \in {"reading", "writing"}
    BY <1>3 DEF ReleaseRead, ReleaseWrite
  <2>2. CASE NotifyWriter(t)
    BY <2>1, <2>2, NotifyStep DEF Readers
  <2>3. CASE WakeReaders(t)
    BY <2>3 DEF WakeReaders, ThreadsAt
  <2>4. CASE at' = [at EXCEPT ![t] = "idle"]
    BY <1>0, <2>4 DEF ThreadsAt, TypeOK
  <2>. QED BY <1>3, <2>2, <2>3, <2>4 DEF ReleaseRead, ReleaseWrite
<1>4. ASSUME NEW t \in Threads, AcquireWrite(t) \/ ResumeWrite(t)
      PROVE  ThreadsAt({"reading"})' \subseteq ThreadsAt({"reading"})
  <2>1. \/ at' = [at EXCEPT ![t] = "waitWrite"]
        \/ at' = [at EXCEPT ![t] = "writing"]
    BY <1>4 DEF AcquireWrite, ResumeWrite
  <2>. QED BY <1>0, <2>1 DEF ThreadsAt, TypeOK
<1>. QED BY <1>1, <1>2, <1>3, <1>4 DEF Next

(* While a writer waits, the set of threads that read only shrinks.        *)
THEOREM WritersGoFirst == Spec => ReadersQueueBehindWriters
<1>1. IInv /\ [Next]_vars =>
        [ThreadsAt({"waitWrite", "wokenWrite"}) # {} =>
           ThreadsAt({"reading"})' \subseteq ThreadsAt({"reading"})]_vars
  BY ReadersStayOut
<1>. QED BY <1>1, Invariance, PTL DEF Spec, ReadersQueueBehindWriters
=============================================================================
