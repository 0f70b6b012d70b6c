---------------------------- MODULE RuntimeProofs ----------------------------
(***************************************************************************)
(* The runtime's way from a request to a sandbox, and from its registry to *)
(* the backend, for any sizes.                                             *)
(*                                                                         *)
(* The sandbox of a version and the pipeline in front of it, for any       *)
(* number of callers, boxes, stages and workers and for any thresholds:    *)
(* health follows from the streaks, a change of health is reported exactly *)
(* once, slots are counted, and a caller that waits has one task.          *)
(*                                                                         *)
(* The publisher, for any versions, number of retries, failures, delayed   *)
(* posts and processes: what stopped in good order is not listed again.    *)
(***************************************************************************)
EXTENDS Pipeline, Publisher, FiniteSetTheorems, SequenceTheorems, TLAPS

(* What the parts of TypeOK rest on.                                       *)
ManagerTyped ==
  /\ live \in Boxes \union {None} /\ made \in 0..MaxBoxes /\ closing \subseteq Boxes
  /\ open \in [Boxes -> BOOLEAN]

PoolTyped ==
  /\ queue \in [Boxes -> Seq(Threads)] /\ runs \in [Boxes -> SUBSET Threads]
  /\ zombies \in [Boxes -> Nat]
  /\ \A b \in Boxes : Cardinality(runs[b]) + zombies[b] <= Workers

RecordTyped ==
  /\ health \in [Boxes -> Health]
  /\ fails \in [Boxes -> 0..UnhealthyThreshold] /\ succs \in [Boxes -> 0..RecoveryThreshold]

Places == {"idle", "stage", "waiting", "succeeded", "failed", "reporting"}

CallersTyped ==
  /\ pc \in [Threads -> Places]
  /\ box \in [Threads -> Boxes \union {None}]
  /\ stage \in [Threads -> 1..Stages]
  /\ change \in [Threads -> [old : Health, new : Health]]
  /\ told \in [Boxes -> [Health -> Int]]

Holders == {t \in Threads : req[t] \in {"admitted", "executing", "releasing"}}

RequestsTyped ==
  /\ registryHealth \in Health \union {"unknown"} /\ available \in BOOLEAN
  /\ req \in [Threads -> {"idle", "resolved", "checked", "admitted", "executing", "releasing"}]
  /\ active = Cardinality(Holders) /\ active <= Limit

(* A caller has a box from the look-up of the box until execute returns,   *)
(* and executes for as long.                                               *)
InBox ==
  \A t \in Threads :
    /\ box[t] = None <=> pc[t] = "idle"
    /\ pc[t] # "idle" => req[t] = "executing"

(* A caller that waits has one task, in the queue or on a worker, and every*)
(* task that is not a zombie has its caller.                               *)
Waiters(b) == {t \in Threads : pc[t] = "waiting" /\ box[t] = b}
OneTaskEach ==
  \A b \in Boxes :
    /\ \A i, j \in DOMAIN queue[b] : queue[b][i] = queue[b][j] => i = j
    /\ Range(queue[b]) \intersect runs[b] = {}
    /\ Range(queue[b]) \union runs[b] = Waiters(b)

Typed == ManagerTyped /\ PoolTyped /\ RecordTyped /\ CallersTyped /\ RequestsTyped /\ InBox

LEMMA TypedIsTypeOK == Typed => TypeOK
<1>. SUFFICES ASSUME Typed PROVE TypeOK
  OBVIOUS
<1>1. ASSUME NEW b \in Boxes
      PROVE  /\ Range(queue[b]) \subseteq Threads /\ runs[b] \subseteq Threads
             /\ zombies[b] \in 0..Workers
  <2>1. queue[b] \in Seq(Threads) /\ runs[b] \subseteq Threads /\ zombies[b] \in Nat
    BY DEF Typed, PoolTyped
  <2>2. Cardinality(runs[b]) \in Nat
    BY <2>1, FS_Subset, FS_CardinalityType, SandboxAssumption
  <2>3. zombies[b] \in 0..Workers
    BY <2>1, <2>2, SandboxAssumption DEF Typed, PoolTyped
  <2>. QED BY <2>1, <2>3 DEF Range
<1>. QED BY <1>1 DEF Typed, ManagerTyped, PoolTyped, RecordTyped, CallersTyped, RequestsTyped,
            Places, Holders, TypeOK

LEMMA InitTyped == PInit => Typed
<1>. SUFFICES ASSUME PInit PROVE Typed
  OBVIOUS
<1>. USE SandboxAssumption, PipelineAssumption DEF PInit, Init
<1>1. ManagerTyped
  BY DEF ManagerTyped
<1>2. PoolTyped
  <2>1. Cardinality({}) = 0 /\ <<>> \in Seq(Threads)
    BY FS_EmptySet
  <2>. QED BY <2>1 DEF PoolTyped
<1>3. RecordTyped
  BY DEF RecordTyped, Health
<1>4. CallersTyped /\ InBox
  <2>1. NoChange \in [old : Health, new : Health]
    BY DEF NoChange, Health
  <2>. QED BY <2>1 DEF CallersTyped, Places, InBox
<1>5. RequestsTyped
  <2>1. Holders = {}
    BY DEF Holders
  <2>2. active = 0 /\ Cardinality(Holders) = 0
    BY <2>1, FS_EmptySet
  <2>3. active <= Limit
    BY <2>2
  <2>4. registryHealth = "unknown" /\ available = FALSE
    OBVIOUS
  <2>5. req \in [Threads -> {"idle", "resolved", "checked", "admitted", "executing", "releasing"}]
    OBVIOUS
  <2>. HIDE DEF PInit, Init
  <2>. QED BY <2>2, <2>3, <2>4, <2>5 DEF RequestsTyped
<1>. QED BY <1>1, <1>2, <1>3, <1>4, <1>5 DEF Typed

-----------------------------------------------------------------------------
(* The steps that move each group of variables.                            *)
manager == <<live, made, closing, open>>

LEMMA ManagerSteps ==
  [PNext]_pvars =>
    CreateSandbox \/ RemoveSandbox \/ (\E b \in Boxes : Shutdown(b)) \/ UNCHANGED manager
BY Zenon DEF PNext, pvars, vars, pipeline, manager, Serve, Background, Resolve, Check, TryAcquire, Enter,
   Execute, ReportHealth, Report, Release, Submit, TimesOut, Record, Answers, Raises, Return,
   Start, ZombieEnds, Cure, MarkReady, MarkHealthy, MarkUnavailable

LEMMA PoolSteps ==
  [PNext]_pvars =>
    \/ \E t \in Threads : Submit(t) \/ Answers(t) \/ Raises(t) \/ TimesOut(t)
    \/ \E b \in Boxes : Start(b) \/ ZombieEnds(b)
    \/ UNCHANGED pool
BY DEF PNext, pvars, vars, pipeline, pool, Serve, Background, Resolve, Check, TryAcquire, Enter,
   Execute, ReportHealth, Report, Release, Record,
   CreateSandbox, RemoveSandbox, Shutdown, Cure, MarkReady, MarkHealthy, MarkUnavailable

LEMMA RecordSteps == [PNext]_pvars => (\E t \in Threads : Record(t)) \/ UNCHANGED record
BY DEF PNext, pvars, vars, pipeline, record, Serve, Background, Resolve, Check, TryAcquire, Enter,
   Execute, ReportHealth, Report, Release, Submit, TimesOut, Answers, Raises, Return,
   Start, ZombieEnds, CreateSandbox, RemoveSandbox, Shutdown, Cure, MarkReady, MarkHealthy,
   MarkUnavailable

LEMMA CallerSteps ==
  [PNext]_pvars =>
    \/ \E t \in Threads : Enter(t) \/ ReportHealth(t) \/ Release(t) \/ Resolve(t) \/ Check(t) \/ TryAcquire(t)
    \/ /\ \E t \in Threads : Submit(t) \/ TimesOut(t) \/ Record(t) \/ Answers(t) \/ Raises(t)
       /\ UNCHANGED pipeline
    \/ UNCHANGED <<pc, box, stage, change, told, active, req>>
BY DEF PNext, pvars, vars, pipeline, Serve, Background, 
   Start, ZombieEnds, CreateSandbox, RemoveSandbox, Shutdown, Cure, MarkReady, MarkHealthy,
   MarkUnavailable

-----------------------------------------------------------------------------
LEMMA ManagerKept == Typed /\ [PNext]_pvars => ManagerTyped'
<1>. SUFFICES ASSUME Typed, [PNext]_pvars PROVE ManagerTyped'
  OBVIOUS
<1>. USE DEF Typed, ManagerTyped, Boxes
<1>1. CASE CreateSandbox
  BY <1>1, SandboxAssumption DEF CreateSandbox
<1>2. CASE RemoveSandbox
  BY <1>2 DEF RemoveSandbox
<1>3. ASSUME NEW b \in Boxes, Shutdown(b) PROVE ManagerTyped'
  BY <1>3 DEF Shutdown
<1>. QED BY <1>1, <1>2, <1>3, ManagerSteps DEF manager

(* A task that is taken out of the queue leaves the others in it.          *)
LEMMA WithoutProperties ==
  ASSUME NEW q \in Seq(Threads), NEW t,
         \A i, j \in DOMAIN q : q[i] = q[j] => i = j
  PROVE  /\ Without(q, t) \in Seq(Threads)
         /\ Range(Without(q, t)) = Range(q) \ {t}
         /\ \A i, j \in DOMAIN Without(q, t) : Without(q, t)[i] = Without(q, t)[j] => i = j
<1>0. Len(q) \in Nat /\ DOMAIN q = 1..Len(q) /\ \A i \in 1..Len(q) : q[i] \in Threads
  BY LenProperties
<1>1. CASE t \notin Range(q)
  BY <1>1 DEF Without
<1>2. CASE t \in Range(q)
  <2>. DEFINE k == CHOOSE i \in DOMAIN q : q[i] = t
              r == SubSeq(q, 1, k - 1)
              u == SubSeq(q, k + 1, Len(q))
              w == r \o u
  <2>1. k \in 1..Len(q) /\ q[k] = t
    BY <1>0, <1>2 DEF Range
  <2>2. Without(q, t) = w
    BY <1>2 DEF Without, RemoveAt
  <2>. HIDE DEF k
  <2>3. /\ r \in Seq(Threads) /\ Len(r) = k - 1
        /\ \A i \in 1..(k - 1) : r[i] = q[i]
    <3>1. k - 1 \in Int /\ \A i \in 1..(k - 1) : q[i] \in Threads
      BY <1>0, <2>1
    <3>. HIDE DEF r
    <3>2. /\ SubSeq(q, 1, k - 1) \in Seq(Threads)
          /\ Len(SubSeq(q, 1, k - 1)) = IF 1 <= k - 1 THEN k - 1 - 1 + 1 ELSE 0
          /\ \A i \in 1..(k - 1 - 1 + 1) : SubSeq(q, 1, k - 1)[i] = q[1 + i - 1]
      BY <3>1, SubSeqProperties
    <3>. QED BY <1>0, <2>1, <3>2 DEF r
  <2>4. /\ u \in Seq(Threads) /\ Len(u) = Len(q) - k
        /\ \A i \in 1..(Len(q) - k) : u[i] = q[k + i]
    <3>1. k + 1 \in Int /\ Len(q) \in Int /\ \A i \in (k + 1)..Len(q) : q[i] \in Threads
      BY <1>0, <2>1
    <3>. HIDE DEF u
    <3>2. /\ SubSeq(q, k + 1, Len(q)) \in Seq(Threads)
          /\ Len(SubSeq(q, k + 1, Len(q))) = IF k + 1 <= Len(q) THEN Len(q) - (k + 1) + 1 ELSE 0
          /\ \A i \in 1..(Len(q) - (k + 1) + 1) : SubSeq(q, k + 1, Len(q))[i] = q[k + 1 + i - 1]
      BY <3>1, SubSeqProperties
    <3>3. /\ k + 1 <= Len(q) => Len(q) - (k + 1) + 1 = Len(q) - k
          /\ ~(k + 1 <= Len(q)) => 0 = Len(q) - k
          /\ Len(q) - (k + 1) + 1 = Len(q) - k
      <4>1. \A n \in Nat : \A m \in 1..n :
              /\ m + 1 <= n => n - (m + 1) + 1 = n - m
              /\ ~(m + 1 <= n) => 0 = n - m
              /\ n - (m + 1) + 1 = n - m
        OBVIOUS
      <4>. QED BY <1>0, <2>1, <4>1
    <3>4. ASSUME NEW i \in 1..(Len(q) - k)
          PROVE  SubSeq(q, k + 1, Len(q))[i] = q[k + i]
      <4>1. i \in 1..(Len(q) - (k + 1) + 1) /\ k + 1 + i - 1 = k + i
        <5>1. \A n \in Nat : \A m \in 1..n : \A j \in 1..(n - m) : m + 1 + j - 1 = m + j
          OBVIOUS
        <5>. QED BY <1>0, <2>1, <3>3, <5>1
      <4>. QED BY <3>2, <4>1
    <3>. QED BY <3>2, <3>3, <3>4 DEF u
  <2>. HIDE DEF r, u, w
  <2>5. /\ w \in Seq(Threads) /\ Len(w) = Len(q) - 1
        /\ \A i \in 1..(Len(q) - 1) : w[i] = IF i < k THEN q[i] ELSE q[i + 1]
    <3>1. /\ w \in Seq(Threads) /\ Len(w) = Len(r) + Len(u)
          /\ \A i \in 1..(Len(r) + Len(u)) : w[i] = IF i <= Len(r) THEN r[i] ELSE u[i - Len(r)]
      <4>0. r \in Seq(Threads) /\ u \in Seq(Threads)
        BY <2>3, <2>4
      <4>1. /\ r \o u \in Seq(Threads) /\ Len(r \o u) = Len(r) + Len(u)
            /\ \A i \in 1..(Len(r) + Len(u)) :
                 (r \o u)[i] = IF i <= Len(r) THEN r[i] ELSE u[i - Len(r)]
        BY <4>0, ConcatProperties, Zenon
      <4>. QED BY <4>1 DEF w
    <3>2. Len(r) + Len(u) = Len(q) - 1
      BY <1>0, <2>1, <2>3, <2>4
    <3>3. ASSUME NEW i \in 1..(Len(q) - 1) PROVE w[i] = IF i < k THEN q[i] ELSE q[i + 1]
      <4>1. CASE i < k
        BY <1>0, <2>1, <2>3, <3>1, <3>2, <4>1
      <4>2. CASE i >= k
        <5>1. i - Len(r) \in 1..(Len(q) - k) /\ k + (i - Len(r)) = i + 1
          BY <1>0, <2>1, <2>3, <4>2
        <5>2. w[i] = u[i - Len(r)]
          BY <1>0, <2>1, <2>3, <3>1, <3>2, <4>2
        <5>. QED BY <1>0, <2>1, <2>4, <4>2, <5>1, <5>2
      <4>. QED BY <1>0, <2>1, <4>1, <4>2
    <3>. QED BY <3>1, <3>2, <3>3
  <2>6. DOMAIN w = 1..(Len(q) - 1)
    BY <2>5, LenProperties
  <2>7. Range(w) = Range(q) \ {t}
    <3>1. ASSUME NEW x \in Range(w) PROVE x \in Range(q) \ {t}
      <4>1. PICK i \in 1..(Len(q) - 1) : x = w[i]
        BY <2>6 DEF Range
      <4>2. CASE i < k
        BY <1>0, <2>1, <2>5, <4>1, <4>2 DEF Range
      <4>3. CASE i >= k
        <5>1. i + 1 \in 1..Len(q) /\ i + 1 # k /\ x = q[i + 1]
          BY <1>0, <2>1, <2>5, <4>1, <4>3
        <5>. QED BY <1>0, <2>1, <5>1 DEF Range
      <4>. QED BY <1>0, <2>1, <4>2, <4>3
    <3>2. ASSUME NEW x \in Range(q) \ {t} PROVE x \in Range(w)
      <4>1. PICK i \in 1..Len(q) : x = q[i] /\ i # k
        BY <1>0, <2>1 DEF Range
      <4>2. CASE i < k
        BY <1>0, <2>1, <2>5, <2>6, <4>1, <4>2 DEF Range
      <4>3. CASE i > k
        <5>1. i - 1 \in 1..(Len(q) - 1) /\ w[i - 1] = x
          BY <1>0, <2>1, <2>5, <4>1, <4>3
        <5>. QED BY <2>6, <5>1 DEF Range
      <4>. QED BY <1>0, <2>1, <4>1, <4>2, <4>3
    <3>. QED BY <3>1, <3>2
  <2>8. ASSUME NEW i \in DOMAIN w, NEW j \in DOMAIN w, w[i] = w[j] PROVE i = j
    <3>. DEFINE I(x) == IF x < k THEN x ELSE x + 1
    <3>1. I(i) \in DOMAIN q /\ I(j) \in DOMAIN q /\ q[I(i)] = q[I(j)]
      BY <1>0, <2>1, <2>5, <2>6, <2>8
    <3>2. I(i) = I(j)
      BY <3>1
    <3>. QED BY <1>0, <2>1, <2>6, <3>2
  <2>. QED BY <2>2, <2>5, <2>7, <2>8
<1>. QED BY <1>1, <1>2

LEMMA AppendTask ==
  ASSUME NEW q \in Seq(Threads), NEW t \in Threads \ Range(q),
         \A i, j \in DOMAIN q : q[i] = q[j] => i = j
  PROVE  /\ Append(q, t) \in Seq(Threads)
         /\ Range(Append(q, t)) = Range(q) \union {t}
         /\ \A i, j \in DOMAIN Append(q, t) : Append(q, t)[i] = Append(q, t)[j] => i = j
<1>. DEFINE n == Len(q)
<1>1. n \in Nat /\ DOMAIN q = 1..n
  BY LenProperties
<1>2. /\ Append(q, t) \in Seq(Threads) /\ DOMAIN Append(q, t) = 1..(n + 1)
      /\ \A i \in 1..n : Append(q, t)[i] = q[i]
      /\ Append(q, t)[n + 1] = t
  BY AppendProperties, LenProperties
<1>. HIDE DEF n
<1>3. \A i \in 1..(n + 1) : i \in 1..n \/ i = n + 1
  BY <1>1
<1>4. Range(Append(q, t)) = Range(q) \union {t}
  <2>1. n + 1 \in 1..(n + 1) /\ \A i \in 1..n : i \in 1..(n + 1)
    BY <1>1
  <2>. QED BY <1>1, <1>2, <1>3, <2>1 DEF Range
<1>5. \A i \in 1..n : q[i] # t
  BY <1>1 DEF Range
<1>. QED BY <1>1, <1>2, <1>3, <1>4, <1>5

LEMMA TailTask ==
  ASSUME NEW q \in Seq(Threads), q # <<>>,
         \A i, j \in DOMAIN q : q[i] = q[j] => i = j
  PROVE  /\ Tail(q) \in Seq(Threads) /\ Head(q) \in Range(q)
         /\ Range(Tail(q)) = Range(q) \ {Head(q)}
         /\ \A i, j \in DOMAIN Tail(q) : Tail(q)[i] = Tail(q)[j] => i = j
<1>. DEFINE n == Len(q)
<1>1. n \in Nat \ {0} /\ DOMAIN q = 1..n /\ Head(q) = q[1]
  BY LenProperties, EmptySeq
<1>2. /\ Tail(q) \in Seq(Threads) /\ DOMAIN Tail(q) = 1..(n - 1)
      /\ \A i \in 1..(n - 1) : Tail(q)[i] = q[i + 1]
  BY HeadTailProperties, LenProperties
<1>. HIDE DEF n
<1>3. \A i \in 1..n : i = 1 \/ (i - 1 \in 1..(n - 1) /\ (i - 1) + 1 = i)
  BY <1>1
<1>4. \A i \in 1..(n - 1) : i + 1 \in 1..n /\ i + 1 # 1
  BY <1>1
<1>5. 1 \in 1..n
  BY <1>1
<1>6. Range(Tail(q)) = Range(q) \ {Head(q)}
  <2>1. ASSUME NEW x \in Range(Tail(q)) PROVE x \in Range(q) \ {Head(q)}
    <3>1. PICK i \in 1..(n - 1) : x = q[i + 1]
      BY <1>2 DEF Range
    <3>. QED BY <1>1, <1>4, <1>5, <3>1 DEF Range
  <2>2. ASSUME NEW x \in Range(q) \ {Head(q)} PROVE x \in Range(Tail(q))
    <3>1. PICK i \in 1..n : x = q[i] /\ i # 1
      BY <1>1 DEF Range
    <3>2. i - 1 \in 1..(n - 1) /\ Tail(q)[i - 1] = x
      BY <1>2, <1>3, <3>1
    <3>. QED BY <1>2, <3>2 DEF Range
  <2>. QED BY <2>1, <2>2
<1>7. ASSUME NEW i \in 1..(n - 1), NEW j \in 1..(n - 1), Tail(q)[i] = Tail(q)[j] PROVE i = j
  <2>1. i + 1 = j + 1
    BY <1>1, <1>2, <1>4, <1>7
  <2>. QED BY <1>1, <2>1
<1>8. Tail(q) \in Seq(Threads) /\ DOMAIN Tail(q) = 1..(n - 1)
  BY <1>2
<1>9. Head(q) \in Range(q)
  BY <1>1, <1>5 DEF Range
<1>10. \A i, j \in DOMAIN Tail(q) : Tail(q)[i] = Tail(q)[j] => i = j
  BY <1>7, <1>8
<1>. QED BY <1>6, <1>8, <1>9, <1>10

-----------------------------------------------------------------------------
(* The pool of a box after a step: its queue, its runs and who waits in it.*)
LEMMA OneBox ==
  ASSUME Typed, OneTaskEach, NEW b \in Boxes, NEW q \in Seq(Threads), NEW r \in SUBSET Threads,
         NEW z \in Nat,
         queue' = [queue EXCEPT ![b] = q], runs' = [runs EXCEPT ![b] = r],
         zombies' = [zombies EXCEPT ![b] = z],
         Cardinality(r) + z <= Workers,
         \A i, j \in DOMAIN q : q[i] = q[j] => i = j,
         Range(q) \intersect r = {},
         Range(q) \union r = Waiters(b)',
         \A c \in Boxes \ {b} : Waiters(c)' = Waiters(c)
  PROVE  PoolTyped' /\ OneTaskEach'
<1>1. /\ queue \in [Boxes -> Seq(Threads)] /\ runs \in [Boxes -> SUBSET Threads]
      /\ zombies \in [Boxes -> Nat]
  BY DEF Typed, PoolTyped
<1>2. PoolTyped'
  BY <1>1 DEF Typed, PoolTyped
<1>3. /\ queue'[b] = q /\ runs'[b] = r
      /\ \A c \in Boxes \ {b} : queue'[c] = queue[c] /\ runs'[c] = runs[c]
  BY <1>1
<1>4. OneTaskEach'
  BY <1>3 DEF OneTaskEach
<1>. QED BY <1>2, <1>4

LEMMA SubmitPool ==
  ASSUME Typed, OneTaskEach, NEW t \in Threads, NEW b \in Boxes, box[t] = b,
         Submit(t) PROVE PoolTyped' /\ OneTaskEach'
<1>1. /\ queue \in [Boxes -> Seq(Threads)] /\ runs \in [Boxes -> SUBSET Threads]
      /\ zombies \in [Boxes -> Nat] /\ pc \in [Threads -> Places] /\ UNCHANGED <<runs, zombies, box>>
  BY DEF Typed, PoolTyped, CallersTyped, Submit
<1>2. pc[t] = "stage" /\ b \in Boxes
  BY DEF Submit, Typed, InBox, CallersTyped
<1>3. CASE open[b]
  <2>1. queue' = [queue EXCEPT ![b] = Append(@, t)] /\ pc' = [pc EXCEPT ![t] = "waiting"]
    BY <1>3 DEF Submit
  <2>2. t \notin Range(queue[b]) /\ t \notin runs[b]
    BY <1>2 DEF OneTaskEach, Waiters
  <2>. DEFINE q == Append(queue[b], t)
  <2>3. /\ q \in Seq(Threads) /\ Range(q) = Range(queue[b]) \union {t}
        /\ \A i, j \in DOMAIN q : q[i] = q[j] => i = j
    BY <1>1, <1>2, <2>2, AppendTask DEF OneTaskEach
  <2>4. /\ Waiters(b)' = Waiters(b) \union {t}
        /\ \A c \in Boxes \ {b} : Waiters(c)' = Waiters(c)
    BY <1>1, <1>2, <2>1 DEF Waiters
  <2>5. queue' = [queue EXCEPT ![b] = q] /\ runs' = [runs EXCEPT ![b] = runs[b]]
        /\ zombies' = [zombies EXCEPT ![b] = zombies[b]]
    BY <1>1, <1>2, <2>1
  <2>6. Range(q) \intersect runs[b] = {} /\ Range(q) \union runs[b] = Waiters(b)'
    BY <1>2, <2>2, <2>3, <2>4 DEF OneTaskEach
  <2>7. Cardinality(runs[b]) + zombies[b] <= Workers /\ runs[b] \in SUBSET Threads /\ zombies[b] \in Nat
    BY <1>1, <1>2 DEF Typed, PoolTyped
  <2>. HIDE DEF q
  <2>. QED BY <1>1, <1>2, <2>3, <2>4, <2>5, <2>6, <2>7, OneBox
<1>4. CASE ~open[b]
  <2>1. queue' = queue /\ pc' = [pc EXCEPT ![t] = "failed"]
    BY <1>4 DEF Submit
  <2>2. \A c \in Boxes : Waiters(c)' = Waiters(c)
    BY <1>1, <1>2, <2>1 DEF Waiters
  <2>. QED BY <1>1, <2>1, <2>2 DEF Typed, PoolTyped, OneTaskEach
<1>. QED BY <1>3, <1>4

LEMMA StartPool ==
  ASSUME Typed, OneTaskEach, NEW b \in Boxes, Start(b) PROVE PoolTyped' /\ OneTaskEach'
<1>1. /\ queue \in [Boxes -> Seq(Threads)] /\ runs \in [Boxes -> SUBSET Threads]
      /\ zombies \in [Boxes -> Nat] /\ UNCHANGED <<zombies, pc, box>> /\ queue[b] # <<>>
  BY DEF Typed, PoolTyped, Start
<1>. DEFINE t == Head(queue[b])
            q == Tail(queue[b])
            r == runs[b] \union {t}
<1>2. /\ q \in Seq(Threads) /\ t \in Range(queue[b]) /\ Range(q) = Range(queue[b]) \ {t}
      /\ \A i, j \in DOMAIN q : q[i] = q[j] => i = j
  BY <1>1, TailTask DEF OneTaskEach
<1>3. t \in Threads
  BY <1>1, <1>2, LenProperties DEF Range
<1>4. Cardinality(r) + zombies[b] <= Workers
  <2>1. IsFiniteSet(runs[b]) /\ Cardinality(runs[b]) \in Nat
    BY <1>1, FS_Subset, FS_CardinalityType, SandboxAssumption
  <2>2. Cardinality(r) = IF t \in runs[b] THEN Cardinality(runs[b]) ELSE Cardinality(runs[b]) + 1
    BY <2>1, FS_AddElement
  <2>3. Cardinality(runs[b]) + zombies[b] < Workers /\ zombies[b] \in Nat
    BY <1>1 DEF Start, HasWorker
  <2>. HIDE DEF r
  <2>. QED BY <2>1, <2>2, <2>3, SandboxAssumption
<1>5. queue' = [queue EXCEPT ![b] = q] /\ runs' = [runs EXCEPT ![b] = r]
      /\ zombies' = [zombies EXCEPT ![b] = zombies[b]]
  BY <1>1 DEF Start
<1>6. \A c \in Boxes : Waiters(c)' = Waiters(c)
  BY <1>1 DEF Waiters
<1>7. Range(q) \intersect r = {} /\ Range(q) \union r = Waiters(b)'
  BY <1>2, <1>6 DEF OneTaskEach
<1>8. zombies[b] \in Nat /\ r \in SUBSET Threads
  BY <1>1, <1>3
<1>. HIDE DEF q, r
<1>. QED BY <1>2, <1>4, <1>5, <1>6, <1>7, <1>8, OneBox

LEMMA ReturnPool ==
  ASSUME Typed, OneTaskEach, NEW t \in Threads, NEW b \in Boxes, box[t] = b,
         Answers(t) \/ Raises(t)
  PROVE  PoolTyped' /\ OneTaskEach'
<1>. DEFINE r == runs[b] \ {t}
<1>1. /\ queue \in [Boxes -> Seq(Threads)] /\ runs \in [Boxes -> SUBSET Threads]
      /\ zombies \in [Boxes -> Nat] /\ pc \in [Threads -> Places] /\ UNCHANGED <<queue, zombies, box>>
  BY DEF Typed, PoolTyped, CallersTyped, Answers, Raises, Return
<1>2. /\ pc[t] = "waiting" /\ b \in Boxes /\ t \in runs[b]
      /\ \E p \in {"stage", "succeeded", "failed"} : pc' = [pc EXCEPT ![t] = p]
      /\ runs' = [runs EXCEPT ![b] = r]
  BY DEF Answers, Raises, Return, Typed, InBox, CallersTyped
<1>3. Cardinality(r) + zombies[b] <= Workers
  <2>1. IsFiniteSet(runs[b]) /\ Cardinality(runs[b]) \in Nat
    BY <1>1, <1>2, FS_Subset, FS_CardinalityType, SandboxAssumption
  <2>2. Cardinality(r) = Cardinality(runs[b]) - 1
    BY <1>2, <2>1, FS_RemoveElement
  <2>3. Cardinality(runs[b]) + zombies[b] <= Workers /\ zombies[b] \in Nat
    BY <1>1, <1>2 DEF Typed, PoolTyped
  <2>. HIDE DEF r
  <2>. QED BY <2>1, <2>2, <2>3, SandboxAssumption
<1>4. Waiters(b)' = Waiters(b) \ {t} /\ \A c \in Boxes \ {b} : Waiters(c)' = Waiters(c)
  BY <1>1, <1>2 DEF Waiters
<1>5. Range(queue[b]) \intersect r = {} /\ Range(queue[b]) \union r = Waiters(b)'
      /\ \A i, j \in DOMAIN queue[b] : queue[b][i] = queue[b][j] => i = j
  BY <1>2, <1>4 DEF OneTaskEach
<1>6. /\ queue' = [queue EXCEPT ![b] = queue[b]] /\ zombies' = [zombies EXCEPT ![b] = zombies[b]]
      /\ queue[b] \in Seq(Threads) /\ zombies[b] \in Nat /\ r \in SUBSET Threads
  BY <1>1, <1>2
<1>. HIDE DEF r
<1>. QED BY <1>2, <1>3, <1>4, <1>5, <1>6, OneBox

LEMMA TimesOutPool ==
  ASSUME Typed, OneTaskEach, NEW t \in Threads, NEW b \in Boxes, box[t] = b,
         TimesOut(t) PROVE PoolTyped' /\ OneTaskEach'
<1>. DEFINE q == Without(queue[b], t)
            r == runs[b] \ {t}
            z == IF t \in runs[b] THEN zombies[b] + 1 ELSE zombies[b]
<1>1. /\ queue \in [Boxes -> Seq(Threads)] /\ runs \in [Boxes -> SUBSET Threads]
      /\ zombies \in [Boxes -> Nat] /\ pc \in [Threads -> Places] /\ UNCHANGED box
  BY DEF Typed, PoolTyped, CallersTyped, TimesOut
<1>2. /\ pc[t] = "waiting" /\ b \in Boxes /\ pc' = [pc EXCEPT ![t] = "failed"]
      /\ queue' = [queue EXCEPT ![b] = q] /\ runs' = [runs EXCEPT ![b] = r]
      /\ zombies' = [zombies EXCEPT ![b] = z]
  BY DEF TimesOut, Typed, InBox, CallersTyped
<1>3. Cardinality(r) + z <= Workers
  <2>1. IsFiniteSet(runs[b]) /\ Cardinality(runs[b]) \in Nat
    BY <1>1, <1>2, FS_Subset, FS_CardinalityType, SandboxAssumption
  <2>2. Cardinality(r) = IF t \in runs[b] THEN Cardinality(runs[b]) - 1 ELSE Cardinality(runs[b])
    BY <2>1, FS_RemoveElement
  <2>3. Cardinality(runs[b]) + zombies[b] <= Workers /\ zombies[b] \in Nat
    BY <1>1, <1>2 DEF Typed, PoolTyped
  <2>. HIDE DEF r
  <2>. QED BY <2>1, <2>2, <2>3, SandboxAssumption
<1>4. Waiters(b)' = Waiters(b) \ {t} /\ \A c \in Boxes \ {b} : Waiters(c)' = Waiters(c)
  BY <1>1, <1>2 DEF Waiters
<1>5. /\ q \in Seq(Threads) /\ Range(q) = Range(queue[b]) \ {t}
      /\ \A i, j \in DOMAIN q : q[i] = q[j] => i = j
  BY <1>1, <1>2, WithoutProperties DEF OneTaskEach
<1>6. Range(q) \intersect r = {} /\ Range(q) \union r = Waiters(b)'
  BY <1>2, <1>4, <1>5 DEF OneTaskEach
<1>7. z \in Nat /\ r \in SUBSET Threads
  BY <1>1, <1>2
<1>. HIDE DEF q, r, z
<1>. QED BY <1>2, <1>3, <1>4, <1>5, <1>6, <1>7, OneBox

LEMMA ZombiePool ==
  ASSUME Typed, OneTaskEach, NEW b \in Boxes, ZombieEnds(b) PROVE PoolTyped' /\ OneTaskEach'
<1>1. /\ UNCHANGED <<queue, runs, pc, box>> /\ zombies' = [zombies EXCEPT ![b] = @ - 1]
      /\ zombies[b] > 0
  BY DEF ZombieEnds
<1>2. \A c \in Boxes : Cardinality(runs[c]) \in Nat
  BY FS_Subset, FS_CardinalityType, SandboxAssumption DEF Typed, PoolTyped
<1>3. PoolTyped'
  BY <1>1, <1>2, SandboxAssumption DEF Typed, PoolTyped
<1>4. OneTaskEach'
  BY <1>1 DEF OneTaskEach, Waiters
<1>. QED BY <1>3, <1>4

(* Every other step of a caller leaves who waits alone.                    *)
LEMMA OtherPool ==
  ASSUME Typed, OneTaskEach, [PNext]_pvars, UNCHANGED pool,
         \A t \in Threads : ~(Submit(t) \/ Answers(t) \/ Raises(t) \/ TimesOut(t))
  PROVE  PoolTyped' /\ OneTaskEach'
<1>1. pc \in [Threads -> Places] /\ box \in [Threads -> Boxes \union {None}]
  BY DEF Typed, CallersTyped
<1>2. ASSUME NEW t \in Threads, pc[t] # "waiting", NEW p \in {"idle", "stage", "reporting"},
             pc' = [pc EXCEPT ![t] = p],
             \A u \in Threads \ {t} : box'[u] = box[u]
      PROVE  \A b \in Boxes : Waiters(b)' = Waiters(b)
  BY <1>1, <1>2 DEF Waiters
<1>3. CASE UNCHANGED <<pc, box>>
  BY <1>3 DEF pool, Typed, PoolTyped, OneTaskEach, Waiters
<1>4. ASSUME NEW t \in Threads, Enter(t) \/ ReportHealth(t) \/ Record(t)
      PROVE  \A b \in Boxes : Waiters(b)' = Waiters(b)
  <2>1. CASE Record(t)
    <3>1. /\ pc[t] # "waiting" /\ \E p \in {"idle", "reporting"} : pc' = [pc EXCEPT ![t] = p]
          /\ \A u \in Threads \ {t} : box'[u] = box[u]
      BY <1>1, <2>1 DEF Record, Leave
    <3>. QED BY <1>2, <3>1
  <2>2. CASE Enter(t) /\ UNCHANGED vars
    BY <2>2 DEF vars, Waiters
  <2>3. CASE Execute(t) \/ Report(t)
    <3>1. /\ pc[t] # "waiting" /\ \E p \in {"idle", "stage"} : pc' = [pc EXCEPT ![t] = p]
          /\ \A u \in Threads \ {t} : box'[u] = box[u]
      BY <1>1, <2>3 DEF Execute, Report, Leave
    <3>. QED BY <1>2, <3>1
  <2>. QED BY <1>4, <2>1, <2>2, <2>3 DEF Enter, ReportHealth
<1>5. ASSUME NEW t \in Threads, Release(t) \/ Resolve(t) \/ Check(t) \/ TryAcquire(t)
      PROVE  UNCHANGED <<pc, box>>
  BY <1>5 DEF Release, Resolve, Check, TryAcquire, vars
<1>. QED BY <1>3, <1>4, <1>5, CallerSteps DEF pool, Typed, PoolTyped, OneTaskEach

LEMMA PoolKept == Typed /\ OneTaskEach /\ [PNext]_pvars => PoolTyped' /\ OneTaskEach'
<1>. SUFFICES ASSUME Typed, OneTaskEach, [PNext]_pvars PROVE PoolTyped' /\ OneTaskEach'
  OBVIOUS
<1>1. \A t \in Threads : Submit(t) \/ Answers(t) \/ Raises(t) \/ TimesOut(t) => box[t] \in Boxes
  BY DEF Submit, Answers, Raises, Return, TimesOut, Typed, InBox, CallersTyped
<1>2. ASSUME NEW t \in Threads, Submit(t) \/ Answers(t) \/ Raises(t) \/ TimesOut(t)
      PROVE  PoolTyped' /\ OneTaskEach'
  <2>1. PICK b \in Boxes : box[t] = b
    BY <1>1, <1>2
  <2>. QED BY <1>2, <2>1, SubmitPool, ReturnPool, TimesOutPool
<1>. QED BY <1>2, StartPool, ZombiePool, OtherPool, PoolSteps

-----------------------------------------------------------------------------
(* Health.                                                                 *)
Agree(h, f, s) ==
  /\ f = 0 \/ s = 0
  /\ f >= UnhealthyThreshold => h = "unhealthy"
  /\ f >= DegradedThreshold => h # "healthy"
  /\ h = "unhealthy" => s < RecoveryThreshold \div 2
  /\ h = "degraded" => s < RecoveryThreshold

Streaks == \A b \in Boxes : Agree(health[b], fails[b], succs[b])

LEMMA Half == RecoveryThreshold \div 2 \in Nat /\ 1 <= RecoveryThreshold \div 2
              /\ RecoveryThreshold \div 2 <= RecoveryThreshold
BY SandboxAssumption

(* A success ends the failures, a failure the successes, and the health    *)
(* that is determined of them agrees with both.                            *)
LEMMA OutcomeAgrees ==
  ASSUME NEW h \in Health, NEW f \in 0..UnhealthyThreshold, NEW s \in 0..RecoveryThreshold,
         Agree(h, f, s), NEW f2, NEW s2,
         \/ f2 = 0 /\ s2 = UpTo(s + 1, RecoveryThreshold)
         \/ f2 = UpTo(f + 1, UnhealthyThreshold) /\ s2 = 0
  PROVE  /\ f2 \in 0..UnhealthyThreshold /\ s2 \in 0..RecoveryThreshold
         /\ DetermineHealth(h, f2, s2) \in Health
         /\ Agree(DetermineHealth(h, f2, s2), f2, s2)
<1>. DEFINE half == RecoveryThreshold \div 2
<1>1. half \in Nat /\ 1 <= half /\ half <= RecoveryThreshold
  BY Half
<1>2. f2 \in 0..UnhealthyThreshold /\ s2 \in 0..RecoveryThreshold
  BY SandboxAssumption DEF UpTo
<1>3. f2 = 0 \/ s2 = 0
  OBVIOUS
<1>4. CASE f2 >= UnhealthyThreshold
  <2>1. DetermineHealth(h, f2, s2) = "unhealthy"
    BY <1>2, <1>4, SandboxAssumption DEF DetermineHealth
  <2>2. s2 = 0
    BY <1>3, <1>4, SandboxAssumption
  <2>. QED BY <1>1, <1>2, <2>1, <2>2 DEF Agree, Health
<1>5. CASE ~(f2 >= UnhealthyThreshold) /\ f2 >= DegradedThreshold
  <2>1. f2 < UnhealthyThreshold
    BY <1>2, <1>5, SandboxAssumption
  <2>2. DetermineHealth(h, f2, s2) = "degraded"
    BY <1>2, <1>5, <2>1, SandboxAssumption DEF DetermineHealth
  <2>3. s2 = 0
    BY <1>3, <1>5, SandboxAssumption
  <2>. QED BY <1>2, <1>5, <2>2, <2>3, SandboxAssumption DEF Agree, Health
<1>6. CASE ~(f2 >= DegradedThreshold)
  <2>1. ~(f2 >= UnhealthyThreshold) /\ f2 < DegradedThreshold
    BY <1>2, <1>6, SandboxAssumption
  <2>2. DetermineHealth(h, f2, s2) =
          IF h # "healthy" /\ s2 >= RecoveryThreshold THEN "healthy"
          ELSE IF h = "unhealthy" /\ s2 < RecoveryThreshold /\ s2 >= half THEN "degraded" ELSE h
    BY <1>1, <1>2, <1>6, <2>1, SandboxAssumption DEF DetermineHealth
  <2>. HIDE DEF half
  <2>3. DetermineHealth(h, f2, s2) \in Health
    BY <2>2 DEF Health
  <2>4. /\ DetermineHealth(h, f2, s2) = "unhealthy" => s2 < half
        /\ DetermineHealth(h, f2, s2) = "degraded" => s2 < RecoveryThreshold
    BY <1>1, <1>2, <2>2, SandboxAssumption
  <2>. QED BY <1>2, <1>3, <1>6, <2>1, <2>3, <2>4 DEF Agree, half
<1>. QED BY <1>4, <1>5, <1>6

LEMMA RecordKept == Typed /\ Streaks /\ [PNext]_pvars => RecordTyped' /\ Streaks'
<1>. SUFFICES ASSUME Typed, Streaks, [PNext]_pvars PROVE RecordTyped' /\ Streaks'
  OBVIOUS
<1>1. CASE UNCHANGED record
  BY <1>1 DEF record, Typed, RecordTyped, Streaks
<1>2. ASSUME NEW t \in Threads, Record(t) PROVE RecordTyped' /\ Streaks'
  <2>1. PICK b \in Boxes : box[t] = b
    BY <1>2 DEF Record, Typed, InBox, CallersTyped
  <2>. DEFINE ok == pc[t] = "succeeded"
              f2 == FailStreak(b, ok)
              s2 == SuccStreak(b, ok)
              h2 == DetermineHealth(health[b], f2, s2)
  <2>2. /\ fails' = [fails EXCEPT ![b] = f2] /\ succs' = [succs EXCEPT ![b] = s2]
        /\ health' = [health EXCEPT ![b] = h2]
    BY <1>2, <2>1 DEF Record, HealthAfter
  <2>3. \/ f2 = 0 /\ s2 = UpTo(succs[b] + 1, RecoveryThreshold)
        \/ f2 = UpTo(fails[b] + 1, UnhealthyThreshold) /\ s2 = 0
    BY DEF FailStreak, SuccStreak
  <2>4. /\ health \in [Boxes -> Health] /\ fails \in [Boxes -> 0..UnhealthyThreshold]
        /\ succs \in [Boxes -> 0..RecoveryThreshold]
    BY DEF Typed, RecordTyped
  <2>5. Agree(health[b], fails[b], succs[b])
    BY DEF Streaks
  <2>. HIDE DEF ok, f2, s2
  <2>6. f2 \in 0..UnhealthyThreshold /\ s2 \in 0..RecoveryThreshold /\ h2 \in Health
        /\ Agree(h2, f2, s2)
    BY <2>3, <2>4, <2>5, OutcomeAgrees
  <2>. HIDE DEF h2
  <2>7. RecordTyped'
    BY <2>2, <2>4, <2>6 DEF RecordTyped
  <2>8. ASSUME NEW c \in Boxes PROVE Agree(health[c], fails[c], succs[c])'
    <3>1. CASE c = b
      <4>1. health'[c] = h2 /\ fails'[c] = f2 /\ succs'[c] = s2
        BY <2>2, <2>4, <3>1
      <4>. QED BY <2>6, <4>1 DEF Agree
    <3>2. CASE c # b
      <4>1. health'[c] = health[c] /\ fails'[c] = fails[c] /\ succs'[c] = succs[c]
        BY <2>2, <2>4, <3>2
      <4>. QED BY <4>1 DEF Agree, Streaks
    <3>. QED BY <3>1, <3>2
  <2>. QED BY <2>7, <2>8 DEF Streaks
<1>. QED BY <1>1, <1>2, RecordSteps

-----------------------------------------------------------------------------
(* Callers and their requests.                                             *)
LEMMA CallersKept == Typed /\ [PNext]_pvars => CallersTyped' /\ InBox'
<1>. SUFFICES ASSUME Typed, [PNext]_pvars PROVE CallersTyped' /\ InBox'
  OBVIOUS
<1>. USE SandboxAssumption
<1>0. /\ pc \in [Threads -> Places] /\ box \in [Threads -> Boxes \union {None}]
      /\ stage \in [Threads -> 1..Stages] /\ change \in [Threads -> [old : Health, new : Health]]
      /\ told \in [Boxes -> [Health -> Int]] /\ InBox /\ live \in Boxes \union {None}
      /\ req \in [Threads -> {"idle", "resolved", "checked", "admitted", "executing", "releasing"}]
  BY DEF Typed, CallersTyped, ManagerTyped, RequestsTyped
<1>1. CASE UNCHANGED <<pc, box, stage, change, told, active, req>>
  BY <1>0, <1>1 DEF CallersTyped, InBox
<1>2. ASSUME NEW t \in Threads, Resolve(t) \/ Check(t) \/ TryAcquire(t) \/ Release(t)
      PROVE  CallersTyped' /\ InBox'
  <2>1. UNCHANGED vars /\ (pc[t] # "idle" => req'[t] = "executing")
        /\ \A u \in Threads \ {t} : req'[u] = req[u]
    BY <1>0, <1>2 DEF Resolve, Check, TryAcquire, Release, InBox
  <2>. QED BY <1>0, <2>1 DEF CallersTyped, InBox, vars
<1>3. ASSUME NEW t \in Threads, Enter(t) PROVE CallersTyped' /\ InBox'
  <2>1. CASE UNCHANGED vars /\ req' = [req EXCEPT ![t] = "releasing"]
    BY <1>0, <1>3, <2>1 DEF Enter, CallersTyped, InBox, vars
  <2>2. CASE live # None /\ req' = [req EXCEPT ![t] = "executing"] /\ Execute(t)
    <3>1. CallersTyped'
      BY <1>0, <2>2 DEF Execute, CallersTyped, Places
    <3>2. InBox'
      BY <1>0, <2>2 DEF Execute, InBox
    <3>. QED BY <3>1, <3>2
  <2>. QED BY <1>3, <2>1, <2>2 DEF Enter
<1>4. ASSUME NEW t \in Threads, ReportHealth(t) PROVE CallersTyped' /\ InBox'
  <2>1. pc[t] = "reporting" /\ Leave(t) /\ change' = [change EXCEPT ![t] = NoChange]
        /\ told' = [told EXCEPT ![box[t]] = [h \in Health |-> @[h] + Counts(change[t], h)]]
        /\ UNCHANGED req
    BY <1>4 DEF ReportHealth, Report
  <2>2. NoChange \in [old : Health, new : Health] /\ box[t] \in Boxes
    BY <1>0, <2>1 DEF NoChange, Health, InBox
  <2>3. \A c \in [old : Health, new : Health], h \in Health : Counts(c, h) \in Int
    BY DEF Counts
  <2>4. told' \in [Boxes -> [Health -> Int]]
    BY <1>0, <2>1, <2>2, <2>3
  <2>5. CallersTyped'
    BY <1>0, <2>1, <2>2, <2>4 DEF CallersTyped, Leave, Places
  <2>6. InBox'
    BY <1>0, <2>1 DEF InBox, Leave
  <2>. QED BY <2>5, <2>6
<1>5. ASSUME NEW t \in Threads, UNCHANGED <<box, change, told, req>>, pc[t] # "idle",
             NEW p \in Places \ {"idle"}, pc' = [pc EXCEPT ![t] = p],
             stage' \in [Threads -> 1..Stages]
      PROVE  CallersTyped' /\ InBox'
  <2>1. CallersTyped'
    BY <1>0, <1>5 DEF CallersTyped
  <2>2. InBox'
    BY <1>0, <1>5 DEF InBox
  <2>. QED BY <2>1, <2>2
<1>6. ASSUME NEW t \in Threads, Submit(t) \/ TimesOut(t) \/ Answers(t) \/ Raises(t),
             UNCHANGED pipeline
      PROVE  CallersTyped' /\ InBox'
  <2>1. /\ UNCHANGED <<box, change, told, req>> /\ pc[t] # "idle"
        /\ \E p \in Places \ {"idle"} : pc' = [pc EXCEPT ![t] = p]
    BY <1>6 DEF Submit, TimesOut, Answers, Raises, Return, pipeline, Places
  <2>2. stage' = stage \/ (stage[t] < Stages /\ stage' = [stage EXCEPT ![t] = @ + 1])
    BY <1>6 DEF Submit, TimesOut, Answers, Raises, Return
  <2>3. stage' \in [Threads -> 1..Stages]
    BY <1>0, <2>2
  <2>. QED BY <1>5, <2>1, <2>3
<1>7. ASSUME NEW t \in Threads, Record(t), UNCHANGED pipeline PROVE CallersTyped' /\ InBox'
  <2>1. PICK b \in Boxes : box[t] = b
    BY <1>0, <1>7 DEF Record, InBox
  <2>. DEFINE new == HealthAfter(b, pc[t] = "succeeded")
  <2>2. pc[t] \in {"succeeded", "failed"} /\ UNCHANGED <<told, req>>
    BY <1>7 DEF Record, pipeline
  <2>3. CASE new = health[b]
    <3>1. Leave(t) /\ UNCHANGED change
      BY <1>7, <2>1, <2>3 DEF Record, OldHealth
    <3>2. CallersTyped'
      BY <1>0, <2>2, <3>1 DEF CallersTyped, Leave, Places
    <3>3. InBox'
      BY <1>0, <2>2, <3>1 DEF InBox, Leave
    <3>. QED BY <3>2, <3>3
  <2>4. CASE new # health[b]
    <3>1. /\ change' = [change EXCEPT ![t] = [old |-> health[b], new |-> new]]
          /\ pc' = [pc EXCEPT ![t] = "reporting"] /\ UNCHANGED <<box, stage>>
      BY <1>7, <2>1, <2>4 DEF Record, OldHealth
    <3>2. health[b] \in Health /\ new \in Health
      BY <2>1 DEF Typed, RecordTyped, HealthAfter, DetermineHealth, Health
    <3>. HIDE DEF new
    <3>3. CallersTyped'
      BY <1>0, <2>2, <3>1, <3>2 DEF CallersTyped, Places
    <3>4. InBox'
      BY <1>0, <2>2, <3>1 DEF InBox
    <3>. QED BY <3>3, <3>4
  <2>. QED BY <2>3, <2>4
<1>. QED BY <1>1, <1>2, <1>3, <1>4, <1>6, <1>7, CallerSteps

(* active counts the requests between the admission and the release.       *)
LEMMA RequestsKept == Typed /\ [PNext]_pvars => RequestsTyped'
<1>. SUFFICES ASSUME Typed, [PNext]_pvars PROVE RequestsTyped'
  OBVIOUS
<1>. DEFINE Reqs == {"idle", "resolved", "checked", "admitted", "executing", "releasing"}
            Held == {"admitted", "executing", "releasing"}
<1>0. /\ registryHealth \in Health \union {"unknown"} /\ available \in BOOLEAN
      /\ req \in [Threads -> Reqs] /\ active = Cardinality(Holders) /\ active <= Limit
      /\ Limit \in Nat /\ \A t \in Threads : change[t].new \in Health
  BY PipelineAssumption DEF Typed, RequestsTyped, CallersTyped
<1>1. IsFiniteSet(Holders) /\ Cardinality(Holders) \in Nat
  BY FS_Subset, FS_CardinalityType, SandboxAssumption DEF Holders
<1>2. registryHealth' \in Health \union {"unknown"} /\ available' \in BOOLEAN
  BY <1>0 DEF PNext, pvars, pipeline, registry, Serve, MarkReady, MarkHealthy, MarkUnavailable,
     Resolve, Check, TryAcquire, Enter, ReportHealth, Release, Health
<1>3. ASSUME NEW t \in Threads, NEW r \in Reqs, req' = [req EXCEPT ![t] = r],
             active' = active, req[t] \in Held <=> r \in Held
      PROVE  RequestsTyped'
  <2>1. Holders' = Holders
    BY <1>0, <1>3 DEF Holders
  <2>2. req' \in [Threads -> Reqs]
    BY <1>0, <1>3
  <2>. QED BY <1>0, <1>2, <1>3, <2>1, <2>2 DEF RequestsTyped
<1>4. ASSUME NEW t \in Threads, Resolve(t) \/ Check(t) \/ Enter(t) PROVE RequestsTyped'
  BY <1>3, <1>4 DEF Resolve, Check, Enter
<1>5. ASSUME NEW t \in Threads, TryAcquire(t) PROVE RequestsTyped'
  <2>1. CASE active < Limit
    <3>1. req' = [req EXCEPT ![t] = "admitted"] /\ active' = active + 1 /\ req[t] = "checked"
      BY <1>5, <2>1 DEF TryAcquire
    <3>2. Holders' = Holders \union {t} /\ t \notin Holders /\ req' \in [Threads -> Reqs]
      BY <1>0, <3>1 DEF Holders
    <3>3. Cardinality(Holders') = active + 1
      BY <1>0, <1>1, <3>2, FS_AddElement
    <3>4. active' <= Limit
      BY <1>0, <1>1, <2>1, <3>1
    <3>. QED BY <1>2, <3>1, <3>2, <3>3, <3>4 DEF RequestsTyped
  <2>2. CASE ~(active < Limit)
    BY <1>3, <1>5, <2>2 DEF TryAcquire
  <2>. QED BY <2>1, <2>2
<1>6. ASSUME NEW t \in Threads, Release(t) PROVE RequestsTyped'
  <2>1. req' = [req EXCEPT ![t] = "idle"] /\ active' = active - 1
        /\ req[t] \in {"releasing", "executing"}
    BY <1>6 DEF Release
  <2>2. Holders' = Holders \ {t} /\ t \in Holders /\ req' \in [Threads -> Reqs]
    BY <1>0, <2>1 DEF Holders
  <2>3. Cardinality(Holders') = active - 1
    BY <1>0, <1>1, <2>2, FS_RemoveElement
  <2>4. active' <= Limit
    BY <1>0, <1>1, <2>1
  <2>. QED BY <1>2, <2>1, <2>2, <2>3, <2>4 DEF RequestsTyped
<1>7. CASE UNCHANGED <<active, req>>
  <2>1. Holders' = Holders
    BY <1>7 DEF Holders
  <2>. QED BY <1>0, <1>2, <1>7, <2>1 DEF RequestsTyped
<1>8. ASSUME NEW t \in Threads, ReportHealth(t) PROVE UNCHANGED <<active, req>>
  BY <1>8 DEF ReportHealth
<1>. QED BY <1>4, <1>5, <1>6, <1>7, <1>8, CallerSteps DEF pipeline

-----------------------------------------------------------------------------
(* Reports.                                                                *)
Entering(b, h) == {t \in Reporting(b) : change[t].new = h}
Leaving(b, h)  == {t \in Reporting(b) : change[t].old = h}

LEMMA OwedType ==
  ASSUME NEW b, NEW h
  PROVE  /\ IsFiniteSet(Entering(b, h)) /\ Cardinality(Entering(b, h)) \in Nat
         /\ IsFiniteSet(Leaving(b, h)) /\ Cardinality(Leaving(b, h)) \in Nat
         /\ Owed(b, h) = Cardinality(Entering(b, h)) - Cardinality(Leaving(b, h))
<1>1. Entering(b, h) \subseteq Threads /\ Leaving(b, h) \subseteq Threads
  BY DEF Entering, Leaving, Reporting
<1>2. IsFiniteSet(Entering(b, h)) /\ IsFiniteSet(Leaving(b, h))
  BY <1>1, FS_Subset, SandboxAssumption
<1>. QED BY <1>2, FS_CardinalityType DEF Owed, Entering, Leaving

(* A report that is held back moves what is owed by what it counts.        *)
LEMMA OwedGrows ==
  ASSUME NEW b, NEW h, NEW t, t \notin Reporting(b), Reporting(b)' = Reporting(b) \union {t},
         \A u \in Reporting(b) : change'[u] = change[u]
  PROVE  Owed(b, h)' = Owed(b, h) + Counts(change'[t], h)
<1>1. Entering(b, h)' = IF change'[t].new = h THEN Entering(b, h) \union {t} ELSE Entering(b, h)
  BY DEF Entering
<1>2. Leaving(b, h)' = IF change'[t].old = h THEN Leaving(b, h) \union {t} ELSE Leaving(b, h)
  BY DEF Leaving
<1>3. t \notin Entering(b, h) /\ t \notin Leaving(b, h)
  BY DEF Entering, Leaving
<1>4. /\ Cardinality(Entering(b, h) \union {t}) = Cardinality(Entering(b, h)) + 1
      /\ Cardinality(Leaving(b, h) \union {t}) = Cardinality(Leaving(b, h)) + 1
  BY <1>3, OwedType, FS_AddElement
<1>5. Owed(b, h)' = Cardinality(Entering(b, h)') - Cardinality(Leaving(b, h)')
  BY DEF Owed, Entering, Leaving
<1>6. Cardinality(Entering(b, h)') = Cardinality(Entering(b, h)) + IF change'[t].new = h THEN 1 ELSE 0
  BY <1>1, <1>4, OwedType
<1>7. Cardinality(Leaving(b, h)') = Cardinality(Leaving(b, h)) + IF change'[t].old = h THEN 1 ELSE 0
  BY <1>2, <1>4, OwedType
<1>. QED BY <1>5, <1>6, <1>7, OwedType DEF Counts

LEMMA OwedShrinks ==
  ASSUME NEW b, NEW h, NEW t \in Reporting(b), Reporting(b)' = Reporting(b) \ {t},
         \A u \in Reporting(b) \ {t} : change'[u] = change[u]
  PROVE  Owed(b, h)' = Owed(b, h) - Counts(change[t], h)
<1>1. Entering(b, h)' = Entering(b, h) \ {t} /\ Leaving(b, h)' = Leaving(b, h) \ {t}
  BY DEF Entering, Leaving
<1>2. /\ t \in Entering(b, h) <=> change[t].new = h
      /\ t \in Leaving(b, h) <=> change[t].old = h
  BY DEF Entering, Leaving
<1>3. /\ Cardinality(Entering(b, h)') = Cardinality(Entering(b, h)) - IF change[t].new = h THEN 1 ELSE 0
      /\ Cardinality(Leaving(b, h)') = Cardinality(Leaving(b, h)) - IF change[t].old = h THEN 1 ELSE 0
  <2>1. \A S : IsFiniteSet(S) => Cardinality(S \ {t}) = IF t \in S THEN Cardinality(S) - 1 ELSE Cardinality(S)
    BY FS_RemoveElement
  <2>2. /\ IsFiniteSet(Entering(b, h)) /\ Cardinality(Entering(b, h)) \in Nat
        /\ IsFiniteSet(Leaving(b, h)) /\ Cardinality(Leaving(b, h)) \in Nat
    BY OwedType
  <2>. QED BY <1>1, <1>2, <2>1, <2>2
<1>4. Owed(b, h)' = Cardinality(Entering(b, h)') - Cardinality(Leaving(b, h)')
  BY DEF Owed, Entering, Leaving
<1>. QED BY <1>3, <1>4, OwedType DEF Counts

LEMMA OwedStays ==
  ASSUME NEW b, NEW h, Reporting(b)' = Reporting(b), \A u \in Reporting(b) : change'[u] = change[u]
  PROVE  Owed(b, h)' = Owed(b, h)
<1>1. Entering(b, h)' = Entering(b, h) /\ Leaving(b, h)' = Leaving(b, h)
  BY DEF Entering, Leaving
<1>. QED BY <1>1 DEF Owed, Entering, Leaving

LEMMA ReportsKept == Typed /\ ChangesReportedOnce /\ [PNext]_pvars => ChangesReportedOnce'
<1>. SUFFICES ASSUME Typed, ChangesReportedOnce, [PNext]_pvars, NEW c \in Boxes, NEW h \in Health
              PROVE  told'[c][h] + Owed(c, h)' = Indicator(health'[c] = h) - Indicator(h = "healthy")
  BY DEF ChangesReportedOnce, Indicator
<1>0. /\ pc \in [Threads -> Places] /\ box \in [Threads -> Boxes \union {None}]
      /\ change \in [Threads -> [old : Health, new : Health]]
      /\ told \in [Boxes -> [Health -> Int]] /\ InBox /\ health \in [Boxes -> Health]
      /\ told[c][h] + Owed(c, h) = Indicator(health[c] = h) - Indicator(h = "healthy")
      /\ told[c][h] \in Int /\ Owed(c, h) \in Int
  BY OwedType DEF Typed, CallersTyped, RecordTyped, ChangesReportedOnce
<1>1. CASE UNCHANGED <<told, health>> /\ Reporting(c)' = Reporting(c)
            /\ \A u \in Reporting(c) : change'[u] = change[u]
  BY <1>0, <1>1, OwedStays
<1>2. ASSUME NEW t \in Threads, ReportHealth(t)
      PROVE  told'[c][h] + Owed(c, h)' = Indicator(health'[c] = h) - Indicator(h = "healthy")
  <2>1. PICK b \in Boxes : box[t] = b
    BY <1>0, <1>2 DEF ReportHealth, Report, InBox
  <2>2. /\ pc[t] = "reporting" /\ pc' = [pc EXCEPT ![t] = "idle"] /\ box' = [box EXCEPT ![t] = None]
        /\ \A u \in Threads \ {t} : change'[u] = change[u]
        /\ told' = [told EXCEPT ![b] = [g \in Health |-> @[g] + Counts(change[t], g)]]
        /\ health' = health
    BY <1>0, <1>2, <2>1 DEF ReportHealth, Report, Leave, record
  <2>3. CASE b = c
    <3>1. t \in Reporting(c) /\ Reporting(c)' = Reporting(c) \ {t}
      BY <1>0, <2>1, <2>2, <2>3 DEF Reporting
    <3>2. Owed(c, h)' = Owed(c, h) - Counts(change[t], h)
      BY <2>2, <3>1, OwedShrinks DEF Reporting
    <3>3. told'[c][h] = told[c][h] + Counts(change[t], h)
      BY <1>0, <2>2, <2>3
    <3>4. Counts(change[t], h) \in Int
      BY DEF Counts
    <3>5. told'[c][h] + Owed(c, h)' = told[c][h] + Owed(c, h)
      BY <1>0, <3>2, <3>3, <3>4
    <3>. QED BY <1>0, <2>2, <3>5
  <2>4. CASE b # c
    <3>1. Reporting(c)' = Reporting(c) /\ t \notin Reporting(c)
      BY <1>0, <2>1, <2>2, <2>4, SandboxAssumption DEF Reporting
    <3>2. Owed(c, h)' = Owed(c, h)
      BY <2>2, <3>1, OwedStays DEF Reporting
    <3>3. told'[c] = told[c]
      BY <1>0, <2>2, <2>4
    <3>. QED BY <1>0, <2>2, <3>2, <3>3
  <2>. QED BY <2>3, <2>4
<1>3. ASSUME NEW t \in Threads, Record(t)
      PROVE  told'[c][h] + Owed(c, h)' = Indicator(health'[c] = h) - Indicator(h = "healthy")
  <2>1. PICK b \in Boxes : box[t] = b
    BY <1>0, <1>3 DEF Record, InBox
  <2>. DEFINE new == HealthAfter(b, pc[t] = "succeeded")
  <2>2. /\ pc[t] \in {"succeeded", "failed"} /\ told' = told /\ health' = [health EXCEPT ![b] = new]
    BY <1>3, <2>1 DEF Record
  <2>3. CASE new = health[b]
    <3>1. UNCHANGED change /\ pc' = [pc EXCEPT ![t] = "idle"] /\ box' = [box EXCEPT ![t] = None]
      BY <1>3, <2>1, <2>3 DEF Record, OldHealth, Leave
    <3>2. Reporting(c)' = Reporting(c)
      BY <1>0, <2>2, <3>1 DEF Reporting
    <3>3. health' = health
      BY <1>0, <2>2, <2>3
    <3>. QED BY <1>1, <2>2, <3>1, <3>2, <3>3
  <2>4. CASE new # health[b]
    <3>1. /\ change' = [change EXCEPT ![t] = [old |-> health[b], new |-> new]]
          /\ pc' = [pc EXCEPT ![t] = "reporting"] /\ UNCHANGED box
      BY <1>3, <2>1, <2>4 DEF Record, OldHealth
    <3>. HIDE DEF new
    <3>2. CASE b = c
      <4>1. t \notin Reporting(c) /\ Reporting(c)' = Reporting(c) \union {t}
        BY <1>0, <2>1, <2>2, <3>1, <3>2 DEF Reporting
      <4>2. \A u \in Reporting(c) : change'[u] = change[u]
        BY <1>0, <3>1, <4>1 DEF Reporting
      <4>3. Owed(c, h)' = Owed(c, h) + Counts(change'[t], h)
        BY <4>1, <4>2, OwedGrows
      <4>4. change'[t].new = new /\ change'[t].old = health[c]
        BY <1>0, <3>1, <3>2
      <4>5. Counts(change'[t], h) = Indicator(new = h) - Indicator(health[c] = h)
        BY <4>4 DEF Counts, Indicator
      <4>6. health'[c] = new
        BY <1>0, <2>2, <3>2
      <4>7. Indicator(new = h) \in Int /\ Indicator(health[c] = h) \in Int /\ Indicator(h = "healthy") \in Int
        BY DEF Indicator
      <4>8. told'[c][h] + Owed(c, h)' = (told[c][h] + Owed(c, h)) + (Indicator(new = h) - Indicator(health[c] = h))
        BY <1>0, <2>2, <4>3, <4>5, <4>7
      <4>. QED BY <1>0, <4>6, <4>7, <4>8
    <3>3. CASE b # c
      <4>1. Reporting(c)' = Reporting(c) /\ t \notin Reporting(c)
        BY <1>0, <2>1, <2>2, <3>1, <3>3 DEF Reporting
      <4>2. \A u \in Reporting(c) : change'[u] = change[u]
        BY <1>0, <3>1, <4>1 DEF Reporting
      <4>3. health'[c] = health[c]
        BY <1>0, <2>2, <3>3
      <4>. QED BY <1>0, <2>2, <4>1, <4>2, <4>3, OwedStays
    <3>. QED BY <3>2, <3>3
  <2>. QED BY <2>3, <2>4
<1>4. ASSUME NEW t \in Threads,
             \/ Enter(t) \/ Release(t) \/ Resolve(t) \/ Check(t) \/ TryAcquire(t)
             \/ Submit(t) \/ TimesOut(t) \/ Answers(t) \/ Raises(t)
      PROVE  /\ UNCHANGED <<told, change>>
             /\ \A u \in Threads : (pc'[u] = "reporting" <=> pc[u] = "reporting")
                                   /\ (pc[u] = "reporting" => box'[u] = box[u])
  <2>1. CASE UNCHANGED vars
    BY <2>1 DEF vars
  <2>2. CASE Execute(t)
    BY <1>0, <2>2 DEF Execute
  <2>3. CASE Submit(t) \/ TimesOut(t) \/ Answers(t) \/ Raises(t)
    BY <1>0, <2>3 DEF Submit, TimesOut, Answers, Raises, Return
  <2>. QED BY <1>4, <2>1, <2>2, <2>3 DEF Enter, Release, Resolve, Check, TryAcquire
<1>5. ASSUME UNCHANGED health, UNCHANGED <<told, change>>,
             \A u \in Threads : (pc'[u] = "reporting" <=> pc[u] = "reporting")
                                /\ (pc[u] = "reporting" => box'[u] = box[u])
      PROVE  told'[c][h] + Owed(c, h)' = Indicator(health'[c] = h) - Indicator(h = "healthy")
  <2>1. Reporting(c)' = Reporting(c)
    BY <1>5 DEF Reporting
  <2>. QED BY <1>1, <1>5, <2>1
<1>6. (\E t \in Threads : Record(t)) \/ UNCHANGED health
  BY RecordSteps DEF record
<1>. QED BY <1>2, <1>3, <1>4, <1>5, <1>6, CallerSteps

-----------------------------------------------------------------------------
IInv == Typed /\ OneTaskEach /\ Streaks /\ ChangesReportedOnce

LEMMA InitIInv == PInit => IInv
<1>. SUFFICES ASSUME PInit PROVE IInv
  OBVIOUS
<1>1. Typed
  BY InitTyped
<1>2. OneTaskEach
  BY DEF PInit, Init, OneTaskEach, Waiters, Range
<1>3. Streaks
  BY Half, SandboxAssumption DEF PInit, Init, Streaks, Agree
<1>4. ASSUME NEW b \in Boxes, NEW h \in Health
      PROVE  told[b][h] + Owed(b, h) = Indicator(health[b] = h) - Indicator(h = "healthy")
  <2>1. Entering(b, h) = {} /\ Leaving(b, h) = {}
    BY DEF PInit, Init, Entering, Leaving, Reporting
  <2>2. Owed(b, h) = 0 /\ told[b][h] = 0 /\ health[b] = "healthy"
    BY <2>1, OwedType, FS_EmptySet DEF PInit, Init
  <2>. QED BY <2>2 DEF Indicator
<1>. QED BY <1>1, <1>2, <1>3, <1>4 DEF IInv, ChangesReportedOnce

LEMMA NextIInv == IInv /\ [PNext]_pvars => IInv'
BY ManagerKept, PoolKept, RecordKept, CallersKept, RequestsKept, ReportsKept DEF IInv, Typed

(* However requests, workers, timeouts, the manager and the callback       *)
(* interleave, the invariant holds.                                        *)
THEOREM Invariance == Spec => []IInv
<1>. QED BY InitIInv, NextIInv, PTL DEF Spec, Safe

(* A box is as bad as its streak of failures, and no worse than its streak *)
(* of successes, after every outcome; the pool never runs more tasks and   *)
(* zombies than it has workers, and active counts the slots in use         *)
(* (TypeOK).                                                               *)
THEOREM HealthFollows == Spec => []StreaksDecideHealth
<1>1. IInv => StreaksDecideHealth
  BY TypedIsTypeOK DEF IInv, Streaks, Agree, StreaksDecideHealth
<1>. QED BY <1>1, Invariance, PTL

(* Every change of health is reported exactly once, for what it was, in    *)
(* whichever order the callers get to the callback.                        *)
THEOREM EachChangeReported == Spec => []ChangesReportedOnce
<1>1. IInv => ChangesReportedOnce
  BY DEF IInv
<1>. QED BY <1>1, Invariance, PTL

(* No task is lost and none is left behind: a caller waits for exactly one *)
(* task of its box, queued or running, and every task that has not been    *)
(* abandoned has its caller.                                               *)
THEOREM TasksHaveCallers == Spec => []OneTaskEach
<1>1. IInv => OneTaskEach
  BY DEF IInv
<1>. QED BY <1>1, Invariance, PTL

(* The callers that have a task in any box of the version, the one there   *)
(* is or one that was replaced or removed, in a queue or on a worker.      *)
AtWork == {t \in Threads : \E b \in Boxes : t \in Range(queue[b]) \union runs[b]}

(* What admission control does bound: whoever has a task anywhere holds a  *)
(* slot, so that all the boxes of a version together never have more tasks *)
(* than the slots taken. Only what was abandoned escapes (README, 7,       *)
(* SlotsBoundTheModel): a worker holds a zombie when the slot is returned. *)
THEOREM WorkIsAdmitted == Spec => [](AtWork \subseteq Holders /\ Cardinality(AtWork) <= active)
<1>1. ASSUME IInv PROVE AtWork \subseteq Holders /\ Cardinality(AtWork) <= active
  <2>1. ASSUME NEW t \in AtWork PROVE t \in Holders
    <3>1. pc[t] = "waiting" /\ t \in Threads
      BY <1>1, <2>1 DEF AtWork, IInv, OneTaskEach, Waiters
    <3>2. req[t] = "executing"
      BY <1>1, <3>1 DEF IInv, Typed, InBox
    <3>. QED BY <3>1, <3>2 DEF Holders
  <2>2. IsFiniteSet(Holders)
    BY SandboxAssumption, FS_Subset DEF Holders
  <2>3. Cardinality(AtWork) <= Cardinality(Holders)
    BY <2>1, <2>2, FS_Subset
  <2>. QED BY <1>1, <2>1, <2>3 DEF IInv, Typed, RequestsTyped
<1>. QED BY <1>1, Invariance, PTL

-----------------------------------------------------------------------------
(* The executors of a version: an open one is the manager's or is about to *)
(* be shut down, and what the manager has let go of is not its own.        *)
OpenIsKnown ==
  /\ \A b \in Boxes : open[b] => b = live \/ b \in closing
  /\ live # None => live <= made
  /\ live \notin closing
  /\ \A b \in closing : b <= made

LEMMA OpenIsKnownInv == Typed /\ OpenIsKnown /\ [PNext]_pvars => OpenIsKnown'
<1>. SUFFICES ASSUME Typed, OpenIsKnown, [PNext]_pvars PROVE OpenIsKnown'
  OBVIOUS
<1>. USE SandboxAssumption DEF Typed, ManagerTyped, OpenIsKnown, Boxes
<1>1. CASE CreateSandbox
  BY <1>1 DEF CreateSandbox
<1>2. CASE RemoveSandbox
  BY <1>2 DEF RemoveSandbox
<1>3. ASSUME NEW b \in Boxes, Shutdown(b) PROVE OpenIsKnown'
  BY <1>3 DEF Shutdown
<1>4. CASE UNCHANGED manager
  BY <1>4 DEF manager
<1>. QED BY <1>1, <1>2, <1>3, <1>4, ManagerSteps

(* No executor leaks: every one that takes tasks is the box the manager    *)
(* answers, or is on the list of those to be shut down.                    *)
THEOREM NoExecutorLeaks == Spec => []OpenIsKnown
<1>1. PInit => OpenIsKnown
  BY SandboxAssumption DEF PInit, Init, OpenIsKnown
<1>2. IInv => Typed
  BY DEF IInv
<1>. QED BY <1>1, <1>2, OpenIsKnownInv, Invariance, PTL DEF Spec, Safe

(* An executor that is shut down stays so, and no task gets into its queue *)
(* any more, though callers hold the box and go on to submit to it.        *)
ClosedForGood ==
  [][\A b \in Boxes :
       b <= made /\ ~open[b] => ~open'[b] /\ Range(queue'[b]) \subseteq Range(queue[b])]_pvars

THEOREM ClosedTakesNothing == Spec => ClosedForGood
<1>. DEFINE A == \A b \in Boxes :
       b <= made /\ ~open[b] => ~open'[b] /\ Range(queue'[b]) \subseteq Range(queue[b])
<1>1. ASSUME IInv, [PNext]_pvars, NEW b \in Boxes, b <= made, ~open[b]
      PROVE  ~open'[b] /\ Range(queue'[b]) \subseteq Range(queue[b])
  <2>0. /\ Typed /\ OneTaskEach /\ queue \in [Boxes -> Seq(Threads)] /\ open \in [Boxes -> BOOLEAN]
        /\ made \in Nat /\ b \in Nat
    BY <1>1, SandboxAssumption DEF IInv, Typed, ManagerTyped, PoolTyped, Boxes
  <2>1. ~open'[b]
    <3>1. CASE CreateSandbox
      BY <1>1, <2>0, <3>1 DEF CreateSandbox
    <3>2. CASE ~CreateSandbox
      BY <1>1, <2>0, <3>2, ManagerSteps DEF manager, RemoveSandbox, Shutdown
    <3>. QED BY <3>1, <3>2
  <2>2. CASE UNCHANGED pool
    BY <2>1, <2>2 DEF pool
  <2>3. ASSUME NEW t \in Threads, Submit(t) \/ Answers(t) \/ Raises(t) \/ TimesOut(t)
        PROVE  Range(queue'[b]) \subseteq Range(queue[b])
    <3>1. PICK c \in Boxes : box[t] = c
      BY <2>0, <2>3 DEF Submit, Answers, Raises, Return, TimesOut, Typed, InBox, CallersTyped
    <3>2. CASE Submit(t)
      <4>1. queue'[b] = queue[b]
        BY <1>1, <2>0, <3>1, <3>2 DEF Submit
      <4>. QED BY <4>1
    <3>3. CASE TimesOut(t)
      <4>1. queue'[b] = queue[b] \/ queue'[b] = Without(queue[b], t)
        BY <2>0, <3>1, <3>3 DEF TimesOut
      <4>2. Range(Without(queue[b], t)) = Range(queue[b]) \ {t}
        BY <2>0, WithoutProperties DEF OneTaskEach
      <4>. QED BY <4>1, <4>2
    <3>4. CASE Answers(t) \/ Raises(t)
      BY <3>4 DEF Answers, Raises, Return
    <3>. QED BY <2>3, <3>2, <3>3, <3>4
  <2>4. ASSUME NEW c \in Boxes, Start(c) \/ ZombieEnds(c)
        PROVE  Range(queue'[b]) \subseteq Range(queue[b])
    <3>1. queue'[b] = queue[b] \/ (queue[b] # <<>> /\ queue'[b] = Tail(queue[b]))
      BY <2>0, <2>4 DEF Start, ZombieEnds
    <3>2. queue[b] # <<>> => Range(Tail(queue[b])) = Range(queue[b]) \ {Head(queue[b])}
      BY <2>0, TailTask DEF OneTaskEach
    <3>. QED BY <3>1, <3>2
  <2>. QED BY <1>1, <2>1, <2>2, <2>3, <2>4, PoolSteps
<1>2. IInv /\ [PNext]_pvars => [A]_pvars
  BY <1>1
<1>. QED BY <1>2, Invariance, PTL DEF Spec, Safe, ClosedForGood

-----------------------------------------------------------------------------
(* The slots (Admission).                                                  *)

(* The counter of the pipeline stands for the manager of Concurrency.  To  *)
(* the requests it is the plain admission the manager has been shown to    *)
(* implement: a request that holds a slot is in flight, from TryAcquire to *)
(* the finally of infer, whatever the sandbox does meanwhile.              *)
Manager == INSTANCE Admission
  WITH Slots <- Threads, Capacity <- Limit, inflight <- Holders, closed <- FALSE

LEMMA SlotStep == Typed /\ [PNext]_pvars => [Manager!Next]_<<Holders, FALSE>>
<1>. SUFFICES ASSUME Typed, [PNext]_pvars PROVE Manager!Next \/ Holders' = Holders
  OBVIOUS
<1>. DEFINE Reqs == {"idle", "resolved", "checked", "admitted", "executing", "releasing"}
            Held == {"admitted", "executing", "releasing"}
<1>0. req \in [Threads -> Reqs] /\ active = Cardinality(Holders)
  BY DEF Typed, RequestsTyped
<1>1. ASSUME NEW t \in Threads, NEW r \in Reqs, req' = [req EXCEPT ![t] = r],
             req[t] \in Held <=> r \in Held
      PROVE  Holders' = Holders
  BY <1>0, <1>1 DEF Holders
<1>2. ASSUME NEW t \in Threads, Resolve(t) \/ Check(t) \/ Enter(t) PROVE Holders' = Holders
  BY <1>1, <1>2 DEF Resolve, Check, Enter
<1>3. ASSUME NEW t \in Threads, TryAcquire(t) PROVE Manager!Admit(t) \/ Holders' = Holders
  <2>1. CASE active < Limit
    <3>1. req' = [req EXCEPT ![t] = "admitted"] /\ req[t] = "checked"
      BY <1>3, <2>1 DEF TryAcquire
    <3>2. Holders' = Holders \cup {t} /\ t \notin Holders
      BY <1>0, <3>1 DEF Holders
    <3>3. Cardinality(Holders) < Limit
      BY <1>0, <2>1
    <3>4. Manager!Cardinality(Holders) = Cardinality(Holders)
      BY DEF Manager!Cardinality, Cardinality
    <3>. QED BY <3>2, <3>3, <3>4 DEF Manager!Admit
  <2>2. CASE ~(active < Limit)
    BY <1>1, <1>3, <2>2 DEF TryAcquire
  <2>. QED BY <2>1, <2>2
<1>4. ASSUME NEW t \in Threads, Release(t) PROVE Manager!Leave(t)
  <2>1. req' = [req EXCEPT ![t] = "idle"] /\ req[t] \in {"releasing", "executing"}
    BY <1>4 DEF Release
  <2>2. Holders' = Holders \ {t} /\ t \in Holders
    BY <1>0, <2>1 DEF Holders
  <2>. QED BY <2>2 DEF Manager!Leave
<1>5. CASE UNCHANGED req
  BY <1>5 DEF Holders
<1>6. ASSUME NEW t \in Threads, ReportHealth(t) PROVE UNCHANGED req
  BY <1>6 DEF ReportHealth
<1>. QED BY <1>2, <1>3, <1>4, <1>5, <1>6, CallerSteps DEF Manager!Next, pipeline

(* A request is let in once, under the limit, and leaves once: with an     *)
(* answer, without a box, after a time-out, or from a box that is gone.    *)
THEOREM SlotsAreAdmission == Spec => Manager!Spec
<1>1. PInit => Manager!Init
  <2>. SUFFICES ASSUME PInit PROVE Manager!Init
    OBVIOUS
  <2>1. Holders = {}
    BY DEF PInit, Holders
  <2>. QED BY <2>1 DEF Manager!Init
<1>2. IInv => Typed
  BY DEF IInv
<1>. QED BY <1>1, <1>2, SlotStep, Invariance, PTL DEF Spec, Safe, Manager!Spec

-----------------------------------------------------------------------------
(* The publisher (Publisher).                                              *)

Phases == {"down", "up", "signalled", "joining", "leaving", "closed"}

ProcessTyped ==
  /\ proc \in 0..MaxProcs /\ phase \in Phases /\ (phase # "down" => proc \in Procs)
  /\ advertised \subseteq Versions
  /\ changes \in 0..MaxChanges /\ emitting \in Nat /\ emitting <= changes

(* The "stop" comes on top of what the queue may hold, and once.           *)
RequestsFit ==
  /\ requests \in Seq({"publish", "stop"})
  /\ Len(requests) <= QueueMax + (IF phase \in {"joining", "leaving", "closed"} THEN 1 ELSE 0)

WorkerTyped ==
  /\ worker \in [at : {"get", "reading", "sent", "done"}, todo : SUBSET Versions,
                 report : SUBSET Versions, tries : 0..Retries]
  /\ worker.report \intersect worker.todo = {}
  /\ failures \in 0..FailLimit /\ timers \in 0..MaxTimers

Reports == (SUBSET Versions) \union {Unlisted}

BackendTyped ==
  /\ listed \in [Procs -> Reports]
  /\ wire \subseteq [proc : Procs, report : Reports]

(* The worker outlives neither its process nor a join in time.             *)
WorkerEnds ==
  /\ phase = "down" => worker.at = "done"
  /\ phase \in {"leaving", "closed"} /\ ~unclean => worker.at = "done"

(* Nothing can speak for a process that left in good order: its worker has *)
(* ended, if the process has not, and no post of it is on its way.         *)
GoneIsSilent ==
  /\ gone \subseteq 1..proc
  /\ proc \in gone => phase \in {"closed", "down"} /\ worker.at = "done"
  /\ \A p \in gone : Quiet(p) /\ listed[p] = Unlisted

PublisherInv ==
  ProcessTyped /\ RequestsFit /\ WorkerTyped /\ BackendTyped /\ WorkerEnds /\ GoneIsSilent

LEMMA InvImpliesCleanStop == PublisherInv => CleanStopUnlists
<1>. SUFFICES ASSUME PublisherInv PROVE CleanStopUnlists
  OBVIOUS
<1>. USE PublisherAssumption
<1>1. Range(requests) \subseteq {"publish", "stop"} /\ Len(requests) <= QueueMax + 1
  <2>1. Len(requests) \in Nat
    BY DEF PublisherInv, RequestsFit
  <2>. QED BY <2>1 DEF PublisherInv, RequestsFit, Range
<1>2. emitting \in 0..MaxChanges /\ phase \in Phases
  BY DEF PublisherInv, ProcessTyped
<1>3. /\ \A p \in Procs : Reported(listed[p])
      /\ \A post \in wire : post.proc \in Procs /\ Reported(post.report)
  BY DEF PublisherInv, BackendTyped, Reports, Reported
<1>4. /\ worker.at \in {"get", "reading", "sent", "done"}
      /\ worker.todo \subseteq Versions /\ worker.report \subseteq Versions \ worker.todo
      /\ worker.tries \in 0..Retries
      /\ failures \in 0..FailLimit /\ timers \in 0..MaxTimers
  BY DEF PublisherInv, WorkerTyped
<1>5. PublisherTypeOK
  BY <1>1, <1>2, <1>3, <1>4
     DEF PublisherInv, ProcessTyped, WorkerEnds, GoneIsSilent, PublisherTypeOK, Phases
<1>. QED BY <1>5 DEF PublisherInv, GoneIsSilent, CleanStopUnlists

LEMMA PublisherStarts == PublisherInit => PublisherInv
<1>. SUFFICES ASSUME PublisherInit PROVE PublisherInv
  OBVIOUS
<1>. USE PublisherAssumption DEF PublisherInit
<1>1. ProcessTyped /\ RequestsFit
  BY DEF ProcessTyped, RequestsFit, Phases
<1>2. WorkerTyped
  BY DEF WorkerTyped, Over
<1>3. BackendTyped /\ WorkerEnds /\ GoneIsSilent
  BY DEF BackendTyped, Reports, WorkerEnds, GoneIsSilent, Over
<1>. QED BY <1>1, <1>2, <1>3 DEF PublisherInv

LEMMA EnqueuedProperties ==
  ASSUME NEW q \in Seq({"publish", "stop"}), NEW n \in Nat, Len(q) <= QueueMax + n
  PROVE  Enqueued(q) \in Seq({"publish", "stop"}) /\ Len(Enqueued(q)) <= QueueMax + n
<1>1. Len(q) \in Nat
  OBVIOUS
<1>2. CASE Len(q) < QueueMax
  <2>1. Enqueued(q) = Append(q, "publish")
    BY <1>2 DEF Enqueued
  <2>2. Append(q, "publish") \in Seq({"publish", "stop"}) /\ Len(Append(q, "publish")) = Len(q) + 1
    OBVIOUS
  <2>. QED BY <1>1, <1>2, <2>1, <2>2, PublisherAssumption
<1>3. CASE ~(Len(q) < QueueMax)
  BY <1>3 DEF Enqueued
<1>. QED BY <1>2, <1>3

LEMMA ProcessTypedStep == PublisherInv /\ [PublisherNext]_publisherVars => ProcessTyped'
<1>. SUFFICES ASSUME PublisherInv, [PublisherNext]_publisherVars PROVE ProcessTyped'
  OBVIOUS
<1>. USE PublisherAssumption DEF Procs
<1>0. ProcessTyped
  BY DEF PublisherInv
<1>1. ASSUME NEW v \in Versions, Change(v) PROVE ProcessTyped'
  BY <1>0, <1>1 DEF ProcessTyped, Change, Phases
<1>2. CASE Emit \/ Exit
  BY <1>0, <1>2 DEF ProcessTyped, Emit, Exit, inputs, Phases
<1>3. CASE StartRuntime
  BY <1>0, <1>3 DEF ProcessTyped, StartRuntime, Phases
<1>4. CASE Stop \/ PutStop \/ Join \/ Deregister \/ DeregisterFails
  BY <1>0, <1>4 DEF ProcessTyped, Stop, PutStop, Join, Deregister, DeregisterFails, inputs, Phases
<1>5. CASE UNCHANGED <<proc, phase, inputs>>
  BY <1>0, <1>5 DEF ProcessTyped, inputs
<1>. QED
  BY <1>1, <1>2, <1>3, <1>4, <1>5
     DEF PublisherNext, publisherVars, Work, Periodic, TimerFires, Take, Empty, Read, Send,
         PostSucceeds, PostFails, PostRefused, Arrives, BackendRestarts

LEMMA RequestsFitStep == PublisherInv /\ [PublisherNext]_publisherVars => RequestsFit'
<1>. SUFFICES ASSUME PublisherInv, [PublisherNext]_publisherVars PROVE RequestsFit'
  OBVIOUS
<1>. USE PublisherAssumption
<1>. DEFINE room == IF phase \in {"joining", "leaving", "closed"} THEN 1 ELSE 0
<1>0. /\ requests \in Seq({"publish", "stop"}) /\ Len(requests) \in Nat
      /\ Len(requests) <= QueueMax + room /\ room \in Nat
  BY DEF PublisherInv, RequestsFit
<1>1. CASE Emit \/ Periodic \/ TimerFires
  <2>1. requests' = Enqueued(requests) /\ phase' = phase
    BY <1>1 DEF Emit, Periodic, TimerFires
  <2>. QED BY <1>0, <2>1, EnqueuedProperties DEF RequestsFit
<1>2. CASE Take
  <2>1. requests # <<>> /\ requests' = Tail(requests) /\ phase' = phase
    BY <1>2 DEF Take
  <2>2. requests' \in Seq({"publish", "stop"}) /\ Len(requests') = Len(requests) - 1
    BY <1>0, <2>1
  <2>. QED BY <1>0, <2>1, <2>2 DEF RequestsFit
<1>3. CASE StartRuntime
  <2>1. requests' = <<"publish">> /\ phase' = "up"
    BY <1>3 DEF StartRuntime
  <2>. QED BY <2>1 DEF RequestsFit
<1>4. CASE PutStop
  <2>1. requests' = Append(requests, "stop") /\ phase = "signalled" /\ phase' = "joining"
    BY <1>4 DEF PutStop
  <2>2. requests' \in Seq({"publish", "stop"}) /\ Len(requests') = Len(requests) + 1
    BY <1>0, <2>1
  <2>. QED BY <1>0, <2>1, <2>2 DEF RequestsFit
<1>5. CASE Exit
  <2>1. requests' = <<>>
    BY <1>5 DEF Exit
  <2>. QED BY <2>1 DEF RequestsFit
<1>6. CASE /\ UNCHANGED requests
           /\ phase' = phase \/ (phase = "up" /\ phase' = "signalled") \/ phase' \in {"leaving", "closed"}
  BY <1>0, <1>6 DEF RequestsFit
<1>. QED
  BY <1>1, <1>2, <1>3, <1>4, <1>5, <1>6
     DEF PublisherNext, publisherVars, Work, Change, Empty, Read, Send, PostSucceeds, PostFails,
         PostRefused, Stop, Join, Deregister, DeregisterFails, Arrives, BackendRestarts

LEMMA WorkerTypedStep == PublisherInv /\ [PublisherNext]_publisherVars => WorkerTyped'
<1>. SUFFICES ASSUME PublisherInv, [PublisherNext]_publisherVars PROVE WorkerTyped'
  OBVIOUS
<1>. USE PublisherAssumption
<1>0. WorkerTyped
  BY DEF PublisherInv
<1>1. CASE Take
  <2>1. \/ worker' = Over
        \/ worker' = [at |-> "reading", todo |-> Versions, report |-> {}, tries |-> 0]
    BY <1>1 DEF Take, Idle
  <2>2. UNCHANGED <<failures, timers>>
    BY <1>1 DEF Take, retries
  <2>. QED BY <1>0, <2>1, <2>2 DEF WorkerTyped, Over
<1>2. CASE Empty
  BY <1>0, <1>2 DEF WorkerTyped, Empty, retries, Over
<1>3. ASSUME NEW v \in Versions, Read(v) PROVE WorkerTyped'
  BY <1>0, <1>3 DEF WorkerTyped, Read, retries
<1>4. CASE Send
  BY <1>0, <1>4 DEF WorkerTyped, Send, retries
<1>5. NextRound \in [at : {"get", "reading", "sent", "done"}, todo : SUBSET Versions,
                     report : SUBSET Versions, tries : 0..Retries]
      /\ NextRound.report \intersect NextRound.todo = {}
  BY DEF NextRound, Idle, Over
<1>6. CASE PostSucceeds
  BY <1>0, <1>5, <1>6 DEF WorkerTyped, PostSucceeds
<1>7. GiveUp => WorkerTyped'
  BY <1>0, <1>5 DEF WorkerTyped, GiveUp
<1>8. CASE PostFails
  <2>1. CASE worker.tries < Retries
    <3>1. worker' = [worker EXCEPT !.at = "reading", !.tries = @ + 1] /\ UNCHANGED <<failures, timers>>
      BY <1>8, <2>1 DEF PostFails, retries
    <3>2. worker.tries + 1 \in 0..Retries
      BY <1>0, <2>1 DEF WorkerTyped
    <3>. QED BY <1>0, <3>1, <3>2 DEF WorkerTyped
  <2>2. CASE ~(worker.tries < Retries)
    BY <1>7, <1>8, <2>2 DEF PostFails
  <2>. QED BY <2>1, <2>2
<1>9. CASE PostRefused
  BY <1>7, <1>9 DEF PostRefused
<1>10. CASE StartRuntime \/ Exit
  BY <1>0, <1>10 DEF WorkerTyped, StartRuntime, Exit, Idle, Over
<1>11. CASE TimerFires
  BY <1>0, <1>11 DEF WorkerTyped, TimerFires
<1>12. CASE UNCHANGED <<worker, retries>>
  BY <1>0, <1>12 DEF WorkerTyped, retries
<1>. QED
  BY <1>1, <1>2, <1>3, <1>4, <1>6, <1>8, <1>9, <1>10, <1>11, <1>12
     DEF PublisherNext, publisherVars, Work, Change, Emit, Periodic, Stop, PutStop, Join,
         Deregister, DeregisterFails, Arrives, BackendRestarts

(* What the backend learns: of the process that runs, what its worker has  *)
(* read or that it has left; of any, what was under way.                   *)
Told(p, report) ==
  /\ p \in Procs /\ report \in Reports
  /\ \/ p = proc /\ worker.at = "sent"
     \/ p = proc /\ phase = "leaving"
     \/ [proc |-> p, report |-> report] \in wire

LEMMA BackendSteps ==
  PublisherInv /\ [PublisherNext]_publisherVars =>
    \/ UNCHANGED backend
    \/ listed' = [p \in Procs |-> Unlisted] /\ UNCHANGED wire
    \/ \E p, report :
         /\ Told(p, report)
         /\ \/ listed' = [listed EXCEPT ![p] = report] /\ wire' \subseteq wire
            \/ wire' = wire \union {[proc |-> p, report |-> report]} /\ UNCHANGED listed
<1>. SUFFICES
       ASSUME PublisherInv, [PublisherNext]_publisherVars, ~UNCHANGED backend,
              ~(listed' = [p \in Procs |-> Unlisted] /\ UNCHANGED wire)
       PROVE \E p, report :
         /\ Told(p, report)
         /\ \/ listed' = [listed EXCEPT ![p] = report] /\ wire' \subseteq wire
            \/ wire' = wire \union {[proc |-> p, report |-> report]} /\ UNCHANGED listed
  OBVIOUS
<1>1. ASSUME NEW report \in Reports, worker.at = "sent" \/ phase = "leaving"
      PROVE  Told(proc, report)
  BY <1>1 DEF Told, PublisherInv, ProcessTyped, WorkerEnds
<1>2. worker.report \in Reports /\ Unlisted \in Reports
  BY DEF PublisherInv, WorkerTyped, Reports
<1>3. CASE PostSucceeds
  BY <1>1, <1>2, <1>3 DEF PostSucceeds
<1>4. CASE PostFails
  BY <1>1, <1>2, <1>4 DEF PostFails, Unanswered, backend
<1>5. CASE Deregister
  BY <1>1, <1>2, <1>5 DEF Deregister
<1>6. CASE DeregisterFails
  BY <1>1, <1>2, <1>6 DEF DeregisterFails, Unanswered, backend
<1>7. ASSUME NEW post \in wire, Arrives(post)
      PROVE \E p, report :
         /\ Told(p, report)
         /\ \/ listed' = [listed EXCEPT ![p] = report] /\ wire' \subseteq wire
            \/ wire' = wire \union {[proc |-> p, report |-> report]} /\ UNCHANGED listed
  <2>1. post \in [proc : Procs, report : Reports]
    BY DEF PublisherInv, BackendTyped
  <2>2. [proc |-> post.proc, report |-> post.report] = post
    BY <2>1
  <2>3. Told(post.proc, post.report)
    BY <2>1, <2>2 DEF Told
  <2>4. listed' = [listed EXCEPT ![post.proc] = post.report] /\ wire' \subseteq wire
    BY <1>7 DEF Arrives
  <2>. QED BY <2>3, <2>4
<1>8. \/ PostSucceeds \/ PostFails \/ Deregister \/ DeregisterFails
      \/ \E post \in wire : Arrives(post)
  BY DEF PublisherNext, publisherVars, Work, Change, Emit, Periodic, TimerFires, Take, Empty, Read,
         Send, PostRefused, StartRuntime, Stop, PutStop, Join, Exit, BackendRestarts, backend
<1>. QED BY <1>3, <1>4, <1>5, <1>6, <1>7, <1>8

LEMMA BackendTypedStep == PublisherInv /\ [PublisherNext]_publisherVars => BackendTyped'
<1>. SUFFICES ASSUME PublisherInv, [PublisherNext]_publisherVars PROVE BackendTyped'
  OBVIOUS
<1>0. BackendTyped
  BY DEF PublisherInv
<1>1. CASE UNCHANGED backend
  BY <1>0, <1>1 DEF BackendTyped, backend
<1>2. CASE listed' = [p \in Procs |-> Unlisted] /\ UNCHANGED wire
  BY <1>0, <1>2 DEF BackendTyped, Reports
<1>3. ASSUME NEW p, NEW report, Told(p, report),
             \/ listed' = [listed EXCEPT ![p] = report] /\ wire' \subseteq wire
             \/ wire' = wire \union {[proc |-> p, report |-> report]} /\ UNCHANGED listed
      PROVE  BackendTyped'
  BY <1>0, <1>3 DEF BackendTyped, Told
<1>. QED BY <1>1, <1>2, <1>3, BackendSteps

LEMMA WorkerEndsStep == PublisherInv /\ [PublisherNext]_publisherVars => WorkerEnds'
<1>. SUFFICES ASSUME PublisherInv, [PublisherNext]_publisherVars PROVE WorkerEnds'
  OBVIOUS
<1>0. WorkerEnds
  BY DEF PublisherInv
<1>1. CASE Take \/ Empty \/ (\E v \in Versions : Read(v)) \/ Send \/ PostSucceeds \/ PostFails \/ PostRefused
  BY <1>0, <1>1 DEF WorkerEnds, Take, Empty, Read, Send, PostSucceeds, PostFails, PostRefused, exit
<1>2. CASE StartRuntime \/ Stop \/ PutStop \/ Join \/ Deregister \/ DeregisterFails \/ Exit
  <2>1. CASE Exit
    BY <2>1 DEF WorkerEnds, Exit, Over
  <2>2. CASE Join
    BY <2>2 DEF WorkerEnds, Join, WorkerJoined
  <2>3. CASE StartRuntime \/ Stop \/ PutStop
    BY <2>3 DEF WorkerEnds, StartRuntime, Stop, PutStop
  <2>4. CASE Deregister
    BY <1>0, <2>4 DEF WorkerEnds, Deregister
  <2>5. CASE DeregisterFails
    BY <1>0, <2>5 DEF WorkerEnds, DeregisterFails
  <2>. QED BY <1>2, <2>1, <2>2, <2>3, <2>4, <2>5
<1>3. CASE UNCHANGED <<phase, worker, unclean>>
  BY <1>0, <1>3 DEF WorkerEnds
<1>. QED
  BY <1>1, <1>2, <1>3
     DEF PublisherNext, publisherVars, Work, Change, Emit, Periodic, TimerFires, Arrives,
         BackendRestarts, exit

LEMMA GoneIsSilentStep == PublisherInv /\ [PublisherNext]_publisherVars => GoneIsSilent'
<1>. SUFFICES ASSUME PublisherInv, [PublisherNext]_publisherVars PROVE GoneIsSilent'
  OBVIOUS
<1>. USE PublisherAssumption
<1>0. GoneIsSilent /\ ProcessTyped /\ BackendTyped /\ WorkerEnds
  BY DEF PublisherInv
(* Who leaves in good order has ended its worker, and is unlisted.         *)
<1>1. \/ gone' = gone
      \/ Deregister /\ ~unclean /\ Quiet(proc) /\ gone' = gone \union {proc} /\ proc \in Procs
  <2>1. CASE Deregister
    BY <1>0, <2>1 DEF Deregister, ProcessTyped
  <2>2. CASE ~Deregister
    BY <2>2 DEF PublisherNext, publisherVars, Work, Change, Emit, Periodic, TimerFires, Take,
         Empty, Read, Send, PostSucceeds, PostFails, PostRefused, StartRuntime, Stop, PutStop, Join,
         DeregisterFails, Exit, Arrives, BackendRestarts, exit
  <2>. QED BY <2>1, <2>2
<1>2. gone' \subseteq 1..proc'
  <2>1. proc \in Nat /\ proc' \in {proc, proc + 1}
    <3>1. CASE StartRuntime
      BY <1>0, <3>1 DEF ProcessTyped, StartRuntime
    <3>2. CASE ~StartRuntime
      <4>1. UNCHANGED proc
        BY <3>2 DEF PublisherNext, publisherVars, Work, Change, Emit, Periodic,
           TimerFires, Take, Empty, Read, Send, PostSucceeds, PostFails, PostRefused, Stop, PutStop,
           Join, Deregister, DeregisterFails, Exit, Arrives, BackendRestarts
      <4>. QED BY <1>0, <4>1 DEF ProcessTyped
    <3>. QED BY <3>1, <3>2
  <2>2. 1..proc \subseteq 1..proc'
    BY <2>1
  <2>3. gone' \subseteq 1..proc
    <3>1. proc \in Procs => proc \in 1..proc
      BY <2>1 DEF Procs
    <3>. QED BY <1>0, <1>1, <3>1 DEF GoneIsSilent
  <2>. QED BY <2>2, <2>3
<1>3. (proc \in gone => phase \in {"closed", "down"} /\ worker.at = "done")'
  <2>1. CASE Deregister
    BY <1>0, <2>1 DEF Deregister, GoneIsSilent, WorkerEnds
  <2>2. CASE StartRuntime
    BY <1>0, <2>2 DEF StartRuntime, GoneIsSilent, ProcessTyped
  <2>3. CASE Exit
    BY <2>3 DEF Exit, Over
  <2>4. CASE Take \/ Empty \/ (\E v \in Versions : Read(v)) \/ Send \/ PostSucceeds \/ PostFails \/ PostRefused
    <3>1. worker.at # "done" /\ UNCHANGED <<proc, gone>>
      BY <2>4 DEF Take, Empty, Read, Send, PostSucceeds, PostFails, PostRefused, exit
    <3>. QED BY <1>0, <3>1 DEF GoneIsSilent
  <2>5. CASE Stop \/ PutStop \/ Join \/ DeregisterFails
    BY <1>0, <2>5 DEF GoneIsSilent, Stop, PutStop, Join, DeregisterFails, exit
  <2>6. CASE UNCHANGED <<proc, phase, worker, gone>>
    BY <1>0, <2>6 DEF GoneIsSilent
  <2>. QED
    BY <2>1, <2>2, <2>3, <2>4, <2>5, <2>6
     DEF PublisherNext, publisherVars, Work, Change, Emit, Periodic, TimerFires, Arrives,
         BackendRestarts, exit
<1>4. ASSUME NEW p \in gone' PROVE Quiet(p)' /\ listed'[p] = Unlisted
  <2>0. p \in Procs
    <3>1. 1..proc \subseteq Procs
      BY <1>0 DEF ProcessTyped, Procs
    <3>. QED BY <1>0, <1>1, <1>4, <3>1 DEF GoneIsSilent
  <2>1. CASE p \notin gone
    BY <1>0, <1>1, <1>4, <2>0, <2>1 DEF Deregister, Quiet, BackendTyped
  <2>2. CASE p \in gone
    <3>1. Quiet(p) /\ listed[p] = Unlisted
      BY <1>0, <2>2 DEF GoneIsSilent
    <3>2. CASE UNCHANGED backend
      BY <3>1, <3>2 DEF backend, Quiet
    <3>3. CASE listed' = [q \in Procs |-> Unlisted] /\ UNCHANGED wire
      BY <2>0, <3>1, <3>3 DEF Quiet
    <3>4. ASSUME NEW q, NEW report, Told(q, report),
                 \/ listed' = [listed EXCEPT ![q] = report] /\ wire' \subseteq wire
                 \/ wire' = wire \union {[proc |-> q, report |-> report]} /\ UNCHANGED listed
          PROVE  Quiet(p)' /\ listed'[p] = Unlisted
      <4>1. q # p
        BY <1>0, <2>2, <3>1, <3>4 DEF Told, GoneIsSilent, Quiet
      <4>. QED BY <1>0, <2>0, <3>1, <3>4, <4>1 DEF Quiet, BackendTyped
    <3>. QED BY <3>2, <3>3, <3>4, BackendSteps
  <2>. QED BY <2>1, <2>2
<1>. QED BY <1>2, <1>3, <1>4 DEF GoneIsSilent

THEOREM PublisherInvariance == PublisherSpec => []PublisherInv
<1>1. PublisherInv /\ [PublisherNext]_publisherVars => PublisherInv'
  BY ProcessTypedStep, RequestsFitStep, WorkerTypedStep, BackendTypedStep, WorkerEndsStep,
     GoneIsSilentStep DEF PublisherInv
<1>. QED BY <1>1, PublisherStarts, PTL DEF PublisherSpec, PublisherSafe

(* A runtime that stopped in good order is not listed again: not by what   *)
(* its queue still held, nor a timer, an event, or another process.        *)
THEOREM CleanStops == PublisherSpec => []CleanStopUnlists
BY PublisherInvariance, InvImpliesCleanStop, PTL

(* What the worker has read so far is what is advertised.                  *)
Accurate == \A v \in Versions \ worker.todo : v \in worker.report <=> v \in advertised

(* The backend is up to date, or the worker brings it so, or something     *)
(* pending will make it read the registry once more.                       *)
UpToDate ==
  \/ emitting > 0 \/ timers > 0 \/ requests # <<>>
  \/ worker.at \in {"reading", "sent"} /\ Accurate
  \/ worker.at = "get" /\ listed[proc] = advertised

Held ==
  running =>
    /\ worker.at # "done" /\ (worker.at = "sent" => worker.todo = {})
    /\ requests \in Seq({"publish"})
    /\ UpToDate

LEMMA EnqueuedPublishes ==
  ASSUME NEW q \in Seq({"publish"})
  PROVE  Enqueued(q) \in Seq({"publish"}) /\ Enqueued(q) # <<>>
<1>1. Append(q, "publish") \in Seq({"publish"}) /\ Append(q, "publish") # <<>>
  OBVIOUS
<1>2. CASE Len(q) < QueueMax
  BY <1>1, <1>2 DEF Enqueued
<1>3. CASE ~(Len(q) < QueueMax)
  <2>1. Len(<<>>) = 0 /\ 0 < QueueMax
    BY PublisherAssumption
  <2>2. q # <<>>
    BY <1>3, <2>1
  <2>. QED BY <1>3, <2>2 DEF Enqueued
<1>. QED BY <1>2, <1>3

(* One step of a runtime that keeps running.                               *)
LEMMA HeldWhileRunning ==
  ASSUME PublisherInv, Held, Answered, Answered', PublisherNext, Undisturbed, running, running'
  PROVE  Held'
<1>. USE PublisherAssumption
<1>0. /\ ProcessTyped /\ WorkerTyped /\ BackendTyped /\ proc \in Procs
      /\ emitting \in Nat /\ timers \in 0..MaxTimers /\ failures \in 0..FailLimit
  BY DEF PublisherInv, ProcessTyped, WorkerTyped, running
<1>1. /\ worker.at # "done" /\ (worker.at = "sent" => worker.todo = {})
      /\ requests \in Seq({"publish"})
      /\ UpToDate
  BY DEF Held
<1>2. phase = "up" /\ phase' = "up"
  BY DEF running
<1>3. Quiet(proc) /\ failures' < FailLimit
  BY DEF Answered
<1>4. ASSUME NEW v \in Versions, Change(v) PROVE Held'
  <2>1. UNCHANGED <<requests, worker, timers, listed, proc>>
    BY <1>4 DEF Change, retries, backend
  <2>2. CASE v \in advertised /\ advertised' = advertised \ {v} /\ UNCHANGED emitting
    BY <2>2 DEF Undisturbed, Silent
  <2>3. CASE emitting' = emitting + 1
    <3>1. emitting' > 0
      BY <1>0, <2>3
    <3>. QED BY <1>1, <2>1, <3>1 DEF Held, UpToDate
  <2>. QED BY <1>2, <1>4, <2>2, <2>3 DEF Change
<1>5. CASE Emit \/ Periodic \/ TimerFires
  <2>1. requests' = Enqueued(requests) /\ UNCHANGED worker
    BY <1>5 DEF Emit, Periodic, TimerFires
  <2>2. requests' \in Seq({"publish"}) /\ requests' # <<>>
    BY <1>1, <2>1, EnqueuedPublishes
  <2>. QED BY <1>1, <2>1, <2>2 DEF Held, UpToDate
<1>6. CASE Take
  <2>1. requests # <<>> /\ requests' = Tail(requests)
    BY <1>6 DEF Take
  <2>2. Head(requests) = "publish" /\ requests' \in Seq({"publish"})
    BY <1>1, <2>1
  <2>3. worker' = [at |-> "reading", todo |-> Versions, report |-> {}, tries |-> 0]
    BY <1>6, <2>2 DEF Take, Idle
  <2>4. worker'.at = "reading" /\ worker'.todo = Versions
    BY <2>3
  <2>. QED BY <2>2, <2>4 DEF Held, UpToDate, Accurate
<1>7. CASE Empty
  BY <1>7 DEF Empty
<1>8. ASSUME NEW v \in Versions, Read(v) PROVE Held'
  <2>1. /\ worker.at = "reading" /\ v \in worker.todo
        /\ worker' = [worker EXCEPT !.todo = @ \ {v}, !.report = @ \union ({v} \intersect advertised)]
        /\ UNCHANGED <<requests, advertised, emitting, timers>>
    BY <1>8 DEF Read, inputs, retries
  <2>2. /\ worker'.at = "reading" /\ worker'.todo = worker.todo \ {v}
        /\ worker'.report = worker.report \union ({v} \intersect advertised)
    BY <1>0, <2>1 DEF WorkerTyped
  <2>3. v \notin worker.report
    BY <1>0, <2>1 DEF WorkerTyped
  <2>4. Accurate => Accurate'
    BY <2>1, <2>2, <2>3 DEF Accurate
  <2>. QED BY <1>1, <2>1, <2>2, <2>4 DEF Held, UpToDate
<1>9. CASE Send
  <2>1. /\ worker.at = "reading" /\ worker.todo = {} /\ worker' = [worker EXCEPT !.at = "sent"]
        /\ UNCHANGED <<requests, advertised, emitting, timers>>
    BY <1>9 DEF Send, inputs, retries
  <2>2. worker'.at = "sent" /\ worker'.todo = {} /\ worker'.report = worker.report
    BY <1>0, <2>1 DEF WorkerTyped
  <2>3. Accurate => Accurate'
    BY <2>1, <2>2 DEF Accurate
  <2>. QED BY <1>1, <2>1, <2>2, <2>3 DEF Held, UpToDate
<1>10. CASE PostSucceeds
  <2>1. /\ worker.at = "sent" /\ worker' = Idle
        /\ listed' = [listed EXCEPT ![proc] = worker.report]
        /\ UNCHANGED <<requests, advertised, emitting, timers, proc>>
    BY <1>10 DEF PostSucceeds, NextRound, inputs
  <2>2. worker'.at = "get" /\ listed'[proc'] = worker.report
    BY <1>0, <2>1 DEF Idle, BackendTyped
  <2>3. Accurate => worker.report = advertised
    BY <1>0, <1>1, <2>1 DEF Accurate, WorkerTyped, ProcessTyped
  <2>. QED BY <1>1, <2>1, <2>2, <2>3 DEF Held, UpToDate
<1>11. ASSUME GiveUp, UNCHANGED requests PROVE Held'
  <2>1. worker' = Idle
    BY <1>11 DEF GiveUp, NextRound
  <2>2. failures + 1 < FailLimit
    BY <1>0, <1>3, <1>11 DEF GiveUp
  <2>3. timers' > 0
    BY <1>0, <1>11, <2>2 DEF GiveUp
  <2>4. worker'.at = "get"
    BY <2>1 DEF Idle
  <2>. QED BY <1>1, <1>11, <2>3, <2>4 DEF Held, UpToDate
<1>12. CASE PostFails
  <2>1. CASE worker.tries < Retries
    <3>1. /\ worker.at = "sent" /\ worker' = [worker EXCEPT !.at = "reading", !.tries = @ + 1]
          /\ UNCHANGED <<requests, advertised, emitting, timers>>
      BY <1>12, <2>1 DEF PostFails, inputs, retries
    <3>2. worker'.at = "reading" /\ worker'.todo = worker.todo /\ worker'.report = worker.report
      BY <1>0, <3>1 DEF WorkerTyped
    <3>3. Accurate => Accurate'
      BY <3>1, <3>2 DEF Accurate
    <3>. QED BY <1>1, <3>1, <3>2, <3>3 DEF Held, UpToDate
  <2>2. CASE ~(worker.tries < Retries)
    BY <1>11, <1>12, <2>2 DEF PostFails
  <2>. QED BY <2>1, <2>2
<1>13. CASE PostRefused
  BY <1>11, <1>13 DEF PostRefused
<1>14. ASSUME NEW post \in wire, Arrives(post) PROVE Held'
  <2>1. post.proc # proc
    BY <1>3 DEF Quiet
  <2>2. listed' = [listed EXCEPT ![post.proc] = post.report]
        /\ UNCHANGED <<requests, worker, advertised, emitting, timers, proc>>
    BY <1>14 DEF Arrives, inputs, retries
  <2>3. listed'[proc'] = listed[proc]
    BY <1>0, <2>1, <2>2 DEF BackendTyped
  <2>. QED BY <1>1, <2>2, <2>3 DEF Held, UpToDate, Accurate
<1>. QED
  BY <1>2, <1>4, <1>5, <1>6, <1>7, <1>8, <1>9, <1>10, <1>12, <1>13, <1>14
     DEF PublisherNext, Work, StartRuntime, Stop, PutStop, Join, Deregister, DeregisterFails,
         Exit, Undisturbed

LEMMA HeldStep ==
  PublisherInv /\ Held /\ Answered /\ Answered'
  /\ [PublisherNext]_publisherVars /\ [Undisturbed]_publisherVars => Held'
<1>. SUFFICES ASSUME PublisherInv, Held, Answered, Answered',
                     [PublisherNext]_publisherVars, [Undisturbed]_publisherVars
     PROVE  Held'
  OBVIOUS
<1>1. CASE UNCHANGED publisherVars
  BY <1>1 DEF publisherVars, inputs, retries, backend, Held, UpToDate, Accurate, running
<1>2. CASE ~UNCHANGED publisherVars /\ running /\ running'
  BY <1>2, HeldWhileRunning
<1>3. CASE ~running'
  BY <1>3 DEF Held
<1>4. CASE ~UNCHANGED publisherVars /\ ~running /\ running'
  <2>1. StartRuntime
    BY <1>4
       DEF PublisherNext, Work, Change, Emit, Periodic, TimerFires, Take, Empty, Read, Send,
           PostSucceeds, PostFails, PostRefused, Stop, PutStop, Join, Deregister,
           DeregisterFails, Exit, Arrives, BackendRestarts, running
  <2>2. requests' = <<"publish">> /\ worker'.at = "get"
    BY <2>1 DEF StartRuntime, Idle
  <2>3. <<"publish">> \in Seq({"publish"}) /\ <<"publish">> # <<>>
    OBVIOUS
  <2>. QED BY <2>2, <2>3 DEF Held, UpToDate
<1>. QED BY <1>1, <1>2, <1>3, <1>4

(* The registry changes while the worker reads it and posts fail: nothing  *)
(* is lost without the periodic refresh, for the event comes after the     *)
(* change and what a retry timer asks for is read anew. What only the      *)
(* refresh (or nothing, for a post that arrives late) mends is excluded by *)
(* name: the change to UNLOADING, a restart of the backend, a post that    *)
(* may arrive when its client has given it up, retries that ended.         *)
THEOREM UpdatesAreHeld ==
  PublisherSafe /\ []Answered /\ [][Undisturbed]_publisherVars => []NothingLost
<1>1. PublisherInit => Held
  BY DEF PublisherInit, Held, running
<1>2. PublisherInv /\ [PublisherNext]_publisherVars => PublisherInv'
  BY ProcessTypedStep, RequestsFitStep, WorkerTypedStep, BackendTypedStep, WorkerEndsStep,
     GoneIsSilentStep DEF PublisherInv
<1>3. PublisherInv /\ Held => NothingLost
  BY DEF PublisherInv, ProcessTyped, Held, UpToDate, NothingLost
<1>. QED BY <1>1, <1>2, <1>3, HeldStep, PublisherStarts, PTL DEF PublisherSafe
=============================================================================
