--------------------------- MODULE StreamsProofs ----------------------------
(***************************************************************************)
(* For any number of sessions, devices and requests, with or without       *)
(* faults: the routes implement what the inference loop expects of them    *)
(* (the module Sessions).                                                  *)
(*                                                                         *)
(* A start owns the row it has inserted until it ends, and nobody else can *)
(* know it; every other operation works on a row that is committed.        *)
(***************************************************************************)
EXTENDS Streams, TLAPS, FiniteSetTheorems, WellFoundedInduction

(* The sessions ever inserted, committed or not: their number is the last  *)
(* started_at, so one of any of them was started last.                     *)
Inserted == {s \in Sessions : started[s] # 0}
Numbered ==
  /\ IsFiniteSet(Inserted)
  /\ \A s \in Sessions : started[s] <= Cardinality(Inserted)

(* The requests that have a row in hand.                                   *)
Holds(r) == req[r].at \in {"vas", "invalidate", "commit"}
Starts(r) == Holds(r) /\ req[r].op = "start"

(* What a start has inserted is its own, and not committed.                *)
OwnsItsRow ==
  \A r \in Requests : Starts(r) =>
    /\ req[r].session \in Inserted
    /\ db[req[r].session] = "absent"
    /\ \A q \in Requests \ {r} : Starts(q) => req[q].session # req[r].session

(* The others hold a row they have read: it is committed.                  *)
HoldsCommitted ==
  \A r \in Requests : Holds(r) /\ ~Starts(r) =>
    /\ req[r].op \in {"stop", "stop_stream", "mark_error"}
    /\ req[r].session \in Sessions
    /\ db[req[r].session] # "absent"

CommittedIsInserted == \A s \in Sessions : db[s] # "absent" => s \in Inserted

IInv == TypeOK /\ Numbered /\ OwnsItsRow /\ HoldsCommitted /\ CommittedIsInserted

-----------------------------------------------------------------------------
(* Among sessions with a bounded started_at one was started last.          *)
LEMMA LastExists ==
  ASSUME NEW A, NEW f, NEW n \in Nat, A # {},
         \A a \in A : f[a] \in Nat /\ f[a] <= n
  PROVE  \E a \in A : \A b \in A : f[b] <= f[a]
<1>. DEFINE R == OpToRel(<, Nat)
            Gaps == {n - f[a] : a \in A}
<1>1. Gaps \subseteq Nat /\ Gaps # {}
  OBVIOUS
<1>2. PICK i \in Gaps : \A j \in Gaps : <<j, i>> \notin R
  <2>. HIDE DEF R, Gaps
  <2>1. IsWellFoundedOn(R, Nat)
    BY NatLessThanWellFounded DEF R
  <2>. QED BY <1>1, <2>1, WFMin
<1>3. \A j \in Gaps : ~(j < i)
  <2>. HIDE DEF Gaps
  <2>. QED BY <1>1, <1>2 DEF OpToRel
<1>4. PICK a \in A : i = n - f[a]
  OBVIOUS
<1>5. \A b \in A : n - f[b] \in Gaps
  OBVIOUS
<1>. HIDE DEF Gaps
<1>. QED BY <1>3, <1>4, <1>5

(* The active session of a device that has one is a committed one.         *)
LEMMA ActiveIsLive ==
  ASSUME TypeOK, Numbered, NEW d, ActiveOf(d) # {}
  PROVE  Active(d) \in ActiveOf(d)
<1>1. Cardinality(Inserted) \in Nat
  BY FS_CardinalityType DEF Numbered
<1>2. \A s \in ActiveOf(d) : started[s] \in Nat /\ started[s] <= Cardinality(Inserted)
  BY DEF TypeOK, Numbered, ActiveOf
<1>3. \E s \in ActiveOf(d) : \A t \in ActiveOf(d) : started[t] <= started[s]
  BY <1>1, <1>2, LastExists
<1>. QED BY <1>3 DEF Active

(* The record of a request.                                                *)
ReqType ==
  [at : {"idle", "check", "again", "vas", "invalidate", "commit", "store"},
   op : Ops \cup {None}, device : Devices \cup {None}, session : Sessions \cup {None},
   shows : SUBSET Devices]

Holding == {"vas", "invalidate", "commit"}

LEMMA InitIInv == Init => IInv
<1>. SUFFICES ASSUME Init PROVE IInv
  OBVIOUS
<1>1. TypeOK
  BY DEF Init, TypeOK, Idle, DbStates
<1>2. Inserted = {}
  BY DEF Init, Inserted
<1>3. Numbered
  BY <1>2, FS_EmptySet DEF Init, Numbered
<1>4. \A r \in Requests : ~Holds(r)
  BY DEF Init, Idle, Holds
<1>5. OwnsItsRow /\ HoldsCommitted
  BY <1>4 DEF OwnsItsRow, HoldsCommitted, Starts
<1>6. CommittedIsInserted
  BY DEF Init, CommittedIsInserted
<1>. QED BY <1>1, <1>3, <1>5, <1>6 DEF IInv

(* A step of one request that changes no session: it goes on with the row  *)
(* it holds, takes a committed one, or holds none.                         *)
LEMMA Moves ==
  ASSUME IInv, NEW r \in Requests, NEW t \in ReqType,
         req' = [req EXCEPT ![r] = t],
         UNCHANGED <<db, started>>,
         cache' \in (SUBSET Devices) \cup {None},
         \/ t.at \notin Holding
         \/ Holds(r) /\ t.op = req[r].op /\ t.session = req[r].session
         \/ /\ t.op \in {"stop", "stop_stream", "mark_error"}
            /\ t.session \in Sessions /\ db[t.session] # "absent"
  PROVE  IInv'
<1>1. TypeOK'
  BY DEF IInv, TypeOK, ReqType
<1>2. Inserted' = Inserted
  BY DEF Inserted
<1>3. Numbered' /\ CommittedIsInserted'
  BY <1>2 DEF IInv, Numbered, CommittedIsInserted
<1>4. /\ req'[r] = t
      /\ \A q \in Requests \ {r} : req'[q] = req[q]
  BY DEF IInv, TypeOK
<1>5. \A q \in Requests \ {r} :
         /\ Holds(q)' = Holds(q)
         /\ Starts(q)' = Starts(q)
  BY <1>4 DEF Holds, Starts
<1>6. /\ Holds(r)' <=> t.at \in Holding
      /\ Starts(r)' <=> t.at \in Holding /\ t.op = "start"
  BY <1>4 DEF Holds, Starts, Holding
<1>7. Starts(r)' => Starts(r) /\ t.session = req[r].session
  BY <1>6 DEF Starts
<1>8. \A q \in Requests : Starts(q)' => Starts(q) /\ req'[q].session = req[q].session
  BY <1>4, <1>5, <1>7
<1>9. OwnsItsRow'
  BY <1>2, <1>8 DEF IInv, OwnsItsRow
<1>10. HoldsCommitted'
  <2>. SUFFICES ASSUME NEW q \in Requests, Holds(q)', ~Starts(q)'
                PROVE  /\ req'[q].op \in {"stop", "stop_stream", "mark_error"}
                       /\ req'[q].session \in Sessions
                       /\ db[req'[q].session] # "absent"
    BY DEF HoldsCommitted
  <2>1. CASE q # r
    BY <2>1, <1>4, <1>5 DEF IInv, HoldsCommitted
  <2>2. CASE q = r
    BY <2>2, <1>4, <1>6 DEF IInv, HoldsCommitted, Starts
  <2>. QED BY <2>1, <2>2
<1>. QED BY <1>1, <1>3, <1>9, <1>10 DEF IInv

(* A start inserts a row that nobody else can have.                        *)
LEMMA InsertIInv == ASSUME IInv, NEW r \in Requests, Insert(r) PROVE IInv'
<1>1. PICK s \in Sessions :
        /\ started[s] = 0
        /\ started' = [started EXCEPT ![s] = 1 + Cardinality(Inserted)]
        /\ req' = [req EXCEPT ![r].at = "vas", ![r].session = s]
  BY DEF Insert, Inserted
<1>2. UNCHANGED <<db, cache>> /\ req[r].op = "start" /\ req[r].at = "again"
  BY DEF Insert, At
<1>3. Cardinality(Inserted) \in Nat /\ IsFiniteSet(Inserted)
  BY FS_CardinalityType DEF IInv, Numbered
<1>. DEFINE n == Cardinality(Inserted)
<1>a. n + 1 \in Nat \ {0}
  BY <1>3
<1>b. /\ started' \in [Sessions -> Nat]
      /\ \A u \in Sessions : started'[u] = IF u = s THEN n + 1 ELSE started[u]
  <2>1. 1 + n = n + 1
    BY <1>3
  <2>2. started' = [started EXCEPT ![s] = n + 1]
    BY <1>1, <2>1
  <2>. HIDE DEF n
  <2>. QED BY <1>a, <2>2 DEF IInv, TypeOK
<1>4. s \notin Inserted /\ Inserted' = Inserted \cup {s}
  <2>1. Inserted' = {u \in Sessions : started'[u] # 0}
    BY DEF Inserted
  <2>2. \A u \in Sessions : u \in Inserted <=> started[u] # 0
    BY DEF Inserted
  <2>. HIDE DEF n
  <2>. QED BY <1>1, <1>a, <1>b, <2>1, <2>2 DEF Inserted
<1>5. IsFiniteSet(Inserted') /\ Cardinality(Inserted') = Cardinality(Inserted) + 1
  BY <1>3, <1>4, FS_AddElement
<1>6. TypeOK'
  <2>1. req' \in [Requests -> ReqType]
    <3>. DEFINE t == [[req[r] EXCEPT !.at = "vas"] EXCEPT !.session = s]
    <3>1. req \in [Requests -> ReqType]
      BY DEF IInv, TypeOK, ReqType
    <3>2. t \in ReqType
      BY <3>1 DEF ReqType
    <3>3. req' = [req EXCEPT ![r] = t]
      BY <1>1, <3>1 DEF ReqType
    <3>. HIDE DEF t
    <3>. QED BY <3>1, <3>2, <3>3
  <2>. QED BY <1>2, <1>b, <2>1 DEF IInv, TypeOK, ReqType
<1>7. Numbered'
  <2>. DEFINE m == Cardinality(Inserted')
  <2>1. n \in Nat /\ m = n + 1
    BY <1>3, <1>5
  <2>2. ASSUME NEW u \in Sessions PROVE started'[u] <= m
    <3>1. started[u] \in Nat /\ started[u] <= n
      BY DEF IInv, TypeOK, Numbered
    <3>. HIDE DEF n, m
    <3>. QED BY <1>b, <2>1, <3>1
  <2>. QED BY <1>5, <2>2 DEF Numbered
<1>8. CommittedIsInserted'
  BY <1>2, <1>4 DEF IInv, CommittedIsInserted
<1>9. /\ req'[r].at = "vas" /\ req'[r].session = s /\ req'[r].op = "start"
      /\ \A q \in Requests \ {r} : req'[q] = req[q]
  BY <1>1, <1>2 DEF IInv, TypeOK
<1>10. /\ Starts(r)' /\ Holds(r)'
       /\ \A q \in Requests \ {r} : Starts(q)' = Starts(q) /\ Holds(q)' = Holds(q)
  BY <1>9 DEF Starts, Holds
<1>11. db[s] = "absent"
  BY <1>1, <1>4 DEF IInv, CommittedIsInserted
<1>12. OwnsItsRow'
  BY <1>2, <1>4, <1>9, <1>10, <1>11 DEF IInv, OwnsItsRow
<1>13. HoldsCommitted'
  BY <1>2, <1>9, <1>10 DEF IInv, HoldsCommitted
<1>. QED BY <1>6, <1>7, <1>8, <1>12, <1>13 DEF IInv

(* A commit writes the row its request holds, or fails.                    *)
LEMMA CommitIInv == ASSUME IInv, NEW r \in Requests, Commit(r) PROVE IInv'
<1>. DEFINE s == req[r].session
<1>1. /\ Holds(r) /\ UNCHANGED <<started, cache>>
      /\ req' = [req EXCEPT ![r] = Idle]
      /\ db' = [db EXCEPT ![s] = Written(req[r].op)] \/ db' = db
  BY DEF Commit, Holds, Ends
<1>2. s \in Inserted /\ req[r].op \in {"start", "stop", "stop_stream", "mark_error"}
  BY <1>1 DEF IInv, OwnsItsRow, HoldsCommitted, CommittedIsInserted, Starts
<1>3. Written(req[r].op) \in {"live", "stopped", "error"}
  BY <1>2 DEF Written
<1>4. Inserted' = Inserted /\ s \in Sessions
  BY <1>1, <1>2 DEF Inserted
<1>5. TypeOK'
  BY <1>1, <1>3 DEF IInv, TypeOK, Idle, DbStates
<1>6. Numbered'
  BY <1>1, <1>4 DEF IInv, Numbered
<1>7. \A u \in Sessions :
        /\ db'[u] # "absent" => u = s \/ db[u] # "absent"
        /\ db[u] # "absent" => db'[u] # "absent"
        /\ u # s => db'[u] = db[u]
  BY <1>1, <1>3 DEF IInv, TypeOK
<1>8. CommittedIsInserted'
  BY <1>2, <1>4, <1>7 DEF IInv, CommittedIsInserted
<1>9. /\ ~Holds(r)' /\ ~Starts(r)'
      /\ \A q \in Requests \ {r} :
           req'[q] = req[q] /\ Starts(q)' = Starts(q) /\ Holds(q)' = Holds(q)
  BY <1>1 DEF IInv, TypeOK, Starts, Holds, Idle
<1>10. \A q \in Requests \ {r} : Starts(q) => req[q].session # s
  BY <1>1 DEF IInv, OwnsItsRow, HoldsCommitted
<1>11. OwnsItsRow'
  BY <1>4, <1>7, <1>9, <1>10 DEF IInv, OwnsItsRow, Inserted
<1>12. HoldsCommitted'
  BY <1>7, <1>9 DEF IInv, HoldsCommitted
<1>. QED BY <1>5, <1>6, <1>8, <1>11, <1>12 DEF IInv

(* The death of the backend takes every transaction.                       *)
LEMMA RestartIInv == ASSUME IInv, Restart PROVE IInv'
<1>1. UNCHANGED <<db, started, cache>> /\ req' = [q \in Requests |-> Idle]
  BY DEF Restart
<1>2. TypeOK'
  BY <1>1 DEF IInv, TypeOK, Idle
<1>3. Inserted' = Inserted
  BY <1>1 DEF Inserted
<1>4. Numbered' /\ CommittedIsInserted'
  BY <1>1, <1>3 DEF IInv, Numbered, CommittedIsInserted
<1>5. \A q \in Requests : ~Holds(q)' /\ ~Starts(q)'
  BY <1>1 DEF Holds, Starts, Idle
<1>. QED BY <1>2, <1>4, <1>5 DEF IInv, OwnsItsRow, HoldsCommitted

(* Every step of one request keeps the invariant.                          *)
LEMMA RequestIInv ==
  ASSUME IInv, NEW r \in Requests, Begin(r) \/ Continue(r)
  PROVE  IInv'
<1>. DEFINE t == req'[r]
<1>0. req \in [Requests -> ReqType] /\ cache \in (SUBSET Devices) \cup {None}
  BY DEF IInv, TypeOK, ReqType
<1>1. CASE Begin(r)
  <2>1. PICK op \in OpsOf[r], d \in Devices :
          req' = [req EXCEPT ![r].op = op, ![r].device = d, ![r].at = "check"]
    BY <1>1 DEF Begin
  <2>2. op \in Ops
    BY StreamsAssumption
  <2>3. t \in ReqType /\ t.at = "check" /\ req' = [req EXCEPT ![r] = t]
    BY <1>0, <2>1, <2>2 DEF ReqType
  <2>. QED BY <1>0, <1>1, <2>3, Moves DEF Begin, Holding
<1>2. CASE RouteCheck(r)
  <2>1. t \in ReqType /\ t.at = "again" /\ req' = [req EXCEPT ![r] = t]
    BY <1>0, <1>2 DEF RouteCheck, Goto, ReqType
  <2>. QED BY <1>0, <1>2, <2>1, Moves DEF RouteCheck, Holding
<1>3. CASE RouteReplies(r) \/ VasFailed(r) \/ CacheHit(r) \/ CacheStore(r)
  <2>1. t \in ReqType /\ t.at = "idle" /\ req' = [req EXCEPT ![r] = t]
    BY <1>0, <1>3 DEF RouteReplies, VasFailed, CacheHit, CacheStore, Ends, Idle, ReqType
  <2>2. UNCHANGED <<db, started>>
    BY <1>3 DEF RouteReplies, VasFailed, CacheHit, CacheStore
  <2>3. cache' \in (SUBSET Devices) \cup {None}
    BY <1>0, <1>3 DEF RouteReplies, VasFailed, CacheHit, CacheStore, ReqType
  <2>. QED BY <2>1, <2>2, <2>3, Moves DEF Holding
<1>4. CASE Insert(r)
  BY <1>4, InsertIInv
<1>5. CASE VasStarted(r) \/ VasStopped(r) \/ Invalidate(r)
  <2>1. /\ t \in ReqType /\ req' = [req EXCEPT ![r] = t]
        /\ t.op = req[r].op /\ t.session = req[r].session
    BY <1>0, <1>5 DEF VasStarted, VasStopped, Invalidate, Goto, ReqType
  <2>2. Holds(r) /\ UNCHANGED <<db, started>>
    BY <1>5 DEF VasStarted, VasStopped, Invalidate, At, Holds
  <2>3. cache' \in (SUBSET Devices) \cup {None}
    BY <1>0, <1>5 DEF VasStarted, VasStopped, Invalidate
  <2>. QED BY <2>1, <2>2, <2>3, Moves
<1>6. CASE SetStopped(r) \/ ReadActive(r)
  <2>. DEFINE d == req[r].device
  <2>1. Active(d) \in ActiveOf(d)
    BY <1>6, ActiveIsLive DEF SetStopped, ReadActive, IInv
  <2>2. Active(d) \in Sessions /\ db[Active(d)] # "absent"
    BY <2>1 DEF ActiveOf
  <2>3. PICK at \in {"vas", "invalidate", "commit"} :
          req' = [req EXCEPT ![r].at = at, ![r].session = Active(d)]
    BY <1>6 DEF SetStopped, ReadActive
  <2>4. req[r].op \in {"stop", "stop_stream", "mark_error"} /\ UNCHANGED <<db, started, cache>>
    BY <1>6 DEF SetStopped, ReadActive, At
  <2>5. /\ t \in ReqType /\ req' = [req EXCEPT ![r] = t]
        /\ t.op = req[r].op /\ t.session = Active(d)
    BY <1>0, <2>2, <2>3 DEF ReqType
  <2>. QED BY <1>0, <2>2, <2>4, <2>5, Moves
<1>7. CASE ListDevices(r)
  <2>1. t \in ReqType /\ t.at = "store" /\ req' = [req EXCEPT ![r] = t]
    BY <1>0, <1>7 DEF ListDevices, ActiveDevices, ReqType
  <2>. QED BY <1>0, <1>7, <2>1, Moves DEF ListDevices, Holding
<1>8. CASE Commit(r)
  BY <1>8, CommitIInv
<1>. QED BY <1>1, <1>2, <1>3, <1>4, <1>5, <1>6, <1>7, <1>8 DEF Continue

LEMMA NextIInv == IInv /\ [Next]_vars => IInv'
<1>. SUFFICES ASSUME IInv, [Next]_vars PROVE IInv'
  OBVIOUS
<1>1. ASSUME NEW r \in Requests, Begin(r) \/ Continue(r) PROVE IInv'
  BY <1>1, RequestIInv
<1>2. CASE Expire \/ UNCHANGED vars
  <2>1. UNCHANGED <<db, started, req>> /\ cache' \in {None, cache}
    BY <1>2 DEF Expire, vars
  <2>2. TypeOK'
    BY <2>1 DEF IInv, TypeOK
  <2>3. Inserted' = Inserted /\ \A r \in Requests : Holds(r)' = Holds(r) /\ Starts(r)' = Starts(r)
    BY <2>1 DEF Inserted, Holds, Starts
  <2>. QED BY <2>1, <2>2, <2>3
         DEF IInv, Numbered, OwnsItsRow, HoldsCommitted, CommittedIsInserted
<1>3. CASE Restart
  BY <1>3, RestartIInv
<1>. QED BY <1>1, <1>2, <1>3 DEF Next

(* However requests overlap, fail or die, the invariant holds.             *)
THEOREM Invariance == Spec => []IInv
<1>. QED BY InitIInv, NextIInv, PTL DEF Spec

(* The rows, the requests and the cache are of their types.                *)
THEOREM TypeCorrect == Spec => []TypeOK
<1>1. IInv => TypeOK
  BY DEF IInv
<1>. QED BY <1>1, Invariance, PTL

-----------------------------------------------------------------------------
(* A commit of a start makes a session LIVE that nobody has seen before; a *)
(* commit of anything else ends one, or ends once more what has ended.     *)
LEMMA CommitRefines ==
  ASSUME IInv, NEW r \in Requests, Commit(r)
  PROVE  Abstract!SessionsNext \/ UNCHANGED Visible
<1>. DEFINE s == req[r].session
<1>1. Holds(r) /\ (db' = [db EXCEPT ![s] = Written(req[r].op)] \/ db' = db)
  BY DEF Commit, Holds
<1>2. CASE db' = db
  BY <1>2 DEF Visible
<1>3. CASE Starts(r) /\ db' = [db EXCEPT ![s] = Written(req[r].op)]
  <2>1. s \in Sessions /\ db[s] = "absent" /\ Written(req[r].op) = "live"
    BY <1>3 DEF IInv, OwnsItsRow, Inserted, Starts, Written
  <2>2. Visible[s] = "absent" /\ Visible' = [Visible EXCEPT ![s] = "live"]
    BY <1>3, <2>1 DEF IInv, TypeOK, Visible
  <2>. QED BY <2>1, <2>2 DEF Abstract!SessionsNext, Abstract!GoLive
<1>4. CASE ~Starts(r) /\ db' = [db EXCEPT ![s] = Written(req[r].op)]
  <2>1. /\ s \in Sessions /\ db[s] \in {"live", "stopped", "error"}
        /\ Written(req[r].op) \in {"stopped", "error"}
    BY <1>1, <1>4 DEF IInv, TypeOK, DbStates, HoldsCommitted, Written
  <2>2. Visible' = [Visible EXCEPT ![s] = "over"]
    BY <1>4, <2>1 DEF IInv, TypeOK, Visible
  <2>3. CASE db[s] = "live"
    <3>1. Visible[s] = "live"
      BY <2>1, <2>3 DEF Visible
    <3>. QED BY <2>1, <2>2, <3>1 DEF Abstract!SessionsNext, Abstract!GoOver
  <2>4. CASE db[s] \in {"stopped", "error"}
    <3>1. Visible' = Visible
      BY <2>1, <2>2, <2>4 DEF Visible
    <3>. QED BY <3>1
  <2>. QED BY <2>1, <2>3, <2>4
<1>. QED BY <1>1, <1>2, <1>3, <1>4

LEMMA StepRefines ==
  IInv /\ [Next]_vars => [Abstract!SessionsNext]_Visible
<1>. SUFFICES ASSUME IInv, [Next]_vars PROVE Abstract!SessionsNext \/ UNCHANGED Visible
  OBVIOUS
<1>1. ASSUME NEW r \in Requests, Commit(r) PROVE Abstract!SessionsNext \/ UNCHANGED Visible
  BY <1>1, CommitRefines
<1>2. ASSUME NEW r \in Requests, Begin(r) \/ Continue(r), ~Commit(r) PROVE db' = db
  BY <1>2 DEF Begin, Continue, RouteCheck, RouteReplies, Insert, VasStarted, VasFailed,
     SetStopped, Invalidate, ReadActive, VasStopped, CacheHit, ListDevices, CacheStore
<1>3. CASE Expire \/ Restart \/ UNCHANGED vars
  BY <1>3 DEF Expire, Restart, vars, Visible
<1>. QED BY <1>1, <1>2, <1>3 DEF Next, Visible

(* What the inference loop sees of the sessions is what Sessions says: each *)
(* appears LIVE once and is over once.                                      *)
THEOREM SessionsImplemented == Spec => ImplementsSessions
<1>1. Init => Abstract!SessionsInit
  BY DEF Init, Abstract!SessionsInit, Visible
<1>. QED BY <1>1, StepRefines, Invariance, PTL
       DEF Spec, ImplementsSessions, Abstract!SessionsSpec

-----------------------------------------------------------------------------
(* One session per device.                                                 *)

(* Of the starts of a device one at most is between its look for an active *)
(* session and its commit with a row in hand. The code does not ensure it. *)
StartsNeverOverlap ==
  \A q, r \in Requests : Starts(q) /\ Starts(r) /\ req[q].device = req[r].device => q = r

(* What a start has found is still so when it commits.                     *)
FoundNoneStill ==
  \A r \in Requests : Starts(r) =>
    /\ DeviceOf[req[r].session] = req[r].device
    /\ ActiveOf(req[r].device) = {}

(* Who has a row of a start in hand had it before, or inserts it.          *)
LEMMA StartsGoOn ==
  ASSUME IInv, [Next]_vars, NEW r \in Requests, Starts(r)', ~Insert(r)
  PROVE  Starts(r) /\ req'[r].session = req[r].session /\ req'[r].device = req[r].device
<1>0. req \in [Requests -> ReqType]
  BY DEF IInv, TypeOK, ReqType
<1>1. CASE req'[r] = req[r]
  BY <1>1 DEF Starts, Holds
<1>2. CASE Restart
  BY <1>2 DEF Restart, Starts, Holds, Idle
<1>3. CASE Begin(r) \/ Continue(r)
  <2>1. CASE Begin(r) \/ RouteCheck(r) \/ ListDevices(r)
    <3>1. req'[r].at \in {"check", "again", "store"}
      <4>1. CASE Begin(r)
        BY <1>0, <4>1 DEF Begin, ReqType
      <4>2. CASE RouteCheck(r)
        BY <1>0, <4>2 DEF RouteCheck, Goto, ReqType
      <4>3. CASE ListDevices(r)
        BY <1>0, <4>3 DEF ListDevices, ReqType
      <4>. QED BY <2>1, <4>1, <4>2, <4>3
    <3>. QED BY <3>1 DEF Starts, Holds
  <2>2. CASE RouteReplies(r) \/ VasFailed(r) \/ CacheHit(r) \/ CacheStore(r) \/ Commit(r)
    BY <1>0, <2>2 DEF RouteReplies, VasFailed, CacheHit, CacheStore, Commit, Ends, Starts, Holds, Idle
  <2>3. CASE VasStarted(r) \/ VasStopped(r) \/ Invalidate(r)
    BY <1>0, <2>3 DEF VasStarted, VasStopped, Invalidate, At, Goto, Starts, Holds, ReqType
  <2>4. CASE SetStopped(r) \/ ReadActive(r)
    BY <1>0, <2>4 DEF SetStopped, ReadActive, At, Starts, Holds, ReqType
  <2>. QED BY <1>3, <2>1, <2>2, <2>3, <2>4 DEF Continue
<1>4. ASSUME NEW q \in Requests, q # r, Begin(q) \/ Continue(q) PROVE req'[r] = req[r]
  BY <1>0, <1>4 DEF Begin, Continue, RouteCheck, RouteReplies, Insert, VasStarted, VasFailed,
     SetStopped, Invalidate, ReadActive, VasStopped, Commit, CacheHit, ListDevices, CacheStore,
     Goto, Ends
<1>. QED BY <1>1, <1>2, <1>3, <1>4 DEF Next, Expire, vars

LEMMA ApartStep ==
  IInv /\ StartsNeverOverlap /\ AtMostOneActive /\ FoundNoneStill /\ [Next]_vars =>
    (AtMostOneActive /\ FoundNoneStill)'
<1>. SUFFICES ASSUME IInv, StartsNeverOverlap, AtMostOneActive, FoundNoneStill, [Next]_vars
              PROVE  (AtMostOneActive /\ FoundNoneStill)'
  OBVIOUS
<1>1. CASE db' = db
  <2>1. AtMostOneActive' /\ \A d : ActiveOf(d)' = ActiveOf(d)
    BY <1>1 DEF AtMostOneActive, ActiveOf
  <2>2. ASSUME NEW r \in Requests, Starts(r)'
        PROVE  DeviceOf[req'[r].session] = req'[r].device /\ ActiveOf(req'[r].device) = {}
    <3>1. CASE Insert(r)
      <4>1. req \in [Requests -> ReqType]
        BY DEF IInv, TypeOK, ReqType
      <4>. QED BY <3>1, <4>1 DEF Insert, ReqType
    <3>2. CASE ~Insert(r)
      BY <2>2, <3>2, StartsGoOn DEF FoundNoneStill
    <3>. QED BY <3>1, <3>2
  <2>. QED BY <2>1, <2>2 DEF FoundNoneStill
<1>2. ASSUME NEW r \in Requests, Commit(r), db' # db PROVE (AtMostOneActive /\ FoundNoneStill)'
  <2>. DEFINE s == req[r].session
  <2>1. /\ Holds(r) /\ db' = [db EXCEPT ![s] = Written(req[r].op)] /\ ~Starts(r)'
        /\ db \in [Sessions -> DbStates] /\ ~Insert(r)
    BY <1>2 DEF Commit, Holds, Starts, Ends, Idle, Insert, At, IInv, TypeOK
  <2>2. ASSUME NEW q \in Requests, Starts(q)'
        PROVE  /\ Starts(q) /\ q # r /\ ~Insert(q)
               /\ req'[q].session = req[q].session /\ req'[q].device = req[q].device
               /\ DeviceOf[req[q].session] = req[q].device /\ ActiveOf(req[q].device) = {}
    <3>1. ~Insert(q)
      BY <1>2 DEF Insert
    <3>. QED BY <2>1, <2>2, <3>1, StartsGoOn DEF FoundNoneStill
  <2>3. CASE Starts(r)
    <3>1. /\ s \in Sessions /\ Written(req[r].op) = "live"
          /\ DeviceOf[s] = req[r].device /\ ActiveOf(req[r].device) = {}
      BY <2>3 DEF IInv, OwnsItsRow, Inserted, FoundNoneStill, Written, Starts
    <3>2. \A t \in Sessions : db'[t] = "live" => db[t] = "live" \/ t = s
      BY <2>1, <3>1
    <3>3. \A t \in Sessions : db[t] = "live" => DeviceOf[t] # req[r].device
      BY <3>1 DEF ActiveOf
    <3>4. AtMostOneActive'
      BY <3>1, <3>2, <3>3 DEF AtMostOneActive
    <3>5. ASSUME NEW q \in Requests, Starts(q)' PROVE ActiveOf(req[q].device)' = {}
      <4>1. /\ Starts(q) /\ q # r
            /\ req'[q].device = req[q].device /\ ActiveOf(req[q].device) = {}
        BY <2>2, <3>5
      <4>2. DeviceOf[s] # req[q].device
        BY <2>3, <3>1, <4>1 DEF StartsNeverOverlap
      <4>3. \A t \in Sessions : DeviceOf[t] = req[q].device => db'[t] # "live"
        BY <3>2, <4>1, <4>2 DEF ActiveOf
      <4>. QED BY <4>1, <4>3 DEF ActiveOf
    <3>. QED BY <2>2, <3>4, <3>5 DEF FoundNoneStill
  <2>4. CASE ~Starts(r)
    <3>1. Written(req[r].op) # "live"
      BY <2>1, <2>4 DEF IInv, HoldsCommitted, Written
    <3>2. \A t \in Sessions : db'[t] = "live" => db[t] = "live"
      BY <2>1, <3>1
    <3>. QED BY <2>2, <3>2 DEF AtMostOneActive, FoundNoneStill, ActiveOf
  <2>. QED BY <2>3, <2>4
<1>3. db' = db \/ \E r \in Requests : Commit(r)
  BY DEF Next, vars, Expire, Restart, Begin, Continue, RouteCheck, RouteReplies, Insert, VasStarted,
     VasFailed, SetStopped, Invalidate, ReadActive, VasStopped, CacheHit, ListDevices, CacheStore
<1>. QED BY <1>1, <1>2, <1>3

(* Two LIVE sessions of a device come of two starts that overlap, and of   *)
(* nothing else: not of stops, reports of errors, failed commits or the    *)
(* death of the backend between the insertion and the commit.              *)
THEOREM DuplicatesNeedOverlap == Spec /\ []StartsNeverOverlap => []AtMostOneActive
<1>1. Init => AtMostOneActive /\ FoundNoneStill
  BY DEF Init, AtMostOneActive, FoundNoneStill, Starts, Holds, Idle
<1>. QED BY <1>1, ApartStep, Invariance, PTL DEF Spec

-----------------------------------------------------------------------------
(* The cached list.                                                        *)

(* No list is between its reads and its store while a change waits for its *)
(* commit. The code does not ensure it.                                    *)
ListsApart == \A q, r \in Requests : At(q, "list", "store") => req[r].at # "commit"

(* What goes to its commit has deleted the list. stop_stream and           *)
(* mark_stream_error do not, nor does anything while Redis is away.        *)
ChangesDropList ==
  \A r \in Requests : req'[r].at = "commit" /\ req[r].at # "commit" => cache' = None

(* The list shown is the active devices, and so are those in hand.         *)
ListsFresh ==
  /\ cache \in {None, ActiveDevices}
  /\ \A r \in Requests : req[r].at = "commit" => cache = None
  /\ \A r \in Requests : At(r, "list", "store") => req[r].shows = ActiveDevices

LEMMA FreshStep ==
  IInv /\ ListsFresh /\ ListsApart /\ ListsApart' /\ [Next]_vars /\ [ChangesDropList]_vars =>
    ListsFresh'
<1>. SUFFICES ASSUME IInv, ListsFresh, ListsApart, ListsApart', [Next]_vars, [ChangesDropList]_vars
              PROVE  ListsFresh'
  OBVIOUS
<1>0. req \in [Requests -> ReqType]
  BY DEF IInv, TypeOK, ReqType
<1>1. CASE UNCHANGED vars
  BY <1>1 DEF vars, ListsFresh, ActiveDevices, ActiveOf, At
<1>2. ASSUME UNCHANGED db PROVE ActiveDevices' = ActiveDevices
  BY <1>2 DEF ActiveDevices, ActiveOf
<1>3. ASSUME UNCHANGED <<db, cache>>, ~UNCHANGED vars,
             \A r \in Requests : At(r, "list", "store")' =>
               req'[r].shows = ActiveDevices \/ req'[r] = req[r]
      PROVE  ListsFresh'
  <2>1. ActiveDevices' = ActiveDevices
    BY <1>2, <1>3
  <2>2. \A r \in Requests : req'[r].at = "commit" => cache' = None
    BY <1>3 DEF ListsFresh, ChangesDropList
  <2>3. \A r \in Requests : At(r, "list", "store")' => req'[r].shows = ActiveDevices
    BY <1>3 DEF ListsFresh, At
  <2>. QED BY <1>3, <2>1, <2>2, <2>3 DEF ListsFresh
<1>4. ASSUME NEW r \in Requests, Begin(r) \/ Continue(r), ~UNCHANGED vars
      PROVE  ListsFresh'
  <2>0. \A q \in Requests \ {r} : req'[q] = req[q]
    BY <1>0, <1>4 DEF Begin, Continue, RouteCheck, RouteReplies, Insert, VasStarted, VasFailed,
       SetStopped, Invalidate, ReadActive, VasStopped, Commit, CacheHit, ListDevices, CacheStore,
       Goto, Ends
  <2>1. CASE Begin(r) \/ RouteCheck(r) \/ Insert(r) \/ VasStarted(r) \/ VasStopped(r)
    <3>1. UNCHANGED <<db, cache>>
      BY <2>1 DEF Begin, RouteCheck, Insert, VasStarted, VasStopped
    <3>2. req'[r].at # "store"
      <4>1. CASE Begin(r)
        BY <1>0, <4>1 DEF Begin, ReqType
      <4>2. CASE RouteCheck(r) \/ VasStarted(r) \/ VasStopped(r)
        BY <1>0, <4>2 DEF RouteCheck, VasStarted, VasStopped, Goto, ReqType
      <4>3. CASE Insert(r)
        BY <1>0, <4>3 DEF Insert, ReqType
      <4>. QED BY <2>1, <4>1, <4>2, <4>3
    <3>. QED BY <1>3, <1>4, <2>0, <3>1, <3>2 DEF At
  <2>2. CASE SetStopped(r) \/ ReadActive(r)
    <3>1. UNCHANGED <<db, cache>>
      BY <2>2 DEF SetStopped, ReadActive
    <3>2. req'[r].at # "store"
      BY <1>0, <2>2 DEF SetStopped, ReadActive, ReqType
    <3>. QED BY <1>3, <1>4, <2>0, <3>1, <3>2 DEF At
  <2>3. CASE RouteReplies(r) \/ VasFailed(r) \/ CacheHit(r)
    <3>1. UNCHANGED <<db, cache>> /\ req'[r] = Idle
      BY <1>0, <2>3 DEF RouteReplies, VasFailed, CacheHit, Ends
    <3>. QED BY <1>3, <1>4, <2>0, <3>1 DEF At, Idle
  <2>4. CASE ListDevices(r)
    <3>1. UNCHANGED <<db, cache>> /\ req'[r].shows = ActiveDevices
      BY <1>0, <2>4 DEF ListDevices, ReqType
    <3>. QED BY <1>3, <1>4, <2>0, <3>1
  <2>5. CASE Invalidate(r)
    <3>1. /\ req[r].at = "invalidate" /\ req'[r].at = "commit" /\ UNCHANGED db
          /\ ~At(r, "list", "store")'
      BY <1>0, <2>5 DEF Invalidate, Goto, ReqType, At
    <3>2. cache' = None
      BY <1>4, <3>1 DEF ChangesDropList
    <3>. QED BY <1>2, <2>0, <3>1, <3>2 DEF ListsFresh, At
  <2>6. CASE Commit(r)
    <3>1. req[r].at = "commit" /\ cache' = cache /\ req'[r] = Idle
      BY <1>0, <2>6 DEF Commit, Ends
    <3>2. cache' = None
      BY <3>1 DEF ListsFresh
    <3>3. \A q \in Requests : ~At(q, "list", "store")'
      BY <2>0, <3>1 DEF ListsApart, At, Idle
    <3>. QED BY <3>2, <3>3 DEF ListsFresh
  <2>7. CASE CacheStore(r)
    <3>1. /\ At(r, "list", "store") /\ UNCHANGED db /\ req'[r] = Idle
          /\ cache' = req[r].shows \/ cache' = cache
      BY <1>0, <2>7 DEF CacheStore, Ends
    <3>2. \A q \in Requests : req[q].at # "commit"
      BY <3>1 DEF ListsApart
    <3>. QED BY <1>2, <2>0, <3>1, <3>2 DEF ListsFresh, At, Idle
  <2>. QED BY <1>4, <2>1, <2>2, <2>3, <2>4, <2>5, <2>6, <2>7 DEF Continue
<1>5. CASE Expire
  <2>1. UNCHANGED <<db, req>> /\ cache' = None
    BY <1>5 DEF Expire
  <2>. QED BY <1>2, <2>1 DEF ListsFresh, At
<1>6. CASE Restart
  <2>1. UNCHANGED <<db, cache>> /\ \A r \in Requests : req'[r] = Idle
    BY <1>6 DEF Restart
  <2>. QED BY <1>2, <2>1 DEF ListsFresh, At, Idle
<1>. QED BY <1>1, <1>4, <1>5, <1>6 DEF Next

(* A list that shows what is no longer so comes of a list that was composed *)
(* before a commit and stored after the deletion that goes before it, or of *)
(* a change that deletes no list; of nothing else: not of two changes that  *)
(* overlap, a commit that fails, or a list stored after the restart.        *)
THEOREM StaleListNeedsOverlap ==
  Spec /\ []ListsApart /\ [][ChangesDropList]_vars => [](cache \in {None, ActiveDevices})
<1>1. Init => ListsFresh
  BY DEF Init, ListsFresh, At, Idle
<1>2. ListsFresh => cache \in {None, ActiveDevices}
  BY DEF ListsFresh
<1>. QED BY <1>1, <1>2, FreshStep, Invariance, PTL DEF Spec
=============================================================================
