-------------------------- MODULE ViolationsProofs --------------------------
(***************************************************************************)
(* Violations and their snapshots for any number of requests, rows and     *)
(* faults: what is stored of a snapshot has a violation and a job behind   *)
(* it, and what is final stays.                                            *)
(***************************************************************************)
EXTENDS Violations, TLAPS

VasStates == {"none", "processing"} \cup Final

Transactions ==
  [at : {"idle", "vas", "ask", "commit"},
   op : {None, "event", "loop", "route", "detail", "review"},
   v : ViolationIds \cup {None}, status : Statuses \cup {None},
   confidence : (1 .. MaxConfidence) \cup {None},
   id : EvidenceIds \cup {None}, row : Rows,
   todo : SUBSET EvidenceIds, news : SUBSET EvidenceIds]

(* The transaction creates the violation it writes. *)
Creates(t) == t.op = "event" /\ t.status # None

(* The violation of a transaction t of r is one that is stored, or one     *)
(* that only r knows.                                                      *)
ViolationSound(r, t) ==
  /\ t.status # None => t.v # None /\ t.op \in {"event", "review"}
  /\ t.v # None /\ Creates(t) => t.v \notin Stored /\ \A q \in Requests \ {r} : tx[q].v # t.v
  /\ t.v # None /\ ~Creates(t) => t.v \in Stored

(* The snapshot of t is one that only r knows, of a violation that is      *)
(* stored or will be with it; W tells what jobs VAS has.                   *)
SnapshotSound(r, t, W) ==
  /\ t.at = "vas" => t.id # None
  /\ t.at = "ask" => t.id = None
  /\ t.id # None =>
       /\ evidence[t.id] = NoEvidence
       /\ \A q \in Requests \ {r} : tx[q].id # t.id
       /\ t.row # NoEvidence
       /\ t.row.of \in Stored \/ (Creates(t) /\ t.row.of = t.v)
       /\ t.at = "commit" /\ t.row.status \in {"processing", "ready"} => W[t.id] # "none"
       /\ t.at = "vas" /\ t.op # "loop" => t.row.status = "pending"

(* What a reader has seen PROCESSING is still so, or somebody else has     *)
(* written what VAS says.                                                  *)
NewsSound(t, W) ==
  /\ \A e \in t.todo \cup t.news :
       /\ evidence[e] # NoEvidence
       /\ W[e] # "none"
       /\ evidence[e].status \in {"processing", W[e]}
  /\ \A e \in t.news : W[e] \in Final

Sound(r, t, W) == ViolationSound(r, t) /\ SnapshotSound(r, t, W) /\ NewsSound(t, W)

AllSound == \A r \in Requests : Sound(r, tx[r], vas)

IInv == EvidenceHasSource /\ tx \in [Requests -> Transactions] /\ AllSound

-----------------------------------------------------------------------------
LEMMA Initially == Init => IInv
<1>. SUFFICES ASSUME Init PROVE IInv
  OBVIOUS
<1>1. None \notin ViolationIds /\ None \notin EvidenceIds
  BY ViolationsAssumption
<1>2. Idle \in Transactions
  BY DEF Idle, Transactions, Rows
<1>3. tx \in [Requests -> Transactions] /\ \A r \in Requests : tx[r] = Idle
  BY <1>2 DEF Init
<1>4. \A e \in EvidenceIds : evidence[e] = NoEvidence
  BY DEF Init
<1>5. EvidenceHasSource
  <2>1. RowsTyped
    BY ViolationsAssumption DEF Init, RowsTyped, Rows
  <2>. QED BY <2>1, <1>4 DEF EvidenceHasSource
<1>6. AllSound
  <2>1. Idle.v = None /\ Idle.status = None /\ Idle.id = None /\ Idle.at = "idle"
        /\ Idle.todo = {} /\ Idle.news = {}
    BY DEF Idle
  <2>. QED BY <1>3, <2>1 DEF AllSound, Sound, ViolationSound, SnapshotSound, NewsSound
<1>. QED BY <1>3, <1>5, <1>6 DEF IInv

(* A step that commits nothing preserves the invariant if it leaves r with *)
(* a sound transaction and gives jobs only to snapshots not committed.     *)
LEMMA Replaced ==
  ASSUME IInv, NEW r \in Requests,
         UNCHANGED Committed,
         tx' \in [Requests -> Transactions],
         \A q \in Requests \ {r} : tx'[q] = tx[q],
         vas' \in [EvidenceIds -> VasStates],
         \A e \in EvidenceIds :
           vas'[e] # vas[e] => evidence[e] = NoEvidence /\ vas'[e] # "none",
         Sound(r, tx'[r], vas')
  PROVE  IInv'

<1>0. status' = status /\ confidence' = confidence /\ evidence' = evidence /\ Stored' = Stored
  BY DEF Committed, Stored
<1>1. EvidenceHasSource'
  <2>1. RowsTyped'
    BY <1>0 DEF IInv, EvidenceHasSource, RowsTyped, VasStates
  <2>. QED BY <1>0, <2>1 DEF IInv, EvidenceHasSource
<1>2. ASSUME NEW q \in Requests PROVE Sound(q, tx[q], vas)
  BY <1>2 DEF IInv, AllSound
<1>3. ASSUME NEW q \in Requests PROVE tx[q] \in Transactions /\ tx'[q] \in Transactions
  BY <1>3 DEF IInv
<1>4. ASSUME NEW q \in Requests PROVE ViolationSound(q, tx[q])'
  <2>1. CASE q = r
    BY <1>0, <2>1 DEF Sound, ViolationSound, Creates
  <2>2. CASE q # r
    <3>1. tx'[q] = tx[q] /\ ViolationSound(q, tx[q]) /\ ViolationSound(r, tx'[r])
      BY <1>2, <2>2 DEF Sound
    <3>2. ASSUME tx[q].v # None, Creates(tx[q]) PROVE tx'[r].v # tx[q].v
      <4>1. tx[q].v \notin Stored
        BY <3>1, <3>2 DEF ViolationSound
      <4>2. CASE tx'[r].v = None
        BY <3>2, <4>2
      <4>3. CASE tx'[r].v # None /\ ~Creates(tx'[r])
        BY <3>1, <4>1, <4>3 DEF ViolationSound
      <4>4. CASE tx'[r].v # None /\ Creates(tx'[r])
        BY <2>2, <3>1, <4>4 DEF ViolationSound
      <4>. QED BY <4>2, <4>3, <4>4
    <3>3. ASSUME tx[q].v # None, Creates(tx[q]), NEW p \in Requests \ {q} PROVE tx'[p].v # tx[q].v
      <4>1. CASE p = r
        BY <3>2, <3>3, <4>1
      <4>2. CASE p # r
        BY <3>1, <3>3, <4>2 DEF ViolationSound
      <4>. QED BY <4>1, <4>2
    <3>. QED BY <1>0, <3>1, <3>3 DEF ViolationSound, Creates
  <2>. QED BY <2>1, <2>2
<1>5. ASSUME NEW q \in Requests PROVE SnapshotSound(q, tx[q], vas)'
  <2>1. CASE q = r
    BY <1>0, <2>1 DEF Sound, SnapshotSound, Creates
  <2>2. CASE q # r
    <3>1. tx'[q] = tx[q] /\ SnapshotSound(q, tx[q], vas) /\ SnapshotSound(r, tx'[r], vas')
      BY <1>2, <2>2 DEF Sound
    <3>2. ASSUME tx[q].id # None, NEW p \in Requests \ {q} PROVE tx'[p].id # tx[q].id
      <4>1. CASE p = r
        BY <2>2, <3>1, <3>2, <4>1 DEF SnapshotSound
      <4>2. CASE p # r
        BY <3>1, <3>2, <4>2 DEF SnapshotSound
      <4>. QED BY <4>1, <4>2
    <3>3. ASSUME tx[q].id # None PROVE tx[q].id \in EvidenceIds
      BY <1>3, <3>3 DEF Transactions
    <3>4. ASSUME tx[q].id # None, vas[tx[q].id] # "none" PROVE vas'[tx[q].id] # "none"
      BY <3>3, <3>4
    <3>. QED BY <1>0, <3>1, <3>2, <3>4 DEF SnapshotSound, Creates
  <2>. QED BY <2>1, <2>2
<1>6. ASSUME NEW q \in Requests PROVE NewsSound(tx[q], vas)'
  <2>1. CASE q = r
    BY <1>0, <2>1 DEF Sound, NewsSound
  <2>2. CASE q # r
    <3>1. tx'[q] = tx[q] /\ NewsSound(tx[q], vas)
      BY <1>2, <2>2 DEF Sound
    <3>2. ASSUME NEW e \in tx[q].todo \cup tx[q].news PROVE vas'[e] = vas[e]
      <4>1. e \in EvidenceIds
        BY <1>3, <3>2 DEF Transactions
      <4>. QED BY <3>1, <4>1 DEF NewsSound
    <3>. QED BY <1>0, <3>1, <3>2 DEF NewsSound
  <2>. QED BY <2>1, <2>2
<1>7. AllSound'
  BY <1>4, <1>5, <1>6 DEF AllSound, Sound
<1>. QED BY <1>1, <1>7 DEF IInv

(* The same when r gets the transaction t and VAS does nothing.            *)
LEMMA Begins ==
  ASSUME IInv, NEW r \in Requests, NEW t \in Transactions,
         tx' = [tx EXCEPT ![r] = t], UNCHANGED Committed, vas' = vas, Sound(r, t, vas)
  PROVE  IInv'
<1>1. tx' \in [Requests -> Transactions] /\ tx'[r] = t /\ \A q \in Requests \ {r} : tx'[q] = tx[q]
  BY DEF IInv
<1>2. vas \in [EvidenceIds -> VasStates]
  BY DEF IInv, EvidenceHasSource, RowsTyped, VasStates
<1>. QED BY <1>1, <1>2, Replaced

LEMMA IdleFields ==
  /\ Idle \in Transactions
  /\ Idle.at = "idle" /\ Idle.op = None /\ Idle.v = None /\ Idle.status = None
  /\ Idle.confidence = None /\ Idle.id = None /\ Idle.row = NoEvidence
  /\ Idle.todo = {} /\ Idle.news = {}
BY DEF Idle, Transactions, Rows

LEMMA PendingType ==
  ASSUME NEW b \in Transactions, NEW v \in ViolationIds, NEW e \in EvidenceIds
  PROVE  LET u == PendingSnapshot(b, v, e)
         IN  /\ u \in Transactions
             /\ u.at = "vas" /\ u.id = e /\ u.row = [of |-> v, status |-> "pending"]
             /\ u.op = b.op /\ u.v = b.v /\ u.status = b.status /\ u.confidence = b.confidence
             /\ u.todo = b.todo /\ u.news = b.news
<1>. DEFINE row == [of |-> v, status |-> "pending"]
<1>1. row \in Rows
  BY DEF Rows, EvidenceStatuses
<1>. HIDE DEF row
<1>2. LET u == [b EXCEPT !.at = "vas", !.id = e, !.row = row]
      IN  /\ u \in Transactions
          /\ u.at = "vas" /\ u.id = e /\ u.row = row
          /\ u.op = b.op /\ u.v = b.v /\ u.status = b.status /\ u.confidence = b.confidence
          /\ u.todo = b.todo /\ u.news = b.news
  BY <1>1 DEF Transactions
<1>. QED BY <1>2 DEF PendingSnapshot, row

LEMMA NewViolationSound ==
  ASSUME IInv, NEW r \in Requests, NEW c \in 1 .. MaxConfidence, tx[r] = Idle,
         NewViolation(r, c), UNCHANGED Committed, vas' = vas
  PROVE  IInv'
<1>1. PICK v \in FreeViolations :
        LET b == [Idle EXCEPT !.op = "event", !.v = v, !.status = "open", !.confidence = c]
        IN  \/ tx' = [tx EXCEPT ![r] = [b EXCEPT !.at = "commit"]]
            \/ \E e \in FreeEvidence : tx' = [tx EXCEPT ![r] = PendingSnapshot(b, v, e)]
  BY DEF NewViolation, Becomes
<1>2. v \in ViolationIds /\ v # None /\ v \notin Stored /\ \A q \in Requests : tx[q].v # v
  BY ViolationsAssumption DEF FreeViolations
<1>. DEFINE b == [Idle EXCEPT !.op = "event", !.v = v, !.status = "open", !.confidence = c]
            t == [b EXCEPT !.at = "commit"]
            u(e) == PendingSnapshot(b, v, e)
<1>3. /\ b \in Transactions
      /\ b.at = "idle" /\ b.op = "event" /\ b.v = v /\ b.status = "open"
      /\ b.id = None /\ b.row = NoEvidence /\ b.todo = {} /\ b.news = {}
  BY <1>2, IdleFields DEF Transactions, Statuses
<1>4. "open" # None
  BY ViolationsAssumption
<1>5. CASE tx' = [tx EXCEPT ![r] = t]
  <2>. HIDE DEF b
  <2>1. /\ t \in Transactions
        /\ t.at = "commit" /\ t.op = "event" /\ t.v = v /\ t.status = "open"
        /\ t.id = None /\ t.todo = {} /\ t.news = {}
    BY <1>3 DEF Transactions
  <2>. HIDE DEF t
  <2>2. Sound(r, t, vas)
    BY <1>2, <1>4, <2>1 DEF Sound, ViolationSound, SnapshotSound, NewsSound, Creates
  <2>. QED BY <1>5, <2>1, <2>2, Begins
<1>6. ASSUME NEW e \in FreeEvidence, tx' = [tx EXCEPT ![r] = u(e)] PROVE IInv'
  <2>. HIDE DEF b
  <2>1. e \in EvidenceIds /\ e # None /\ evidence[e] = NoEvidence /\ \A q \in Requests : tx[q].id # e
    BY ViolationsAssumption DEF FreeEvidence
  <2>2. /\ u(e) \in Transactions
        /\ u(e).at = "vas" /\ u(e).op = "event" /\ u(e).v = v /\ u(e).status = "open"
        /\ u(e).id = e /\ u(e).row = [of |-> v, status |-> "pending"]
        /\ u(e).todo = {} /\ u(e).news = {}
    BY <1>2, <1>3, <2>1, PendingType
  <2>. HIDE DEF u
  <2>3. Sound(r, u(e), vas)
    BY <1>2, <1>4, <2>1, <2>2 DEF Sound, ViolationSound, SnapshotSound, NewsSound, Creates, NoEvidence
  <2>. QED BY <1>6, <2>2, <2>3, Begins
<1>. QED BY <1>1, <1>5, <1>6

LEMMA ProcessEventSound ==
  ASSUME IInv, NEW r \in Requests, NEW c \in 1 .. MaxConfidence, ProcessEvent(r, c)
  PROVE  IInv'
<1>0. tx[r] = Idle /\ UNCHANGED Committed /\ vas' = vas
  BY DEF ProcessEvent
<1>1. CASE NewViolation(r, c)
  BY <1>0, <1>1, NewViolationSound
<1>2. ASSUME NEW v \in ViolationIds, status[v] \in Open,
             Becomes(r, [Idle EXCEPT !.at = "commit", !.op = "event", !.v = v, !.confidence = c])
      PROVE  IInv'
  <2>. DEFINE t == [Idle EXCEPT !.at = "commit", !.op = "event", !.v = v, !.confidence = c]
  <2>1. tx' = [tx EXCEPT ![r] = t]
    BY <1>2 DEF Becomes
  <2>2. v \in Stored
    BY <1>2 DEF Stored, Open
  <2>3. /\ t \in Transactions
        /\ t.at = "commit" /\ t.v = v /\ t.status = None /\ t.id = None
        /\ t.todo = {} /\ t.news = {}
    BY IdleFields DEF Transactions
  <2>. HIDE DEF t
  <2>4. Sound(r, t, vas)
    BY <2>2, <2>3 DEF Sound, ViolationSound, SnapshotSound, NewsSound, Creates
  <2>. QED BY <1>0, <2>1, <2>3, <2>4, Begins
<1>. QED BY <1>1, <1>2 DEF ProcessEvent

LEMMA RequestSnapshotSound ==
  ASSUME IInv, NEW r \in Requests, NEW v \in ViolationIds, RequestSnapshot(r, v)
  PROVE  IInv'
<1>. DEFINE b == [Idle EXCEPT !.op = "route"]
<1>1. PICK e \in FreeEvidence : tx' = [tx EXCEPT ![r] = PendingSnapshot(b, v, e)]
  BY DEF RequestSnapshot, Becomes
<1>2. UNCHANGED Committed /\ vas' = vas
  BY DEF RequestSnapshot
<1>0. v \in Stored
  BY DEF RequestSnapshot
<1>3. /\ b \in Transactions
      /\ b.op = "route" /\ b.v = None /\ b.status = None /\ b.todo = {} /\ b.news = {}
  BY IdleFields DEF Transactions
<1>. HIDE DEF b
<1>4. e \in EvidenceIds /\ evidence[e] = NoEvidence /\ \A q \in Requests : tx[q].id # e
  BY DEF FreeEvidence
<1>. DEFINE t == PendingSnapshot(b, v, e)
            row == [of |-> v, status |-> "pending"]
<1>5. /\ t \in Transactions
      /\ t.at = "vas" /\ t.op = "route" /\ t.v = None /\ t.status = None
      /\ t.id = e /\ t.row = row
      /\ t.todo = {} /\ t.news = {}
  BY <1>3, <1>4, PendingType
<1>6. row # NoEvidence /\ row.of = v /\ row.status = "pending"
  BY DEF NoEvidence
<1>. HIDE DEF t, row
<1>7. Sound(r, t, vas)
  <2>1. ViolationSound(r, t)
    BY <1>5 DEF ViolationSound
  <2>2. SnapshotSound(r, t, vas)
    <3>1. t.id # None => evidence[t.id] = NoEvidence
      BY <1>4, <1>5
    <3>2. \A q \in Requests \ {r} : tx[q].id # t.id
      BY <1>4, <1>5
    <3>3. t.row # NoEvidence /\ t.row.of \in Stored /\ t.row.status = "pending"
      BY <1>0, <1>5, <1>6
    <3>4. t.at = "vas" /\ t.id # None
      BY <1>4, <1>5, ViolationsAssumption
    <3>. QED BY <3>1, <3>2, <3>3, <3>4 DEF SnapshotSound
  <2>3. NewsSound(t, vas)
    BY <1>5 DEF NewsSound
  <2>. QED BY <2>1, <2>2, <2>3 DEF Sound
<1>. QED BY <1>1, <1>2, <1>5, <1>7, Begins DEF t

LEMMA GetViolationSound ==
  ASSUME IInv, NEW r \in Requests, NEW v \in ViolationIds, GetViolation(r, v)
  PROVE  IInv'
<1>. DEFINE t == [Idle EXCEPT !.at = "ask", !.op = "detail", !.todo = Unsettled(v)]
<1>1. tx' = [tx EXCEPT ![r] = t] /\ UNCHANGED Committed /\ vas' = vas
  BY DEF GetViolation, Becomes
<1>2. Unsettled(v) \in SUBSET EvidenceIds
  BY DEF Unsettled, EvidenceOf
<1>3. /\ t \in Transactions
      /\ t.at = "ask" /\ t.v = None /\ t.status = None /\ t.id = None
      /\ t.todo = Unsettled(v) /\ t.news = {}
  BY <1>2, IdleFields DEF Transactions
<1>. HIDE DEF t
<1>4. ASSUME NEW e \in Unsettled(v)
      PROVE  evidence[e] # NoEvidence /\ vas[e] # "none" /\ evidence[e].status = "processing"
  <2>1. e \in EvidenceIds /\ evidence[e].status = "processing"
    BY <1>4 DEF Unsettled, EvidenceOf
  <2>2. evidence[e] # NoEvidence
    BY <2>1 DEF NoEvidence
  <2>. QED BY <2>1, <2>2 DEF IInv, EvidenceHasSource
<1>5. Sound(r, t, vas)
  BY <1>3, <1>4 DEF Sound, ViolationSound, SnapshotSound, NewsSound
<1>. QED BY <1>1, <1>3, <1>5, Begins

LEMMA TransitionStatusSound ==
  ASSUME IInv, NEW r \in Requests, NEW v \in ViolationIds, TransitionStatus(r, v)
  PROVE  IInv'
<1>1. v \in Stored /\ UNCHANGED Committed /\ vas' = vas
  BY DEF TransitionStatus
<1>2. PICK s \in ValidTargets(status[v]) :
        tx' = [tx EXCEPT ![r] = [Idle EXCEPT !.at = "commit", !.op = "review", !.v = v, !.status = s]]
  BY DEF TransitionStatus, Becomes
<1>3. s \in Statuses
  <2>1. status[v] \in Statuses
    BY <1>1 DEF Stored, IInv, EvidenceHasSource, RowsTyped
  <2>. QED BY <1>2, <2>1 DEF ValidTargets, Statuses
<1>. DEFINE t == [Idle EXCEPT !.at = "commit", !.op = "review", !.v = v, !.status = s]
<1>4. /\ t \in Transactions
      /\ t.at = "commit" /\ t.op = "review" /\ t.v = v /\ t.id = None
      /\ t.todo = {} /\ t.news = {}
  BY <1>3, IdleFields DEF Transactions
<1>. HIDE DEF t
<1>5. v # None
  BY ViolationsAssumption
<1>6. Sound(r, t, vas)
  BY <1>1, <1>4, <1>5 DEF Sound, ViolationSound, SnapshotSound, NewsSound, Creates
<1>. QED BY <1>1, <1>2, <1>4, <1>6, Begins DEF t

(* A transaction that has ended is sound. *)
LEMMA IdleSound == ASSUME NEW r, NEW W PROVE Sound(r, Idle, W)
BY IdleFields DEF Sound, ViolationSound, SnapshotSound, NewsSound

LEMMA CommitFailsSound ==
  ASSUME IInv, NEW r \in Requests, CommitFails(r)
  PROVE  IInv'
<1>1. tx' = [tx EXCEPT ![r] = Idle] /\ UNCHANGED Committed /\ vas' = vas
  BY DEF CommitFails, Becomes
<1>. QED BY <1>1, IdleFields, IdleSound, Begins

(* Both ends of a call that asks for the state of a job. *)
LEMMA AskedSound ==
  ASSUME IInv, NEW r \in Requests, NEW e \in EvidenceIds, NEW n \in SUBSET {e},
         tx[r].at = "ask", e \in tx[r].todo, n # {} => vas[e] \in Final,
         Asked(r, e, n), UNCHANGED Committed, vas' = vas
  PROVE  IInv'
<1>. DEFINE b == tx[r]
            at == IF b.todo = {e} THEN "commit" ELSE "ask"
            todo == b.todo \ {e}
            news == b.news \cup n
            t == [b EXCEPT !.todo = todo, !.news = news, !.at = at]
<1>1. tx' = [tx EXCEPT ![r] = t]
  BY DEF Asked, Becomes
<1>2. b \in Transactions /\ Sound(r, b, vas) /\ b.at = "ask"
  BY DEF IInv, AllSound
<1>3. at \in {"commit", "ask"} /\ todo \in SUBSET b.todo /\ news \in SUBSET (b.todo \cup b.news)
      /\ b.todo \in SUBSET EvidenceIds /\ b.news \in SUBSET EvidenceIds
  BY <1>2 DEF Transactions
<1>4. \A d \in news : vas[d] \in Final
  BY <1>2 DEF Sound, NewsSound
<1>. HIDE DEF b, at, todo, news
<1>5. /\ t \in Transactions
      /\ t.at = at /\ t.op = b.op /\ t.v = b.v /\ t.status = b.status /\ t.id = b.id
      /\ t.todo = todo /\ t.news = news
  BY <1>2, <1>3 DEF Transactions
<1>. HIDE DEF t
<1>6. ViolationSound(r, t)
  BY <1>2, <1>5 DEF Sound, ViolationSound, Creates
<1>7. SnapshotSound(r, t, vas)
  BY <1>2, <1>3, <1>5 DEF Sound, SnapshotSound
<1>8. NewsSound(t, vas)
  BY <1>2, <1>3, <1>4, <1>5 DEF Sound, NewsSound
<1>. QED BY <1>1, <1>5, <1>6, <1>7, <1>8, Begins DEF Sound

LEMMA SyncHearsSound ==
  ASSUME IInv, NEW r \in Requests, NEW e \in EvidenceIds, SyncHears(r, e)
  PROVE  IInv'
BY AskedSound DEF SyncHears

LEMMA SyncHearsNothingSound ==
  ASSUME IInv, NEW r \in Requests, NEW e \in EvidenceIds, SyncHearsNothing(r, e)
  PROVE  IInv'
BY AskedSound DEF SyncHearsNothing

-----------------------------------------------------------------------------
(* The steps of VAS. *)

(* A transaction that waits for VAS goes to its commit with a new status   *)
(* of its row.                                                             *)
LEMMA AnsweredType ==
  ASSUME NEW b \in Transactions, NEW s \in EvidenceStatuses, b.row # NoEvidence
  PROVE  LET t == [b EXCEPT !.at = "commit", !.row.status = s]
         IN  /\ t \in Transactions
             /\ t.at = "commit" /\ t.id = b.id /\ t.row = [of |-> b.row.of, status |-> s]
             /\ t.op = b.op /\ t.v = b.v /\ t.status = b.status /\ t.confidence = b.confidence
             /\ t.todo = b.todo /\ t.news = b.news
<1>. DEFINE row == [of |-> b.row.of, status |-> s]
<1>1. b.row \in Rows /\ b.row.of \in ViolationIds
  BY DEF Transactions, Rows
<1>2. row \in Rows /\ row = [b.row EXCEPT !.status = s]
  BY <1>1 DEF Rows
<1>. HIDE DEF row
<1>3. LET t == [b EXCEPT !.at = "commit", !.row = row]
      IN  /\ t \in Transactions
          /\ t.at = "commit" /\ t.id = b.id /\ t.row = row
          /\ t.op = b.op /\ t.v = b.v /\ t.status = b.status /\ t.confidence = b.confidence
          /\ t.todo = b.todo /\ t.news = b.news
  BY <1>2 DEF Transactions
<1>4. [b EXCEPT !.at = "commit", !.row.status = s] = [b EXCEPT !.at = "commit", !.row = row]
  BY <1>2 DEF Transactions
<1>. QED BY <1>3, <1>4 DEF row

(* VAS has the job now, or nothing has changed there. *)
LEMMA JobEffect ==
  ASSUME IInv, NEW r \in Requests, tx[r].at = "vas",
         vas' \in {vas, [vas EXCEPT ![tx[r].id] = "processing"]}
  PROVE  /\ tx[r] \in Transactions /\ Sound(r, tx[r], vas)
         /\ tx[r].id \in EvidenceIds
         /\ vas' \in [EvidenceIds -> VasStates]
         /\ \A e \in EvidenceIds :
              vas'[e] # vas[e] => evidence[e] = NoEvidence /\ vas'[e] # "none"
<1>1. tx[r] \in Transactions /\ Sound(r, tx[r], vas)
  BY DEF IInv, AllSound
<1>2. tx[r].id \in EvidenceIds /\ evidence[tx[r].id] = NoEvidence
  BY <1>1 DEF Sound, SnapshotSound, Transactions
<1>3. vas \in [EvidenceIds -> VasStates]
  BY DEF IInv, EvidenceHasSource, RowsTyped, VasStates
<1>. QED BY <1>1, <1>2, <1>3 DEF VasStates

LEMMA AnswerSound ==
  ASSUME IInv, NEW r \in Requests, NEW s \in EvidenceStatuses, tx[r].at = "vas",
         UNCHANGED Committed,
         vas' \in {vas, [vas EXCEPT ![tx[r].id] = "processing"]},
         s \in {"processing", "ready"} => vas' = [vas EXCEPT ![tx[r].id] = "processing"],
         Becomes(r, [tx[r] EXCEPT !.at = "commit", !.row.status = s])
  PROVE  IInv'
<1>. DEFINE b == tx[r]
            t == [b EXCEPT !.at = "commit", !.row.status = s]
<1>1. /\ b \in Transactions /\ Sound(r, b, vas) /\ b.at = "vas" /\ b.id \in EvidenceIds
      /\ vas' \in [EvidenceIds -> VasStates]
      /\ \A e \in EvidenceIds :
           vas'[e] # vas[e] => evidence[e] = NoEvidence /\ vas'[e] # "none"
  BY JobEffect
<1>2. tx' = [tx EXCEPT ![r] = t] /\ tx \in [Requests -> Transactions]
  BY DEF Becomes, IInv
<1>3. s \in {"processing", "ready"} => vas'[b.id] # "none"
  BY <1>1 DEF IInv, EvidenceHasSource, RowsTyped
<1>. HIDE DEF b
<1>4. b.row # NoEvidence
  BY <1>1, ViolationsAssumption DEF Sound, SnapshotSound
<1>5. /\ t \in Transactions
      /\ t.at = "commit" /\ t.id = b.id /\ t.row = [of |-> b.row.of, status |-> s]
      /\ t.op = b.op /\ t.v = b.v /\ t.status = b.status /\ t.confidence = b.confidence
      /\ t.todo = b.todo /\ t.news = b.news
  BY <1>1, <1>4, AnsweredType
<1>. HIDE DEF t
<1>6. tx'[r] = t /\ tx' \in [Requests -> Transactions] /\ \A q \in Requests \ {r} : tx'[q] = tx[q]
  BY <1>2, <1>5
<1>7. ViolationSound(r, t)
  BY <1>1, <1>5 DEF Sound, ViolationSound, Creates
<1>8. SnapshotSound(r, t, vas')
  <2>1. t.row # NoEvidence
    BY <1>5 DEF EvidenceStatuses, NoEvidence
  <2>. QED BY <1>1, <1>3, <1>5, <2>1 DEF Sound, SnapshotSound, Creates
<1>9. NewsSound(t, vas')
  <2>1. ASSUME NEW e \in t.todo \cup t.news PROVE vas'[e] = vas[e]
    <3>1. e \in EvidenceIds
      BY <1>5, <2>1 DEF Transactions
    <3>. QED BY <1>1, <1>5, <3>1, <2>1 DEF Sound, NewsSound
  <2>. QED BY <1>1, <1>5, <2>1 DEF Sound, NewsSound
<1>. QED BY <1>1, <1>6, <1>7, <1>8, <1>9, Replaced DEF Sound

LEMMA VasAcceptsSound ==
  ASSUME IInv, NEW r \in Requests, VasAccepts(r)
  PROVE  IInv'
<1>. DEFINE s == IF tx[r].op = "loop" THEN "ready" ELSE "processing"
<1>1. s \in EvidenceStatuses
  BY DEF EvidenceStatuses
<1>2. /\ tx[r].at = "vas" /\ UNCHANGED Committed
      /\ vas' = [vas EXCEPT ![tx[r].id] = "processing"]
      /\ Becomes(r, [tx[r] EXCEPT !.at = "commit", !.row.status = s])
  BY DEF VasAccepts
<1>. HIDE DEF s
<1>. QED BY <1>1, <1>2, AnswerSound

LEMMA RaisesSound ==
  ASSUME IInv, NEW r \in Requests, NEW s \in {"pending", "failed"},
         tx[r].at = "vas", UNCHANGED Committed,
         vas' \in {vas, [vas EXCEPT ![tx[r].id] = "processing"]},
         Raises(r, s)
  PROVE  IInv'
<1>1. CASE tx[r].op = "event"
  <2>1. Becomes(r, [tx[r] EXCEPT !.at = "commit", !.row.status = s])
    BY <1>1 DEF Raises
  <2>2. s \in EvidenceStatuses /\ s \notin {"processing", "ready"}
    BY DEF EvidenceStatuses
  <2>. QED BY <2>1, <2>2, AnswerSound
<1>2. CASE tx[r].op # "event"
  <2>1. tx' = [tx EXCEPT ![r] = Idle] /\ tx \in [Requests -> Transactions]
    BY <1>2 DEF Raises, Becomes, IInv
  <2>2. tx'[r] = Idle /\ tx' \in [Requests -> Transactions] /\ \A q \in Requests \ {r} : tx'[q] = tx[q]
    BY <2>1, IdleFields
  <2>. QED BY <2>2, IdleSound, JobEffect, Replaced
<1>. QED BY <1>1, <1>2

LEMMA VasFailsSound ==
  ASSUME IInv, NEW r \in Requests, VasFails(r)
  PROVE  IInv'
BY RaisesSound DEF VasFails

LEMMA VasUnexpectedSound ==
  ASSUME IInv, NEW r \in Requests, VasUnexpected(r)
  PROVE  IInv'
<1>1. /\ tx[r].at = "vas" /\ UNCHANGED Committed
      /\ vas' \in {vas, [vas EXCEPT ![tx[r].id] = "processing"]}
      /\ Raises(r, tx[r].row.status)
  BY DEF VasUnexpected
<1>2. tx[r].op # "loop" => tx[r].row.status = "pending"
  BY <1>1, JobEffect DEF Sound, SnapshotSound
<1>3. Raises(r, "pending")
  BY <1>1, <1>2 DEF Raises
<1>. QED BY <1>1, <1>3, RaisesSound

LEMMA VasFinishesSound ==
  ASSUME IInv, NEW e \in EvidenceIds, VasFinishes(e)
  PROVE  IInv'
<1>1. PICK s \in Final : vas' = [vas EXCEPT ![e] = s]
  BY DEF VasFinishes
<1>2. vas[e] = "processing" /\ UNCHANGED Committed /\ tx' = tx
  BY DEF VasFinishes
<1>3. vas \in [EvidenceIds -> VasStates]
  BY DEF IInv, EvidenceHasSource, RowsTyped, VasStates
<1>4. /\ vas' \in [EvidenceIds -> VasStates]
      /\ \A d \in EvidenceIds : vas'[d] = vas[d] \/ (d = e /\ vas'[d] \in Final)
      /\ \A d \in EvidenceIds : vas[d] # "none" => vas'[d] # "none"
  BY <1>1, <1>3 DEF VasStates, Final
<1>5. status' = status /\ confidence' = confidence /\ evidence' = evidence /\ Stored' = Stored
  BY <1>2 DEF Committed, Stored
<1>6. EvidenceHasSource'
  <2>1. RowsTyped'
    BY <1>4, <1>5 DEF IInv, EvidenceHasSource, RowsTyped, VasStates
  <2>. QED BY <1>4, <1>5, <2>1 DEF IInv, EvidenceHasSource
<1>7. ASSUME NEW q \in Requests PROVE Sound(q, tx[q], vas)'
  <2>1. tx[q] \in Transactions /\ Sound(q, tx[q], vas)
    BY <1>7 DEF IInv, AllSound
  <2>2. ViolationSound(q, tx[q])'
    BY <1>2, <1>5, <2>1 DEF Sound, ViolationSound, Creates
  <2>3. SnapshotSound(q, tx[q], vas)'
    <3>1. tx[q].id # None => tx[q].id \in EvidenceIds
      BY <2>1 DEF Transactions
    <3>. QED BY <1>2, <1>4, <1>5, <2>1, <3>1 DEF Sound, SnapshotSound, Creates
  <2>4. NewsSound(tx[q], vas)'
    <3>1. \A d \in tx[q].todo \cup tx[q].news : d \in EvidenceIds
      BY <2>1 DEF Transactions
    <3>2. \A d \in tx[q].news : vas'[d] \in Final
      BY <1>4, <2>1, <3>1 DEF Sound, NewsSound
    <3>3. ASSUME NEW d \in tx[q].todo \cup tx[q].news PROVE evidence[d].status \in {"processing", vas'[d]}
      BY <1>2, <1>4, <2>1, <3>1 DEF Sound, NewsSound
    <3>. QED BY <1>2, <1>4, <1>5, <2>1, <3>1, <3>2, <3>3 DEF Sound, NewsSound
  <2>. QED BY <2>2, <2>3, <2>4 DEF Sound
<1>. QED BY <1>2, <1>6, <1>7 DEF IInv, AllSound

-----------------------------------------------------------------------------
(* What commits. *)

LEMMA LoopCreatesSound ==
  ASSUME IInv, NEW r \in Requests, NEW c \in 1 .. MaxConfidence, LoopCreates(r, c)
  PROVE  IInv'
<1>. DEFINE t(v, e) == [Idle EXCEPT !.at = "vas", !.op = "loop", !.id = e,
                                    !.row = [of |-> v, status |-> "ready"]]
<1>1. PICK v \in FreeViolations :
        /\ status' = [status EXCEPT ![v] = "open"]
        /\ confidence' = [confidence EXCEPT ![v] = c]
        /\ tx' = tx \/ \E e \in FreeEvidence : tx' = [tx EXCEPT ![r] = t(v, e)]
  BY DEF LoopCreates, Becomes
<1>2. tx[r] = Idle /\ evidence' = evidence /\ vas' = vas
  BY DEF LoopCreates
<1>3. v \in ViolationIds /\ v \notin Stored /\ \A q \in Requests : tx[q].v # v
  BY DEF FreeViolations
<1>4. RowsTyped /\ tx \in [Requests -> Transactions]
  BY DEF IInv, EvidenceHasSource
<1>5. Stored' = Stored \cup {v}
  BY <1>1, <1>3, <1>4 DEF Stored, RowsTyped
<1>6. EvidenceHasSource'
  <2>1. c \in 0 .. MaxConfidence
    BY ViolationsAssumption
  <2>2. status' \in [ViolationIds -> {"absent"} \cup Statuses]
    BY <1>1, <1>3, <1>4 DEF RowsTyped, Statuses
  <2>3. confidence' \in [ViolationIds -> 0 .. MaxConfidence]
    BY <1>1, <1>3, <1>4, <2>1 DEF RowsTyped
  <2>4. RowsTyped'
    BY <1>2, <1>4, <2>2, <2>3 DEF RowsTyped
  <2>. QED BY <1>2, <1>5, <2>4 DEF IInv, EvidenceHasSource
<1>7. ASSUME NEW q \in Requests, tx'[q] = tx[q],
             \A p \in Requests : tx'[p].v = tx[p].v,
             \A p \in Requests : tx'[p].id = tx[p].id \/ tx'[p].id \in FreeEvidence
      PROVE  Sound(q, tx[q], vas)'
  <2>1. Sound(q, tx[q], vas)
    BY DEF IInv, AllSound
  <2>2. tx[q].id \notin FreeEvidence
    BY DEF FreeEvidence
  <2>3. ViolationSound(q, tx[q])'
    BY <1>3, <1>5, <1>7, <2>1 DEF Sound, ViolationSound, Creates
  <2>4. SnapshotSound(q, tx[q], vas)'
    BY <1>2, <1>5, <1>7, <2>1, <2>2 DEF Sound, SnapshotSound, Creates
  <2>5. NewsSound(tx[q], vas)'
    BY <1>2, <1>7, <2>1 DEF Sound, NewsSound
  <2>. QED BY <2>3, <2>4, <2>5 DEF Sound
<1>8. CASE tx' = tx
  BY <1>4, <1>6, <1>7, <1>8 DEF IInv, AllSound
<1>9. ASSUME NEW e \in FreeEvidence, tx' = [tx EXCEPT ![r] = t(v, e)] PROVE IInv'
  <2>. DEFINE row == [of |-> v, status |-> "ready"]
              u == t(v, e)
  <2>1. e \in EvidenceIds /\ e # None /\ evidence[e] = NoEvidence /\ \A q \in Requests : tx[q].id # e
    BY ViolationsAssumption DEF FreeEvidence
  <2>2. row \in Rows /\ row # NoEvidence /\ row.of = v
    BY <1>3 DEF Rows, EvidenceStatuses, NoEvidence
  <2>. HIDE DEF row
  <2>3. /\ u \in Transactions
        /\ u.at = "vas" /\ u.op = "loop" /\ u.v = None /\ u.status = None
        /\ u.id = e /\ u.row = row /\ u.todo = {} /\ u.news = {}
    <3>1. LET w == [Idle EXCEPT !.at = "vas", !.op = "loop", !.id = e, !.row = row]
          IN  /\ w \in Transactions
              /\ w.at = "vas" /\ w.op = "loop" /\ w.v = None /\ w.status = None
              /\ w.id = e /\ w.row = row /\ w.todo = {} /\ w.news = {}
      BY <2>1, <2>2, IdleFields DEF Transactions
    <3>. QED BY <3>1 DEF row
  <2>. HIDE DEF t, u
  <2>4. /\ tx' \in [Requests -> Transactions] /\ tx'[r] = u
        /\ \A q \in Requests \ {r} : tx'[q] = tx[q]
    BY <1>4, <1>9, <2>3 DEF u
  <2>5. Sound(r, tx[r], vas)'
    <3>1. ViolationSound(r, tx[r])'
      BY <2>3, <2>4 DEF ViolationSound
    <3>2. SnapshotSound(r, tx[r], vas)'
      BY <1>2, <1>5, <2>1, <2>2, <2>3, <2>4 DEF SnapshotSound
    <3>3. NewsSound(tx[r], vas)'
      BY <2>3, <2>4 DEF NewsSound
    <3>. QED BY <3>1, <3>2, <3>3 DEF Sound
  <2>6. ASSUME NEW q \in Requests \ {r} PROVE Sound(q, tx[q], vas)'
    BY <1>2, <1>7, <2>3, <2>4, IdleFields
  <2>. QED BY <1>6, <2>4, <2>5, <2>6 DEF IInv, AllSound
<1>. QED BY <1>1, <1>8, <1>9

(* What Commit does to the tables. *)
LEMMA CommitEffect ==
  ASSUME IInv, NEW r \in Requests, Commit(r)
  PROVE  /\ RowsTyped' /\ vas' = vas
         /\ Stored \subseteq Stored'
         /\ tx[r].status # None => tx[r].v \in Stored'
         /\ \A v \in ViolationIds : v # tx[r].v => status'[v] = status[v]
         /\ \A e \in EvidenceIds :
              \/ evidence'[e] = evidence[e] /\ e # tx[r].id
              \/ e = tx[r].id /\ evidence'[e] = tx[r].row
              \/ e \in tx[r].news /\ e # tx[r].id /\ evidence[e] # NoEvidence
                 /\ evidence'[e] = [evidence[e] EXCEPT !.status = vas[e]] /\ vas[e] \in Final
<1>. DEFINE t == tx[r]
<1>1. /\ t.at = "commit" /\ vas' = vas
      /\ status' = [v \in ViolationIds |-> IF v = t.v /\ t.status # None THEN t.status ELSE status[v]]
      /\ confidence' = [v \in ViolationIds |-> IF v = t.v /\ t.confidence # None THEN t.confidence
                                               ELSE confidence[v]]
      /\ evidence' = [e \in EvidenceIds |-> IF e = t.id THEN t.row
                                            ELSE IF e \in t.news THEN [evidence[e] EXCEPT !.status = vas[e]]
                                            ELSE evidence[e]]
  BY DEF Commit
<1>2. t \in Transactions /\ Sound(r, t, vas) /\ RowsTyped
  BY DEF IInv, AllSound, EvidenceHasSource
<1>. HIDE DEF t
<1>3. /\ t.status \in Statuses \cup {None} /\ t.confidence \in (1 .. MaxConfidence) \cup {None}
      /\ t.row \in Rows /\ t.v \in ViolationIds \cup {None}
  BY <1>2 DEF Transactions
<1>4. ASSUME NEW e \in EvidenceIds, e \in t.news
      PROVE  evidence[e] # NoEvidence /\ vas[e] \in Final /\ [evidence[e] EXCEPT !.status = vas[e]] \in Rows
  <2>1. evidence[e] # NoEvidence /\ vas[e] \in Final
    BY <1>2, <1>4 DEF Sound, NewsSound
  <2>2. evidence[e] \in [of : ViolationIds, status : EvidenceStatuses]
    BY <1>2, <2>1 DEF RowsTyped, Rows
  <2>. QED BY <2>1, <2>2 DEF Rows, Final, EvidenceStatuses
<1>5. status' \in [ViolationIds -> {"absent"} \cup Statuses]
  BY <1>1, <1>2, <1>3 DEF RowsTyped
<1>6. confidence' \in [ViolationIds -> 0 .. MaxConfidence]
  <2>1. \A c \in 1 .. MaxConfidence : c \in 0 .. MaxConfidence
    BY ViolationsAssumption
  <2>. QED BY <1>1, <1>2, <1>3, <2>1 DEF RowsTyped
<1>7. evidence' \in [EvidenceIds -> Rows]
  BY <1>1, <1>2, <1>3, <1>4 DEF RowsTyped
<1>8. RowsTyped'
  BY <1>1, <1>2, <1>5, <1>6, <1>7 DEF RowsTyped
<1>9. Stored \subseteq Stored'
  <2>1. "absent" \notin Statuses
    BY DEF Statuses
  <2>. QED BY <1>1, <1>3, <2>1 DEF Stored
<1>10. ASSUME t.status # None PROVE t.v \in Stored'
  <2>1. t.v \in ViolationIds /\ t.status \in Statuses
    BY <1>2, <1>3, <1>10 DEF Sound, ViolationSound
  <2>2. status'[t.v] = t.status
    BY <1>1, <1>10, <2>1
  <2>. QED BY <2>1, <2>2 DEF Stored, Statuses
<1>11. \A e \in EvidenceIds :
         \/ evidence'[e] = evidence[e] /\ e # t.id
         \/ e = t.id /\ evidence'[e] = t.row
         \/ e \in t.news /\ e # t.id /\ evidence[e] # NoEvidence
            /\ evidence'[e] = [evidence[e] EXCEPT !.status = vas[e]] /\ vas[e] \in Final
  BY <1>1, <1>4
<1>. QED BY <1>1, <1>8, <1>9, <1>10, <1>11 DEF t

LEMMA CommitSound ==
  ASSUME IInv, NEW r \in Requests, Commit(r)
  PROVE  IInv'
<1>. DEFINE t == tx[r]
<1>1. t \in Transactions /\ Sound(r, t, vas) /\ t.at = "commit"
  BY DEF IInv, AllSound, Commit
<1>2. /\ tx \in [Requests -> Transactions] /\ tx' \in [Requests -> Transactions]
      /\ tx'[r] = Idle /\ \A q \in Requests \ {r} : tx'[q] = tx[q]
  BY IdleFields DEF Commit, Becomes, IInv
<1>3. /\ RowsTyped' /\ vas' = vas
      /\ Stored \subseteq Stored'
      /\ t.status # None => t.v \in Stored'
      /\ \A v \in ViolationIds : v # t.v => status'[v] = status[v]
  BY CommitEffect
<1>4. ASSUME NEW e \in EvidenceIds
      PROVE  \/ evidence'[e] = evidence[e] /\ e # t.id
             \/ e = t.id /\ evidence'[e] = t.row
             \/ e \in t.news /\ e # t.id /\ evidence[e] # NoEvidence
                /\ evidence'[e] = [evidence[e] EXCEPT !.status = vas[e]] /\ vas[e] \in Final
  BY CommitEffect
<1>. HIDE DEF t
(* News is of a row that is there, and changes its status only. *)
<1>5. ASSUME NEW e \in EvidenceIds, evidence[e] # NoEvidence, vas[e] \in Final,
             evidence'[e] = [evidence[e] EXCEPT !.status = vas[e]]
      PROVE  /\ evidence'[e] # NoEvidence
             /\ evidence'[e].of = evidence[e].of /\ evidence'[e].status = vas[e]
  <2>1. evidence[e] \in [of : ViolationIds, status : EvidenceStatuses]
    BY <1>5 DEF IInv, EvidenceHasSource, RowsTyped, Rows
  <2>2. evidence'[e].of = evidence[e].of /\ evidence'[e].status = vas[e]
    BY <1>5, <2>1
  <2>. QED BY <1>5, <2>2 DEF NoEvidence, Final
<1>6. ASSUME NEW e \in EvidenceIds, evidence'[e] # NoEvidence
      PROVE  /\ evidence'[e].of \in Stored'
             /\ evidence'[e].status \in {"processing", "ready"} => vas'[e] # "none"
  <2>1. CASE evidence'[e] = evidence[e]
    BY <1>3, <1>6, <2>1 DEF IInv, EvidenceHasSource
  <2>2. CASE e = t.id /\ evidence'[e] = t.row
    <3>1. e # None
      BY ViolationsAssumption
    <3>2. t.row.of \in Stored \/ (Creates(t) /\ t.row.of = t.v)
      BY <1>1, <2>2, <3>1 DEF Sound, SnapshotSound
    <3>3. t.row.of \in Stored'
      BY <1>3, <3>2 DEF Creates
    <3>4. t.row.status \in {"processing", "ready"} => vas[e] # "none"
      BY <1>1, <2>2, <3>1 DEF Sound, SnapshotSound
    <3>. QED BY <1>3, <2>2, <3>3, <3>4
  <2>3. CASE /\ evidence[e] # NoEvidence /\ vas[e] \in Final
             /\ evidence'[e] = [evidence[e] EXCEPT !.status = vas[e]]
    <3>1. evidence[e].of \in Stored
      BY <2>3 DEF IInv, EvidenceHasSource
    <3>. QED BY <1>3, <1>5, <2>3, <3>1 DEF Final
  <2>. QED BY <1>4, <2>1, <2>2, <2>3
<1>7. ASSUME NEW q \in Requests \ {r} PROVE Sound(q, tx[q], vas)'
  <2>1. tx'[q] = tx[q] /\ tx[q] \in Transactions /\ Sound(q, tx[q], vas) /\ q # r
    BY <1>2 DEF IInv, AllSound
  <2>2. ViolationSound(q, tx[q])'
    <3>1. ASSUME tx[q].v # None, Creates(tx[q]) PROVE tx[q].v \notin Stored'
      <4>1. tx[q].v \in ViolationIds /\ tx[q].v \notin Stored /\ t.v # tx[q].v
        BY <2>1, <3>1 DEF Sound, ViolationSound, Transactions, t
      <4>. QED BY <1>3, <4>1 DEF Stored
    <3>2. ASSUME tx[q].v # None, Creates(tx[q]), NEW p \in Requests \ {q} PROVE tx'[p].v # tx[q].v
      BY <1>2, <2>1, <3>2, IdleFields DEF Sound, ViolationSound
    <3>. QED BY <1>3, <2>1, <3>1, <3>2 DEF Sound, ViolationSound, Creates
  <2>3. SnapshotSound(q, tx[q], vas)'
    <3>1. ASSUME tx[q].id # None
          PROVE  evidence'[tx[q].id] = NoEvidence
      <4>1. tx[q].id \in EvidenceIds /\ evidence[tx[q].id] = NoEvidence /\ tx[q].id # t.id
        BY <2>1, <3>1 DEF Sound, SnapshotSound, Transactions, t
      <4>. QED BY <1>4, <4>1
    <3>2. ASSUME tx[q].id # None, NEW p \in Requests \ {q} PROVE tx'[p].id # tx[q].id
      BY <1>2, <2>1, <3>2, IdleFields DEF Sound, SnapshotSound
    <3>. QED BY <1>3, <2>1, <3>1, <3>2 DEF Sound, SnapshotSound, Creates
  <2>4. NewsSound(tx[q], vas)'
    <3>1. ASSUME NEW e \in tx[q].todo \cup tx[q].news
          PROVE  evidence'[e] # NoEvidence /\ evidence'[e].status \in {"processing", vas[e]}
      <4>1. e \in EvidenceIds /\ evidence[e] # NoEvidence /\ evidence[e].status \in {"processing", vas[e]}
        BY <2>1, <3>1 DEF Sound, NewsSound, Transactions
      <4>2. e # t.id
        <5>1. e # None
          BY <4>1, ViolationsAssumption
        <5>. QED BY <1>1, <4>1, <5>1 DEF Sound, SnapshotSound
      <4>. QED BY <1>4, <1>5, <4>1, <4>2
    <3>. QED BY <1>3, <2>1, <3>1 DEF Sound, NewsSound
  <2>. QED BY <2>2, <2>3, <2>4 DEF Sound
<1>8. Sound(r, tx[r], vas)'
  BY <1>2, IdleFields DEF Sound, ViolationSound, SnapshotSound, NewsSound
<1>9. EvidenceHasSource' /\ AllSound'
  BY <1>3, <1>6, <1>7, <1>8 DEF EvidenceHasSource, AllSound
<1>. QED BY <1>2, <1>9 DEF IInv

-----------------------------------------------------------------------------
(* Every step preserves the invariant. *)
LEMMA StepSound == IInv /\ [Next]_vars => IInv'
<1>. SUFFICES ASSUME IInv, [Next]_vars PROVE IInv'
  OBVIOUS
<1>1. ASSUME NEW r \in Requests, NEW c \in 1 .. MaxConfidence,
             ProcessEvent(r, c) \/ IngestEvent(r, c) \/ LoopCreates(r, c)
      PROVE  IInv'
  <2>1. CASE ProcessEvent(r, c)
    BY <2>1, ProcessEventSound
  <2>2. CASE IngestEvent(r, c)
    <3>1. tx[r] = Idle /\ NewViolation(r, c) /\ UNCHANGED Committed /\ vas' = vas
      BY <2>2 DEF IngestEvent
    <3>. QED BY <3>1, NewViolationSound
  <2>3. CASE LoopCreates(r, c)
    BY <2>3, LoopCreatesSound
  <2>. QED BY <1>1, <2>1, <2>2, <2>3
<1>2. ASSUME NEW r \in Requests, NEW v \in ViolationIds,
             RequestSnapshot(r, v) \/ GetViolation(r, v) \/ TransitionStatus(r, v)
      PROVE  IInv'
  BY <1>2, RequestSnapshotSound, GetViolationSound, TransitionStatusSound
<1>3. ASSUME NEW r \in Requests, VasEnds(r) PROVE IInv'
  BY <1>3, VasAcceptsSound, VasFailsSound, VasUnexpectedSound DEF VasEnds
<1>4. ASSUME NEW r \in Requests, SyncEnds(r) PROVE IInv'
  BY <1>4, SyncHearsSound, SyncHearsNothingSound DEF SyncEnds
<1>5. ASSUME NEW r \in Requests, Commit(r) \/ CommitFails(r) PROVE IInv'
  BY <1>5, CommitSound, CommitFailsSound
<1>6. ASSUME NEW e \in EvidenceIds, VasFinishes(e) PROVE IInv'
  BY <1>6, VasFinishesSound
<1>7. CASE UNCHANGED vars
  BY <1>7 DEF vars, IInv, EvidenceHasSource, RowsTyped, AllSound, Sound, ViolationSound,
              SnapshotSound, NewsSound, Stored, Creates
<1>. QED BY <1>1, <1>2, <1>3, <1>4, <1>5, <1>6, <1>7 DEF Next

LEMMA Invariance == Spec => []IInv
BY Initially, StepSound, PTL DEF Spec

(* What is stored of a snapshot has a stored violation and, if it waits    *)
(* for VAS or can be downloaded, a job behind it: EvidenceService asks VAS *)
(* between the insertion and the commit, and either may fail.              *)
THEOREM EvidenceSourced == Spec => []EvidenceHasSource
<1>1. IInv => EvidenceHasSource
  BY DEF IInv
<1>. QED BY <1>1, Invariance, PTL

-----------------------------------------------------------------------------
(* What is final. *)

(* The transaction t is not one that reviews v. *)
Leaves(t, v) == ~(t.op = "review" /\ t.v = v)

(* A step that gives r a transaction that does not review v starts no      *)
(* review of it.                                                           *)
LEMMA Unreviewed ==
  ASSUME IInv, NEW v \in ViolationIds, ~UnderReview(v), NEW r \in Requests, NEW t,
         tx' = [tx EXCEPT ![r] = t], Leaves(t, v)
  PROVE  ~UnderReview(v)'
<1>1. \A q \in Requests : tx'[q] = tx[q] \/ tx'[q] = t
  BY DEF IInv
<1>2. \A q \in Requests : Leaves(tx[q], v)
  BY DEF UnderReview, Leaves
<1>. QED BY <1>1, <1>2 DEF UnderReview, Leaves

LEMMA IdleLeaves == ASSUME NEW v \in ViolationIds PROVE Leaves(Idle, v)
BY IdleFields, ViolationsAssumption DEF Leaves

LEMMA NewViolationLeaves ==
  ASSUME IInv, NEW v \in ViolationIds, ~UnderReview(v),
         NEW r \in Requests, NEW c \in 1 .. MaxConfidence, NewViolation(r, c)
  PROVE  ~UnderReview(v)'
<1>1. PICK w \in FreeViolations :
        LET b == [Idle EXCEPT !.op = "event", !.v = w, !.status = "open", !.confidence = c]
        IN  \/ tx' = [tx EXCEPT ![r] = [b EXCEPT !.at = "commit"]]
            \/ \E e \in FreeEvidence : tx' = [tx EXCEPT ![r] = PendingSnapshot(b, w, e)]
  BY DEF NewViolation, Becomes
<1>. DEFINE b == [Idle EXCEPT !.op = "event", !.v = w, !.status = "open", !.confidence = c]
<1>2. w \in ViolationIds
  BY DEF FreeViolations
<1>3. b \in Transactions /\ b.op = "event"
  BY <1>2, IdleFields DEF Transactions, Statuses
<1>. HIDE DEF b
<1>4. CASE tx' = [tx EXCEPT ![r] = [b EXCEPT !.at = "commit"]]
  <2>1. Leaves([b EXCEPT !.at = "commit"], v)
    BY <1>3 DEF Leaves, Transactions
  <2>. QED BY <1>4, <2>1, Unreviewed
<1>5. ASSUME NEW e \in FreeEvidence, tx' = [tx EXCEPT ![r] = PendingSnapshot(b, w, e)]
      PROVE  ~UnderReview(v)'
  <2>1. e \in EvidenceIds
    BY DEF FreeEvidence
  <2>2. PendingSnapshot(b, w, e).op = "event"
    BY <1>2, <1>3, <2>1, PendingType
  <2>3. Leaves(PendingSnapshot(b, w, e), v)
    BY <2>2 DEF Leaves
  <2>. QED BY <1>5, <2>3, Unreviewed
<1>. QED BY <1>1, <1>4, <1>5 DEF b

(* Whatever becomes of a transaction that is under way, it keeps what it   *)
(* is about.                                                               *)
LEMMA GoesOn ==
  ASSUME IInv, NEW v \in ViolationIds, ~UnderReview(v), NEW r \in Requests, NEW t,
         tx' = [tx EXCEPT ![r] = t], t.op = tx[r].op, t.v = tx[r].v
  PROVE  ~UnderReview(v)'
<1>1. Leaves(t, v)
  BY DEF UnderReview, Leaves
<1>. QED BY <1>1, Unreviewed

LEMMA RequestLeaves ==
  ASSUME IInv, NEW v \in ViolationIds, status[v] = "resolved", ~UnderReview(v),
         NEW r \in Requests, NEW w \in ViolationIds,
         RequestSnapshot(r, w) \/ GetViolation(r, w) \/ TransitionStatus(r, w)
  PROVE  ~UnderReview(v)'
<1>1. CASE RequestSnapshot(r, w)
  <2>. DEFINE b == [Idle EXCEPT !.op = "route"]
  <2>1. PICK e \in FreeEvidence : tx' = [tx EXCEPT ![r] = PendingSnapshot(b, w, e)]
    BY <1>1 DEF RequestSnapshot, Becomes
  <2>2. b \in Transactions /\ b.op = "route" /\ e \in EvidenceIds
    BY IdleFields DEF Transactions, FreeEvidence
  <2>. HIDE DEF b
  <2>3. PendingSnapshot(b, w, e).op = "route"
    BY <2>2, PendingType
  <2>4. Leaves(PendingSnapshot(b, w, e), v)
    BY <2>3 DEF Leaves
  <2>. QED BY <2>1, <2>4, Unreviewed
<1>2. CASE GetViolation(r, w)
  <2>. DEFINE t == [Idle EXCEPT !.at = "ask", !.op = "detail", !.todo = Unsettled(w)]
  <2>1. tx' = [tx EXCEPT ![r] = t]
    BY <1>2 DEF GetViolation, Becomes
  <2>2. Leaves(t, v)
    BY IdleFields DEF Leaves, Transactions
  <2>. HIDE DEF t
  <2>. QED BY <2>1, <2>2, Unreviewed
<1>3. CASE TransitionStatus(r, w)
  <2>1. PICK s \in ValidTargets(status[w]) :
          tx' = [tx EXCEPT ![r] = [Idle EXCEPT !.at = "commit", !.op = "review", !.v = w, !.status = s]]
    BY <1>3 DEF TransitionStatus, Becomes
  <2>. DEFINE t == [Idle EXCEPT !.at = "commit", !.op = "review", !.v = w, !.status = s]
  <2>2. w # v
    BY <2>1 DEF ValidTargets
  <2>3. t.v = w
    BY IdleFields DEF Transactions
  <2>. HIDE DEF t
  <2>4. Leaves(t, v)
    BY <2>2, <2>3 DEF Leaves
  <2>. QED BY <2>1, <2>4, Unreviewed DEF t
<1>. QED BY <1>1, <1>2, <1>3

LEMMA VasLeaves ==
  ASSUME IInv, NEW v \in ViolationIds, ~UnderReview(v), NEW r \in Requests, VasEnds(r)
  PROVE  ~UnderReview(v)'
<1>0. tx[r].at = "vas"
  BY DEF VasEnds, VasAccepts, VasFails, VasUnexpected
<1>1. tx[r] \in Transactions /\ tx[r].row # NoEvidence
  BY <1>0 DEF IInv, AllSound, Sound, SnapshotSound
<1>2. ASSUME NEW s, Becomes(r, [tx[r] EXCEPT !.at = "commit", !.row.status = s])
      PROVE  ~UnderReview(v)'
  <2>. DEFINE t == [tx[r] EXCEPT !.at = "commit", !.row.status = s]
  <2>1. tx' = [tx EXCEPT ![r] = t]
    BY <1>2 DEF Becomes
  <2>2. t.op = tx[r].op /\ t.v = tx[r].v
    BY <1>1 DEF Transactions
  <2>. HIDE DEF t
  <2>. QED BY <2>1, <2>2, GoesOn
<1>3. ASSUME Becomes(r, Idle) PROVE ~UnderReview(v)'
  BY <1>3, IdleLeaves, Unreviewed DEF Becomes
<1>4. ASSUME NEW s, Raises(r, s) PROVE ~UnderReview(v)'
  BY <1>2, <1>3, <1>4 DEF Raises
<1>5. CASE VasAccepts(r)
  <2>. DEFINE s == IF tx[r].op = "loop" THEN "ready" ELSE "processing"
  <2>1. Becomes(r, [tx[r] EXCEPT !.at = "commit", !.row.status = s])
    BY <1>5 DEF VasAccepts
  <2>. HIDE DEF s
  <2>. QED BY <1>2, <2>1
<1>6. CASE VasFails(r)
  BY <1>4, <1>6 DEF VasFails
<1>7. CASE VasUnexpected(r)
  BY <1>4, <1>7 DEF VasUnexpected
<1>. QED BY <1>5, <1>6, <1>7 DEF VasEnds

LEMMA SyncLeaves ==
  ASSUME IInv, NEW v \in ViolationIds, ~UnderReview(v), NEW r \in Requests, SyncEnds(r)
  PROVE  ~UnderReview(v)'
<1>1. PICK e \in EvidenceIds, n \in SUBSET EvidenceIds : Asked(r, e, n)
  BY DEF SyncEnds, SyncHears, SyncHearsNothing
<1>. DEFINE t == [tx[r] EXCEPT !.todo = tx[r].todo \ {e}, !.news = tx[r].news \cup n,
                               !.at = IF tx[r].todo = {e} THEN "commit" ELSE "ask"]
<1>2. tx' = [tx EXCEPT ![r] = t]
  BY <1>1 DEF Asked, Becomes
<1>3. tx[r] \in Transactions
  BY DEF IInv
<1>4. t.op = tx[r].op /\ t.v = tx[r].v
  BY <1>3 DEF Transactions
<1>. HIDE DEF t
<1>. QED BY <1>2, <1>4, GoesOn

(* Only a review that is under way takes a violation out of "resolved",    *)
(* and none can begin.                                                     *)
LEMMA ResolvedStays ==
  ASSUME IInv, Next, NEW v \in ViolationIds, status[v] = "resolved", ~UnderReview(v)
  PROVE  status'[v] = "resolved" /\ ~UnderReview(v)'
<1>0. v \in Stored /\ RowsTyped
  BY DEF Stored, IInv, EvidenceHasSource
<1>1. ASSUME NEW r \in Requests, NEW c \in 1 .. MaxConfidence,
             ProcessEvent(r, c) \/ IngestEvent(r, c)
      PROVE  status' = status /\ ~UnderReview(v)'
  <2>1. status' = status
    BY <1>1 DEF ProcessEvent, IngestEvent, Committed
  <2>2. CASE NewViolation(r, c)
    BY <2>1, <2>2, NewViolationLeaves
  <2>3. ASSUME NEW w \in ViolationIds,
               Becomes(r, [Idle EXCEPT !.at = "commit", !.op = "event", !.v = w, !.confidence = c])
        PROVE  ~UnderReview(v)'
    <3>. DEFINE t == [Idle EXCEPT !.at = "commit", !.op = "event", !.v = w, !.confidence = c]
    <3>1. tx' = [tx EXCEPT ![r] = t]
      BY <2>3 DEF Becomes
    <3>2. Leaves(t, v)
      BY IdleFields DEF Leaves, Transactions
    <3>. HIDE DEF t
    <3>. QED BY <3>1, <3>2, Unreviewed
  <2>. QED BY <1>1, <2>1, <2>2, <2>3 DEF ProcessEvent, IngestEvent
<1>2. ASSUME NEW r \in Requests, NEW c \in 1 .. MaxConfidence, LoopCreates(r, c)
      PROVE  status'[v] = "resolved" /\ ~UnderReview(v)'
  <2>. DEFINE t(w, e) == [Idle EXCEPT !.at = "vas", !.op = "loop", !.id = e,
                                      !.row = [of |-> w, status |-> "ready"]]
  <2>1. PICK w \in FreeViolations :
          /\ status' = [status EXCEPT ![w] = "open"]
          /\ tx' = tx \/ \E e \in FreeEvidence : tx' = [tx EXCEPT ![r] = t(w, e)]
    BY <1>2 DEF LoopCreates, Becomes
  <2>2. status'[v] = "resolved"
    BY <1>0, <2>1 DEF FreeViolations, RowsTyped
  <2>3. ASSUME NEW e \in FreeEvidence, tx' = [tx EXCEPT ![r] = t(w, e)]
        PROVE  ~UnderReview(v)'
    <3>. DEFINE row == [of |-> w, status |-> "ready"]
                u == [Idle EXCEPT !.at = "vas", !.op = "loop", !.id = e, !.row = row]
    <3>1. tx' = [tx EXCEPT ![r] = u]
      BY <2>3
    <3>. HIDE DEF row
    <3>2. Leaves(u, v)
      BY IdleFields DEF Leaves, Transactions
    <3>. HIDE DEF u
    <3>. QED BY <3>1, <3>2, Unreviewed
  <2>. HIDE DEF t
  <2>4. CASE tx' = tx
    BY <2>2, <2>4 DEF UnderReview
  <2>. QED BY <2>1, <2>2, <2>3, <2>4
<1>3. ASSUME NEW r \in Requests, NEW w \in ViolationIds,
             RequestSnapshot(r, w) \/ GetViolation(r, w) \/ TransitionStatus(r, w)
      PROVE  status' = status /\ ~UnderReview(v)'
  <2>1. status' = status
    BY <1>3 DEF RequestSnapshot, GetViolation, TransitionStatus, Committed
  <2>. QED BY <1>3, <2>1, RequestLeaves
<1>4. ASSUME NEW r \in Requests, VasEnds(r) \/ SyncEnds(r)
      PROVE  status' = status /\ ~UnderReview(v)'
  <2>1. status' = status
    BY <1>4 DEF VasEnds, VasAccepts, VasFails, VasUnexpected, SyncEnds, SyncHears, SyncHearsNothing,
                Committed
  <2>. QED BY <1>4, <2>1, VasLeaves, SyncLeaves
<1>5. ASSUME NEW r \in Requests, Commit(r)
      PROVE  status'[v] = "resolved" /\ ~UnderReview(v)'
  <2>. DEFINE t == tx[r]
  <2>1. status'[v] = IF v = t.v /\ t.status # None THEN t.status ELSE status[v]
    BY <1>5 DEF Commit
  <2>2. ~(v = t.v /\ t.status # None)
    <3>1. t.v = v /\ t.status # None => t.op = "review" \/ Creates(t)
      BY DEF IInv, AllSound, Sound, ViolationSound, Creates
    <3>2. t.op # "review" \/ t.v # v
      BY DEF UnderReview
    <3>3. t.v = v /\ Creates(t) => v \notin Stored
      BY ViolationsAssumption DEF IInv, AllSound, Sound, ViolationSound
    <3>. QED BY <1>0, <3>1, <3>2, <3>3
  <2>3. ~UnderReview(v)'
    BY <1>5, IdleLeaves, Unreviewed DEF Commit, Becomes
  <2>. QED BY <2>1, <2>2, <2>3
<1>6. ASSUME NEW r \in Requests, CommitFails(r)
      PROVE  status' = status /\ ~UnderReview(v)'
  BY <1>6, IdleLeaves, Unreviewed DEF CommitFails, Committed, Becomes
<1>7. ASSUME NEW e \in EvidenceIds, VasFinishes(e)
      PROVE  status' = status /\ ~UnderReview(v)'
  BY <1>7 DEF VasFinishes, Committed, UnderReview
<1>. QED BY <1>1, <1>2, <1>3, <1>4, <1>5, <1>6, <1>7 DEF Next

(* Only Commit writes snapshots, and what it has of one that is final is   *)
(* what the row has.                                                       *)
LEMMA SettledStays ==
  ASSUME IInv, Next, NEW e \in EvidenceIds, evidence[e].status \in Final
  PROVE  evidence'[e] = evidence[e]
<1>1. ASSUME NEW r \in Requests, Commit(r) PROVE evidence'[e] = evidence[e]
  <2>1. Sound(r, tx[r], vas) /\ e # None
    BY ViolationsAssumption DEF IInv, AllSound
  <2>2. e # tx[r].id
    <3>1. evidence[e] # NoEvidence
      BY DEF NoEvidence, Final
    <3>. QED BY <2>1, <3>1 DEF Sound, SnapshotSound
  <2>3. CASE /\ e \in tx[r].news /\ evidence[e] # NoEvidence
             /\ evidence'[e] = [evidence[e] EXCEPT !.status = vas[e]]
    <3>1. evidence[e].status = vas[e]
      BY <2>1, <2>3 DEF Sound, NewsSound, Final
    <3>2. evidence[e] \in [of : ViolationIds, status : EvidenceStatuses]
      BY <2>3 DEF IInv, EvidenceHasSource, RowsTyped, Rows
    <3>. QED BY <2>3, <3>1, <3>2
  <2>. QED BY <1>1, <2>2, <2>3, CommitEffect
<1>2. ASSUME UNCHANGED Committed PROVE evidence'[e] = evidence[e]
  BY <1>2 DEF Committed
<1>. QED BY <1>1, <1>2 DEF Next, ProcessEvent, IngestEvent, LoopCreates, RequestSnapshot,
            GetViolation, TransitionStatus, VasEnds, VasAccepts, VasFails, VasUnexpected, SyncEnds,
            SyncHears, SyncHearsNothing, CommitFails, VasFinishes

(* A resolved violation that nobody is reviewing and a snapshot that is    *)
(* READY or FAILED stay as they are, whatever events, reviews and readers  *)
(* of older states are still under way.                                    *)
THEOREM FinalIsKept == Spec => FinalStays
<1>1. IInv /\ [Next]_vars =>
        [\A v \in ViolationIds : status[v] = "resolved" /\ ~UnderReview(v) =>
           (status[v] = "resolved" /\ ~UnderReview(v))']_vars
  BY ResolvedStays
<1>2. IInv /\ [Next]_vars =>
        [\A e \in EvidenceIds : evidence[e].status \in Final => evidence'[e] = evidence[e]]_vars
  BY SettledStays
<1>. QED BY <1>1, <1>2, Invariance, PTL DEF Spec, FinalStays
-----------------------------------------------------------------------------
(* What the comments say, as long as requests do not overlap. *)

(* The transaction u is about what t is about. *)
Same(u, t) ==
  /\ u.op = t.op /\ u.v = t.v /\ u.status = t.status /\ u.confidence = t.confidence
  /\ u.id = t.id /\ u.row.of = t.row.of

(* What a request has looked up when it begins. *)
Begun(t) ==
  /\ t.op = "review" => t.v \in ViolationIds /\ status[t.v] # "resolved"
  /\ t.id # None => EvidenceOf(t.row.of) = {}
  /\ t.confidence # None =>
       t.op = "event" /\ t.v \in ViolationIds /\ (t.v \in Stored => t.confidence > confidence[t.v])

(* A transaction ends, goes on with what it is about or begins.            *)
Moves(t, u) ==
  \/ u = Idle
  \/ Same(u, t)
  \/ Begun(u) /\ evidence' = evidence /\ (u.op # "loop" => UNCHANGED Committed)

(* The others go on. *)
LEMMA MovesOne ==
  ASSUME IInv, NEW r \in Requests, NEW u, tx' = [tx EXCEPT ![r] = u], Moves(tx[r], u)
  PROVE  \A q \in Requests : Moves(tx[q], tx'[q])
<1>1. \A q \in Requests : tx'[q] = IF q = r THEN u ELSE tx[q]
  BY DEF IInv
<1>. QED BY <1>1 DEF Moves, Same

(* A violation that is not stored has no snapshot. *)
LEMMA NewHasNone ==
  ASSUME IInv, NEW v \in ViolationIds \ Stored
  PROVE  EvidenceOf(v) = {}
<1>1. v # None
  BY ViolationsAssumption
<1>. QED BY <1>1 DEF IInv, EvidenceHasSource, EvidenceOf, NoEvidence

LEMMA NewViolationMoves ==
  ASSUME IInv, NEW r \in Requests, NEW c \in 1 .. MaxConfidence, NewViolation(r, c),
         UNCHANGED Committed
  PROVE  \A q \in Requests : Moves(tx[q], tx'[q])
<1>1. PICK v \in FreeViolations :
        LET b == [Idle EXCEPT !.op = "event", !.v = v, !.status = "open", !.confidence = c]
        IN  \/ tx' = [tx EXCEPT ![r] = [b EXCEPT !.at = "commit"]]
            \/ \E e \in FreeEvidence : tx' = [tx EXCEPT ![r] = PendingSnapshot(b, v, e)]
  BY DEF NewViolation, Becomes
<1>. DEFINE b == [Idle EXCEPT !.op = "event", !.v = v, !.status = "open", !.confidence = c]
            t == [b EXCEPT !.at = "commit"]
            u(e) == PendingSnapshot(b, v, e)
<1>2. v \in ViolationIds \ Stored
  BY DEF FreeViolations
<1>3. b \in Transactions /\ b.op = "event" /\ b.v = v /\ b.confidence = c /\ b.id = None
  BY <1>2, IdleFields DEF Transactions, Statuses
<1>4. evidence' = evidence
  BY DEF Committed
<1>. HIDE DEF b
<1>5. CASE tx' = [tx EXCEPT ![r] = t]
  <2>1. t.op = "event" /\ t.v = v /\ t.confidence = c /\ t.id = None
    BY <1>3 DEF Transactions
  <2>. HIDE DEF t
  <2>2. Begun(t)
    BY <1>2, <2>1 DEF Begun
  <2>. QED BY <1>4, <1>5, <2>2, MovesOne DEF Moves
<1>6. ASSUME NEW e \in FreeEvidence, tx' = [tx EXCEPT ![r] = u(e)]
      PROVE  \A q \in Requests : Moves(tx[q], tx'[q])
  <2>1. e \in EvidenceIds
    BY DEF FreeEvidence
  <2>2. u(e).op = "event" /\ u(e).v = v /\ u(e).confidence = c
        /\ u(e).row = [of |-> v, status |-> "pending"]
    BY <1>2, <1>3, <2>1, PendingType
  <2>. HIDE DEF u
  <2>3. Begun(u(e))
    BY <1>2, <2>2, NewHasNone DEF Begun
  <2>. QED BY <1>4, <1>6, <2>3, MovesOne DEF Moves
<1>. QED BY <1>1, <1>5, <1>6 DEF b

LEMMA EventMoves ==
  ASSUME IInv, NEW r \in Requests, NEW c \in 1 .. MaxConfidence,
         ProcessEvent(r, c) \/ IngestEvent(r, c)
  PROVE  \A q \in Requests : Moves(tx[q], tx'[q])
<1>1. UNCHANGED Committed
  BY DEF ProcessEvent, IngestEvent
<1>2. CASE NewViolation(r, c)
  BY <1>1, <1>2, NewViolationMoves
<1>3. ASSUME NEW v \in ViolationIds, c > confidence[v],
             Becomes(r, [Idle EXCEPT !.at = "commit", !.op = "event", !.v = v, !.confidence = c])
      PROVE  \A q \in Requests : Moves(tx[q], tx'[q])
  <2>. DEFINE t == [Idle EXCEPT !.at = "commit", !.op = "event", !.v = v, !.confidence = c]
  <2>1. tx' = [tx EXCEPT ![r] = t]
    BY <1>3 DEF Becomes
  <2>2. t.op = "event" /\ t.v = v /\ t.confidence = c /\ t.id = None
    BY IdleFields DEF Transactions
  <2>. HIDE DEF t
  <2>3. Begun(t)
    BY <1>3, <2>2 DEF Begun
  <2>. QED BY <1>1, <2>1, <2>3, MovesOne DEF Moves, Committed
<1>. QED BY <1>2, <1>3 DEF ProcessEvent, IngestEvent

LEMMA LoopMoves ==
  ASSUME IInv, NEW r \in Requests, NEW c \in 1 .. MaxConfidence, LoopCreates(r, c)
  PROVE  /\ \A q \in Requests : Moves(tx[q], tx'[q])
         /\ \E v \in FreeViolations : /\ status' = [status EXCEPT ![v] = "open"]
                                      /\ confidence' = [confidence EXCEPT ![v] = c]
         /\ evidence' = evidence
<1>. DEFINE t(w, e) == [Idle EXCEPT !.at = "vas", !.op = "loop", !.id = e,
                                    !.row = [of |-> w, status |-> "ready"]]
<1>1. PICK w \in FreeViolations :
        /\ status' = [status EXCEPT ![w] = "open"]
        /\ confidence' = [confidence EXCEPT ![w] = c]
        /\ tx' = tx \/ \E e \in FreeEvidence : tx' = [tx EXCEPT ![r] = t(w, e)]
  BY DEF LoopCreates, Becomes
<1>2. evidence' = evidence
  BY DEF LoopCreates
<1>3. ASSUME tx' = tx PROVE \A q \in Requests : Moves(tx[q], tx'[q])
  BY <1>3 DEF Moves, Same
<1>4. ASSUME NEW e \in FreeEvidence, tx' = [tx EXCEPT ![r] = t(w, e)]
      PROVE  \A q \in Requests : Moves(tx[q], tx'[q])
  <2>. DEFINE row == [of |-> w, status |-> "ready"]
              u == [Idle EXCEPT !.at = "vas", !.op = "loop", !.id = e, !.row = row]
  <2>1. tx' = [tx EXCEPT ![r] = u]
    BY <1>4
  <2>2. row.of = w
    OBVIOUS
  <2>. HIDE DEF row
  <2>3. u.op = "loop" /\ u.confidence = None /\ u.row = row
    BY IdleFields DEF Transactions
  <2>. HIDE DEF u
  <2>4. EvidenceOf(w) = {}
    BY NewHasNone DEF FreeViolations
  <2>5. Begun(u)
    BY <2>2, <2>3, <2>4 DEF Begun
  <2>. QED BY <1>2, <2>1, <2>3, <2>5, MovesOne DEF Moves
<1>. HIDE DEF t
<1>. QED BY <1>1, <1>2, <1>3, <1>4

LEMMA RequestMoves ==
  ASSUME IInv, NEW r \in Requests, NEW v \in ViolationIds,
         RequestSnapshot(r, v) \/ GetViolation(r, v) \/ TransitionStatus(r, v)
  PROVE  \A q \in Requests : Moves(tx[q], tx'[q])
<1>0. UNCHANGED Committed /\ evidence' = evidence
  BY DEF RequestSnapshot, GetViolation, TransitionStatus, Committed
<1>1. CASE RequestSnapshot(r, v)
  <2>. DEFINE b == [Idle EXCEPT !.op = "route"]
  <2>1. PICK e \in FreeEvidence : tx' = [tx EXCEPT ![r] = PendingSnapshot(b, v, e)]
    BY <1>1 DEF RequestSnapshot, Becomes
  <2>2. b \in Transactions /\ b.op = "route" /\ b.confidence = None /\ e \in EvidenceIds
    BY IdleFields DEF Transactions, FreeEvidence
  <2>. HIDE DEF b
  <2>. DEFINE u == PendingSnapshot(b, v, e)
  <2>3. u.op = "route" /\ u.confidence = None /\ u.row = [of |-> v, status |-> "pending"]
    BY <2>2, PendingType
  <2>. HIDE DEF u
  <2>4. Begun(u)
    BY <1>1, <2>3 DEF Begun, RequestSnapshot
  <2>. QED BY <1>0, <2>1, <2>4, MovesOne DEF Moves, u
<1>2. CASE GetViolation(r, v)
  <2>. DEFINE t == [Idle EXCEPT !.at = "ask", !.op = "detail", !.todo = Unsettled(v)]
  <2>1. tx' = [tx EXCEPT ![r] = t]
    BY <1>2 DEF GetViolation, Becomes
  <2>2. t.op = "detail" /\ t.confidence = None /\ t.id = None
    BY IdleFields DEF Transactions
  <2>. HIDE DEF t
  <2>3. Begun(t)
    BY <2>2 DEF Begun
  <2>. QED BY <1>0, <2>1, <2>3, MovesOne DEF Moves
<1>3. CASE TransitionStatus(r, v)
  <2>1. PICK s \in ValidTargets(status[v]) :
          tx' = [tx EXCEPT ![r] = [Idle EXCEPT !.at = "commit", !.op = "review", !.v = v, !.status = s]]
    BY <1>3 DEF TransitionStatus, Becomes
  <2>. DEFINE t == [Idle EXCEPT !.at = "commit", !.op = "review", !.v = v, !.status = s]
  <2>2. status[v] # "resolved"
    BY <2>1 DEF ValidTargets
  <2>3. t.op = "review" /\ t.v = v /\ t.confidence = None /\ t.id = None
    BY IdleFields DEF Transactions
  <2>. HIDE DEF t
  <2>4. Begun(t)
    BY <2>2, <2>3 DEF Begun
  <2>. QED BY <1>0, <2>1, <2>4, MovesOne DEF Moves, t
<1>. QED BY <1>1, <1>2, <1>3

LEMMA VasMoves ==
  ASSUME IInv, NEW r \in Requests, VasEnds(r)
  PROVE  \A q \in Requests : Moves(tx[q], tx'[q])
<1>0. tx[r].at = "vas"
  BY DEF VasEnds, VasAccepts, VasFails, VasUnexpected
<1>1. tx[r] \in Transactions /\ tx[r].row # NoEvidence
  BY <1>0 DEF IInv, AllSound, Sound, SnapshotSound
<1>2. ASSUME NEW s \in EvidenceStatuses,
             Becomes(r, [tx[r] EXCEPT !.at = "commit", !.row.status = s])
      PROVE  \A q \in Requests : Moves(tx[q], tx'[q])
  <2>. DEFINE t == [tx[r] EXCEPT !.at = "commit", !.row.status = s]
  <2>1. tx' = [tx EXCEPT ![r] = t]
    BY <1>2 DEF Becomes
  <2>2. /\ t.op = tx[r].op /\ t.v = tx[r].v /\ t.status = tx[r].status
        /\ t.confidence = tx[r].confidence /\ t.id = tx[r].id
        /\ t.row = [of |-> tx[r].row.of, status |-> s]
    BY <1>1, AnsweredType
  <2>. HIDE DEF t
  <2>3. Same(t, tx[r])
    BY <2>2 DEF Same
  <2>. QED BY <2>1, <2>3, MovesOne DEF Moves
<1>3. ASSUME Becomes(r, Idle) PROVE \A q \in Requests : Moves(tx[q], tx'[q])
  BY <1>3, MovesOne DEF Becomes, Moves
<1>4. ASSUME NEW s \in EvidenceStatuses, Raises(r, s) PROVE \A q \in Requests : Moves(tx[q], tx'[q])
  BY <1>2, <1>3, <1>4 DEF Raises
<1>5. CASE VasAccepts(r)
  <2>. DEFINE s == IF tx[r].op = "loop" THEN "ready" ELSE "processing"
  <2>1. Becomes(r, [tx[r] EXCEPT !.at = "commit", !.row.status = s])
    BY <1>5 DEF VasAccepts
  <2>2. s \in EvidenceStatuses
    BY DEF EvidenceStatuses
  <2>. HIDE DEF s
  <2>. QED BY <1>2, <2>1, <2>2
<1>6. CASE VasFails(r)
  BY <1>4, <1>6 DEF VasFails, EvidenceStatuses
<1>7. CASE VasUnexpected(r)
  <2>1. tx[r].row.status \in EvidenceStatuses
    BY <1>1 DEF Transactions, Rows
  <2>. QED BY <1>4, <1>7, <2>1 DEF VasUnexpected
<1>. QED BY <1>5, <1>6, <1>7 DEF VasEnds

LEMMA SyncMoves ==
  ASSUME IInv, NEW r \in Requests, SyncEnds(r)
  PROVE  \A q \in Requests : Moves(tx[q], tx'[q])
<1>1. PICK e \in EvidenceIds, n \in SUBSET EvidenceIds : Asked(r, e, n)
  BY DEF SyncEnds, SyncHears, SyncHearsNothing
<1>. DEFINE t == [tx[r] EXCEPT !.todo = tx[r].todo \ {e}, !.news = tx[r].news \cup n,
                               !.at = IF tx[r].todo = {e} THEN "commit" ELSE "ask"]
<1>2. tx' = [tx EXCEPT ![r] = t]
  BY <1>1 DEF Asked, Becomes
<1>3. tx[r] \in Transactions
  BY DEF IInv
<1>4. /\ t.op = tx[r].op /\ t.v = tx[r].v /\ t.status = tx[r].status
      /\ t.confidence = tx[r].confidence /\ t.id = tx[r].id /\ t.row = tx[r].row
  BY <1>3 DEF Transactions
<1>. HIDE DEF t
<1>5. Same(t, tx[r])
  BY <1>4 DEF Same
<1>. QED BY <1>2, <1>5, MovesOne DEF Moves

LEMMA CommitMoves ==
  ASSUME IInv, NEW r \in Requests, Commit(r) \/ CommitFails(r)
  PROVE  /\ \A q \in Requests : Moves(tx[q], tx'[q])
         /\ tx'[r] = Idle /\ \A q \in Requests \ {r} : tx'[q] = tx[q]
<1>1. tx' = [tx EXCEPT ![r] = Idle]
  BY DEF Commit, CommitFails, Becomes
<1>2. \A q \in Requests : Moves(tx[q], tx'[q])
  BY <1>1, MovesOne DEF Moves
<1>. QED BY <1>1, <1>2 DEF IInv

(* The loop's step that creates a violation. *)
Created ==
  /\ \E v \in FreeViolations, c \in 1 .. MaxConfidence :
       status' = [status EXCEPT ![v] = "open"] /\ confidence' = [confidence EXCEPT ![v] = c]
  /\ evidence' = evidence

(* What every step does: the transactions move as they may, and only a     *)
(* commit and the loop write to the tables.                                *)
LEMMA EachStep ==
  ASSUME IInv, [Next]_vars
  PROVE  /\ \A q \in Requests : Moves(tx[q], tx'[q])
         /\ UNCHANGED Committed \/ Created \/ \E r \in Requests : Commit(r)
<1>1. ASSUME NEW r \in Requests, NEW c \in 1 .. MaxConfidence,
             ProcessEvent(r, c) \/ IngestEvent(r, c)
      PROVE  (\A q \in Requests : Moves(tx[q], tx'[q])) /\ UNCHANGED Committed
  BY <1>1, EventMoves DEF ProcessEvent, IngestEvent
<1>2. ASSUME NEW r \in Requests, NEW c \in 1 .. MaxConfidence, LoopCreates(r, c)
      PROVE  (\A q \in Requests : Moves(tx[q], tx'[q])) /\ Created
  BY <1>2, LoopMoves DEF Created
<1>3. ASSUME NEW r \in Requests, NEW v \in ViolationIds,
             RequestSnapshot(r, v) \/ GetViolation(r, v) \/ TransitionStatus(r, v)
      PROVE  (\A q \in Requests : Moves(tx[q], tx'[q])) /\ UNCHANGED Committed
  BY <1>3, RequestMoves DEF RequestSnapshot, GetViolation, TransitionStatus
<1>4. ASSUME NEW r \in Requests, VasEnds(r) \/ SyncEnds(r)
      PROVE  (\A q \in Requests : Moves(tx[q], tx'[q])) /\ UNCHANGED Committed
  BY <1>4, VasMoves, SyncMoves
     DEF VasEnds, VasAccepts, VasFails, VasUnexpected, SyncEnds, SyncHears, SyncHearsNothing
<1>5. ASSUME NEW r \in Requests, Commit(r)
      PROVE  (\A q \in Requests : Moves(tx[q], tx'[q])) /\ \E p \in Requests : Commit(p)
  BY <1>5, CommitMoves
<1>6. ASSUME NEW r \in Requests, CommitFails(r)
      PROVE  (\A q \in Requests : Moves(tx[q], tx'[q])) /\ UNCHANGED Committed
  BY <1>6, CommitMoves DEF CommitFails
<1>7. CASE UNCHANGED <<Committed, tx>>
  BY <1>7 DEF Moves, Same
<1>8. ASSUME NEW e \in EvidenceIds, VasFinishes(e) PROVE UNCHANGED <<Committed, tx>>
  BY <1>8 DEF VasFinishes
<1>9. CASE UNCHANGED vars
  BY <1>7, <1>9 DEF vars, Committed
<1>. QED BY <1>1, <1>2, <1>3, <1>4, <1>5, <1>6, <1>7, <1>8, <1>9 DEF Next

-----------------------------------------------------------------------------
(* One snapshot of each violation. *)

(* Who takes a snapshot has found none, and there is none yet. *)
Looked == \A r \in Requests : tx[r].id # None => EvidenceOf(tx[r].row.of) = {}

LEMMA LookedStep ==
  ASSUME IInv, [Next]_vars, CapturesNeverOverlap, Looked, OneSnapshot
  PROVE  Looked' /\ OneSnapshot'
<1>1. \A q \in Requests : Moves(tx[q], tx'[q])
  BY EachStep
<1>2. ASSUME evidence' = evidence PROVE Looked' /\ OneSnapshot'
  <2>1. ASSUME NEW q \in Requests, tx'[q].id # None, NEW e \in EvidenceIds
        PROVE  evidence'[e].of # tx'[q].row.of
    <3>1. tx'[q] # Idle
      BY <2>1, IdleFields
    <3>2. EvidenceOf(tx'[q].row.of) = {}
      BY <1>1, <2>1, <3>1 DEF Moves, Same, Begun, Looked
    <3>. QED BY <1>2, <3>2 DEF EvidenceOf
  <2>2. Looked'
    BY <2>1 DEF Looked, EvidenceOf
  <2>. QED BY <1>2, <2>2 DEF OneSnapshot
<1>3. ASSUME NEW r \in Requests, Commit(r) PROVE Looked' /\ OneSnapshot'
  <2>. DEFINE t == tx[r]
  <2>1. ASSUME NEW e \in EvidenceIds
        PROVE  /\ evidence'[e].of = IF e = t.id THEN t.row.of ELSE evidence[e].of
               /\ e # t.id => (evidence'[e] = NoEvidence <=> evidence[e] = NoEvidence)
    <3>1. CASE e \in t.news /\ e # t.id /\ evidence[e] # NoEvidence
               /\ evidence'[e] = [evidence[e] EXCEPT !.status = vas[e]] /\ vas[e] \in Final
      <4>1. evidence[e] \in [of : ViolationIds, status : EvidenceStatuses]
        BY <3>1 DEF IInv, EvidenceHasSource, RowsTyped, Rows
      <4>2. evidence'[e].of = evidence[e].of /\ evidence[e].of # None
        BY <3>1, <4>1, ViolationsAssumption
      <4>. QED BY <3>1, <4>2 DEF NoEvidence
    <3>. QED BY <1>3, <3>1, CommitEffect
  <2>2. t.id # None => EvidenceOf(t.row.of) = {}
    BY DEF Looked
  <2>3. ASSUME NEW q \in Requests, tx'[q].id # None, NEW e \in EvidenceIds
        PROVE  evidence'[e].of # tx'[q].row.of
    <3>1. q # r /\ tx'[q] = tx[q]
      BY <1>3, <2>3, CommitMoves, IdleFields
    <3>2. evidence[e].of # tx[q].row.of
      BY <2>3, <3>1 DEF Looked, EvidenceOf
    <3>3. e = t.id => t.row.of # tx[q].row.of
      BY <2>3, <3>1, ViolationsAssumption DEF CapturesNeverOverlap
    <3>. QED BY <2>1, <3>1, <3>2, <3>3
  <2>4. ASSUME NEW e \in EvidenceIds, NEW f \in EvidenceIds, evidence'[e] # NoEvidence,
               evidence'[e].of = evidence'[f].of
        PROVE  e = f
    <3>1. CASE e # t.id /\ f # t.id
      BY <2>1, <2>4, <3>1 DEF OneSnapshot
    <3>2. CASE t.id \in EvidenceIds
      <4>1. t.id # None
        BY <3>2, ViolationsAssumption
      <4>2. \A d \in EvidenceIds : evidence[d].of # t.row.of
        BY <2>2, <4>1 DEF EvidenceOf
      <4>. QED BY <2>1, <2>4, <3>1, <4>2
    <3>. QED BY <3>1, <3>2
  <2>. HIDE DEF t
  <2>5. Looked'
    BY <2>3 DEF Looked, EvidenceOf
  <2>6. OneSnapshot'
    BY <2>4 DEF OneSnapshot
  <2>. QED BY <2>5, <2>6
<1>. QED BY <1>2, <1>3, EachStep DEF Committed, Created

(* EvidenceService looks for a snapshot of the violation, calls VAS and    *)
(* inserts one at the commit: there are never two unless two captures of   *)
(* one violation overlap, whatever else is interleaved with them.          *)
THEOREM SecondSnapshotNeedsOverlap == Spec /\ []CapturesNeverOverlap => []OneSnapshot
<1>1. Init => Looked /\ OneSnapshot
  <2>1. ASSUME Init PROVE Looked /\ OneSnapshot
    <3>1. (\A r \in Requests : tx[r].id = None) /\ \A e \in EvidenceIds : evidence[e] = NoEvidence
      BY <2>1, IdleFields DEF Init
    <3>. QED BY <3>1 DEF Looked, OneSnapshot
  <2>. QED BY <2>1
<1>2. IInv /\ CapturesNeverOverlap /\ Looked /\ OneSnapshot /\ [Next]_vars => Looked' /\ OneSnapshot'
  BY LookedStep
<1>. QED BY <1>1, <1>2, Invariance, PTL DEF Spec

-----------------------------------------------------------------------------
(* RESOLVED is final. *)

NobodyReviews ==
  \A v \in ViolationIds : status[v] = "resolved" => ~UnderReview(v)

(* What makes a violation resolved is the one review of it.                *)
LEMMA NobodyReviewsStep ==
  ASSUME IInv, [Next]_vars, ReviewsNeverOverlap, NobodyReviews
  PROVE  /\ NobodyReviews'
         /\ \A v \in ViolationIds : status[v] = "resolved" => status'[v] = "resolved"
<1>1. CASE UNCHANGED vars
  BY <1>1 DEF vars, NobodyReviews, UnderReview
<1>2. CASE Next
  <2>1. \A v \in ViolationIds : status[v] = "resolved" => status'[v] = "resolved" /\ ~UnderReview(v)'
    BY <1>2, ResolvedStays DEF NobodyReviews
  <2>2. ASSUME NEW v \in ViolationIds, status[v] # "resolved", status'[v] = "resolved"
        PROVE  ~UnderReview(v)'
    <3>1. ~Created
      <4>1. ASSUME Created PROVE FALSE
        <5>1. PICK w \in FreeViolations : status' = [status EXCEPT ![w] = "open"]
          BY <4>1 DEF Created
        <5>. QED BY <2>2, <5>1 DEF IInv, EvidenceHasSource, RowsTyped
      <4>. QED BY <4>1
    <3>2. PICK r \in Requests : Commit(r)
      BY <2>2, <3>1, EachStep DEF Committed
    <3>. DEFINE t == tx[r]
    <3>3. t.v = v /\ t.status # None
      BY <2>2, <3>2 DEF Commit
    <3>4. ViolationSound(r, t)
      BY DEF IInv, AllSound, Sound
    <3>5. ASSUME NEW q \in Requests \ {r} PROVE Leaves(tx[q], v)
      <4>1. CASE t.op = "review"
        BY <3>3, <3>5, <4>1 DEF ReviewsNeverOverlap, Leaves
      <4>2. CASE t.op = "event"
        <5>1. t.v # None
          BY <3>3, ViolationsAssumption
        <5>. QED BY <3>3, <3>4, <3>5, <4>2, <5>1 DEF ViolationSound, Creates, Leaves
      <4>. QED BY <3>3, <3>4, <4>1, <4>2 DEF ViolationSound
    <3>6. tx'[r] = Idle /\ \A q \in Requests \ {r} : tx'[q] = tx[q]
      BY <3>2, CommitMoves
    <3>. HIDE DEF t
    <3>7. \A q \in Requests : Leaves(tx'[q], v)
      BY <3>5, <3>6, IdleLeaves
    <3>. QED BY <3>7 DEF UnderReview, Leaves
  <2>. QED BY <2>1, <2>2 DEF NobodyReviews
<1>. QED BY <1>1, <1>2

(* transition_status checks the status it has read and writes at the       *)
(* commit: a resolved violation changes no more unless two reviews of it   *)
(* overlap.                                                                *)
THEOREM ResolvedIsLostToOverlap == Spec /\ []ReviewsNeverOverlap => TerminalIsFinal
<1>1. Init => NobodyReviews
  <2>1. ASSUME Init PROVE NobodyReviews
    <3>1. \A r \in Requests : tx[r] = Idle
      BY <2>1 DEF Init
    <3>. QED BY <3>1, IdleLeaves DEF NobodyReviews, UnderReview, Leaves
  <2>. QED BY <2>1
<1>2. IInv /\ ReviewsNeverOverlap /\ NobodyReviews /\ [Next]_vars =>
        /\ NobodyReviews'
        /\ [\A v \in ViolationIds : status[v] = "resolved" => status'[v] = "resolved"]_vars
  BY NobodyReviewsStep
<1>. QED BY <1>1, <1>2, Invariance, PTL DEF Spec, TerminalIsFinal

-----------------------------------------------------------------------------
(* The confidence of a violation only rises. *)

(* An event under way brings no less than what is stored by now. *)
Raising ==
  /\ \A v \in ViolationIds \ Stored : confidence[v] = 0
  /\ \A r \in Requests : tx[r].confidence # None =>
       /\ tx[r].op = "event" /\ tx[r].v \in ViolationIds
       /\ tx[r].confidence >= confidence[tx[r].v]

LEMMA RaisingStep ==
  ASSUME IInv, [Next]_vars, EventsNeverOverlap, Raising
  PROVE  Raising' /\ \A v \in ViolationIds : confidence'[v] >= confidence[v]
<1>0. /\ confidence \in [ViolationIds -> 0 .. MaxConfidence] /\ MaxConfidence \in Nat
      /\ tx' \in [Requests -> Transactions] /\ tx \in [Requests -> Transactions]
      /\ status \in [ViolationIds -> {"absent"} \cup Statuses]
  <2>1. IInv'
    BY StepSound
  <2>. QED BY <2>1, ViolationsAssumption DEF IInv, EvidenceHasSource, RowsTyped
<1>1. \A q \in Requests : Moves(tx[q], tx'[q])
  BY EachStep
(* Each transaction has no less than what was stored before the step. *)
<1>2. ASSUME NEW q \in Requests, tx'[q].confidence # None
      PROVE  /\ tx'[q].op = "event" /\ tx'[q].v \in ViolationIds
             /\ tx'[q].confidence \in Nat /\ tx'[q].confidence >= confidence[tx'[q].v]
             /\ Same(tx'[q], tx[q]) \/ UNCHANGED Committed
  <2>0. tx'[q].confidence \in 1 .. MaxConfidence
    BY <1>0, <1>2 DEF Transactions
  <2>1. tx'[q] # Idle
    BY <1>2, IdleFields
  <2>2. CASE Same(tx'[q], tx[q])
    BY <1>0, <1>2, <2>0, <2>2 DEF Same, Raising
  <2>3. CASE Begun(tx'[q]) /\ (tx'[q].op # "loop" => UNCHANGED Committed)
    <3>1. tx'[q].op = "event" /\ tx'[q].v \in ViolationIds
          /\ (tx'[q].v \in Stored => tx'[q].confidence > confidence[tx'[q].v])
      BY <1>2, <2>3 DEF Begun
    <3>2. tx'[q].v \notin Stored => confidence[tx'[q].v] = 0
      BY <3>1 DEF Raising
    <3>. QED BY <1>0, <2>0, <2>3, <3>1, <3>2
  <2>. QED BY <1>1, <2>1, <2>2, <2>3 DEF Moves
<1>3. CASE UNCHANGED Committed
  <2>1. status' = status /\ confidence' = confidence
    BY <1>3 DEF Committed
  <2>. QED BY <1>0, <1>2, <2>1 DEF Raising, Stored
<1>4. CASE Created
  <2>1. PICK w \in FreeViolations, c \in 1 .. MaxConfidence :
          status' = [status EXCEPT ![w] = "open"] /\ confidence' = [confidence EXCEPT ![w] = c]
    BY <1>4 DEF Created
  <2>2. w \in ViolationIds \ Stored /\ \A q \in Requests : tx[q].v # w
    BY DEF FreeViolations
  <2>3. \A v \in ViolationIds : /\ v # w => confidence'[v] = confidence[v] /\ status'[v] = status[v]
                                /\ status'[w] = "open" /\ confidence'[w] = c
    BY <1>0, <2>1, <2>2
  <2>4. ASSUME NEW q \in Requests, tx'[q].confidence # None
        PROVE  /\ tx'[q].op = "event" /\ tx'[q].v \in ViolationIds
               /\ tx'[q].confidence >= confidence'[tx'[q].v]
    <3>1. CASE Same(tx'[q], tx[q])
      BY <1>2, <2>2, <2>3, <2>4, <3>1 DEF Same
    <3>2. CASE UNCHANGED Committed
      BY <1>2, <2>4, <3>2 DEF Committed
    <3>. QED BY <1>2, <2>4, <3>1, <3>2
  <2>5. \A v \in ViolationIds : confidence'[v] >= confidence[v]
    BY <1>0, <2>2, <2>3 DEF Raising
  <2>6. \A v \in ViolationIds : status'[v] = "absent" => confidence'[v] = 0
    BY <2>3 DEF Raising, Stored
  <2>. QED BY <2>4, <2>5, <2>6 DEF Raising, Stored
<1>5. ASSUME NEW r \in Requests, Commit(r)
      PROVE  Raising' /\ \A v \in ViolationIds : confidence'[v] >= confidence[v]
  <2>. DEFINE t == tx[r]
  <2>1. \A v \in ViolationIds :
          /\ status'[v] = IF v = t.v /\ t.status # None THEN t.status ELSE status[v]
          /\ confidence'[v] = IF v = t.v /\ t.confidence # None THEN t.confidence ELSE confidence[v]
    BY <1>5 DEF Commit
  <2>2. tx'[r] = Idle /\ \A q \in Requests \ {r} : tx'[q] = tx[q]
    BY <1>5, CommitMoves
  <2>3. ViolationSound(r, t)
    BY DEF IInv, AllSound, Sound
  <2>4. t.confidence # None => /\ t.op = "event" /\ t.v \in ViolationIds
                               /\ t.confidence >= confidence[t.v]
    BY DEF Raising
  <2>5. \A v \in ViolationIds : confidence'[v] >= confidence[v]
    BY <1>0, <2>1, <2>4
  <2>6. ASSUME NEW v \in ViolationIds, status'[v] = "absent" PROVE confidence'[v] = 0
    <3>1. t.status \in Statuses \cup {None}
      BY <1>0 DEF Transactions
    <3>2. status[v] = "absent" /\ (v = t.v => t.status = None)
      BY <2>1, <2>6, <3>1 DEF Statuses
    <3>3. t.confidence # None => v # t.v
      BY <2>3, <2>4, <3>2, ViolationsAssumption DEF ViolationSound, Creates, Stored
    <3>. QED BY <2>1, <3>2, <3>3 DEF Raising, Stored
  <2>7. ASSUME NEW q \in Requests, tx'[q].confidence # None
        PROVE  /\ tx'[q].op = "event" /\ tx'[q].v \in ViolationIds
               /\ tx'[q].confidence >= confidence'[tx'[q].v]
    <3>1. q # r /\ tx'[q] = tx[q]
      BY <2>2, <2>7, IdleFields
    <3>2. tx[q].op = "event" /\ tx[q].v \in ViolationIds /\ tx[q].confidence >= confidence[tx[q].v]
      BY <2>7, <3>1 DEF Raising
    <3>3. t.confidence # None => t.v # tx[q].v
      BY <2>4, <3>1, <3>2 DEF EventsNeverOverlap
    <3>. QED BY <2>1, <3>1, <3>2, <3>3
  <2>. HIDE DEF t
  <2>. QED BY <2>5, <2>6, <2>7 DEF Raising, Stored
<1>. QED BY <1>3, <1>4, <1>5, EachStep

(* process_event compares the confidence of an event with the one it has   *)
(* read and writes it at the commit: the stored one never drops unless two *)
(* events for one violation overlap.                                       *)
THEOREM ConfidenceDropNeedsOverlap == Spec /\ []EventsNeverOverlap => ConfidenceNeverDrops
<1>1. Init => Raising
  <2>1. ASSUME Init PROVE Raising
    <3>1. (\A r \in Requests : tx[r].confidence = None) /\ \A v \in ViolationIds : confidence[v] = 0
      BY <2>1, IdleFields DEF Init
    <3>. QED BY <3>1 DEF Raising
  <2>. QED BY <2>1
<1>2. IInv /\ EventsNeverOverlap /\ Raising /\ [Next]_vars =>
        Raising' /\ [\A v \in ViolationIds : confidence'[v] >= confidence[v]]_vars
  BY RaisingStep
<1>. QED BY <1>1, <1>2, Invariance, PTL DEF Spec, ConfidenceNeverDrops
=============================================================================
