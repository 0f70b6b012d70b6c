----------------------------- MODULE Violations -----------------------------
(***************************************************************************)
(* Violations and the snapshots taken of them, for one stream session and  *)
(* one kind of violation: ViolationService, EvidenceService, the routes of *)
(* api/v1/violations.py and api/internal/events.py, and the part of the    *)
(* inference loop that stores a violation and captures its evidence.       *)
(*                                                                         *)
(* Each request is a transaction: it sees what others have committed, and  *)
(* its UPDATE, sent at the commit, writes the columns it has assigned and  *)
(* compares no version. A step is what a request runs between two calls of *)
(* VAS. Bookmarks follow the code of snapshots over columns of their own.  *)
(***************************************************************************)
EXTENDS Naturals, FiniteSets

CONSTANTS
  Requests,       \* the requests (or tasks of the loop) under way at a time
  ViolationIds,   \* the rows of violations there is room for
  EvidenceIds,    \* the snapshots, and their jobs in VAS, there is room for
  MaxConfidence,  \* confidences are 1 .. MaxConfidence
  MaxFaults,      \* how many commits fail
  None

ASSUME ViolationsAssumption ==
  /\ MaxConfidence \in Nat \ {0}
  /\ MaxFaults \in Nat
  /\ None \notin ViolationIds \cup EvidenceIds \cup (1 .. MaxConfidence)
  /\ None \notin {"open", "reviewed", "dismissed", "resolved"}

VARIABLES
  status,      \* of each violation, as committed
  confidence,  \* of each violation, as committed
  evidence,    \* the snapshots committed
  vas,         \* the job VAS has for each snapshot
  tx,          \* the transaction of each request
  faults       \* commits that have failed

vars == <<status, confidence, evidence, vas, tx, faults>>

Statuses == {"open", "reviewed", "dismissed", "resolved"}
EvidenceStatuses == {"pending", "processing", "ready", "failed"}
Final == {"ready", "failed"}
Open == {"open", "reviewed"}

NoEvidence == [of |-> None, status |-> "absent"]

(* v: the violation the transaction writes, with the columns it has        *)
(* assigned; row: the snapshot it inserts as id; todo: the snapshots whose *)
(* state it still asks for, news: those of which it has heard.             *)
Idle == [at |-> "idle", op |-> None, v |-> None, status |-> None, confidence |-> None,
         id |-> None, row |-> NoEvidence, todo |-> {}, news |-> {}]

Init ==
  /\ status = [v \in ViolationIds |-> "absent"]
  /\ confidence = [v \in ViolationIds |-> 0]
  /\ evidence = [e \in EvidenceIds |-> NoEvidence]
  /\ vas = [e \in EvidenceIds |-> "none"]
  /\ tx = [r \in Requests |-> Idle]
  /\ faults = 0

Stored == {v \in ViolationIds : status[v] # "absent"}
FreeViolations == {v \in ViolationIds \ Stored : \A r \in Requests : tx[r].v # v}
FreeEvidence ==
  {e \in EvidenceIds : evidence[e] = NoEvidence /\ vas[e] = "none" /\ \A r \in Requests : tx[r].id # e}

(* _get_existing_evidence *)
EvidenceOf(v) == {e \in EvidenceIds : evidence[e].of = v}

Committed == <<status, confidence, evidence>>
Becomes(r, t) == tx' = [tx EXCEPT ![r] = t]

\* Mutant: the snapshot is PROCESSING before VAS has been asked.
PendingSnapshot_Mutant(t, v, e) ==
  [t EXCEPT !.at = "vas", !.id = e, !.row = [of |-> v, status |-> "processing"]]

(* create_snapshot inserts a PENDING row and calls VAS.                    *)
PendingSnapshot(t, v, e) ==
  [t EXCEPT !.at = "vas", !.id = e, !.row = [of |-> v, status |-> "pending"]]

-----------------------------------------------------------------------------
(* Events.                                                                 *)

(* A new row with confidence c, and its snapshot if a stream is known. A   *)
(* new violation has no snapshot yet.                                      *)
NewViolation(r, c) ==
  \E v \in FreeViolations :
    LET t == [Idle EXCEPT !.op = "event", !.v = v, !.status = "open", !.confidence = c]
    IN  \/ Becomes(r, [t EXCEPT !.at = "commit"])
        \/ \E e \in FreeEvidence : Becomes(r, PendingSnapshot(t, v, e))

(* process_event attaches to an open violation, whose confidence it raises *)
(* if that of the event is higher than the one it has read (else it writes *)
(* nothing here), and creates one if there is none.                        *)
ProcessEvent(r, c) ==
  /\ tx[r] = Idle
  /\ \/ \E v \in ViolationIds :
          /\ status[v] \in Open
          /\ c > confidence[v]
          /\ Becomes(r, [Idle EXCEPT !.at = "commit", !.op = "event", !.v = v, !.confidence = c])
     \/ /\ \A v \in ViolationIds : status[v] \notin Open
        /\ NewViolation(r, c)
  /\ UNCHANGED <<Committed, vas, faults>>

(* The internal route creates a violation for each event.                  *)
IngestEvent(r, c) ==
  /\ tx[r] = Idle
  /\ NewViolation(r, c)
  /\ UNCHANGED <<Committed, vas, faults>>

(* So does the inference loop, which commits at once and leaves the        *)
(* evidence, if it knows the stream, to a task of its own.                 *)
LoopCreates(r, c) ==
  /\ tx[r] = Idle
  /\ \E v \in FreeViolations :
       /\ status' = [status EXCEPT ![v] = "open"]
       /\ confidence' = [confidence EXCEPT ![v] = c]
       /\ \/ UNCHANGED tx
          \/ \E e \in FreeEvidence :
               Becomes(r, [Idle EXCEPT !.at = "vas", !.op = "loop", !.id = e,
                                       !.row = [of |-> v, status |-> "ready"]])
  /\ UNCHANGED <<evidence, vas, faults>>

-----------------------------------------------------------------------------
(* Evidence.                                                               *)

(* POST .../snapshot: an existing snapshot is returned (two of them are an *)
(* error), and without a stream there is none to take.                     *)
RequestSnapshot(r, v) ==
  /\ tx[r] = Idle
  /\ v \in Stored
  /\ EvidenceOf(v) = {}
  /\ \E e \in FreeEvidence : Becomes(r, PendingSnapshot([Idle EXCEPT !.op = "route"], v, e))
  /\ UNCHANGED <<Committed, vas, faults>>

(* VAS has begun the job. The loop takes the answer for the snapshot and   *)
(* inserts it READY.                                                       *)
VasAccepts(r) ==
  /\ tx[r].at = "vas"
  /\ vas' = [vas EXCEPT ![tx[r].id] = "processing"]
  /\ Becomes(r, [tx[r] EXCEPT !.at = "commit",
                              !.row.status = IF tx[r].op = "loop" THEN "ready" ELSE "processing"])
  /\ UNCHANGED <<Committed, faults>>

(* create_snapshot raises. Whoever creates a violation goes on without; the *)
(* route turns it into an answer that rolls back, the loop logs it.        *)
Raises(r, marked) ==
  Becomes(r, IF tx[r].op = "event" THEN [tx[r] EXCEPT !.at = "commit", !.row.status = marked] ELSE Idle)

(* VAS refuses, or its answer is lost: the row is marked FAILED.           *)
VasFails(r) ==
  /\ tx[r].at = "vas"
  /\ vas' \in {vas, [vas EXCEPT ![tx[r].id] = "processing"]}
  /\ Raises(r, "failed")
  /\ UNCHANGED <<Committed, faults>>

(* An exception that is no VASError (before the call is sent, or over an   *)
(* answer that cannot be parsed) leaves the row as it is.                  *)
VasUnexpected(r) ==
  /\ tx[r].at = "vas"
  /\ vas' \in {vas, [vas EXCEPT ![tx[r].id] = "processing"]}
  /\ Raises(r, tx[r].row.status)
  /\ UNCHANGED <<Committed, faults>>

\* Mutant: every snapshot is synchronised, not only those PROCESSING.
Unsettled_Mutant(v) == EvidenceOf(v)

Unsettled(v) == {e \in EvidenceOf(v) : evidence[e].status = "processing"}

(* get_violation asks VAS for the state of the snapshots that are          *)
(* PROCESSING, get_snapshot_image for that of one.                         *)
GetViolation(r, v) ==
  /\ tx[r] = Idle
  /\ Unsettled(v) # {}
  /\ Becomes(r, [Idle EXCEPT !.at = "ask", !.op = "detail", !.todo = Unsettled(v)])
  /\ UNCHANGED <<Committed, vas, faults>>

Asked(r, e, news) ==
  Becomes(r, [tx[r] EXCEPT !.todo = @ \ {e}, !.news = @ \cup news,
                           !.at = IF tx[r].todo = {e} THEN "commit" ELSE "ask"])

\* Mutant: a job that has failed is not news.
SyncHears_Mutant(r, e) ==
  /\ tx[r].at = "ask"
  /\ e \in tx[r].todo
  /\ vas[e] = "ready"
  /\ Asked(r, e, {e})
  /\ UNCHANGED <<Committed, vas, faults>>

(* _sync_snapshot_from_vas: a job that is over is news. VAS never changes  *)
(* its mind about it, so the state is looked up at the commit.             *)
SyncHears(r, e) ==
  /\ tx[r].at = "ask"
  /\ e \in tx[r].todo
  /\ vas[e] \in Final
  /\ Asked(r, e, {e})
  /\ UNCHANGED <<Committed, vas, faults>>

(* The job is not over, or the call has failed, which is logged.           *)
SyncHearsNothing(r, e) ==
  /\ tx[r].at = "ask"
  /\ e \in tx[r].todo
  /\ Asked(r, e, {})
  /\ UNCHANGED <<Committed, vas, faults>>

(* VAS by itself. *)
VasFinishes(e) ==
  /\ vas[e] = "processing"
  /\ \E s \in Final : vas' = [vas EXCEPT ![e] = s]
  /\ UNCHANGED <<Committed, tx, faults>>

-----------------------------------------------------------------------------
(* Review, and the end of a transaction.                                   *)

(* VALID_STATUS_TRANSITIONS *)
ValidTargets(s) ==
  CASE s = "open" -> {"reviewed", "dismissed"}
    [] s = "reviewed" -> {"dismissed", "resolved"}
    [] s = "dismissed" -> {"open"}
    [] s = "resolved" -> {}

(* transition_status decides by the status it has read.                    *)
TransitionStatus(r, v) ==
  /\ tx[r] = Idle
  /\ v \in Stored
  /\ \E s \in ValidTargets(status[v]) :
       Becomes(r, [Idle EXCEPT !.at = "commit", !.op = "review", !.v = v, !.status = s])
  /\ UNCHANGED <<Committed, vas, faults>>

(* get_db_session commits when the route has returned.                     *)
Commit(r) ==
  LET t == tx[r] IN
  /\ t.at = "commit"
  /\ status' = [v \in ViolationIds |-> IF v = t.v /\ t.status # None THEN t.status ELSE status[v]]
  /\ confidence' =
       [v \in ViolationIds |-> IF v = t.v /\ t.confidence # None THEN t.confidence ELSE confidence[v]]
  /\ evidence' = [e \in EvidenceIds |-> IF e = t.id THEN t.row
                                        ELSE IF e \in t.news THEN [evidence[e] EXCEPT !.status = vas[e]]
                                        ELSE evidence[e]]
  /\ Becomes(r, Idle)
  /\ UNCHANGED <<vas, faults>>

(* ... or the commit fails: nothing of the transaction is stored.          *)
CommitFails(r) ==
  /\ tx[r].at = "commit"
  /\ faults < MaxFaults
  /\ faults' = faults + 1
  /\ Becomes(r, Idle)
  /\ UNCHANGED <<Committed, vas>>

-----------------------------------------------------------------------------
VasEnds(r) == VasAccepts(r) \/ VasFails(r) \/ VasUnexpected(r)
SyncEnds(r) == \E e \in EvidenceIds : SyncHears(r, e) \/ SyncHearsNothing(r, e)

Next ==
  \/ \E r \in Requests :
       \/ \E c \in 1 .. MaxConfidence : ProcessEvent(r, c) \/ IngestEvent(r, c) \/ LoopCreates(r, c)
       \/ \E v \in ViolationIds : RequestSnapshot(r, v) \/ GetViolation(r, v) \/ TransitionStatus(r, v)
       \/ VasEnds(r) \/ SyncEnds(r) \/ Commit(r) \/ CommitFails(r)
  \/ \E e \in EvidenceIds : VasFinishes(e)

Spec == Init /\ [][Next]_vars

(* What a request has begun ends, and so does a job of VAS. Operators go on *)
(* opening a violation they see, and VAS is not deaf for ever.             *)
Fairness ==
  /\ \A r \in Requests : WF_vars(VasEnds(r)) /\ WF_vars(SyncEnds(r)) /\ WF_vars(Commit(r))
  /\ \A e \in EvidenceIds : WF_vars(VasFinishes(e))
  /\ \A v \in ViolationIds : SF_vars(\E r \in Requests : GetViolation(r, v))
  /\ \A e \in EvidenceIds : SF_vars(\E r \in Requests : SyncHears(r, e))

FairSpec == Spec /\ Fairness

-----------------------------------------------------------------------------
Rows == {NoEvidence} \cup [of : ViolationIds, status : EvidenceStatuses]

RowsTyped ==
  /\ status \in [ViolationIds -> {"absent"} \cup Statuses]
  /\ confidence \in [ViolationIds -> 0 .. MaxConfidence]
  /\ evidence \in [EvidenceIds -> Rows]
  /\ vas \in [EvidenceIds -> {"none", "processing"} \cup Final]

(* Whatever fails on the way, a snapshot that is stored belongs to a stored *)
(* violation, and VAS has the job of one that waits for it or can be       *)
(* downloaded: a row is neither stored without its violation nor promised  *)
(* before VAS has accepted it.                                             *)
EvidenceHasSource ==
  /\ RowsTyped
  /\ \A e \in EvidenceIds : evidence[e] # NoEvidence =>
       /\ evidence[e].of \in Stored
       /\ evidence[e].status \in {"processing", "ready"} => vas[e] # "none"

UnderReview(v) == \E r \in Requests : tx[r].op = "review" /\ tx[r].v = v

(* A violation resolved while no other review of it is under way stays so, *)
(* whatever events arrive and whoever reviews; a snapshot READY or FAILED  *)
(* is not changed by those that read its state before it was (two pages    *)
(* that synchronise it at the same time).                                  *)
FinalStays ==
  /\ [][\A v \in ViolationIds : status[v] = "resolved" /\ ~UnderReview(v) =>
          (status[v] = "resolved" /\ ~UnderReview(v))']_vars
  /\ [][\A e \in EvidenceIds : evidence[e].status \in Final => evidence'[e] = evidence[e]]_vars

(* A snapshot that VAS works on is READY or FAILED in the end, in spite of *)
(* lost answers and failed commits: each visit of the violation tries      *)
(* again.                                                                  *)
EvidenceSettles ==
  \A e \in EvidenceIds : evidence[e].status = "processing" ~> evidence[e].status \in Final

-----------------------------------------------------------------------------
(* What the comments of the services say, and what holds only as long as   *)
(* no two requests overlap in the way named with each (ViolationsProofs):  *)
(* the look and the commit are apart, and no column of the tables tells    *)
(* the database to refuse the second one. No run checks them.              *)

(* "Enforces idempotency per (violation_id, evidence_type)".               *)
OneSnapshot ==
  \A e, f \in EvidenceIds :
    evidence[e] # NoEvidence /\ evidence[e].of = evidence[f].of => e = f

(* "Terminal states (cannot be modified)".                                 *)
TerminalIsFinal ==
  [][\A v \in ViolationIds : status[v] = "resolved" => status'[v] = "resolved"]_vars

(* "Update violation confidence if the new event has higher confidence".   *)
ConfidenceNeverDrops ==
  [][\A v \in ViolationIds : confidence'[v] >= confidence[v]]_vars

(* No two captures of one violation are under way, ...                     *)
CapturesNeverOverlap ==
  \A q, r \in Requests :
    tx[q].id # None /\ tx[r].id # None /\ tx[q].row.of = tx[r].row.of => q = r

(* ... no two reviews of it, ...                                           *)
ReviewsNeverOverlap ==
  \A q, r \in Requests :
    tx[q].op = "review" /\ tx[r].op = "review" /\ tx[q].v = tx[r].v => q = r

(* ... and no two events for it.                                           *)
EventsNeverOverlap ==
  \A q, r \in Requests :
    tx[q].op = "event" /\ tx[r].op = "event" /\ tx[q].v = tx[r].v => q = r
=============================================================================
