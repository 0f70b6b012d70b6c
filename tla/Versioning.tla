----------------------------- MODULE Versioning -----------------------------
(***************************************************************************)
(* VersionResolver (ai/runtime/versioning.py): a request that names no     *)
(* version is given the highest eligible one.  The resolver has the live   *)
(* descriptors of the registry and reads them without its lock, one field  *)
(* at a time, while loads, trips, health reports and the directory watcher *)
(* change them.                                                            *)
(***************************************************************************)
EXTENDS SemVer, Functions, FiniteSets

CONSTANTS
  Versions,           \* the versions of the model that may be found
  Malformed,          \* those discovery accepts and parse_semver does not
  Requests,
  IncludePrerelease,  \* the configuration of eligibility
  MinVersion, MaxVersion,
  MaxEntries,         \* bound: the versions found
  None

ASSUME VersioningAssumption ==
  /\ Versions \subseteq SemVers /\ Malformed \subseteq Versions
  /\ IncludePrerelease \in BOOLEAN /\ MaxEntries \in Nat
  /\ None \notin Versions
  /\ {MinVersion, MaxVersion} \subseteq SemVers \union {None}

VARIABLES
  entries,  \* the keys of ModelDescriptor.versions, in their order
  ready,    \* the versions whose state is READY
  fit,      \* those whose health is acceptable
  call,     \* where each resolution stands
  always,   \* history: the versions eligible ever since it began
  quiet     \* history: nothing has changed since it began

registry == <<entries, ready, fit>>
vars == <<registry, call, always, quiet>>

(* "state": the next descriptor is asked for and its state read; "health": *)
(* its health is read; "raised": the iteration ended in a RuntimeError.    *)
Calls ==
  [at : {"idle", "state", "health", "done", "raised"}, next : Nat, size : Nat,
   kept : SUBSET Versions, answer : Versions \union {None}]

NoCall == [at |-> "idle", next |-> 1, size |-> 0, kept |-> {}, answer |-> None]

Init ==
  /\ entries = <<>> /\ ready = {} /\ fit = {}
  /\ call = [r \in Requests |-> NoCall]
  /\ always = [r \in Requests |-> {}]
  /\ quiet = [r \in Requests |-> FALSE]

-----------------------------------------------------------------------------
(* What EligibilityConfig says of a version, whatever its state. *)
Allowed(v) ==
  /\ IncludePrerelease \/ ~IsPrerelease(v)
  /\ MinVersion = None \/ ~Lt(v, MinVersion)
  /\ MaxVersion = None \/ ~Gt(v, MaxVersion)

(* What auto-resolution may choose. *)
Eligible(v) == v \in ready \intersect fit /\ v \notin Malformed /\ Allowed(v)

(* What changes in the registry is no longer the same for any resolution.  *)
Disturb ==
  /\ always' = [r \in Requests |-> {v \in always[r] : Eligible(v)'}]
  /\ quiet' = [r \in Requests |-> FALSE]
  /\ UNCHANGED call

(* register_version, by the scan at the start or by the watcher: a version *)
(* that is new, neither READY nor of known health.                         *)
RegisterVersion(v) ==
  /\ v \notin Range(entries) /\ Len(entries) < MaxEntries
  /\ entries' = Append(entries, v)
  /\ UNCHANGED <<ready, fit>>
  /\ Disturb

(* update_state, which refuses nothing; only READY and other are told apart. *)
UpdateState(v) ==
  /\ v \in Range(entries)
  /\ ready' = IF v \in ready THEN ready \ {v} ELSE ready \union {v}
  /\ UNCHANGED <<entries, fit>>
  /\ Disturb

(* update_health *)
UpdateHealth(v) ==
  /\ v \in Range(entries)
  /\ fit' = IF v \in fit THEN fit \ {v} ELSE fit \union {v}
  /\ UNCHANGED <<entries, ready>>
  /\ Disturb

-----------------------------------------------------------------------------
(* resolve() without a version: the model is looked up, and its versions   *)
(* are gone through.  Without a model there is no answer.                  *)
Resolve(r) ==
  /\ call[r].at \in {"idle", "done", "raised"}
  /\ call' = [call EXCEPT ![r] =
       [NoCall EXCEPT !.at = IF entries = <<>> THEN "done" ELSE "state",
                      !.size = Len(entries)]]
  /\ always' = [always EXCEPT ![r] = {v \in Range(entries) : Eligible(v)}]
  /\ quiet' = [quiet EXCEPT ![r] = TRUE]
  /\ UNCHANGED registry

(* A dictionary that has grown ends the iteration over it, at the end too. *)
Grown(r) == Len(entries) # call[r].size

Raise(r) ==
  /\ call[r].at = "state" /\ Grown(r)
  /\ call' = [call EXCEPT ![r].at = "raised"]
  /\ UNCHANGED <<registry, always, quiet>>

(* The next version is parsed and the state of its descriptor read.        *)
ReadState(r) ==
  LET v == entries[call[r].next] IN
  /\ call[r].at = "state" /\ ~Grown(r) /\ call[r].next <= call[r].size
  /\ IF v \in ready \ Malformed
     THEN call' = [call EXCEPT ![r].at = "health"]
     ELSE call' = [call EXCEPT ![r].next = @ + 1]
  /\ UNCHANGED <<registry, always, quiet>>

\* Mutant: the first eligible version ends the loop.
ReadHealth_Mutant(r) ==
  LET v == entries[call[r].next] IN
  /\ call[r].at = "health"
  /\ IF v \in fit /\ Allowed(v)
     THEN call' = [call EXCEPT ![r].at = "state", ![r].kept = {v}, ![r].next = call[r].size + 1]
     ELSE call' = [call EXCEPT ![r].at = "state", ![r].next = @ + 1]
  /\ UNCHANGED <<registry, always, quiet>>

(* The rest of is_eligible.                                                *)
ReadHealth(r) ==
  LET v == entries[call[r].next] IN
  /\ call[r].at = "health"
  /\ call' = [call EXCEPT ![r].at = "state", ![r].next = @ + 1,
                          ![r].kept = IF v \in fit /\ Allowed(v) THEN @ \union {v} ELSE @]
  /\ UNCHANGED <<registry, always, quiet>>

(* eligible[0] once the list is sorted downwards. *)
Highest(v, vs) == v \in vs /\ \A w \in vs : ~Lt(v, w)

(* latest_version, which to_dict reports. *)
Latest(v, vs) == v \in vs /\ \A w \in vs : ~KeyLt(v, w)

(* The loop is over: the highest version it has kept, or no answer.        *)
Answer(r) ==
  /\ call[r].at = "state" /\ ~Grown(r) /\ call[r].next > call[r].size
  /\ \E v \in Versions \union {None} :
       /\ IF call[r].kept = {} THEN v = None ELSE Highest(v, call[r].kept)
       /\ call' = [call EXCEPT ![r].at = "done", ![r].answer = v]
  /\ UNCHANGED <<registry, always, quiet>>

-----------------------------------------------------------------------------
Next ==
  \/ \E v \in Versions : RegisterVersion(v) \/ UpdateState(v) \/ UpdateHealth(v)
  \/ \E r \in Requests :
       Resolve(r) \/ Raise(r) \/ ReadState(r) \/ ReadHealth(r) \/ Answer(r)

Spec == Init /\ [][Next]_vars

-----------------------------------------------------------------------------
TypeOK ==
  /\ entries \in Seq(Versions)
  /\ \A i, j \in DOMAIN entries : entries[i] = entries[j] => i = j
  /\ ready \subseteq Versions /\ fit \subseteq Versions
  /\ call \in [Requests -> Calls]
  /\ always \in [Requests -> SUBSET Versions]
  /\ quiet \in [Requests -> BOOLEAN]

(* "Find highest SemVer version that is READY, HEALTHY or DEGRADED": though *)
(* the fields are read one by one, no version that was eligible all the     *)
(* time is higher than the answer, and there is an answer if there was one. *)
NotPassedOver ==
  TypeOK /\ \A r \in Requests : call[r].at = "done" =>
    \A v \in always[r] : call[r].answer # None /\ ~Precedes(call[r].answer, v)

(* "Deterministic: same input = same output", "does NOT depend on load      *)
(* order": when nothing changes meanwhile the answer is the one highest of  *)
(* the eligible versions, in whichever order they were registered.          *)
QuietAnswerIsHighest ==
  \A r \in Requests : call[r].at = "done" /\ quiet[r] =>
    LET eligible == {v \in Range(entries) : Eligible(v)} IN
    IF call[r].answer = None THEN eligible = {} ELSE
      /\ call[r].answer \in eligible
      /\ \A v \in eligible \ {call[r].answer} : Precedes(v, call[r].answer)

(* latest_version, "highest semantic version", goes by a key of its own     *)
(* (_semver_key): it is the highest as long as no prerelease has a numeric  *)
(* identifier.                                                              *)
LatestIsHighest ==
  LET vs == Range(entries) IN
  (\A v \in vs : Range(v.pre) \subseteq Words) =>
    \A v \in vs : Latest(v, vs) <=> \A w \in vs : ~Precedes(v, w)
=============================================================================
