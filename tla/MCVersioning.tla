---------------------------- MODULE MCVersioning ----------------------------
(* Six versions of a model, of which up to three are found, in any order.  *)
(* Below: statements of the code that TLC refutes (README, section 7).     *)
EXTENDS Versioning

CONSTANTS rc, zero1, request

TwoWords   == {rc, zero1}
OneRequest == {request}

(* Identifiers in the order of their texts; zero1 is the text "01".        *)
Sorted  == <<0, zero1, 1, 10, 2, 9, rc>>
AsTexts == {<<Sorted[i], Sorted[j]>> : <<i, j>> \in {p \in (1 .. 7) \X (1 .. 7) : p[1] < p[2]}}

V(a, b, c, pre) == [core |-> <<a, b, c>>, pre |-> pre]

Bad      == V(1, 9, 0, <<zero1>>)
Lowest   == V(1, 9, 0, <<>>)
SixVersions ==
  {Bad, Lowest, V(1, 9, 0, <<rc>>), V(1, 10, 0, <<rc, 2>>),
   V(1, 10, 0, <<rc, 10>>), V(1, 10, 0, <<rc>>)}
BadVersions == {Bad}

-----------------------------------------------------------------------------
(* "Return highest semantic version", of any versions.                     *)
AnyLatestIsHighest ==
  LET vs == Range(entries) \ Malformed IN
  \A v \in vs : Latest(v, vs) => \A w \in vs : ~Precedes(v, w)

(* get_model_health: "Specific version (or None for latest)", the version  *)
(* that an inference without a version would use when all that are ready   *)
(* are eligible.                                                           *)
HealthIsOfResolved ==
  \A r \in Requests : call[r].at = "done" /\ quiet[r] /\ (\A v \in ready : Eligible(v)) =>
    \A v \in ready : (\A w \in ready : ~StringLt(v, w)) => v = call[r].answer

(* "Returns: ResolutionResult with descriptor or error."                   *)
NeverRaises == \A r \in Requests : call[r].at # "raised"

(* The version chosen is one whose state and health were good at one time. *)
KeptIsEligible ==
  [][\A r \in Requests : \A v \in call'[r].kept \ call[r].kept : Eligible(v)]_vars
=============================================================================
