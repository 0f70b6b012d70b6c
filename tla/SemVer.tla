------------------------------- MODULE SemVer -------------------------------
(***************************************************************************)
(* The order of the versions of a model.  The runtime has three: that of   *)
(* SemVer (ai/runtime/versioning.py), by which requests are resolved, the  *)
(* key of ModelDescriptor.latest_version (models.py), and the order of the *)
(* strings themselves (pipeline.py).                                       *)
(*                                                                         *)
(* A version is its three numbers and the identifiers of its prerelease;   *)
(* discovery accepts no build metadata.                                    *)
(***************************************************************************)
EXTENDS Integers, Sequences

CONSTANTS
  Words,      \* the alphanumeric identifiers
  TextOrder   \* how identifiers compare as texts: a set of pairs

Identifiers == Nat \union Words

ASSUME SemVerAssumption ==
  /\ Words \intersect Nat = {}
  /\ \A a \in Words : <<a, a>> \notin TextOrder
  /\ \A a, b \in Words : a # b => <<a, b>> \in TextOrder \/ <<b, a>> \in TextOrder
  /\ \A a, b, c \in Words :
       <<a, b>> \in TextOrder /\ <<b, c>> \in TextOrder => <<a, c>> \in TextOrder

SemVers == [core : [1..3 -> Nat], pre : Seq(Identifiers)]

IsPrerelease(v) == v.pre # <<>>

-----------------------------------------------------------------------------
(* Where two sequences part: the first place at which both have something  *)
(* and not the same, or 0 when one is the beginning of the other.          *)
Parting(p, q) ==
  LET places == {i \in DOMAIN p \intersect DOMAIN q : p[i] # q[i]} IN
  IF places = {} THEN 0 ELSE CHOOSE i \in places : \A j \in places : i <= j

\* Mutant: numbers are compared as texts.
IdentifierLt_Mutant(a, b) == <<a, b>> \in TextOrder

(* Numeric identifiers are below alphanumeric ones. *)
IdentifierLt(a, b) ==
  \/ a \in Nat /\ b \in Nat /\ a < b
  \/ a \in Nat /\ b \in Words
  \/ a \in Words /\ b \in Words /\ <<a, b>> \in TextOrder

(* _compare_prerelease(p, q) < 0 *)
PrereleaseLt(p, q) ==
  LET i == Parting(p, q) IN
  IF i = 0 THEN Len(p) < Len(q) ELSE IdentifierLt(p[i], q[i])

CoreLt(a, b) == LET i == Parting(a, b) IN i # 0 /\ a[i] < b[i]

(* SemVer.__lt__: a prerelease is below its release. *)
Lt(u, v) ==
  \/ CoreLt(u.core, v.core)
  \/ /\ u.core = v.core /\ IsPrerelease(u)
     /\ IsPrerelease(v) => PrereleaseLt(u.pre, v.pre)

(* SemVer.__gt__ *)
Gt(u, v) == ~(u = v \/ Lt(u, v))

-----------------------------------------------------------------------------
(* The identifiers as one text: "." is below every letter and digit, so    *)
(* texts part where identifiers do.                                        *)
TextLt(p, q) ==
  LET i == Parting(p, q) IN
  IF i = 0 THEN Len(p) < Len(q) ELSE <<p[i], q[i]>> \in TextOrder

\* Mutant: without the "~" a release is below its prereleases.
KeyLt_Mutant(u, v) ==
  CoreLt(u.core, v.core) \/ (u.core = v.core /\ TextLt(u.pre, v.pre))

(* _semver_key: the numbers as numbers, the prerelease as a text, and "~", *)
(* which is above every letter, for a release.                             *)
KeyLt(u, v) ==
  \/ CoreLt(u.core, v.core)
  \/ /\ u.core = v.core /\ IsPrerelease(u)
     /\ IsPrerelease(v) => TextLt(u.pre, v.pre)

(* The strings as they are, as max() of them compares. *)
StringLt(u, v) ==
  TextLt(u.core, v.core) \/ (u.core = v.core /\ TextLt(u.pre, v.pre))

-----------------------------------------------------------------------------
(* The reference: precedence as SemVer 2.0.0 defines it (rule 11).         *)

FieldBelow(a, b) ==
  IF a \in Nat THEN b \in Nat => a < b ELSE b \notin Nat /\ <<a, b>> \in TextOrder

(* The first field that differs decides, and more fields are higher.       *)
FieldsBelow(p, q) ==
  \E k \in 1 .. Len(q) :
    /\ k <= Len(p) + 1 /\ \A j \in 1 .. (k - 1) : p[j] = q[j]
    /\ k <= Len(p) => FieldBelow(p[k], q[k])

Precedes(u, v) ==
  \/ \E k \in 1 .. 3 : u.core[k] < v.core[k] /\ \A j \in 1 .. (k - 1) : u.core[j] = v.core[j]
  \/ /\ u.core = v.core /\ u.pre # <<>>
     /\ v.pre = <<>> \/ FieldsBelow(u.pre, v.pre)
=============================================================================
