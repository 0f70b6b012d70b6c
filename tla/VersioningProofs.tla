-------------------------- MODULE VersioningProofs --------------------------
(***************************************************************************)
(* The order of SemVer, for all versions and any alphabet: it is the       *)
(* precedence that SemVer 2.0.0 defines, a strict total order. And         *)
(* resolution, for any number of versions and requests, in any order of    *)
(* versions that is a SemVer order.                                        *)
(***************************************************************************)
EXTENDS Versioning, TLAPS, WellFoundedInduction

(* The order.                                                              *)

LEMMA Least ==
  ASSUME NEW S, S \subseteq Nat, S # {}
  PROVE  \E i \in S : \A j \in S : i <= j
<1>. DEFINE R == OpToRel(<, Nat)
<1>1. PICK i \in S : \A j \in S : <<j, i>> \notin R
  <2>. HIDE DEF R
  <2>1. IsWellFoundedOn(R, Nat)
    BY NatLessThanWellFounded DEF R
  <2>. QED BY <2>1, WFMin
<1>2. \A j \in S : ~(j < i)
  BY <1>1 DEF OpToRel
<1>. QED BY <1>2

(* Parting is 0, or the first place at which both have something else.     *)
LEMMA PartingIs ==
  ASSUME NEW p, NEW q, DOMAIN p \subseteq Nat \ {0}
  PROVE  LET i == Parting(p, q)
             D == DOMAIN p \cap DOMAIN q
         IN  \/ i = 0 /\ \A j \in D : p[j] = q[j]
             \/ i \in D /\ p[i] # q[i] /\ \A j \in D : j < i => p[j] = q[j]
<1>. DEFINE places == {i \in DOMAIN p \cap DOMAIN q : p[i] # q[i]}
<1>1. CASE places = {}
  BY <1>1 DEF Parting
<1>2. CASE places # {}
  <2>1. places \subseteq Nat
    OBVIOUS
  <2>2. \E i \in places : \A j \in places : i <= j
    <3>. HIDE DEF places
    <3>. QED BY <1>2, <2>1, Least
  <2>3. Parting(p, q) = CHOOSE i \in places : \A j \in places : i <= j
    BY <1>2 DEF Parting
  <2>4. Parting(p, q) \in places /\ \A j \in places : Parting(p, q) <= j
    <3>. HIDE DEF places
    <3>. QED BY <2>2, <2>3
  <2>5. \A j \in DOMAIN p \cap DOMAIN q : j < Parting(p, q) => p[j] = q[j]
    BY <2>1, <2>4
  <2>. QED BY <2>4, <2>5
<1>. QED BY <1>1, <1>2

LEMMA SeqDomain ==
  ASSUME NEW T, NEW p \in Seq(T)
  PROVE  DOMAIN p = 1 .. Len(p) /\ Len(p) \in Nat /\ \A j \in 1 .. Len(p) : p[j] \in T
OBVIOUS

LEMMA CoreDomain ==
  ASSUME NEW a \in [1..3 -> Nat]
  PROVE  DOMAIN a = 1..3 /\ \A j \in 1..3 : a[j] \in Nat
OBVIOUS

(* Two sequences that agree as far as both go, and go as far, are the same.*)
LEMMA SameFields ==
  ASSUME NEW p \in Seq(Identifiers), NEW q \in Seq(Identifiers), Len(p) = Len(q),
         \A j \in 1 .. Len(p) : p[j] = q[j]
  PROVE  p = q
OBVIOUS

LEMMA FieldOrder ==
  ASSUME NEW a \in Identifiers, NEW b \in Identifiers
  PROVE  /\ IdentifierLt(a, b) <=> FieldBelow(a, b)
         /\ ~FieldBelow(a, a)
         /\ a # b => FieldBelow(a, b) \/ FieldBelow(b, a)
         /\ \A c \in Identifiers : FieldBelow(a, b) /\ FieldBelow(b, c) => FieldBelow(a, c)
BY SemVerAssumption DEF Identifiers, IdentifierLt, FieldBelow

-----------------------------------------------------------------------------
(* _compare_prerelease decides as the rule does. *)
LEMMA PrereleaseIsRule ==
  ASSUME NEW p \in Seq(Identifiers), NEW q \in Seq(Identifiers)
  PROVE  PrereleaseLt(p, q) <=> FieldsBelow(p, q)
<1>. DEFINE i == Parting(p, q)
<1>1. /\ DOMAIN p = 1 .. Len(p) /\ Len(p) \in Nat /\ \A j \in 1 .. Len(p) : p[j] \in Identifiers
      /\ DOMAIN q = 1 .. Len(q) /\ Len(q) \in Nat /\ \A j \in 1 .. Len(q) : q[j] \in Identifiers
  BY SeqDomain
<1>2. \/ i = 0 /\ \A j \in DOMAIN p \cap DOMAIN q : p[j] = q[j]
      \/ /\ i \in DOMAIN p \cap DOMAIN q /\ p[i] # q[i]
         /\ \A j \in DOMAIN p \cap DOMAIN q : j < i => p[j] = q[j]
  BY <1>1, PartingIs
<1>3. PrereleaseLt(p, q) <=> IF i = 0 THEN Len(p) < Len(q) ELSE IdentifierLt(p[i], q[i])
  BY DEF PrereleaseLt
<1>. HIDE DEF i
<1>4. CASE i = 0
  <2>1. \A j \in 1 .. Len(p) : j <= Len(q) => p[j] = q[j]
    BY <1>1, <1>2, <1>4
  <2>2. ASSUME Len(p) < Len(q) PROVE FieldsBelow(p, q)
    <3>1. Len(p) + 1 \in 1 .. Len(q) /\ \A j \in 1 .. Len(p) : p[j] = q[j]
      BY <1>1, <2>1, <2>2
    <3>. QED BY <1>1, <3>1 DEF FieldsBelow
  <2>3. ASSUME FieldsBelow(p, q) PROVE Len(p) < Len(q)
    BY <1>1, <2>1, <2>3, FieldOrder DEF FieldsBelow
  <2>. QED BY <1>3, <1>4, <2>2, <2>3
<1>5. CASE i # 0
  <2>1. /\ i \in 1 .. Len(p) /\ i \in 1 .. Len(q) /\ p[i] # q[i]
        /\ \A j \in 1 .. (i - 1) : p[j] = q[j]
    BY <1>1, <1>2, <1>5
  <2>2. IdentifierLt(p[i], q[i]) <=> FieldBelow(p[i], q[i])
    BY <1>1, <2>1, FieldOrder
  <2>3. ASSUME FieldBelow(p[i], q[i]) PROVE FieldsBelow(p, q)
    BY <1>1, <2>1, <2>3 DEF FieldsBelow
  <2>4. ASSUME FieldsBelow(p, q) PROVE FieldBelow(p[i], q[i])
    <3>1. PICK k \in 1 .. Len(q) :
            /\ k <= Len(p) + 1 /\ \A j \in 1 .. (k - 1) : p[j] = q[j]
            /\ k <= Len(p) => FieldBelow(p[k], q[k])
      BY <2>4 DEF FieldsBelow
    <3>2. k <= i
      BY <1>1, <2>1, <3>1
    <3>3. k <= Len(p) /\ FieldBelow(p[k], q[k])
      BY <1>1, <2>1, <3>1, <3>2
    <3>4. p[k] # q[k]
      BY <1>1, <3>3, FieldOrder
    <3>. QED BY <1>1, <2>1, <3>1, <3>2, <3>3, <3>4
  <2>. QED BY <1>3, <1>5, <2>2, <2>3, <2>4
<1>. QED BY <1>4, <1>5

(* So do the three numbers. *)
CoreBelow(a, b) == \E k \in 1..3 : a[k] < b[k] /\ \A j \in 1 .. (k - 1) : a[j] = b[j]

LEMMA CoreIsRule ==
  ASSUME NEW a \in [1..3 -> Nat], NEW b \in [1..3 -> Nat]
  PROVE  CoreLt(a, b) <=> CoreBelow(a, b)
<1>. DEFINE i == Parting(a, b)
<1>1. \/ i = 0 /\ \A j \in 1..3 : a[j] = b[j]
      \/ i \in 1..3 /\ a[i] # b[i] /\ \A j \in 1..3 : j < i => a[j] = b[j]
  BY PartingIs
<1>2. CoreLt(a, b) <=> i # 0 /\ a[i] < b[i]
  BY DEF CoreLt
<1>. HIDE DEF i
<1>3. ASSUME i # 0, a[i] < b[i] PROVE CoreBelow(a, b)
  BY <1>1, <1>3 DEF CoreBelow
<1>4. ASSUME CoreBelow(a, b) PROVE i # 0 /\ a[i] < b[i]
  <2>1. PICK k \in 1..3 : a[k] < b[k] /\ \A j \in 1 .. (k - 1) : a[j] = b[j]
    BY <1>4 DEF CoreBelow
  <2>2. a[k] # b[k]
    BY <2>1
  <2>3. i # 0 /\ i = k
    BY <1>1, <2>1, <2>2
  <2>. QED BY <2>1, <2>3
<1>. QED BY <1>2, <1>3, <1>4

(* SemVer.__lt__ is the precedence of SemVer 2.0.0 (versioning.py,         *)
(* "Compare versions according to SemVer spec").                           *)
THEOREM OrderIsSemVer ==
  ASSUME NEW u \in SemVers, NEW v \in SemVers
  PROVE  Lt(u, v) <=> Precedes(u, v)
<1>1. /\ u.core \in [1..3 -> Nat] /\ v.core \in [1..3 -> Nat]
      /\ u.pre \in Seq(Identifiers) /\ v.pre \in Seq(Identifiers)
  BY DEF SemVers
<1>2. CoreLt(u.core, v.core) <=> CoreBelow(u.core, v.core)
  BY <1>1, CoreIsRule
<1>3. PrereleaseLt(u.pre, v.pre) <=> FieldsBelow(u.pre, v.pre)
  BY <1>1, PrereleaseIsRule
<1>. QED BY <1>2, <1>3 DEF Lt, Precedes, IsPrerelease, CoreBelow

-----------------------------------------------------------------------------
(* Both parts of a version are totally ordered. *)

LEMMA CoreOrder ==
  ASSUME NEW a \in [1..3 -> Nat], NEW b \in [1..3 -> Nat], NEW c \in [1..3 -> Nat]
  PROVE  /\ ~CoreBelow(a, a)
         /\ a # b => CoreBelow(a, b) \/ CoreBelow(b, a)
         /\ CoreBelow(a, b) /\ CoreBelow(b, c) => CoreBelow(a, c)
<1>1. ~CoreBelow(a, a)
  BY DEF CoreBelow
<1>2. ASSUME a # b PROVE CoreBelow(a, b) \/ CoreBelow(b, a)
  <2>1. PICK k \in 1..3 : a[k] # b[k] /\ \A j \in 1 .. (k - 1) : a[j] = b[j]
    <3>1. a[1] # b[1] \/ a[2] # b[2] \/ a[3] # b[3]
      BY <1>2
    <3>. QED BY <3>1
  <2>. QED BY <2>1 DEF CoreBelow
<1>3. ASSUME CoreBelow(a, b), CoreBelow(b, c) PROVE CoreBelow(a, c)
  <2>1. PICK k \in 1..3 : a[k] < b[k] /\ \A j \in 1 .. (k - 1) : a[j] = b[j]
    BY <1>3 DEF CoreBelow
  <2>2. PICK m \in 1..3 : b[m] < c[m] /\ \A j \in 1 .. (m - 1) : b[j] = c[j]
    BY <1>3 DEF CoreBelow
  <2>. QED BY <2>1, <2>2 DEF CoreBelow
<1>. QED BY <1>1, <1>2, <1>3

LEMMA FieldsOrder ==
  ASSUME NEW p \in Seq(Identifiers), NEW q \in Seq(Identifiers), NEW r \in Seq(Identifiers)
  PROVE  /\ ~FieldsBelow(p, p)
         /\ p # q => FieldsBelow(p, q) \/ FieldsBelow(q, p)
         /\ FieldsBelow(p, q) /\ FieldsBelow(q, r) => FieldsBelow(p, r)
<1>1. /\ Len(p) \in Nat /\ \A j \in 1 .. Len(p) : p[j] \in Identifiers
      /\ Len(q) \in Nat /\ \A j \in 1 .. Len(q) : q[j] \in Identifiers
      /\ Len(r) \in Nat /\ \A j \in 1 .. Len(r) : r[j] \in Identifiers
  BY SeqDomain
<1>2. ~FieldsBelow(p, p)
  BY <1>1, FieldOrder DEF FieldsBelow
<1>3. ASSUME p # q PROVE FieldsBelow(p, q) \/ FieldsBelow(q, p)
  <2>1. CASE \A j \in 1 .. Len(p) : j <= Len(q) => p[j] = q[j]
    <3>1. Len(p) # Len(q)
      BY <1>1, <1>3, <2>1, SameFields
    <3>2. CASE Len(p) < Len(q)
      <4>1. Len(p) + 1 \in 1 .. Len(q) /\ \A j \in 1 .. Len(p) : p[j] = q[j]
        BY <1>1, <2>1, <3>2
      <4>. QED BY <1>1, <4>1 DEF FieldsBelow
    <3>3. CASE Len(q) < Len(p)
      <4>1. Len(q) + 1 \in 1 .. Len(p) /\ \A j \in 1 .. Len(q) : q[j] = p[j]
        BY <1>1, <2>1, <3>3
      <4>. QED BY <1>1, <4>1 DEF FieldsBelow
    <3>. QED BY <1>1, <3>1, <3>2, <3>3
  <2>2. CASE \E j \in 1 .. Len(p) : j <= Len(q) /\ p[j] # q[j]
    <3>. DEFINE S == {j \in 1 .. Len(p) : j <= Len(q) /\ p[j] # q[j]}
    <3>1. S \subseteq Nat /\ S # {}
      BY <2>2
    <3>2. PICK k \in S : \A j \in S : k <= j
      <4>. HIDE DEF S
      <4>. QED BY <3>1, Least
    <3>3. /\ k \in 1 .. Len(p) /\ k \in 1 .. Len(q) /\ p[k] # q[k]
          /\ \A j \in 1 .. (k - 1) : p[j] = q[j]
      BY <1>1, <3>2
    <3>4. FieldBelow(p[k], q[k]) \/ FieldBelow(q[k], p[k])
      BY <1>1, <3>3, FieldOrder
    <3>. QED BY <1>1, <3>3, <3>4 DEF FieldsBelow
  <2>. QED BY <2>1, <2>2
<1>4. ASSUME FieldsBelow(p, q), FieldsBelow(q, r) PROVE FieldsBelow(p, r)
  <2>1. PICK k \in 1 .. Len(q) :
          /\ k <= Len(p) + 1 /\ \A j \in 1 .. (k - 1) : p[j] = q[j]
          /\ k <= Len(p) => FieldBelow(p[k], q[k])
    BY <1>4 DEF FieldsBelow
  <2>2. PICK m \in 1 .. Len(r) :
          /\ m <= Len(q) + 1 /\ \A j \in 1 .. (m - 1) : q[j] = r[j]
          /\ m <= Len(q) => FieldBelow(q[m], r[m])
    BY <1>4 DEF FieldsBelow
  <2>3. CASE k < m
    <3>1. /\ k \in 1 .. Len(r) /\ r[k] = q[k] /\ \A j \in 1 .. (k - 1) : p[j] = r[j]
      BY <1>1, <2>1, <2>2, <2>3
    <3>. QED BY <1>1, <2>1, <3>1 DEF FieldsBelow
  <2>4. CASE m < k
    <3>1. m <= Len(p) /\ p[m] = q[m] /\ \A j \in 1 .. (m - 1) : p[j] = r[j]
      BY <1>1, <2>1, <2>2, <2>4
    <3>2. FieldBelow(p[m], r[m])
      BY <1>1, <2>1, <2>2, <2>4, <3>1
    <3>. QED BY <1>1, <2>2, <3>1, <3>2 DEF FieldsBelow
  <2>5. CASE k = m
    <3>1. \A j \in 1 .. (k - 1) : p[j] = r[j]
      BY <1>1, <2>1, <2>2, <2>5
    <3>2. k <= Len(p) => FieldBelow(p[k], r[k])
      BY <1>1, <2>1, <2>2, <2>5, FieldOrder
    <3>. QED BY <1>1, <2>1, <2>2, <2>5, <3>1, <3>2 DEF FieldsBelow
  <2>. QED BY <1>1, <2>3, <2>4, <2>5
<1>. QED BY <1>2, <1>3, <1>4

(* The order resolution rests on is a strict total order of all versions:  *)
(* sorting by it (_resolve_automatic) has one result, whatever order the   *)
(* versions were found in.                                                 *)
THEOREM PrecedenceIsTotal ==
  ASSUME NEW u \in SemVers, NEW v \in SemVers, NEW w \in SemVers
  PROVE  /\ ~Precedes(u, u)
         /\ u # v => (Precedes(u, v) <=> ~Precedes(v, u))
         /\ Precedes(u, v) /\ Precedes(v, w) => Precedes(u, w)
<1>1. /\ u.core \in [1..3 -> Nat] /\ v.core \in [1..3 -> Nat] /\ w.core \in [1..3 -> Nat]
      /\ u.pre \in Seq(Identifiers) /\ v.pre \in Seq(Identifiers) /\ w.pre \in Seq(Identifiers)
  BY DEF SemVers
<1>2. u # v => u.core # v.core \/ u.pre # v.pre
  BY DEF SemVers
<1>3. \A x, y \in SemVers : Precedes(x, y) <=>
        \/ CoreBelow(x.core, y.core)
        \/ x.core = y.core /\ x.pre # <<>> /\ (y.pre = <<>> \/ FieldsBelow(x.pre, y.pre))
  BY DEF Precedes, CoreBelow
<1>4. /\ ~CoreBelow(u.core, u.core) /\ ~FieldsBelow(u.pre, u.pre)
  BY <1>1, CoreOrder, FieldsOrder
<1>5. /\ u.core # v.core => CoreBelow(u.core, v.core) \/ CoreBelow(v.core, u.core)
      /\ ~(CoreBelow(u.core, v.core) /\ CoreBelow(v.core, u.core))
      /\ CoreBelow(u.core, v.core) /\ CoreBelow(v.core, w.core) => CoreBelow(u.core, w.core)
  BY <1>1, CoreOrder
<1>6. /\ u.pre # v.pre => FieldsBelow(u.pre, v.pre) \/ FieldsBelow(v.pre, u.pre)
      /\ ~(FieldsBelow(u.pre, v.pre) /\ FieldsBelow(v.pre, u.pre))
      /\ FieldsBelow(u.pre, v.pre) /\ FieldsBelow(v.pre, w.pre) => FieldsBelow(u.pre, w.pre)
  BY <1>1, FieldsOrder
<1>7. u # v => (Precedes(u, v) <=> ~Precedes(v, u))
  BY <1>2, <1>3, <1>4, <1>5, <1>6
<1>. QED BY <1>3, <1>4, <1>5, <1>6, <1>7

-----------------------------------------------------------------------------
(* Resolution.                                                             *)

(* A resolution is somewhere in the entries it began with, or further: the *)
(* versions eligible all the time are there, and kept once passed.         *)
Scanning(r) ==
  LET c == call[r] IN
  c.at \in {"state", "health"} =>
    /\ c.size <= Len(entries)
    /\ c.next \in 1 .. (c.size + 1)
    /\ c.at = "health" => c.next <= c.size /\ entries[c.next] \notin Malformed
    /\ \A v \in always[r] : \E i \in 1 .. c.size : entries[i] = v /\ (i < c.next => v \in c.kept)

(* Undisturbed, it has kept what is eligible and nothing else.             *)
Undisturbed(r) ==
  LET c == call[r] IN
  quiet[r] /\ c.at \in {"state", "health"} =>
    /\ c.size = Len(entries)
    /\ c.kept \subseteq always[r]
    /\ c.at = "health" => entries[c.next] \in ready

(* What has been eligible all the time is eligible now, and as long as     *)
(* nothing has changed it is all that is.                                  *)
AlwaysIsNow(r) ==
  /\ \A v \in always[r] : Eligible(v)
  /\ quiet[r] => always[r] = {v \in Range(entries) : Eligible(v)}

Answered(r) ==
  LET c == call[r] IN
  c.at = "done" =>
    /\ always[r] \subseteq c.kept
    /\ quiet[r] => c.kept \subseteq always[r]
    /\ IF c.kept = {} THEN c.answer = None ELSE Highest(c.answer, c.kept)

IInv ==
  /\ TypeOK
  /\ \A r \in Requests : Scanning(r) /\ Undisturbed(r) /\ AlwaysIsNow(r) /\ Answered(r)

-----------------------------------------------------------------------------
LEMMA Initially == Init => IInv
<1>. SUFFICES ASSUME Init PROVE IInv
  OBVIOUS
<1>1. NoCall \in Calls
  BY DEF NoCall, Calls
<1>2. TypeOK
  BY <1>1 DEF Init, TypeOK
<1>. QED BY <1>2 DEF IInv, Init, NoCall, Range, Scanning, Undisturbed, AlwaysIsNow, Answered

(* A change of the registry keeps what resolutions know, when it appends   *)
(* to the entries at most.                                                 *)
LEMMA DisturbKeeps ==
  ASSUME IInv, Disturb, TypeOK',
         Len(entries') >= Len(entries), \A i \in 1 .. Len(entries) : entries'[i] = entries[i]
  PROVE  IInv'
<1>. USE DEF IInv
<1>1. Len(entries) \in Nat /\ Len(entries') \in Nat
  BY DEF TypeOK
<1>2. ASSUME NEW r \in Requests PROVE Scanning(r)'
  <2>1. call' = call /\ always'[r] \subseteq always[r]
    BY DEF Disturb
  <2>2. call[r] \in Calls
    BY DEF TypeOK
  <2>3. call[r].size \in Nat /\ call[r].next \in Nat
    BY <2>2 DEF Calls
  <2>. SUFFICES ASSUME call[r].at \in {"state", "health"}
                PROVE  Scanning(r)'
    BY <2>1 DEF Scanning
  <2>4. /\ call[r].size <= Len(entries)
        /\ call[r].next \in 1 .. (call[r].size + 1)
        /\ call[r].at = "health" =>
             call[r].next <= call[r].size /\ entries[call[r].next] \notin Malformed
        /\ \A v \in always[r] : \E i \in 1 .. call[r].size :
             entries[i] = v /\ (i < call[r].next => v \in call[r].kept)
    BY DEF Scanning
  <2>5. \A i \in 1 .. call[r].size : entries'[i] = entries[i]
    BY <1>1, <2>3, <2>4
  <2>6. call[r].size <= Len(entries')
    BY <1>1, <2>3, <2>4
  <2>7. call[r].at = "health" => entries'[call[r].next] \notin Malformed
    BY <2>3, <2>4, <2>5
  <2>8. \A v \in always'[r] : \E i \in 1 .. call[r].size :
          entries'[i] = v /\ (i < call[r].next => v \in call[r].kept)
    BY <2>1, <2>4, <2>5
  <2>. QED BY <2>1, <2>4, <2>6, <2>7, <2>8 DEF Scanning
<1>3. ASSUME NEW r \in Requests PROVE Undisturbed(r)' /\ Answered(r)' /\ AlwaysIsNow(r)'
  <2>1. call' = call /\ always'[r] = {v \in always[r] : Eligible(v)'} /\ quiet'[r] = FALSE
    BY DEF Disturb
  <2>. QED BY <2>1 DEF Undisturbed, Answered, AlwaysIsNow
<1>. QED BY <1>2, <1>3

(* A step of one resolution is about that one.                             *)
LEMMA OthersKeep ==
  ASSUME IInv, UNCHANGED registry, NEW r \in Requests, NEW c \in Calls,
         call' = [call EXCEPT ![r] = c],
         \/ UNCHANGED <<always, quiet>>
         \/ /\ always' = [always EXCEPT ![r] = {v \in Range(entries) : Eligible(v)}]
            /\ quiet' = [quiet EXCEPT ![r] = TRUE],
         Scanning(r)', Undisturbed(r)', Answered(r)'
  PROVE  IInv'
<1>1. call \in [Requests -> Calls]
  BY DEF IInv, TypeOK
<1>2. Range(entries) \subseteq Versions
  BY DEF IInv, TypeOK, Range
<1>3. TypeOK'
  BY <1>1, <1>2 DEF IInv, TypeOK, registry
<1>4. \A v : Eligible(v)' <=> Eligible(v)
  BY DEF Eligible, registry
<1>5. ASSUME NEW q \in Requests PROVE AlwaysIsNow(q)'
  <2>1. AlwaysIsNow(q)
    BY DEF IInv
  <2>2. CASE UNCHANGED <<always, quiet>>
    BY <1>4, <2>1, <2>2 DEF AlwaysIsNow, registry
  <2>3. CASE /\ always' = [always EXCEPT ![r] = {v \in Range(entries) : Eligible(v)}]
             /\ quiet' = [quiet EXCEPT ![r] = TRUE]
    BY <1>4, <2>1, <2>3 DEF AlwaysIsNow, registry, IInv, TypeOK
  <2>. QED BY <2>2, <2>3
<1>6. ASSUME NEW q \in Requests PROVE Scanning(q)' /\ Undisturbed(q)' /\ Answered(q)'
  <2>1. CASE q = r
    BY <2>1
  <2>2. CASE q # r
    <3>1. call'[q] = call[q] /\ always'[q] = always[q] /\ quiet'[q] = quiet[q]
      BY <1>1, <2>2 DEF IInv, TypeOK
    <3>2. Scanning(q) /\ Undisturbed(q) /\ Answered(q)
      BY DEF IInv
    <3>. QED BY <3>1, <3>2 DEF Scanning, Undisturbed, Answered, registry
  <2>. QED BY <2>1, <2>2
<1>. QED BY <1>3, <1>5, <1>6 DEF IInv

-----------------------------------------------------------------------------
(* One lemma for each kind of step. *)

LEMMA DisturbType ==
  ASSUME IInv, Disturb, entries' \in Seq(Versions),
         \A i, j \in DOMAIN entries' : entries'[i] = entries'[j] => i = j,
         ready' \subseteq Versions, fit' \subseteq Versions
  PROVE  TypeOK'
<1>1. always' \in [Requests -> SUBSET Versions] /\ quiet' \in [Requests -> BOOLEAN] /\ call' = call
  BY DEF IInv, TypeOK, Disturb
<1>. QED BY <1>1 DEF IInv, TypeOK

LEMMA RegistryKeeps ==
  ASSUME IInv, NEW v \in Versions, RegisterVersion(v) \/ UpdateState(v) \/ UpdateHealth(v)
  PROVE  IInv'
<1>1. entries \in Seq(Versions) /\ \A i, j \in DOMAIN entries : entries[i] = entries[j] => i = j
  BY DEF IInv, TypeOK
<1>2. ready \subseteq Versions /\ fit \subseteq Versions
  BY DEF IInv, TypeOK
<1>3. CASE RegisterVersion(v)
  <2>1. entries' = Append(entries, v) /\ v \notin Range(entries) /\ ready' = ready /\ fit' = fit /\ Disturb
    BY <1>3 DEF RegisterVersion
  <2>2. /\ entries' \in Seq(Versions) /\ Len(entries') = Len(entries) + 1
        /\ \A i \in 1 .. Len(entries) : entries'[i] = entries[i]
        /\ entries'[Len(entries) + 1] = v
    BY <1>1, <2>1
  <2>3. \A i \in 1 .. Len(entries) : entries[i] # v
    BY <1>1, <2>1 DEF Range
  <2>4. \A i, j \in DOMAIN entries' : entries'[i] = entries'[j] => i = j
    BY <1>1, <2>2, <2>3
  <2>. QED BY <1>1, <1>2, <2>1, <2>2, <2>4, DisturbType, DisturbKeeps
<1>4. CASE UpdateState(v) \/ UpdateHealth(v)
  <2>1. entries' = entries /\ ready' \subseteq Versions /\ fit' \subseteq Versions /\ Disturb
    BY <1>2, <1>4 DEF UpdateState, UpdateHealth
  <2>. QED BY <1>1, <2>1, DisturbType, DisturbKeeps
<1>. QED BY <1>3, <1>4

LEMMA ResolveKeeps ==
  ASSUME IInv, NEW r \in Requests, Resolve(r)
  PROVE  IInv'
<1>1. entries \in Seq(Versions) /\ call \in [Requests -> Calls]
      /\ always \in [Requests -> SUBSET Versions] /\ quiet \in [Requests -> BOOLEAN]
  BY DEF IInv, TypeOK
<1>. DEFINE c == [NoCall EXCEPT !.at = IF entries = <<>> THEN "done" ELSE "state",
                                !.size = Len(entries)]
            E == {v \in Range(entries) : Eligible(v)}
<1>2. /\ c \in Calls /\ c.next = 1 /\ c.size = Len(entries) /\ c.kept = {} /\ c.answer = None
      /\ c.at = IF entries = <<>> THEN "done" ELSE "state"
  <2>1. NoCall \in Calls /\ NoCall.next = 1 /\ NoCall.kept = {} /\ NoCall.answer = None
    BY DEF NoCall, Calls
  <2>2. Len(entries) \in Nat
    BY <1>1
  <2>3. CASE entries = <<>>
    <3>1. c = [NoCall EXCEPT !.at = "done", !.size = Len(entries)]
      BY <2>3
    <3>. HIDE DEF c
    <3>. QED BY <2>1, <2>2, <2>3, <3>1 DEF Calls
  <2>4. CASE entries # <<>>
    <3>1. c = [NoCall EXCEPT !.at = "state", !.size = Len(entries)]
      BY <2>4
    <3>. HIDE DEF c
    <3>. QED BY <2>1, <2>2, <2>4, <3>1 DEF Calls
  <2>. QED BY <2>3, <2>4
<1>3. /\ call' = [call EXCEPT ![r] = c] /\ always' = [always EXCEPT ![r] = E]
      /\ quiet' = [quiet EXCEPT ![r] = TRUE] /\ UNCHANGED registry
  BY DEF Resolve
<1>4. call'[r] = c /\ always'[r] = E /\ entries' = entries
  BY <1>1, <1>3 DEF registry
<1>5. \A v \in Range(entries) : \E i \in 1 .. Len(entries) : entries[i] = v
  BY <1>1 DEF Range
<1>6. entries = <<>> => E = {}
  BY <1>1 DEF Range
<1>. HIDE DEF c
<1>7. Scanning(r)'
  BY <1>1, <1>2, <1>4, <1>5 DEF Scanning
<1>8. Undisturbed(r)' /\ Answered(r)'
  BY <1>2, <1>4, <1>6 DEF Undisturbed, Answered
<1>. QED BY <1>2, <1>3, <1>7, <1>8, OthersKeep

LEMMA ReadStateKeeps ==
  ASSUME IInv, NEW r \in Requests, ReadState(r)
  PROVE  IInv'
<1>1. entries \in Seq(Versions) /\ call \in [Requests -> Calls] /\ call[r] \in Calls
      /\ \A i, j \in DOMAIN entries : entries[i] = entries[j] => i = j
  BY DEF IInv, TypeOK
<1>. DEFINE v == entries[call[r].next]
            n == call[r].next + 1
            c == IF v \in ready \ Malformed THEN [call[r] EXCEPT !.at = "health"]
                 ELSE [call[r] EXCEPT !.next = n]
<1>2. call' = [call EXCEPT ![r] = c] /\ UNCHANGED <<registry, always, quiet>>
  <2>1. CASE v \in ready \ Malformed
    BY <2>1 DEF ReadState
  <2>2. CASE v \notin ready \ Malformed
    <3>1. c = [call[r] EXCEPT !.next = n]
      BY <2>2
    <3>2. call' = [call EXCEPT ![r].next = n] /\ UNCHANGED <<registry, always, quiet>>
      BY <2>2 DEF ReadState
    <3>. HIDE DEF c, n
    <3>. QED BY <1>1, <3>1, <3>2
  <2>. QED BY <2>1, <2>2
<1>3. call[r].at = "state" /\ call[r].size = Len(entries) /\ call[r].next <= call[r].size
  BY DEF ReadState, Grown
<1>4. Scanning(r) /\ Undisturbed(r) /\ AlwaysIsNow(r)
  BY DEF IInv
<1>5. call[r].next \in Nat /\ call[r].size \in Nat /\ n \in Nat
  BY <1>1 DEF Calls
<1>6. /\ c \in Calls /\ c.size = call[r].size /\ c.kept = call[r].kept
      /\ IF v \in ready \ Malformed THEN c.at = "health" /\ c.next = call[r].next
         ELSE c.at = "state" /\ c.next = call[r].next + 1
  <2>1. CASE v \in ready \ Malformed
    <3>1. c = [call[r] EXCEPT !.at = "health"]
      BY <2>1
    <3>. HIDE DEF v, c
    <3>. QED BY <1>1, <2>1, <3>1 DEF Calls
  <2>2. CASE v \notin ready \ Malformed
    <3>1. c = [call[r] EXCEPT !.next = n]
      BY <2>2
    <3>2. c \in Calls /\ c.size = call[r].size /\ c.kept = call[r].kept
          /\ c.at = call[r].at /\ c.next = n
      <4>. HIDE DEF v, c, n
      <4>. QED BY <1>1, <1>5, <3>1 DEF Calls
    <3>. QED BY <1>3, <2>2, <3>2
  <2>. QED BY <2>1, <2>2
<1>7. call'[r] = c /\ always' = always /\ quiet' = quiet /\ entries' = entries /\ ready' = ready
  BY <1>1, <1>2 DEF registry
<1>8. v \in always[r] => v \in ready \ Malformed
  BY <1>4 DEF AlwaysIsNow, Eligible
<1>9. \A w \in always[r] : \E i \in 1 .. c.size : entries[i] = w /\ (i < c.next => w \in c.kept)
  BY <1>3, <1>4, <1>5, <1>6, <1>8 DEF Scanning
<1>10. c.next \in 1 .. (c.size + 1) /\ (c.at = "health" => c.next <= c.size /\ v \notin Malformed)
  BY <1>3, <1>4, <1>5, <1>6 DEF Scanning
<1>11. c.at = "health" => entries[c.next] = v /\ v \in ready
  BY <1>6
<1>12. quiet[r] => c.kept \subseteq always[r]
  BY <1>3, <1>4, <1>6 DEF Undisturbed
<1>13. c.at # "done" /\ c.size = Len(entries) /\ Len(entries) \in Nat
  BY <1>1, <1>3, <1>6
<1>. HIDE DEF c, v
<1>14. Scanning(r)'
  BY <1>7, <1>9, <1>10, <1>11, <1>13 DEF Scanning
<1>15. Undisturbed(r)' /\ Answered(r)'
  BY <1>7, <1>11, <1>12, <1>13 DEF Undisturbed, Answered
<1>. QED BY <1>2, <1>6, <1>14, <1>15, OthersKeep

LEMMA ReadHealthKeeps ==
  ASSUME IInv, NEW r \in Requests, ReadHealth(r)
  PROVE  IInv'
<1>. DEFINE v == entries[call[r].next]
            n == call[r].next + 1
            kept == IF v \in fit /\ Allowed(v) THEN call[r].kept \union {v} ELSE call[r].kept
            c == [call[r] EXCEPT !.at = "state", !.next = n, !.kept = kept]
<1>1. entries \in Seq(Versions) /\ call \in [Requests -> Calls] /\ call[r] \in Calls
      /\ \A i, j \in DOMAIN entries : entries[i] = entries[j] => i = j
  BY DEF IInv, TypeOK
<1>2. call' = [call EXCEPT ![r] = c] /\ UNCHANGED <<registry, always, quiet>> /\ call[r].at = "health"
  <2>1. /\ call' = [call EXCEPT ![r].at = "state", ![r].next = n, ![r].kept = kept]
        /\ UNCHANGED <<registry, always, quiet>> /\ call[r].at = "health"
    BY DEF ReadHealth
  <2>. HIDE DEF n, kept
  <2>. QED BY <1>1, <2>1
<1>3. Scanning(r) /\ Undisturbed(r) /\ AlwaysIsNow(r)
  BY DEF IInv
<1>4. call[r].next \in Nat /\ n \in Nat /\ call[r].size \in Nat /\ call[r].kept \in SUBSET Versions
  BY <1>1 DEF Calls
<1>5. /\ call[r].size <= Len(entries) /\ call[r].next \in 1 .. call[r].size /\ v \notin Malformed
      /\ \A w \in always[r] : \E i \in 1 .. call[r].size :
           entries[i] = w /\ (i < call[r].next => w \in call[r].kept)
  BY <1>2, <1>3, <1>4 DEF Scanning
<1>6. v \in Versions /\ v \in Range(entries)
  BY <1>1, <1>4, <1>5 DEF Range
<1>7. kept \in SUBSET Versions /\ call[r].kept \subseteq kept
  BY <1>4, <1>6
<1>8. v \in always[r] => v \in kept
  BY <1>3 DEF AlwaysIsNow, Eligible
<1>9. quiet[r] => kept \subseteq always[r] /\ call[r].size = Len(entries)
  <2>. SUFFICES ASSUME quiet[r] PROVE kept \subseteq always[r] /\ call[r].size = Len(entries)
    OBVIOUS
  <2>1. call[r].size = Len(entries) /\ call[r].kept \subseteq always[r] /\ v \in ready
    BY <1>2, <1>3 DEF Undisturbed
  <2>2. v \in fit /\ Allowed(v) => v \in always[r]
    BY <1>3, <1>5, <1>6, <2>1 DEF AlwaysIsNow, Eligible
  <2>. QED BY <2>1, <2>2
<1>. HIDE DEF kept, v
<1>10. /\ c \in Calls /\ c.size = call[r].size /\ c.kept = kept
       /\ c.at = "state" /\ c.next = call[r].next + 1
  <2>1. /\ c \in Calls /\ c.size = call[r].size /\ c.kept = kept
        /\ c.at = "state" /\ c.next = n
    <3>. HIDE DEF n
    <3>. QED BY <1>1, <1>4, <1>7 DEF Calls
  <2>. QED BY <2>1
<1>. HIDE DEF c
<1>11. call'[r] = c /\ always' = always /\ quiet' = quiet /\ entries' = entries
  BY <1>1, <1>2 DEF registry
<1>12. \A w \in always[r] : \E i \in 1 .. c.size : entries[i] = w /\ (i < c.next => w \in c.kept)
  <2>. SUFFICES ASSUME NEW w \in always[r]
                PROVE  \E i \in 1 .. c.size : entries[i] = w /\ (i < c.next => w \in c.kept)
    OBVIOUS
  <2>1. PICK i \in 1 .. call[r].size : entries[i] = w /\ (i < call[r].next => w \in call[r].kept)
    BY <1>5
  <2>2. i < c.next => i < call[r].next \/ w = v
    BY <1>4, <1>10, <2>1 DEF v
  <2>. QED BY <1>7, <1>8, <1>10, <2>1, <2>2
<1>13. Scanning(r)'
  BY <1>4, <1>5, <1>10, <1>11, <1>12 DEF Scanning
<1>14. Undisturbed(r)' /\ Answered(r)'
  BY <1>9, <1>10, <1>11 DEF Undisturbed, Answered
<1>. QED BY <1>2, <1>10, <1>13, <1>14, OthersKeep

LEMMA AnswerKeeps ==
  ASSUME IInv, NEW r \in Requests, Answer(r)
  PROVE  IInv'
<1>1. call \in [Requests -> Calls] /\ call[r] \in Calls
  BY DEF IInv, TypeOK
<1>2. PICK v \in Versions \union {None} :
        /\ IF call[r].kept = {} THEN v = None ELSE Highest(v, call[r].kept)
        /\ call' = [call EXCEPT ![r].at = "done", ![r].answer = v]
  BY DEF Answer
<1>3. /\ UNCHANGED <<registry, always, quiet>> /\ call[r].at = "state"
      /\ call[r].size = Len(entries) /\ call[r].next > call[r].size
  BY DEF Answer, Grown
<1>. DEFINE c == [call[r] EXCEPT !.at = "done", !.answer = v]
<1>4. c \in Calls /\ c.at = "done" /\ c.answer = v /\ c.kept = call[r].kept
  BY <1>1 DEF Calls
<1>5. call' = [call EXCEPT ![r] = c]
  BY <1>1, <1>2
<1>. HIDE DEF c
<1>6. call'[r] = c /\ always' = always /\ quiet' = quiet
  BY <1>1, <1>3, <1>5
<1>7. always[r] \subseteq call[r].kept /\ (quiet[r] => call[r].kept \subseteq always[r])
  <2>1. Scanning(r) /\ Undisturbed(r)
    BY DEF IInv
  <2>2. call[r].size \in Nat /\ call[r].next \in Nat
    BY <1>1 DEF Calls
  <2>3. \A w \in always[r] : \E i \in 1 .. call[r].size :
          entries[i] = w /\ (i < call[r].next => w \in call[r].kept)
    BY <1>3, <2>1 DEF Scanning
  <2>. QED BY <1>3, <2>1, <2>2, <2>3 DEF Undisturbed
<1>8. Scanning(r)' /\ Undisturbed(r)'
  BY <1>4, <1>6 DEF Scanning, Undisturbed
<1>9. Answered(r)'
  BY <1>2, <1>4, <1>6, <1>7 DEF Answered, Highest
<1>. QED BY <1>3, <1>4, <1>5, <1>8, <1>9, OthersKeep

LEMMA RaiseKeeps ==
  ASSUME IInv, NEW r \in Requests, Raise(r)
  PROVE  IInv'
<1>1. call \in [Requests -> Calls] /\ call[r] \in Calls
  BY DEF IInv, TypeOK
<1>. DEFINE c == [call[r] EXCEPT !.at = "raised"]
<1>2. c \in Calls /\ c.at = "raised"
  BY <1>1 DEF Calls
<1>3. call' = [call EXCEPT ![r] = c] /\ UNCHANGED <<registry, always, quiet>>
  BY DEF Raise
<1>. HIDE DEF c
<1>4. call'[r] = c
  BY <1>1, <1>3
<1>5. Scanning(r)' /\ Undisturbed(r)' /\ Answered(r)'
  BY <1>2, <1>4 DEF Scanning, Undisturbed, Answered
<1>. QED BY <1>2, <1>3, <1>5, OthersKeep

LEMMA Stutters == ASSUME IInv, UNCHANGED vars PROVE IInv'
BY DEF vars, registry, IInv, TypeOK, Scanning, Undisturbed, AlwaysIsNow, Answered, Eligible

THEOREM Invariance == Spec => []IInv
<1>1. IInv /\ [Next]_vars => IInv'
  <2>. SUFFICES ASSUME IInv, [Next]_vars PROVE IInv'
    OBVIOUS
  <2>1. CASE \E v \in Versions : RegisterVersion(v) \/ UpdateState(v) \/ UpdateHealth(v)
    BY <2>1, RegistryKeeps
  <2>2. ASSUME NEW r \in Requests,
               Resolve(r) \/ Raise(r) \/ ReadState(r) \/ ReadHealth(r) \/ Answer(r)
        PROVE  IInv'
    BY <2>2, ResolveKeeps, RaiseKeeps, ReadStateKeeps, ReadHealthKeeps, AnswerKeeps
  <2>3. CASE UNCHANGED vars
    BY <2>3, Stutters
  <2>. QED BY <2>1, <2>2, <2>3 DEF Next
<1>. QED BY Initially, <1>1, PTL DEF Spec

-----------------------------------------------------------------------------
(* Each resolution without a version answers with a version below none     *)
(* that was eligible all the time (_resolve_automatic), however the fields *)
(* it reads one by one change.                                             *)
THEOREM NothingPassedOver == Spec => []NotPassedOver
<1>1. IInv => NotPassedOver
  <2>. SUFFICES ASSUME IInv, NEW r \in Requests, call[r].at = "done", NEW v \in always[r]
                PROVE  call[r].answer # None /\ ~Precedes(call[r].answer, v)
    BY DEF IInv, NotPassedOver
  <2>1. v \in call[r].kept /\ call[r].kept \subseteq Versions
    BY DEF IInv, TypeOK, Calls, Answered
  <2>2. Highest(call[r].answer, call[r].kept)
    BY <2>1 DEF IInv, Answered
  <2>3. call[r].answer \in Versions /\ ~Lt(call[r].answer, v)
    BY <2>1, <2>2 DEF Highest
  <2>. QED BY <2>1, <2>3, OrderIsSemVer, VersioningAssumption
<1>. QED BY <1>1, Invariance, PTL

(* When nothing changes meanwhile the answer is the one highest of the     *)
(* eligible versions: "same input = same output".                          *)
THEOREM QuietAnswerHighest == Spec => []QuietAnswerIsHighest
<1>1. IInv => QuietAnswerIsHighest
  <2>. DEFINE E == {v \in Range(entries) : Eligible(v)}
  <2>. SUFFICES ASSUME IInv, NEW r \in Requests, call[r].at = "done", quiet[r]
                PROVE  IF call[r].answer = None THEN E = {} ELSE
                         /\ call[r].answer \in E
                         /\ \A v \in E \ {call[r].answer} : Precedes(v, call[r].answer)
    BY DEF QuietAnswerIsHighest
  <2>1. E \subseteq Versions
    BY DEF IInv, TypeOK, Range
  <2>2. call[r].kept = E
    BY DEF IInv, AlwaysIsNow, Answered
  <2>3. IF E = {} THEN call[r].answer = None ELSE Highest(call[r].answer, E)
    BY <2>2 DEF IInv, Answered
  <2>. HIDE DEF E
  <2>4. CASE E = {}
    BY <2>3, <2>4
  <2>5. CASE E # {}
    <3>1. call[r].answer \in E /\ \A v \in E : ~Lt(call[r].answer, v)
      BY <2>3, <2>5 DEF Highest
    <3>2. call[r].answer # None
      BY <2>1, <3>1, VersioningAssumption
    <3>3. ASSUME NEW v \in E \ {call[r].answer} PROVE Precedes(v, call[r].answer)
      <4>1. v \in SemVers /\ call[r].answer \in SemVers
        BY <2>1, <3>1, VersioningAssumption
      <4>2. ~Precedes(call[r].answer, v)
        BY <3>1, <4>1, OrderIsSemVer
      <4>. QED BY <4>1, <4>2, PrecedenceIsTotal
    <3>. QED BY <3>1, <3>2, <3>3
  <2>. QED BY <2>4, <2>5
<1>. QED BY <1>1, Invariance, PTL

(* Without numbers in prereleases _semver_key is the order of SemVer. *)
LEMMA KeyIsOrder ==
  ASSUME NEW u \in SemVers, NEW v \in SemVers,
         Range(u.pre) \subseteq Words, Range(v.pre) \subseteq Words
  PROVE  KeyLt(u, v) <=> Precedes(u, v)
<1>. DEFINE i == Parting(u.pre, v.pre)
<1>1. u.pre \in Seq(Identifiers) /\ v.pre \in Seq(Identifiers)
  BY DEF SemVers
<1>2. i = 0 \/ i \in DOMAIN u.pre \cap DOMAIN v.pre
  BY <1>1, SeqDomain, PartingIs
<1>. HIDE DEF i
<1>3. i # 0 => u.pre[i] \in Words /\ v.pre[i] \in Words
  BY <1>2 DEF Range
<1>4. i # 0 => (IdentifierLt(u.pre[i], v.pre[i]) <=> <<u.pre[i], v.pre[i]>> \in TextOrder)
  BY <1>3, SemVerAssumption DEF IdentifierLt
<1>5. TextLt(u.pre, v.pre) <=> PrereleaseLt(u.pre, v.pre)
  BY <1>4 DEF TextLt, PrereleaseLt, i
<1>6. KeyLt(u, v) <=> Lt(u, v)
  BY <1>5 DEF KeyLt, Lt
<1>. QED BY <1>6, OrderIsSemVer

(* latest_version is the highest version when no prerelease has a numeric  *)
(* identifier.                                                             *)
THEOREM LatestHighest == Spec => []LatestIsHighest
<1>1. IInv => LatestIsHighest
  <2>. SUFFICES ASSUME IInv, \A v \in Range(entries) : Range(v.pre) \subseteq Words,
                       NEW v \in Range(entries)
                PROVE  Latest(v, Range(entries)) <=> \A w \in Range(entries) : ~Precedes(v, w)
    BY DEF LatestIsHighest
  <2>1. Range(entries) \subseteq SemVers
    BY VersioningAssumption DEF IInv, TypeOK, Range
  <2>2. \A w \in Range(entries) : KeyLt(v, w) <=> Precedes(v, w)
    BY <2>1, KeyIsOrder
  <2>. QED BY <2>2 DEF Latest
<1>. QED BY <1>1, Invariance, PTL
=============================================================================
