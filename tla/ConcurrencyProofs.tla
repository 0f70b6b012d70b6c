-------------------------- MODULE ConcurrencyProofs --------------------------
(***************************************************************************)
(* What holds of Concurrency for every set of models, versions and callers *)
(* and every finite set of slots.                                          *)
(***************************************************************************)
EXTENDS Concurrency, FiniteSetTheorems, TLAPS

(* Cardinalities under the three updates the code makes to a slot set.     *)
LEMMA CardAdd ==
  ASSUME NEW S \in SUBSET Slots, NEW s \in Slots, s \notin S
  PROVE  Cardinality(S \cup {s}) = Cardinality(S) + 1
BY FS_AddElement, FS_Subset, ConcurrencyAssumption

LEMMA CardRemove ==
  ASSUME NEW S \in SUBSET Slots, NEW s \in S
  PROVE  Cardinality(S \ {s}) = Cardinality(S) - 1
BY FS_RemoveElement, FS_Subset, ConcurrencyAssumption

LEMMA CardNat ==
  ASSUME NEW S \in SUBSET Slots
  PROVE  Cardinality(S) \in Nat
BY FS_CardinalityType, FS_Subset, ConcurrencyAssumption

LEMMA CardDifference ==
  ASSUME NEW S \in SUBSET Slots, NEW T \in SUBSET S
  PROVE  Cardinality(S \ T) = Cardinality(S) - Cardinality(T)
<1>1. IsFiniteSet(S)
  BY FS_Subset, ConcurrencyAssumption
<1>2. S \cap T = T
  OBVIOUS
<1>. QED BY <1>1, <1>2, FS_Difference

-----------------------------------------------------------------------------
(* What a release writes of a slot leaves it a slot.                       *)
LEMMA SlotFields ==
  ASSUME NEW x \in SlotState
  PROVE  /\ [x EXCEPT !.phase = "returned"] \in SlotState
         /\ [x EXCEPT !.released = TRUE] \in SlotState
BY DEF SlotState

(* Type correctness: no counter ever becomes negative, whatever is         *)
(* released late, twice or after its model is gone.                        *)
LEMMA TypeStep ==
  ASSUME TypeOK, SlotDiscipline, [Next]_vars
  PROVE  TypeOK'
<1>. USE ConcurrencyAssumption DEF TypeOK, SlotState
<1>1. ASSUME NEW m \in Models, NEW limit \in Limits \cup {None}, RegisterModel(m, limit)
      PROVE  TypeOK'
  BY <1>1 DEF RegisterModel
<1>2. ASSUME NEW m \in Models, NEW v \in Versions, NEW limit \in Limits,
             RegisterVersionLimit(m, v, limit)
      PROVE  TypeOK'
  BY <1>2 DEF RegisterVersionLimit
<1>3. ASSUME NEW m \in Models, NEW v \in Versions, Reject(m, v)
      PROVE  TypeOK'
  BY <1>3 DEF Reject
<1>4. ASSUME NEW m \in Models, NEW v \in Versions, NEW s \in Slots, Acquire(m, v, s)
      PROVE  TypeOK'
  BY <1>4 DEF Acquire, AcquiredSlot
<1>5. ASSUME NEW s \in Slots, NEW c \in Callers, ReleaseCheck(s, c)
      PROVE  TypeOK'
  BY <1>5 DEF ReleaseCheck, modelVars
<1>6. ASSUME NEW s \in Slots, NEW c \in Callers, ReleaseSlot(s, c)
      PROVE  TypeOK'
  <2>1. slot[s].model \in Models /\ slot[s].version \in Versions
    BY <1>6 DEF ReleaseSlot, SlotDiscipline
  <2>a. slot' = [slot EXCEPT ![s].phase = "returned"] /\ pc' = [pc EXCEPT ![s][c] = "returned"]
    BY <1>6 DEF ReleaseSlot
  <2>2. slot' \in [Slots -> SlotState] /\ pc' \in [Slots -> [Callers -> {"idle", "checked", "returned"}]]
    <3>1. slot' = [slot EXCEPT ![s] = [slot[s] EXCEPT !.phase = "returned"]]
      BY <2>a
    <3>2. slot \in [Slots -> SlotState] /\ slot[s] \in SlotState
      OBVIOUS
    <3>3. pc' \in [Slots -> [Callers -> {"idle", "checked", "returned"}]]
      BY <2>a
    <3>. HIDE DEF TypeOK, SlotState
    <3>4. slot' \in [Slots -> SlotState]
      BY <3>1, <3>2, SlotFields
    <3>. QED BY <3>3, <3>4
  <2>3. \A n \in Nat : Floor0(n - 1) \in Nat
    BY DEF Floor0
  <2>4. CASE slot[s].model \in registered /\ Listed(s)
    <3>1. /\ activeSlots' \in [Models -> SUBSET Slots]
          /\ activeCount' \in [Models -> Nat]
          /\ activeByVersion' \in [Models -> [Versions -> Nat]]
          /\ globalActive' \in Nat
      <4>. DEFINE m == slot[s].model  v == slot[s].version
      <4>1. /\ activeSlots' = [activeSlots EXCEPT ![m] = @ \ {s}]
            /\ activeCount' = [activeCount EXCEPT ![m] = Floor0(@ - 1)]
            /\ activeByVersion' = [activeByVersion EXCEPT ![m][v] = Floor0(@ - 1)]
            /\ globalActive' = Floor0(globalActive - 1)
        BY <1>6, <2>4 DEF ReleaseSlot
      <4>2. m \in Models /\ v \in Versions
        BY <2>1
      <4>. HIDE DEF m, v
      <4>3. activeSlots' \in [Models -> SUBSET Slots]
        BY <4>1, <4>2
      <4>4. activeCount' \in [Models -> Nat] /\ globalActive' \in Nat
        BY <4>1, <4>2, <2>3
      <4>5. activeByVersion' \in [Models -> [Versions -> Nat]]
        BY <4>1, <4>2, <2>3
      <4>. QED BY <4>3, <4>4, <4>5
    <3>. QED BY <1>6, <2>2, <3>1 DEF ReleaseSlot
  <2>5. CASE ~(slot[s].model \in registered /\ Listed(s))
    <3>1. /\ UNCHANGED <<activeSlots, activeCount, activeByVersion>>
          /\ globalActive' \in Nat
      BY <1>6, <2>3, <2>5 DEF ReleaseSlot
    <3>. QED BY <1>6, <2>2, <3>1 DEF ReleaseSlot
  <2>. QED BY <2>4, <2>5
<1>7. ASSUME NEW s \in Slots, NEW c \in Callers, ReleaseMark(s, c)
      PROVE  TypeOK'
  <2>a. slot \in [Slots -> SlotState]
    OBVIOUS
  <2>b. FreeSlot \in SlotState
    BY DEF FreeSlot
  <2>c. [slot[s] EXCEPT !.released = TRUE] \in SlotState
    <3>1. slot[s] \in SlotState
      BY <2>a
    <3>. HIDE DEF TypeOK, SlotState
    <3>. QED BY <3>1, SlotFields
  <2>. HIDE DEF SlotState
  <2>2. slot' \in [Slots -> SlotState]
    <3>1. \/ slot' = [slot EXCEPT ![s] = FreeSlot]
          \/ slot' = [slot EXCEPT ![s] = [slot[s] EXCEPT !.released = TRUE]]
      BY <1>7 DEF ReleaseMark
    <3>. QED BY <2>a, <2>b, <2>c, <3>1
  <2>3. pc' \in [Slots -> [Callers -> {"idle", "checked", "returned"}]]
    BY <1>7 DEF ReleaseMark
  <2>. USE DEF SlotState
  <2>. QED BY <1>7, <2>2, <2>3 DEF ReleaseMark, modelVars
<1>8. ASSUME NEW m \in Models, UnregisterModel(m)
      PROVE  TypeOK'
  BY <1>8 DEF UnregisterModel, GlobalWithout, Floor0
<1>9. CASE Shutdown
  BY <1>9 DEF Shutdown, modelVars
<1>10. CASE FairnessReport
  BY <1>10 DEF FairnessReport, modelVars
<1>11. CASE UNCHANGED vars
  BY <1>11 DEF vars, modelVars
<1>. QED
  BY <1>1, <1>2, <1>3, <1>4, <1>5, <1>6, <1>7, <1>8, <1>9, <1>10, <1>11
  DEF Next, SteadyNext, Register, Request, Release

-----------------------------------------------------------------------------
(* The callers of a slot, the slot and its model stay in step.             *)
LEMMA DisciplineStep ==
  ASSUME TypeOK, SlotDiscipline, NoDeadSlot, [Next]_vars
  PROVE  SlotDiscipline'
<1>. USE DEF TypeOK, SlotState, SlotDiscipline
<1>1. ASSUME NEW m \in Models, NEW limit \in Limits \cup {None}, RegisterModel(m, limit)
      PROVE  SlotDiscipline'
  BY <1>1 DEF RegisterModel
<1>2. ASSUME NEW m \in Models, NEW v \in Versions, NEW limit \in Limits,
             RegisterVersionLimit(m, v, limit)
      PROVE  SlotDiscipline'
  BY <1>2 DEF RegisterVersionLimit
<1>3. ASSUME NEW m \in Models, NEW v \in Versions, Reject(m, v)
      PROVE  SlotDiscipline'
  BY <1>3 DEF Reject
<1>4. ASSUME NEW m \in Models, NEW v \in Versions, NEW s \in Slots, Acquire(m, v, s)
      PROVE  SlotDiscipline'
  BY <1>4 DEF Acquire, AcquiredSlot
<1>5. ASSUME NEW s \in Slots, NEW c \in Callers, ReleaseCheck(s, c)
      PROVE  SlotDiscipline'
  BY <1>5 DEF ReleaseCheck, modelVars
<1>6. ASSUME NEW s \in Slots, NEW c \in Callers, ReleaseSlot(s, c)
      PROVE  SlotDiscipline'
  <2>1. /\ slot' = [slot EXCEPT ![s].phase = "returned"]
        /\ pc' = [pc EXCEPT ![s][c] = "returned"]
        /\ registered' = registered
        /\ pc[s][c] = "checked"
    BY <1>6 DEF ReleaseSlot
  <2>2. \A m \in Models : activeSlots'[m] \subseteq activeSlots[m]
    BY <1>6 DEF ReleaseSlot
  <2>. QED BY <2>1, <2>2
<1>7. ASSUME NEW s \in Slots, NEW c \in Callers, ReleaseMark(s, c)
      PROVE  SlotDiscipline'
  BY <1>7 DEF ReleaseMark, FreeSlot, modelVars
<1>8. ASSUME NEW m \in Models, UnregisterModel(m)
      PROVE  SlotDiscipline'
  BY <1>8 DEF UnregisterModel
<1>9. CASE Shutdown
  BY <1>9 DEF Shutdown, modelVars
<1>10. CASE FairnessReport
  BY <1>10 DEF FairnessReport, modelVars
<1>11. CASE UNCHANGED vars
  BY <1>11 DEF vars, modelVars
<1>. QED
  BY <1>1, <1>2, <1>3, <1>4, <1>5, <1>6, <1>7, <1>8, <1>9, <1>10, <1>11
  DEF Next, SteadyNext, Register, Request, Release

(* What a step does to the slot lists and the three counters: nothing, one *)
(* slot more, one slot less, or one model's slots gone.                    *)
Books == <<activeSlots, activeCount, activeByVersion, globalActive>>

Added(m, v, s) ==
  /\ slot[s].phase = "free"
  /\ slot' = [slot EXCEPT ![s] = AcquiredSlot(m, v)]
  /\ activeSlots' = [activeSlots EXCEPT ![m] = @ \cup {s}]
  /\ activeCount' = [activeCount EXCEPT ![m] = @ + 1]
  /\ activeByVersion' = [activeByVersion EXCEPT ![m][v] = @ + 1]
  /\ globalActive' = globalActive + 1

Removed(m, v, s) ==
  /\ m = slot[s].model /\ v = slot[s].version /\ s \in activeSlots[m]
  /\ slot' = [slot EXCEPT ![s].phase = "returned"]
  /\ activeSlots' = [activeSlots EXCEPT ![m] = @ \ {s}]
  /\ activeCount' = [activeCount EXCEPT ![m] = Floor0(@ - 1)]
  /\ activeByVersion' = [activeByVersion EXCEPT ![m][v] = Floor0(@ - 1)]
  /\ globalActive' = Floor0(globalActive - 1)

Dropped(m) ==
  /\ slot' = slot
  /\ activeSlots' = [activeSlots EXCEPT ![m] = {}]
  /\ activeCount' = [activeCount EXCEPT ![m] = 0]
  /\ activeByVersion' = [activeByVersion EXCEPT ![m] = [v \in Versions |-> 0]]
  /\ globalActive' = Floor0(globalActive - activeCount[m])

Kept ==
  /\ UNCHANGED <<activeSlots, activeCount, activeByVersion>>
  /\ globalActive' = globalActive \/ globalActive' = Floor0(globalActive - 1)
  /\ \A m \in Models : \A s \in activeSlots[m] :
       /\ slot'[s].phase = slot[s].phase
       /\ slot'[s].model = slot[s].model
       /\ slot'[s].version = slot[s].version

LEMMA StepKinds ==
  ASSUME TypeOK, SlotDiscipline, NoDeadSlot, [Next]_vars
  PROVE  \/ Kept
         \/ \E m \in Models, v \in Versions, s \in Slots :
              Added(m, v, s) \/ Removed(m, v, s)
         \/ \E m \in Models : Dropped(m)
<1>. USE DEF TypeOK, SlotState
<1>1. ASSUME NEW m \in Models, NEW limit \in Limits \cup {None}, RegisterModel(m, limit)
      PROVE  Kept
  BY <1>1 DEF RegisterModel, Kept
<1>2. ASSUME NEW m \in Models, NEW v \in Versions, NEW limit \in Limits,
             RegisterVersionLimit(m, v, limit)
      PROVE  Kept
  BY <1>2 DEF RegisterVersionLimit, Kept
<1>3. ASSUME NEW m \in Models, NEW v \in Versions, Reject(m, v)
      PROVE  Kept
  BY <1>3 DEF Reject, Kept
<1>4. ASSUME NEW m \in Models, NEW v \in Versions, NEW s \in Slots, Acquire(m, v, s)
      PROVE  Added(m, v, s)
  BY <1>4 DEF Acquire, Added
<1>5. ASSUME NEW s \in Slots, NEW c \in Callers, ReleaseCheck(s, c)
      PROVE  Kept
  BY <1>5 DEF ReleaseCheck, modelVars, Kept
<1>6. ASSUME NEW s \in Slots, NEW c \in Callers, ReleaseSlot(s, c)
      PROVE  Kept \/ \E m \in Models, v \in Versions : Removed(m, v, s)
  <2>. DEFINE m == slot[s].model  v == slot[s].version
  <2>1. m \in Models /\ v \in Versions
    BY <1>6 DEF ReleaseSlot, SlotDiscipline
  <2>2. CASE m \in registered /\ Listed(s)
    <3>1. Removed(m, v, s)
      BY <1>6, <2>2 DEF ReleaseSlot, Removed, Listed
    <3>. QED BY <2>1, <3>1
  <2>3. CASE ~(m \in registered /\ Listed(s))
    <3>1. \A n \in Models : s \notin activeSlots[n]
      BY <2>1, <2>3 DEF Listed, SlotDiscipline, NoDeadSlot, InFlightOf
    <3>2. /\ UNCHANGED <<activeSlots, activeCount, activeByVersion>>
          /\ globalActive' = globalActive \/ globalActive' = Floor0(globalActive - 1)
          /\ slot' = [slot EXCEPT ![s].phase = "returned"]
      BY <1>6, <2>3 DEF ReleaseSlot
    <3>. QED BY <3>1, <3>2 DEF Kept
  <2>. QED BY <2>2, <2>3
<1>7. ASSUME NEW s \in Slots, NEW c \in Callers, ReleaseMark(s, c)
      PROVE  Kept
  <2>1. \A m \in Models : s \notin activeSlots[m]
    BY <1>7 DEF ReleaseMark, SlotDiscipline, NoDeadSlot, InFlightOf, InFlight
  <2>. QED BY <1>7, <2>1 DEF ReleaseMark, FreeSlot, modelVars, Kept
<1>8. ASSUME NEW m \in Models, UnregisterModel(m)
      PROVE  Dropped(m)
  BY <1>8 DEF UnregisterModel, GlobalWithout, Dropped
<1>9. CASE Shutdown
  BY <1>9 DEF Shutdown, modelVars, Kept
<1>10. CASE FairnessReport
  BY <1>10 DEF FairnessReport, modelVars, Kept
<1>11. CASE UNCHANGED vars
  BY <1>11 DEF vars, modelVars, Kept
<1>. QED
  BY <1>1, <1>2, <1>3, <1>4, <1>5, <1>6, <1>7, <1>8, <1>9, <1>10, <1>11
  DEF Next, SteadyNext, Register, Request, Release

-----------------------------------------------------------------------------
LEMMA NoDeadSlotStep ==
  ASSUME TypeOK, SlotDiscipline, NoDeadSlot, [Next]_vars
  PROVE  NoDeadSlot'
<1>. USE DEF TypeOK, SlotState, NoDeadSlot, InFlightOf, InFlight
<1>1. CASE Kept
  BY <1>1 DEF Kept
<1>2. ASSUME NEW m \in Models, NEW v \in Versions, NEW s \in Slots, Added(m, v, s)
      PROVE  NoDeadSlot'
  BY <1>2 DEF Added, AcquiredSlot
<1>3. ASSUME NEW m \in Models, NEW v \in Versions, NEW s \in Slots, Removed(m, v, s)
      PROVE  NoDeadSlot'
  BY <1>3 DEF Removed
<1>4. ASSUME NEW m \in Models, Dropped(m)
      PROVE  NoDeadSlot'
  BY <1>4 DEF Dropped
<1>. QED BY <1>1, <1>2, <1>3, <1>4, StepKinds

(* The slots a model lists for one version. *)
ListedAs(m, v) == {s \in activeSlots[m] : slot[s].version = v}

LEMMA CountersStep ==
  ASSUME TypeOK, SlotDiscipline, NoDeadSlot, CountersMatchSlots, [Next]_vars
  PROVE  CountersMatchSlots'
<1>. USE DEF TypeOK, SlotState, CountersMatchSlots
<1>0. \A n \in Models, w \in Versions : 
        /\ activeSlots[n] \in SUBSET Slots
        /\ ListedAs(n, w) \in SUBSET Slots
        /\ activeByVersion[n][w] = Cardinality(ListedAs(n, w))
  BY DEF ListedAs
<1>1. CASE Kept
  <2>1. \A n \in Models, w \in Versions : ListedAs(n, w)' = ListedAs(n, w)
    BY <1>1 DEF Kept, ListedAs
  <2>2. \A n \in Models : activeCount'[n] = Cardinality(activeSlots'[n])
    BY <1>1 DEF Kept
  <2>3. \A n \in Models, w \in Versions :
          activeByVersion'[n][w] = Cardinality(ListedAs(n, w)')
    <3>1. UNCHANGED activeByVersion
      BY <1>1 DEF Kept
    <3>. TAKE n \in Models, w \in Versions
    <3>2. activeByVersion'[n][w] = Cardinality(ListedAs(n, w))
      BY <1>0, <3>1
    <3>. QED BY <2>1, <3>2
  <2>. QED BY <2>2, <2>3 DEF ListedAs
<1>2. ASSUME NEW m \in Models, NEW v \in Versions, NEW s \in Slots, Added(m, v, s)
      PROVE  CountersMatchSlots'
  <2>1. \A n \in Models : s \notin activeSlots[n]
    BY <1>2 DEF Added, NoDeadSlot, InFlightOf, InFlight
  <2>2. \A n \in Models, w \in Versions :
          ListedAs(n, w)' = IF n = m /\ w = v THEN ListedAs(n, w) \cup {s}
                            ELSE ListedAs(n, w)
    BY <1>2, <2>1 DEF Added, AcquiredSlot, ListedAs
  <2>3. /\ Cardinality(activeSlots[m] \cup {s}) = Cardinality(activeSlots[m]) + 1
        /\ Cardinality(ListedAs(m, v) \cup {s}) = Cardinality(ListedAs(m, v)) + 1
    BY <1>0, <2>1, CardAdd DEF ListedAs
  <2>4. \A n \in Models : activeCount'[n] = Cardinality(activeSlots'[n])
    BY <1>2, <2>3 DEF Added
  <2>5. \A n \in Models, w \in Versions :
          activeByVersion'[n][w] = Cardinality(ListedAs(n, w)')
    <3>1. \A n \in Models, w \in Versions :
            activeByVersion'[n][w] = IF n = m /\ w = v THEN activeByVersion[n][w] + 1
                                     ELSE activeByVersion[n][w]
      BY <1>2 DEF Added
    <3>. TAKE n \in Models, w \in Versions
    <3>2. CASE n = m /\ w = v
      BY <1>0, <2>2, <2>3, <3>1, <3>2
    <3>3. CASE ~(n = m /\ w = v)
      BY <1>0, <2>2, <3>1, <3>3
    <3>. QED BY <3>2, <3>3
  <2>. QED BY <2>4, <2>5 DEF ListedAs
<1>3. ASSUME NEW m \in Models, NEW v \in Versions, NEW s \in Slots, Removed(m, v, s)
      PROVE  CountersMatchSlots'
  <2>1. \A n \in Models : s \in activeSlots[n] => n = m
    BY <1>3 DEF Removed, NoDeadSlot, InFlightOf, InFlight
  <2>2. \A n \in Models, w \in Versions :
          ListedAs(n, w)' = IF n = m /\ w = v THEN ListedAs(n, w) \ {s}
                            ELSE ListedAs(n, w)
    BY <1>3, <2>1 DEF Removed, ListedAs
  <2>3. /\ Cardinality(activeSlots[m] \ {s}) = Cardinality(activeSlots[m]) - 1
        /\ Cardinality(ListedAs(m, v) \ {s}) = Cardinality(ListedAs(m, v)) - 1
    BY <1>0, <1>3, CardRemove DEF ListedAs, Removed
  <2>3a. /\ Cardinality(activeSlots[m] \ {s}) \in Nat
         /\ Cardinality(ListedAs(m, v) \ {s}) \in Nat
    BY <1>0, CardNat
  <2>4. \A n \in Models : activeCount'[n] = Cardinality(activeSlots'[n])
    BY <1>3, <2>3, <2>3a DEF Removed, Floor0
  <2>5. \A n \in Models, w \in Versions :
          activeByVersion'[n][w] = Cardinality(ListedAs(n, w)')
    <3>1. \A n \in Models, w \in Versions :
            activeByVersion'[n][w] = IF n = m /\ w = v THEN Floor0(activeByVersion[n][w] - 1)
                                     ELSE activeByVersion[n][w]
      BY <1>3 DEF Removed
    <3>2. Floor0(activeByVersion[m][v] - 1) = Cardinality(ListedAs(m, v) \ {s})
      BY <1>0, <2>3, <2>3a DEF Floor0
    <3>. TAKE n \in Models, w \in Versions
    <3>3. CASE n = m /\ w = v
      BY <2>2, <3>1, <3>2, <3>3
    <3>4. CASE ~(n = m /\ w = v)
      BY <1>0, <2>2, <3>1, <3>4
    <3>. QED BY <3>3, <3>4
  <2>. QED BY <2>4, <2>5 DEF ListedAs
<1>4. ASSUME NEW m \in Models, Dropped(m)
      PROVE  CountersMatchSlots'
  <2>1. Cardinality({}) = 0
    BY FS_EmptySet
  <2>2. \A n \in Models, w \in Versions :
          ListedAs(n, w)' = IF n = m THEN {} ELSE ListedAs(n, w)
    BY <1>4 DEF Dropped, ListedAs
  <2>3. \A n \in Models : activeCount'[n] = Cardinality(activeSlots'[n])
    BY <1>4, <2>1 DEF Dropped
  <2>4. \A n \in Models, w \in Versions :
          activeByVersion'[n][w] = Cardinality(ListedAs(n, w)')
    <3>1. \A n \in Models, w \in Versions :
            activeByVersion'[n][w] = IF n = m THEN 0 ELSE activeByVersion[n][w]
      BY <1>4 DEF Dropped
    <3>. TAKE n \in Models, w \in Versions
    <3>2. CASE n = m
      BY <2>1, <2>2, <3>1, <3>2
    <3>3. CASE n # m
      BY <1>0, <2>2, <3>1, <3>3
    <3>. QED BY <3>2, <3>3
  <2>. QED BY <2>3, <2>4 DEF ListedAs
<1>. QED BY <1>1, <1>2, <1>3, <1>4, StepKinds

LEMMA FloorBound ==
  ASSUME NEW g \in Nat, NEW a \in Nat, NEW k \in Nat, k - a \in Nat, g <= k
  PROVE  Floor0(g - a) <= k - a
BY DEF Floor0

LEMMA NoLeakStep ==
  ASSUME TypeOK, SlotDiscipline, NoDeadSlot, CountersMatchSlots, NoCapacityLeak,
         [Next]_vars
  PROVE  NoCapacityLeak'
<1>. USE DEF TypeOK, SlotState, NoCapacityLeak
<1>0. Tracked \in SUBSET Slots /\ Tracked' \in SUBSET Slots
  BY TypeStep DEF Tracked
<1>a. Cardinality(Tracked) \in Nat /\ Cardinality(Tracked') \in Nat
  BY <1>0, CardNat
<1>1. CASE Kept
  <2>1. Tracked' = Tracked
    BY <1>1 DEF Kept, Tracked
  <2>. QED BY <1>1, <1>a, <2>1 DEF Kept, Floor0
<1>2. ASSUME NEW m \in Models, NEW v \in Versions, NEW s \in Slots, Added(m, v, s)
      PROVE  NoCapacityLeak'
  <2>1. s \notin Tracked
    BY <1>2 DEF Added, NoDeadSlot, InFlightOf, InFlight, Tracked
  <2>2. Tracked' = Tracked \cup {s}
    BY <1>2 DEF Added, Tracked
  <2>3. Cardinality(Tracked') = Cardinality(Tracked) + 1
    BY <1>0, <2>1, <2>2, CardAdd
  <2>. QED BY <1>2, <1>a, <2>3 DEF Added
<1>3. ASSUME NEW m \in Models, NEW v \in Versions, NEW s \in Slots, Removed(m, v, s)
      PROVE  NoCapacityLeak'
  <2>1. \A n \in Models : s \in activeSlots[n] => n = m
    BY <1>3 DEF Removed, NoDeadSlot, InFlightOf, InFlight
  <2>2. s \in Tracked /\ Tracked' = Tracked \ {s}
    BY <1>3, <2>1 DEF Removed, Tracked
  <2>3. Cardinality(Tracked') = Cardinality(Tracked) - 1
    BY <1>0, <2>2, CardRemove
  <2>. QED BY <1>3, <1>a, <2>3 DEF Removed, Floor0
<1>4. ASSUME NEW m \in Models, Dropped(m)
      PROVE  NoCapacityLeak'
  <2>1. \A n \in Models : n # m => activeSlots[n] \cap activeSlots[m] = {}
    BY DEF NoDeadSlot, InFlightOf
  <2>2. activeSlots[m] \subseteq Tracked /\ Tracked' = Tracked \ activeSlots[m]
    BY <1>4, <2>1 DEF Dropped, Tracked
  <2>3. Cardinality(Tracked') = Cardinality(Tracked) - activeCount[m]
    <3>1. Cardinality(Tracked \ activeSlots[m]) = Cardinality(Tracked) - Cardinality(activeSlots[m])
      BY <1>0, <2>2, CardDifference
    <3>. QED BY <2>2, <3>1 DEF CountersMatchSlots
  <2>4. activeCount[m] \in Nat /\ globalActive \in Nat
    OBVIOUS
  <2>5. globalActive' = Floor0(globalActive - activeCount[m])
    BY <1>4 DEF Dropped
  <2>. DEFINE k == Cardinality(Tracked)  k2 == Cardinality(Tracked')
  <2>6. k \in Nat /\ k2 \in Nat /\ k2 = k - activeCount[m] /\ globalActive <= k
    BY <1>a, <2>3
  <2>. HIDE DEF k, k2
  <2>7. Floor0(globalActive - activeCount[m]) <= k2
    BY <2>4, <2>6, FloorBound
  <2>. QED BY <2>5, <2>7 DEF k2
<1>. QED BY <1>1, <1>2, <1>3, <1>4, StepKinds

-----------------------------------------------------------------------------
(* The inductive invariant of the full specification. *)
IInv == TypeOK /\ SlotDiscipline /\ NoDeadSlot /\ CountersMatchSlots /\ NoCapacityLeak

LEMMA InitIInv == Init => IInv
<1>. SUFFICES ASSUME Init PROVE IInv
  OBVIOUS
<1>1. Cardinality({}) = 0
  BY FS_EmptySet
<1>2. TypeOK
  BY ConcurrencyAssumption DEF Init, TypeOK, SlotState, FreeSlot
<1>3. SlotDiscipline /\ NoDeadSlot
  BY DEF Init, SlotDiscipline, NoDeadSlot, FreeSlot
<1>4. \A m \in Models : activeSlots[m] = {} /\ activeCount[m] = 0
                        /\ \A v \in Versions : activeByVersion[m][v] = 0
  BY DEF Init
<1>5. CountersMatchSlots
  <2>1. \A m \in Models, v \in Versions : {s \in activeSlots[m] : slot[s].version = v} = {}
    BY <1>4
  <2>. QED BY <1>1, <1>4, <2>1 DEF CountersMatchSlots
<1>6. NoCapacityLeak
  <2>1. Tracked = {}
    BY <1>4 DEF Tracked
  <2>. QED BY <1>1, <2>1 DEF Init, NoCapacityLeak
<1>. QED BY <1>2, <1>3, <1>5, <1>6 DEF IInv

LEMMA NextIInv == IInv /\ [Next]_vars => IInv'
BY TypeStep, DisciplineStep, NoDeadSlotStep, CountersStep, NoLeakStep DEF IInv

LEMMA Invariance == Spec => []IInv
BY InitIInv, NextIInv, PTL DEF Spec

(* Every counter keeps its type: none ever becomes negative. *)
THEOREM TypeCorrect == Spec => []TypeOK
BY Invariance, PTL DEF IInv

(* The counters of every model are the numbers of the slots it lists.      *)
THEOREM CountersCorrect == Spec => []CountersMatchSlots
BY Invariance, PTL DEF IInv

(* No slot of a finished request is ever listed.                           *)
THEOREM DeadSlotFree == Spec => []NoDeadSlot
BY Invariance, PTL DEF IInv

(* Both, for every order of registrations, acquisitions and releases.      *)
THEOREM SlotsAccountedFor == Spec => []SlotsAccounted
BY CountersCorrect, DeadSlotFree, PTL DEF SlotsAccounted

(* Unregistering and late releases can lose count of requests, but never   *)
(* of capacity.                                                            *)
THEOREM CapacityKept == Spec => []NoCapacityLeak
BY Invariance, PTL DEF IInv

(* Without a request in flight nothing is counted.                         *)
LEMMA NoneCountedIdle == IInv /\ InFlight = {} => globalActive = 0
<1>. SUFFICES ASSUME IInv, InFlight = {} PROVE globalActive = 0
  OBVIOUS
<1>1. Tracked = {}
  BY DEF IInv, NoDeadSlot, InFlightOf, Tracked
<1>2. globalActive <= Cardinality({})
  BY <1>1 DEF IInv, NoCapacityLeak
<1>3. globalActive \in Nat
  BY DEF IInv, TypeOK
<1>. QED BY <1>2, <1>3, FS_EmptySet

(* A step after shutdown() starts no request and does not undo it.         *)
LEMMA ShutdownStep ==
  ASSUME IInv, [Next]_vars, shutdown
  PROVE  shutdown' /\ InFlight' \subseteq InFlight
<1>. USE DEF IInv, TypeOK, InFlight
<1>1. ASSUME NEW m \in Models, NEW v \in Versions, NEW s \in Slots PROVE ~Acquire(m, v, s)
  BY DEF Acquire, Decision
<1>2. CASE Register \/ (\E m \in Models, v \in Versions : Reject(m, v)) \/ FairnessReport
           \/ UNCHANGED vars \/ \E m \in Models : UnregisterModel(m)
  BY <1>2 DEF Register, RegisterModel, RegisterVersionLimit, Reject, FairnessReport, vars,
     UnregisterModel
<1>3. CASE Shutdown
  BY <1>3 DEF Shutdown
<1>4. ASSUME NEW s \in Slots, NEW c \in Callers, ReleaseCheck(s, c)
      PROVE  shutdown' /\ InFlight' \subseteq InFlight
  BY <1>4 DEF ReleaseCheck
<1>5. ASSUME NEW s \in Slots, NEW c \in Callers, ReleaseSlot(s, c)
      PROVE  shutdown' /\ InFlight' \subseteq InFlight
  <2>1. slot' = [slot EXCEPT ![s].phase = "returned"] /\ shutdown' = shutdown
    BY <1>5 DEF ReleaseSlot
  <2>. QED BY <2>1
<1>6. ASSUME NEW s \in Slots, NEW c \in Callers, ReleaseMark(s, c)
      PROVE  shutdown' /\ InFlight' \subseteq InFlight
  <2>1. shutdown' = shutdown
    BY <1>6 DEF ReleaseMark
  <2>2. CASE slot' = [slot EXCEPT ![s] = FreeSlot]
    BY <2>1, <2>2 DEF FreeSlot
  <2>3. CASE slot' = [slot EXCEPT ![s].released = TRUE]
    BY <2>1, <2>3 DEF SlotState
  <2>. QED BY <1>6, <2>2, <2>3 DEF ReleaseMark
<1>. QED
  BY <1>1, <1>2, <1>3, <1>4, <1>5, <1>6 DEF Next, SteadyNext, Request, Release

(* shutdown() is final: whatever is registered, unregistered, asked for or *)
(* released after it, no request starts.                                   *)
THEOREM ShutdownIsFinal ==
  Spec => [][shutdown => shutdown' /\ InFlight' \subseteq InFlight]_vars
<1>1. IInv /\ [Next]_vars => [shutdown => shutdown' /\ InFlight' \subseteq InFlight]_vars
  BY ShutdownStep
<1>. QED BY <1>1, Invariance, PTL DEF Spec

(* Once the requests in flight have run out after shutdown() the manager   *)
(* is empty for good, and says so: what ShutdownDrains asserts but that it *)
(* comes to this, also when models were unregistered under their requests. *)
THEOREM DrainedForGood ==
  Spec => [](shutdown /\ InFlight = {} => [](InFlight = {} /\ globalActive = 0))
<1>. DEFINE Drained == shutdown /\ InFlight = {}
<1>1. IInv /\ [Next]_vars /\ Drained => Drained'
  BY ShutdownStep
<1>2. IInv /\ Drained => InFlight = {} /\ globalActive = 0
  BY NoneCountedIdle
<1>. QED BY <1>1, <1>2, Invariance, PTL DEF Spec

-----------------------------------------------------------------------------
(* While nothing is unregistered: what a step does to the requests in      *)
(* flight, and that the books follow it exactly.                           *)
SInv == IInv /\ BooksExact /\ GlobalCountExact

Started(m, v, s) ==
  /\ Decision(m, v) = "acquired"
  /\ s \notin InFlight
  /\ slot' = [slot EXCEPT ![s] = AcquiredSlot(m, v)]
  /\ activeSlots' = [activeSlots EXCEPT ![m] = @ \cup {s}]
  /\ globalActive' = globalActive + 1
  /\ UNCHANGED <<maxConcurrent, versionLimits>>

Finished(s) ==
  /\ s \in InFlight
  /\ slot' = [slot EXCEPT ![s].phase = "returned"]
  /\ activeSlots' = [activeSlots EXCEPT ![slot[s].model] = @ \ {s}]
  /\ globalActive' = Floor0(globalActive - 1)

Quiet ==
  /\ UNCHANGED <<activeSlots, globalActive>>
  /\ \A s \in Slots :
       \/ s \notin InFlight /\ slot'[s].phase # "held"
       \/ s \in InFlight /\ slot'[s] = slot[s]

LEMMA SteadyKinds ==
  ASSUME SInv, [SteadyNext]_vars
  PROVE  \/ Quiet
         \/ \E m \in Models, v \in Versions, s \in Slots : Started(m, v, s)
         \/ \E s \in Slots : Finished(s)
<1>. USE DEF SInv, IInv, TypeOK, SlotState, InFlight
<1>1. ASSUME NEW m \in Models, NEW limit \in Limits \cup {None}, RegisterModel(m, limit)
      PROVE  Quiet
  BY <1>1 DEF RegisterModel, Quiet
<1>2. ASSUME NEW m \in Models, NEW v \in Versions, NEW limit \in Limits,
             RegisterVersionLimit(m, v, limit)
      PROVE  Quiet
  BY <1>2 DEF RegisterVersionLimit, Quiet
<1>3. ASSUME NEW m \in Models, NEW v \in Versions, Reject(m, v)
      PROVE  Quiet
  BY <1>3 DEF Reject, Quiet
<1>4. ASSUME NEW m \in Models, NEW v \in Versions, NEW s \in Slots, Acquire(m, v, s)
      PROVE  Started(m, v, s)
  BY <1>4 DEF Acquire, Started
<1>5. ASSUME NEW s \in Slots, NEW c \in Callers, ReleaseCheck(s, c)
      PROVE  Quiet
  BY <1>5 DEF ReleaseCheck, modelVars, Quiet
<1>6. ASSUME NEW s \in Slots, NEW c \in Callers, ReleaseSlot(s, c)
      PROVE  Quiet \/ Finished(s)
  <2>1. slot[s].model \in registered /\ slot[s].model \in Models
    BY <1>6 DEF ReleaseSlot, SlotDiscipline, BooksExact
  <2>2. Listed(s) <=> s \in InFlight
    BY <2>1 DEF BooksExact, Listed, InFlightOf
  <2>3. CASE s \in InFlight
    BY <1>6, <2>1, <2>2, <2>3 DEF ReleaseSlot, Finished
  <2>4. CASE s \notin InFlight
    <3>1. UNCHANGED <<activeSlots, globalActive>> /\ slot' = [slot EXCEPT ![s].phase = "returned"]
      BY <1>6, <2>1, <2>2, <2>4 DEF ReleaseSlot
    <3>. QED BY <2>4, <3>1 DEF Quiet
  <2>. QED BY <2>3, <2>4
<1>7. ASSUME NEW s \in Slots, NEW c \in Callers, ReleaseMark(s, c)
      PROVE  Quiet
  <2>1. slot[s].phase = "returned"
    BY <1>7 DEF ReleaseMark, SlotDiscipline
  <2>. QED BY <1>7, <2>1 DEF ReleaseMark, FreeSlot, modelVars, Quiet
<1>8. CASE Shutdown
  BY <1>8 DEF Shutdown, modelVars, Quiet
<1>9. CASE UNCHANGED vars
  BY <1>9 DEF vars, modelVars, Quiet
<1>. QED
  BY <1>1, <1>2, <1>3, <1>4, <1>5, <1>6, <1>7, <1>8, <1>9
  DEF SteadyNext, Register, Request, Release

LEMMA BooksStep ==
  ASSUME SInv, [SteadyNext]_vars
  PROVE  BooksExact'
<1>. USE DEF SInv, IInv, TypeOK, SlotState
<1>1. \A s \in Slots : slot'[s].phase # "free" => slot'[s].model \in registered'
  <2>1. registered \subseteq registered'
    BY DEF SteadyNext, Register, Request, Release, RegisterModel, RegisterVersionLimit,
           Reject, Acquire, ReleaseCheck, ReleaseSlot, ReleaseMark, Shutdown, vars, modelVars
  <2>2. CASE slot' = slot
    BY <2>1, <2>2 DEF BooksExact
  <2>3. ASSUME NEW m \in Models, NEW v \in Versions, NEW s \in Slots, Acquire(m, v, s)
        PROVE  \A t \in Slots : slot'[t].phase # "free" => slot'[t].model \in registered'
    BY <2>1, <2>3 DEF Acquire, AcquiredSlot, BooksExact
  <2>4. ASSUME NEW s \in Slots, NEW c \in Callers, ReleaseSlot(s, c)
        PROVE  \A t \in Slots : slot'[t].phase # "free" => slot'[t].model \in registered'
    BY <2>1, <2>4 DEF ReleaseSlot, SlotDiscipline, BooksExact
  <2>5. ASSUME NEW s \in Slots, NEW c \in Callers, ReleaseMark(s, c)
        PROVE  \A t \in Slots : slot'[t].phase # "free" => slot'[t].model \in registered'
    BY <2>1, <2>5 DEF ReleaseMark, SlotDiscipline, BooksExact, FreeSlot
  <2>. QED
    BY <2>2, <2>3, <2>4, <2>5
    DEF SteadyNext, Register, Request, Release, RegisterModel, RegisterVersionLimit,
        Reject, ReleaseCheck, Shutdown, vars, modelVars
<1>2. \A m \in Models : activeSlots'[m] = InFlightOf(m)'
  <2>1. CASE Quiet
    BY <2>1 DEF Quiet, BooksExact, InFlightOf, InFlight
  <2>2. ASSUME NEW m \in Models, NEW v \in Versions, NEW s \in Slots, Started(m, v, s)
        PROVE  \A n \in Models : activeSlots'[n] = InFlightOf(n)'
    BY <2>2 DEF Started, AcquiredSlot, BooksExact, InFlightOf, InFlight
  <2>3. ASSUME NEW s \in Slots, Finished(s)
        PROVE  \A n \in Models : activeSlots'[n] = InFlightOf(n)'
    BY <2>3 DEF Finished, BooksExact, InFlightOf, InFlight, SlotDiscipline
  <2>. QED BY <2>1, <2>2, <2>3, SteadyKinds
<1>. QED BY <1>1, <1>2 DEF BooksExact

LEMMA ExactStep ==
  ASSUME SInv, [SteadyNext]_vars
  PROVE  GlobalCountExact'
<1>. USE DEF SInv, IInv, TypeOK, SlotState, GlobalCountExact
<1>0. InFlight \in SUBSET Slots /\ InFlight' \in SUBSET Slots
  BY DEF InFlight
<1>1. CASE Quiet
  <2>1. InFlight' = InFlight
    BY <1>1 DEF Quiet, InFlight
  <2>. QED BY <1>1, <2>1 DEF Quiet
<1>2. ASSUME NEW m \in Models, NEW v \in Versions, NEW s \in Slots, Started(m, v, s)
      PROVE  GlobalCountExact'
  <2>1. InFlight' = InFlight \cup {s}
    BY <1>2 DEF Started, AcquiredSlot, InFlight
  <2>. QED BY <1>0, <1>2, <2>1, CardAdd DEF Started
<1>3. ASSUME NEW s \in Slots, Finished(s)
      PROVE  GlobalCountExact'
  <2>1. InFlight' = InFlight \ {s} /\ s \in InFlight
    BY <1>3 DEF Finished, InFlight
  <2>2. Cardinality(InFlight') = Cardinality(InFlight) - 1
    BY <1>0, <2>1, CardRemove
  <2>3. Cardinality(InFlight') \in Nat
    BY <1>0, CardNat
  <2>. QED BY <1>3, <2>2, <2>3 DEF Finished, Floor0
<1>. QED BY <1>1, <1>2, <1>3, SteadyKinds

LEMMA InitSInv == Init => SInv
<1>. SUFFICES ASSUME Init PROVE SInv
  OBVIOUS
<1>1. InFlight = {}
  BY DEF Init, InFlight, FreeSlot
<1>2. BooksExact
  BY <1>1 DEF Init, BooksExact, InFlightOf, FreeSlot
<1>3. GlobalCountExact
  BY <1>1, FS_EmptySet DEF Init, GlobalCountExact
<1>. QED BY <1>2, <1>3, InitIInv DEF SInv

LEMMA NextSInv == SInv /\ [SteadyNext]_vars => SInv'
<1>1. [SteadyNext]_vars => [Next]_vars
  BY DEF Next
<1>. QED BY <1>1, NextIInv, BooksStep, ExactStep DEF SInv

LEMMA SteadyInvariance == SteadySpec => []SInv
BY InitSInv, NextSInv, PTL DEF SteadySpec

(* While nothing is unregistered, the global count is exact.               *)
THEOREM CountExact == SteadySpec => []GlobalCountExact
BY SteadyInvariance, PTL DEF SInv

-----------------------------------------------------------------------------
LEMMA BelowThreshold ==
  ASSUME NEW a \in Nat, NEW b \in Nat, b <= a, 10 * a < 9 * GlobalLimit + 10
  PROVE  10 * b < 9 * GlobalLimit + 10
BY ConcurrencyAssumption

LEMMA LimitStep ==
  ASSUME SInv, GlobalLimitEnforced, [SteadyNext]_vars
  PROVE  GlobalLimitEnforced'
<1>. USE ConcurrencyAssumption DEF SInv, IInv, TypeOK, GlobalCountExact, GlobalLimitEnforced
<1>1. CASE Quiet
  BY <1>1, ExactStep DEF Quiet
<1>2. ASSUME NEW m \in Models, NEW v \in Versions, NEW s \in Slots, Started(m, v, s)
      PROVE  GlobalLimitEnforced'
  <2>1. 10 * globalActive < 9 * GlobalLimit
    BY <1>2 DEF Started, Decision, HardBackpressure
  <2>2. Cardinality(InFlight') = globalActive + 1
    BY <1>2, ExactStep DEF Started
  <2>. QED BY <2>1, <2>2
<1>3. ASSUME NEW s \in Slots, Finished(s)
      PROVE  GlobalLimitEnforced'
  <2>1. globalActive' \in Nat /\ globalActive' <= globalActive
    BY <1>3 DEF Finished, Floor0
  <2>2. Cardinality(InFlight') = globalActive' /\ Cardinality(InFlight) = globalActive
    BY ExactStep
  <2>3. 10 * globalActive < 9 * GlobalLimit + 10 /\ globalActive \in Nat
    BY <2>2
  <2>4. 10 * globalActive' < 9 * GlobalLimit + 10
    BY <2>1, <2>3, BelowThreshold
  <2>. QED BY <2>2, <2>4
<1>. QED BY <1>1, <1>2, <1>3, SteadyKinds

(* Never more requests in flight than the threshold of hard backpressure   *)
(* allows: 90% of the global limit, rounded up.                            *)
THEOREM GlobalLimitHolds == SteadySpec => []GlobalLimitEnforced
<1>1. Init => GlobalLimitEnforced
  BY InitSInv, ConcurrencyAssumption DEF Init, SInv, GlobalCountExact, GlobalLimitEnforced
<1>. QED BY <1>1, LimitStep, SteadyInvariance, PTL DEF SteadySpec

LEMMA StartStep ==
  ASSUME SInv, [SteadyNext]_vars
  PROVE  StartWithinLimits
<1>. USE ConcurrencyAssumption DEF SInv, IInv, TypeOK, SlotState
<1>. SUFFICES ASSUME NEW m \in Models, NEW v \in Versions,
                     (InFlightAs(m, v))' \ InFlightAs(m, v) # {}
              PROVE  /\ Cardinality(InFlightOf(m)') <= maxConcurrent[m]
                     /\ Cardinality(InFlightAs(m, v)') <= VersionLimit(m, v)
  BY DEF StartWithinLimits
<1>0. PICK r \in Slots : slot'[r].phase = "held" /\ r \notin InFlightAs(m, v)
                          /\ slot'[r].model = m /\ slot'[r].version = v
  BY DEF InFlightAs, InFlightOf, InFlight
<1>1. ~Quiet
  BY <1>0 DEF Quiet, InFlightAs, InFlightOf, InFlight
<1>2. ASSUME NEW s \in Slots, Finished(s)
      PROVE  FALSE
  <2>1. slot' = [slot EXCEPT ![s].phase = "returned"]
    BY <1>2 DEF Finished
  <2>2. r # s /\ slot'[r] = slot[r]
    BY <1>0, <2>1
  <2>. QED BY <1>0, <2>2 DEF InFlightAs, InFlightOf, InFlight
<1>3. PICK n \in Models, w \in Versions, s \in Slots : Started(n, w, s)
  BY <1>1, <1>2, SteadyKinds
<1>4. n = m /\ w = v
  BY <1>3 DEF Started, AcquiredSlot, InFlightAs, InFlightOf, InFlight
<1>5. /\ InFlightOf(m)' = InFlightOf(m) \cup {s}
      /\ InFlightAs(m, v)' = InFlightAs(m, v) \cup {s}
      /\ s \notin InFlightOf(m) /\ s \notin InFlightAs(m, v)
  BY <1>3, <1>4 DEF Started, AcquiredSlot, InFlightAs, InFlightOf, InFlight
<1>6. InFlightOf(m) \in SUBSET Slots /\ InFlightAs(m, v) \in SUBSET Slots
  BY DEF InFlightAs, InFlightOf, InFlight
<1>7. /\ Cardinality(InFlightOf(m)) = activeCount[m]
      /\ Cardinality(InFlightAs(m, v)) = activeByVersion[m][v]
  <2>1. activeSlots[m] = InFlightOf(m) /\ ListedAs(m, v) = InFlightAs(m, v)
    BY DEF BooksExact, ListedAs, InFlightAs
  <2>. QED BY <2>1 DEF CountersMatchSlots, ListedAs
<1>8. /\ Cardinality(InFlightOf(m)') = activeCount[m] + 1
      /\ Cardinality(InFlightAs(m, v)') = activeByVersion[m][v] + 1
  BY <1>5, <1>6, <1>7, CardAdd
<1>9. activeCount[m] < maxConcurrent[m] /\ activeByVersion[m][v] < VersionLimit(m, v)
  <2>1. CanAcquire(m, v) = "acquired"
    BY <1>3, <1>4 DEF Started, Decision
  <2>2. VersionLimit(m, v) \in Nat
    BY DEF VersionLimit
  <2>. QED BY <2>1, <2>2 DEF CanAcquire
<1>10. VersionLimit(m, v) \in Nat
  BY DEF VersionLimit
<1>. QED BY <1>8, <1>9, <1>10

(* A request only starts within the limits of its model and its version,   *)
(* counted in requests that really run.                                    *)
THEOREM PerModelLimitsHold == SteadySpec => PerModelLimitsEnforced
<1>1. SInv /\ [SteadyNext]_vars => [StartWithinLimits]_vars
  BY StartStep
<1>. QED BY <1>1, SteadyInvariance, PTL DEF SteadySpec, PerModelLimitsEnforced

(* "GUARANTEED": the global limit and the limits of models and versions.   *)
THEOREM LimitsHold == SteadySpec => LimitsEnforced
BY GlobalLimitHolds, PerModelLimitsHold DEF LimitsEnforced

LEMMA SecondReleaseStep ==
  ASSUME SInv, [SteadyNext]_vars
  PROVE  SecondReleaseIsFree
<1>. USE DEF SInv, IInv, TypeOK, SlotState
<1>. SUFFICES ASSUME NEW s \in Slots, NEW c \in Callers,
                     pc[s][c] = "checked", pc'[s][c] = "returned",
                     slot[s].phase = "returned"
              PROVE  globalActive' = globalActive
  BY DEF SecondReleaseIsFree
<1>1. \E t \in Slots, d \in Callers : ReleaseSlot(t, d)
  <2>0. pc \in [Slots -> [Callers -> {"idle", "checked", "returned"}]]
    OBVIOUS
  <2>. HIDE DEF SInv, IInv, TypeOK, SlotState
  <2>1. pc' # pc
    OBVIOUS
  <2>2. ASSUME NEW t \in Slots, NEW d \in Callers, ReleaseCheck(t, d) PROVE FALSE
    <3>1. pc' = [pc EXCEPT ![t][d] = "checked"] /\ pc[t][d] = "idle"
      BY <2>2 DEF ReleaseCheck
    <3>. QED BY <2>0, <3>1
  <2>3. ASSUME NEW t \in Slots, NEW d \in Callers, ReleaseMark(t, d) PROVE FALSE
    <3>1. pc' = [pc EXCEPT ![t][d] = "idle"]
      BY <2>3 DEF ReleaseMark
    <3>. QED BY <2>0, <3>1
  <2>4. Release
    BY <2>1 DEF SteadyNext, Register, Request, RegisterModel, RegisterVersionLimit,
                Reject, Acquire, Shutdown, vars
  <2>. QED BY <2>2, <2>3, <2>4 DEF Release
<1>2. PICK t \in Slots, d \in Callers : ReleaseSlot(t, d)
  BY <1>1
<1>3. t = s
  BY <1>2 DEF ReleaseSlot
<1>4. slot[s].model \in registered /\ slot[s].model \in Models
  BY DEF SlotDiscipline, BooksExact
<1>5. ~Listed(s)
  BY <1>4 DEF Listed, BooksExact, InFlightOf, InFlight
<1>. QED BY <1>2, <1>3, <1>4, <1>5 DEF ReleaseSlot

(* Releasing a slot again is free, even between the test and the mark of   *)
(* another thread's release.                                               *)
THEOREM ReleaseIdempotentHolds == SteadySpec => ReleaseIdempotent
<1>1. SInv /\ [SteadyNext]_vars => [SecondReleaseIsFree]_vars
  BY SecondReleaseStep
<1>. QED BY <1>1, SteadyInvariance, PTL DEF SteadySpec, ReleaseIdempotent

-----------------------------------------------------------------------------
LEMMA CapacityLeft ==
  ASSUME NEW a \in Nat, 10 * a < 9 * GlobalLimit
  PROVE  a < EffectiveCapacity
BY ConcurrencyAssumption DEF EffectiveCapacity

LEMMA AbstractStep ==
  ASSUME SInv, [SteadyNext]_vars
  PROVE  [Abstract!Next]_<<InFlight, shutdown>>
<1>. USE DEF SInv, IInv, TypeOK, SlotState
<1>1. CASE Shutdown
  BY <1>1 DEF Shutdown, InFlight, Abstract!Next, Abstract!Close
<1>2. CASE ~Shutdown
  <2>1. shutdown' = shutdown
    <3>1. ASSUME NEW s \in Slots, NEW c \in Callers, ReleaseSlot(s, c)
          PROVE  shutdown' = shutdown
      BY <3>1 DEF ReleaseSlot
    <3>. QED
      BY <1>2, <3>1 DEF SteadyNext, Register, Request, Release, RegisterModel,
           RegisterVersionLimit, Reject, Acquire, ReleaseCheck, ReleaseMark, vars
  <2>2. CASE Quiet
    <3>1. InFlight' = InFlight
      BY <2>2 DEF Quiet, InFlight
    <3>. QED BY <2>1, <3>1
  <2>3. ASSUME NEW m \in Models, NEW v \in Versions, NEW s \in Slots, Started(m, v, s)
        PROVE  Abstract!Admit(s)
    <3>1. ~shutdown /\ 10 * globalActive < 9 * GlobalLimit
      BY <2>3, ConcurrencyAssumption DEF Started, Decision, HardBackpressure
    <3>2. Cardinality(InFlight) < EffectiveCapacity
      <4>1. globalActive \in Nat /\ globalActive = Cardinality(InFlight)
        BY DEF GlobalCountExact
      <4>2. globalActive < EffectiveCapacity
        BY <3>1, <4>1, CapacityLeft
      <4>. QED BY <4>1, <4>2
    <3>3. s \notin InFlight /\ InFlight' = InFlight \cup {s}
      BY <2>3 DEF Started, AcquiredSlot, InFlight
    <3>4. Abstract!Cardinality(InFlight) = Cardinality(InFlight)
      BY DEF Abstract!Cardinality, Cardinality
    <3>. QED BY <2>1, <3>1, <3>2, <3>3, <3>4 DEF Abstract!Admit
  <2>4. ASSUME NEW s \in Slots, Finished(s)
        PROVE  Abstract!Leave(s)
    <3>1. s \in InFlight /\ InFlight' = InFlight \ {s}
      BY <2>4 DEF Finished, InFlight
    <3>. QED BY <2>1, <3>1 DEF Abstract!Leave
  <2>. QED BY <2>2, <2>3, <2>4, SteadyKinds DEF Abstract!Next
<1>. QED BY <1>1, <1>2

(* The manager implements the abstract admission counter.                  *)
THEOREM AdmissionImplemented == SteadySpec => ImplementsAdmission
<1>1. Init => Abstract!Init
  BY DEF Init, Abstract!Init, InFlight, FreeSlot
<1>2. SInv /\ [SteadyNext]_vars => [Abstract!Next]_<<InFlight, shutdown>>
  BY AbstractStep
<1>. QED BY <1>1, <1>2, SteadyInvariance, PTL DEF SteadySpec, ImplementsAdmission, Abstract!Spec
=============================================================================
