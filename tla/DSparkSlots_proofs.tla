-------------------------- MODULE DSparkSlots_proofs --------------------------
(* Proofs about the slot map, for every number of rings and requests.      *)
EXTENDS DSparkSlots, FiniteSetTheorems, TLAPS

(* The rows of a batch number at most MaxBatchSize distinct ids.           *)
LEMMA RowIdsFinite ==
  ASSUME NEW b \in Batches
  PROVE  /\ RowIds(b) \subseteq ReqIds
         /\ IsFiniteSet(RowIds(b))
         /\ Cardinality(RowIds(b)) <= MaxBatchSize
<1>1. PICK n \in 1 .. MaxBatchSize : b \in [1 .. n -> ReqIds]
  BY DEF Batches
<1>2. RowIds(b) \subseteq ReqIds
  BY <1>1 DEF RowIds
<1>3. /\ IsFiniteSet(1 .. n)
      /\ Cardinality(1 .. n) = n
  BY <1>1, FS_Interval, SlotAssumption
<1>4. /\ b \in Surjection(1 .. n, RowIds(b))
  BY <1>1 DEF RowIds, Surjection
<1>5. IsFiniteSet(RowIds(b)) /\ Cardinality(RowIds(b)) <= n
  BY <1>3, <1>4, FS_Surjection
<1> QED
  BY <1>2, <1>5, <1>1, FS_CardinalityType, SlotAssumption

(* The inductive invariant: the types, the partition, and that the rows of *)
(* the last call address distinct rings.                                   *)
IInv == TypeOK /\ SlotsPartition /\ RowsDistinct

LEMMA InitIInv == Init => IInv
BY SlotAssumption DEF Init, IInv, TypeOK, SlotsPartition, RowsDistinct, Assigned, Slots

(* A lowest-first pick never hands one slot to two ids.                    *)
LEMMA PickInjective ==
  ASSUME NEW b \in Batches, NEW live, live = RowIds(b),
         NEW free \in SUBSET Slots,
         NEW pick \in [NewIds(live) -> free], LowestFirst(pick, b, free),
         NEW q \in NewIds(live), NEW r \in NewIds(live), pick[q] = pick[r]
  PROVE  q = r
<1>1. PICK n \in 1 .. MaxBatchSize : b \in [1 .. n -> ReqIds]
  BY DEF Batches
<1>2. n \in Nat
  BY <1>1, SlotAssumption
<1>3. PICK i \in 1 .. n : b[i] = q
  BY <1>1 DEF NewIds, RowIds
<1>4. PICK j \in 1 .. n : b[j] = r
  BY <1>1 DEF NewIds, RowIds
<1>5. pick[q] \in Nat
  <2>1. pick \in [NewIds(live) -> free] /\ q \in NewIds(live)
    OBVIOUS
  <2>2. pick[q] \in free
    BY <2>1, Zenon
  <2>3. pick[q] \in Slots
    BY <2>2
  <2> QED
    BY <2>3, SlotAssumption DEF Slots
<1>6. CASE i = j
  BY <1>3, <1>4, <1>6
<1>7. CASE i < j
  <2>1. i \in 1 .. j - 1
    BY <1>2, <1>7
  <2>2. pick[b[i]] < pick[b[j]]
    BY <2>1, <1>1, <1>3, <1>4 DEF LowestFirst
  <2> QED
    BY <2>2, <1>3, <1>4, <1>5
<1>8. CASE j < i
  <2>1. j \in 1 .. i - 1
    BY <1>2, <1>8
  <2>2. pick[b[j]] < pick[b[i]]
    BY <2>1, <1>1, <1>3, <1>4 DEF LowestFirst
  <2> QED
    BY <2>2, <1>3, <1>4, <1>5
<1> QED
  BY <1>2, <1>6, <1>7, <1>8

(* One call of _row_to_slot keeps the invariant.                           *)
LEMMA RowToSlotIInv ==
  ASSUME IInv, NEW b \in Batches, RowToSlot(b)
  PROVE  IInv'
<1> DEFINE live == RowIds(b)
           new  == NewIds(live)
           free == FreeAfterReclaim(live)
<1>1. PICK n \in 1 .. MaxBatchSize :
         b \in [1 .. n -> ReqIds] /\ \A i, j \in 1 .. n : b[i] = b[j] => i = j
  BY DEF Batches
<1>2. PICK pick \in [new -> free] :
         /\ LowestFirst(pick, b, free)
         /\ slot_of' = [r \in ReqIds |->
                          IF r \in new THEN pick[r]
                          ELSE IF r \in live THEN slot_of[r] ELSE NoSlot]
         /\ free_slots' = free \ {pick[r] : r \in new}
         /\ slot_list' = [i \in DOMAIN b |-> slot_of'[b[i]]]
  BY DEF RowToSlot
<1>3. live \subseteq ReqIds /\ \A i \in 1 .. n : b[i] \in live
  BY <1>1 DEF RowIds
<1>4. free \subseteq Slots
  BY DEF IInv, TypeOK, FreeAfterReclaim, Assigned
<1>5. \A q, r \in new : pick[q] = pick[r] => q = r
  BY <1>2, <1>4, PickInjective
<1>6. NoSlot \notin Slots
  BY SlotAssumption DEF Slots
<1>7. \A r \in ReqIds :
        /\ r \in new => slot_of'[r] = pick[r] /\ pick[r] \in free
        /\ r \in live \ new => slot_of'[r] = slot_of[r] /\ slot_of[r] \in Slots
        /\ r \notin live => slot_of'[r] = NoSlot
  BY <1>2, <1>3 DEF NewIds, Assigned, IInv, TypeOK
<1>8. Assigned' = live
  BY <1>3, <1>4, <1>6, <1>7 DEF Assigned, NewIds
<1>9. \A r \in live \ new : slot_of[r] \notin free
  BY DEF IInv, SlotsPartition, FreeAfterReclaim, NewIds, Assigned
<1>10. TypeOK'
  <2>1. slot_of' \in [ReqIds -> Slots \cup {NoSlot}]
    BY <1>2, <1>4, <1>7
  <2>2. free_slots' \subseteq Slots
    BY <1>2, <1>4
  <2>3. slot_list' \in [1 .. n -> Slots]
    BY <1>1, <1>2, <1>3, <1>4, <1>7
  <2>4. slot_list' \in Seq(Slots)
    BY <2>3, <1>1, SlotAssumption
  <2> QED
    BY <2>1, <2>2, <2>4 DEF TypeOK
<1>11. SlotsPartition'
  <2>1. {slot_of'[r] : r \in Assigned'}
          = {pick[r] : r \in new} \cup {slot_of[r] : r \in live \ new}
    BY <1>3, <1>7, <1>8 DEF NewIds
  <2>2. free \cup {slot_of[r] : r \in live \ new} = Slots
    <3>1. SUFFICES ASSUME NEW s \in Slots
                   PROVE  s \in free \cup {slot_of[r] : r \in live \ new}
      BY <1>4, <1>7, <1>3
    <3>2. CASE s \in free_slots
      BY <3>2 DEF FreeAfterReclaim
    <3>3. CASE \E r \in Assigned : slot_of[r] = s
      BY <3>3 DEF FreeAfterReclaim, NewIds
    <3> QED
      BY <3>2, <3>3 DEF IInv, SlotsPartition
  <2>3. free_slots' \cap {slot_of'[r] : r \in Assigned'} = {}
    BY <2>1, <1>2, <1>9
  <2>4. free_slots' \cup {slot_of'[r] : r \in Assigned'} = Slots
    <3>1. {pick[r] : r \in new} \subseteq free
      BY <1>2
    <3>2. free_slots' \cup {pick[r] : r \in new} = free
      BY <3>1, <1>2
    <3> QED
      BY <3>2, <2>1, <2>2
  <2>5. \A q, r \in Assigned' : slot_of'[q] = slot_of'[r] => q = r
    <3>1. SUFFICES ASSUME NEW q \in live, NEW r \in live, slot_of'[q] = slot_of'[r]
                   PROVE  q = r
      BY <1>8
    <3>2. CASE q \in new /\ r \in new
      BY <3>1, <3>2, <1>3, <1>5, <1>7
    <3>3. CASE q \notin new /\ r \notin new
      <4>1. slot_of[q] = slot_of[r] /\ q \in Assigned /\ r \in Assigned
        BY <3>1, <3>3, <1>3, <1>7 DEF NewIds
      <4> QED
        BY <4>1 DEF IInv, SlotsPartition
    <3>4. CASE q \in new /\ r \notin new
      BY <3>1, <3>4, <1>3, <1>7, <1>9
    <3>5. CASE q \notin new /\ r \in new
      BY <3>1, <3>5, <1>3, <1>7, <1>9
    <3> QED
      BY <3>2, <3>3, <3>4, <3>5
  <2> QED
    BY <2>3, <2>4, <2>5 DEF SlotsPartition
<1>12. RowsDistinct'
  <2>1. \A i \in 1 .. n : slot_list'[i] = slot_of'[b[i]] /\ b[i] \in Assigned'
    BY <1>1, <1>2, <1>3, <1>8
  <2>2. DOMAIN slot_list' = 1 .. n
    BY <1>1, <1>2
  <2> QED
    BY <2>1, <2>2, <1>1, <1>11 DEF RowsDistinct, SlotsPartition
<1> QED
  BY <1>10, <1>11, <1>12 DEF IInv

LEMMA NextIInv == IInv /\ [Next]_slotVars => IInv'
<1>1. CASE UNCHANGED slotVars
  BY <1>1 DEF slotVars, IInv, TypeOK, SlotsPartition, RowsDistinct, Assigned
<1>2. ASSUME IInv, Next PROVE IInv'
  BY <1>2, RowToSlotIInv DEF Next
<1> QED
  BY <1>1, <1>2

(* Injections bound cardinalities: the assigned ids and the free slots     *)
(* together number MaxBatchSize.                                           *)
LEMMA FreeCount ==
  ASSUME IInv
  PROVE  /\ IsFiniteSet(Assigned) /\ IsFiniteSet(free_slots)
         /\ Cardinality(free_slots) + Cardinality(Assigned) = MaxBatchSize
<1> DEFINE used == {slot_of[r] : r \in Assigned}
           f    == [r \in Assigned |-> slot_of[r]]
<1>1. IsFiniteSet(Slots) /\ Cardinality(Slots) = MaxBatchSize
  BY FS_Interval, SlotAssumption DEF Slots
<1>2. used \subseteq Slots /\ free_slots \subseteq Slots
  BY DEF IInv, TypeOK, Assigned
<1>3. IsFiniteSet(used) /\ IsFiniteSet(free_slots)
  BY <1>1, <1>2, FS_Subset
<1>4. f \in Bijection(Assigned, used)
  BY DEF IInv, SlotsPartition, Bijection, Injection, IsInjective, Surjection
<1>5. f \in Injection(Assigned, used) /\ f \in Surjection(Assigned, used)
  BY <1>4 DEF Bijection
<1>6. IsFiniteSet(Assigned) /\ Cardinality(Assigned) = Cardinality(used)
  BY <1>3, <1>5, FS_Injection
<1>7. Cardinality(free_slots \cup used)
        = Cardinality(free_slots) + Cardinality(used) - Cardinality(free_slots \cap used)
  BY <1>3, FS_Union
<1>8. free_slots \cup used = Slots /\ free_slots \cap used = {}
  BY DEF IInv, SlotsPartition
<1>9. Cardinality({}) = 0
  BY FS_EmptySet
<1>10. Cardinality(free_slots) \in Nat /\ Cardinality(used) \in Nat
  BY <1>3, FS_CardinalityType
<1>11. MaxBatchSize = Cardinality(free_slots) + Cardinality(used) - 0
  BY <1>1, <1>7, <1>8, <1>9
<1>12. Cardinality(free_slots) + Cardinality(used) = MaxBatchSize
  BY <1>10, <1>11
<1> QED
  BY <1>3, <1>6, <1>12

(* Whatever batch comes next, the reclaimed slots suffice for its new ids. *)
LEMMA IInvEnough == IInv => EnoughSlots
<1> SUFFICES ASSUME IInv, NEW b \in Batches
             PROVE  Cardinality(NewIds(RowIds(b)))
                      <= Cardinality(FreeAfterReclaim(RowIds(b)))
  BY DEF EnoughSlots
<1> DEFINE live == RowIds(b)
           gone == Assigned \ live
           back == {slot_of[r] : r \in gone}
           f    == [r \in gone |-> slot_of[r]]
<1>1. /\ IsFiniteSet(Assigned) /\ IsFiniteSet(free_slots)
      /\ Cardinality(free_slots) + Cardinality(Assigned) = MaxBatchSize
  BY FreeCount
<1>2. IsFiniteSet(live) /\ Cardinality(live) <= MaxBatchSize
  BY RowIdsFinite
<1>3. IsFiniteSet(NewIds(live))
      /\ Cardinality(NewIds(live)) = Cardinality(live) - Cardinality(live \cap Assigned)
  BY <1>2, FS_Difference DEF NewIds
<1>4. IsFiniteSet(gone)
      /\ Cardinality(gone) = Cardinality(Assigned) - Cardinality(Assigned \cap live)
  BY <1>1, FS_Difference
<1>5. IsFiniteSet(back) /\ Cardinality(back) = Cardinality(gone)
  <2>1. f \in Surjection(gone, back)
    BY DEF Surjection
  <2>2. f \in Injection(gone, back)
    BY DEF Injection, IsInjective, IInv, SlotsPartition
  <2> QED
    BY <2>1, <2>2, <1>4, FS_Surjection
<1>6. free_slots \cap back = {}
  BY DEF IInv, SlotsPartition
<1>7. Cardinality(free_slots \cup back)
        = Cardinality(free_slots) + Cardinality(back) - Cardinality(free_slots \cap back)
  BY <1>1, <1>5, FS_Union
<1>8. FreeAfterReclaim(live) = free_slots \cup back
  BY DEF FreeAfterReclaim
<1>9. live \cap Assigned = Assigned \cap live
  OBVIOUS
<1>10. IsFiniteSet(Assigned \cap live)
  BY <1>1, FS_Subset
<1>11. /\ Cardinality({}) = 0
       /\ Cardinality(free_slots) \in Nat /\ Cardinality(Assigned) \in Nat
       /\ Cardinality(live) \in Nat /\ Cardinality(Assigned \cap live) \in Nat
       /\ Cardinality(back) \in Nat
  BY <1>1, <1>2, <1>5, <1>10, FS_CardinalityType, FS_EmptySet
<1>12. Cardinality(NewIds(live)) = Cardinality(live) - Cardinality(Assigned \cap live)
  BY <1>3, <1>9
<1>13. Cardinality(FreeAfterReclaim(live))
         = Cardinality(free_slots)
             + (Cardinality(Assigned) - Cardinality(Assigned \cap live)) - 0
  BY <1>4, <1>5, <1>6, <1>7, <1>8, <1>11
<1> HIDE DEF live
<1>14. Cardinality(NewIds(live)) <= Cardinality(FreeAfterReclaim(live))
  BY <1>1, <1>2, <1>11, <1>12, <1>13, SlotAssumption
<1> QED
  BY <1>14 DEF live

(* A call never moves a request that stays live to another slot.           *)
LEMMA StepStable ==
  ASSUME TypeOK, [Next]_slotVars, NEW r \in ReqIds,
         slot_of[r] # NoSlot, slot_of'[r] # NoSlot
  PROVE  slot_of'[r] = slot_of[r]
<1>1. CASE UNCHANGED slotVars
  BY <1>1 DEF slotVars
<1>2. ASSUME NEW b \in Batches, RowToSlot(b)
      PROVE  slot_of'[r] = slot_of[r]
  <2>1. r \notin NewIds(RowIds(b))
    BY DEF NewIds, Assigned
  <2> QED
    BY <1>2, <2>1 DEF RowToSlot
<1> QED
  BY <1>1, <1>2 DEF Next

(* The slot map is always well typed (_row_to_slot keeps slots in range).  *)
THEOREM SlotsTypeCorrect == Spec => []TypeOK
BY InitIInv, NextIInv, PTL DEF Spec, IInv

(* For any number of rings and requests, every slot is free or owned by    *)
(* exactly one request after any sequence of calls of _row_to_slot.        *)
THEOREM SlotsAlwaysPartitioned == Spec => []SlotsPartition
BY InitIInv, NextIInv, PTL DEF Spec, IInv

(* The slots one step writes through are distinct (store_main_kv).         *)
THEOREM RowsAlwaysDistinct == Spec => []RowsDistinct
BY InitIInv, NextIInv, PTL DEF Spec, IInv

(* `self._free_slots.pop(0)` never meets an empty list, for any number of  *)
(* rings and requests and any sequence of batches of at most that many.    *)
THEOREM FreeListNeverExhausted == Spec => []EnoughSlots
BY InitIInv, NextIInv, IInvEnough, PTL DEF Spec

(* All of it together, for any sizes.                                      *)
THEOREM SlotsAlwaysSound == Spec => []SlotsSound
BY SlotsTypeCorrect, SlotsAlwaysPartitioned, FreeListNeverExhausted, PTL DEF SlotsSound

(* A request keeps its ring while consecutive batches contain it.          *)
THEOREM SlotStableWhileBatched == Spec => StableWhileBatched
<1>1. TypeOK /\ [Next]_slotVars
        => [\A r \in ReqIds : slot_of[r] # NoSlot /\ slot_of'[r] # NoSlot
                                => slot_of'[r] = slot_of[r]]_slotVars
  BY StepStable
<1> QED
  BY <1>1, SlotsTypeCorrect, PTL DEF Spec, StableWhileBatched
=============================================================================
