----------------------------- MODULE DSparkSlots -----------------------------
(***************************************************************************)
(* The slot map of the DSpark draft proposer.                              *)
(*                                                                         *)
(* The draft model keeps one piece of state across engine steps, a ring    *)
(* buffer of projected KV rows (main_kv_cache, one ring per slot).  The    *)
(* proposer decides in _row_to_slot which slot a request owns: it reclaims *)
(* the slots of the ids that are not in the batch it is called with, and   *)
(* hands the lowest free slots to the ids it has not seen, in row order.   *)
(*                                                                         *)
(* _free_slots is a list that _row_to_slot sorts before it pops from its   *)
(* front and that nobody else touches, so it is modelled as a set.         *)
(***************************************************************************)
EXTENDS Naturals, Sequences, FiniteSets

CONSTANTS
  ReqIds,         \* request ids
  MaxBatchSize,   \* scheduler_config.max_num_seqs: rings in main_kv_cache
  NoSlot          \* what _req_id_to_slot.get(r) returns for an unknown r

ASSUME SlotAssumption ==
  /\ MaxBatchSize \in Nat \ {0}
  /\ NoSlot \notin Nat

VARIABLES
  slot_of,     \* _req_id_to_slot, extended with NoSlot to every request id
  free_slots,  \* _free_slots
  slot_list    \* what the last call of _row_to_slot returned, in row order

slotVars == <<slot_of, free_slots, slot_list>>

Slots == 0 .. MaxBatchSize - 1

(* The id lists a call can get: the rows of a persistent batch, which has  *)
(* at most max_num_seqs rows and holds an id once.                         *)
Batches ==
  {b \in UNION {[1 .. n -> ReqIds] : n \in 1 .. MaxBatchSize} :
      \A i, j \in DOMAIN b : b[i] = b[j] => i = j}

RowIds(b) == {b[i] : i \in DOMAIN b}

Assigned == {r \in ReqIds : slot_of[r] # NoSlot}

(* The slots to pop from once the ids that are not live are reclaimed.     *)
FreeAfterReclaim(live) ==
  free_slots \cup {slot_of[r] : r \in Assigned \ live}

Mut_AllRowsNew(live) == live  \* mutant: every call assigns every row afresh

NewIds(live) == live \ Assigned

(* pick gives the new ids of b the lowest slots of free, in row order.     *)
LowestFirst(pick, b, free) ==
  \A i \in DOMAIN b : b[i] \in DOMAIN pick =>
    /\ \A j \in 1 .. i - 1 : b[j] \in DOMAIN pick => pick[b[j]] < pick[b[i]]
    /\ \A s \in free : s < pick[b[i]] =>
         \E j \in 1 .. i - 1 : b[j] \in DOMAIN pick /\ pick[b[j]] = s

Init ==
  /\ slot_of = [r \in ReqIds |-> NoSlot]
  /\ free_slots = Slots
  /\ slot_list = <<>>

Mut_ReclaimKeepsEntry(b) ==  \* mutant: append(map[stale]) without the pop
  LET live == RowIds(b)
      free == FreeAfterReclaim(live)
  IN \E pick \in [NewIds(live) -> free] :
       /\ LowestFirst(pick, b, free)
       /\ slot_of' = [r \in ReqIds |->
                        IF r \in NewIds(live) THEN pick[r] ELSE slot_of[r]]
       /\ free_slots' = free \ {pick[r] : r \in NewIds(live)}
       /\ slot_list' = [i \in DOMAIN b |-> slot_of'[b[i]]]

RowToSlot(b) ==
  LET live == RowIds(b)
      free == FreeAfterReclaim(live)
  IN \E pick \in [NewIds(live) -> free] :
       /\ LowestFirst(pick, b, free)
       /\ slot_of' = [r \in ReqIds |->
                        IF r \in NewIds(live) THEN pick[r]
                        ELSE IF r \in live THEN slot_of[r] ELSE NoSlot]
       /\ free_slots' = free \ {pick[r] : r \in NewIds(live)}
       /\ slot_list' = [i \in DOMAIN b |-> slot_of'[b[i]]]

Next == \E b \in Batches : RowToSlot(b)

Spec == Init /\ [][Next]_slotVars

-----------------------------------------------------------------------------
(* The type invariant of the slot map.                                     *)
TypeOK ==
  /\ slot_of \in [ReqIds -> Slots \cup {NoSlot}]
  /\ free_slots \subseteq Slots
  /\ slot_list \in Seq(Slots)

(* Every slot is either free or owned by exactly one request: reclaiming   *)
(* and assigning in one call neither leaks a slot nor gives it twice, so   *)
(* two live requests never share a ring (_row_to_slot).                    *)
SlotsPartition ==
  /\ free_slots \cap {slot_of[r] : r \in Assigned} = {}
  /\ free_slots \cup {slot_of[r] : r \in Assigned} = Slots
  /\ \A q, r \in Assigned : slot_of[q] = slot_of[r] => q = r

(* Whatever batch comes next, the free list is long enough for the ids it  *)
(* brings: `self._free_slots.pop(0)` never raises IndexError, although the *)
(* map is not told when a request finishes.                                *)
EnoughSlots ==
  \A b \in Batches :
    Cardinality(NewIds(RowIds(b))) <= Cardinality(FreeAfterReclaim(RowIds(b)))

(* The rows of a step address distinct rings: the scatter of a step        *)
(* (index_copy_ on slot_index) has no duplicate index, whose winner would  *)
(* be undefined.                                                           *)
RowsDistinct ==
  \A i, j \in DOMAIN slot_list : slot_list[i] = slot_list[j] => i = j

(* A request keeps its ring for as long as consecutive batches contain it, *)
(* whatever row it is moved to.                                            *)
StableWhileBatched ==
  [][\A r \in ReqIds : slot_of[r] # NoSlot /\ slot_of'[r] # NoSlot
                         => slot_of'[r] = slot_of[r]]_slotVars

(* What a call of _row_to_slot can rely on and must leave behind: the three*)
(* invariants above together.                                              *)
SlotsSound == TypeOK /\ SlotsPartition /\ EnoughSlots
=============================================================================
