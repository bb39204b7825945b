-------------------------- MODULE WorkerCaches_proofs --------------------------
(* Proofs about the two caches that the worker keeps from step to step.      *)
(*                                                                           *)
(* The draft model's ring buffers (DSparkRing): for any number of requests   *)
(* and rings, any window, number of drafts and model length, the proposer    *)
(* never raises with the GPU mask and drafts from the request's own accepted *)
(* context.                                                                  *)
(*                                                                           *)
(* The encoder cache (EncoderCache), for any requests, items, sizes and      *)
(* number of steps in flight: the limits that the scheduler keeps for the    *)
(* worker are never exceeded and, under "fcfs", the target finds what it     *)
(* looks up.                                                                 *)
EXTENDS DSparkRing, EncoderCache, DataLemmas

(* What is proved of the slot map, for the variables of this module.       *)
SlotP == INSTANCE DSparkSlots_proofs

(* The slot map after any step: typed, and every row has a ring of its own.*)
SlotsOK == Slot!TypeOK /\ Slot!SlotsPartition /\ Slot!RowsDistinct

(* Every step of the engine maps to a call of _row_to_slot or leaves the   *)
(* slot map alone.                                                         *)
LEMMA StepIsSlotStep ==
  ASSUME [Next]_vars
  PROVE  (\E b \in Slot!Batches : Slot!RowToSlot(b)) \/ UNCHANGED slotVars
<1>1. CASE StepDrafted
  BY <1>1 DEF StepDrafted, Propose, StepBatches
<1>2. CASE StepSkipped
  BY <1>2 DEF StepSkipped
<1>3. ASSUME NEW r \in ReqIds, Preempt(r) \/ Finish(r)
      PROVE  UNCHANGED slotVars
  BY <1>3 DEF Preempt, Finish
<1>4. CASE UNCHANGED vars
  BY <1>4 DEF vars
<1> QED  BY <1>1, <1>2, <1>3, <1>4 DEF Next

(* So the invariants of DSparkSlots, proved for every number of slots, hold  *)
(* of the slot map while the engine steps.                                   *)
LEMMA SlotsAlwaysOK == Spec => []SlotsOK
<1> DEFINE I == SlotP!IInv
<1>1. SlotP!SlotAssumption
  BY RingAssumption DEF SlotP!SlotAssumption
<1>2. Init => I
  <2>1. Init => SlotP!Init
    BY DEF Init, Slot!Init, SlotP!Init, Slot!Slots, SlotP!Slots
  <2> QED  BY <1>1, <2>1, SlotP!InitIInv
<1>3. I /\ [Next]_vars => I'
  <2>1. [Next]_vars => [SlotP!Next]_(SlotP!slotVars)
    BY StepIsSlotStep
    DEF SlotP!Next, slotVars, SlotP!slotVars, Slot!Batches, SlotP!Batches,
        Slot!RowToSlot, SlotP!RowToSlot, Slot!RowIds, SlotP!RowIds,
        Slot!NewIds, SlotP!NewIds, Slot!FreeAfterReclaim, SlotP!FreeAfterReclaim,
        Slot!Assigned, SlotP!Assigned, Slot!LowestFirst, SlotP!LowestFirst
  <2> QED  BY <1>1, <2>1, SlotP!NextIInv
<1>4. I => SlotsOK
  BY DEF SlotsOK, SlotP!IInv, SlotP!TypeOK, Slot!TypeOK, SlotP!SlotsPartition,
     Slot!SlotsPartition, SlotP!RowsDistinct, Slot!RowsDistinct,
     Slot!Assigned, SlotP!Assigned, Slot!Slots, SlotP!Slots
<1> HIDE DEF I
<1> QED  BY <1>2, <1>3, <1>4, PTL DEF Spec

-----------------------------------------------------------------------------
(* Rows of a request from position start on, the first good of them of     *)
(* accepted tokens.                                                        *)
Rows(r, start, len, good) ==
  [o \in 1 .. len |-> [req |-> r, pos |-> start + o - 1, ok |-> o <= good]]

LEMMA RowsType ==
  ASSUME NEW r \in ReqIds, NEW start \in Nat, NEW len \in Nat, NEW good \in Nat
  PROVE  Rows(r, start, len, good) \in Seq(RowType) /\ Len(Rows(r, start, len, good)) = len
<1>1. \A o \in 1 .. len :
        [req |-> r, pos |-> start + o - 1, ok |-> o <= good] \in RowType
  BY DEF RowType
<1> QED  BY <1>1 DEF Rows

(* What a store of rows up to position hi, from position start on, makes   *)
(* of a ring: the last Window positions are those of r, and older ones     *)
(* that are still within the window stay.                                  *)
SegmentStored(old, new, r, start, hi) ==
  /\ new \in [0 .. Window - 1 -> RowType]
  /\ \A p \in start .. hi - 1 : hi <= p + Window => new[p % Window] = Expected(r, p)
  /\ \A p \in 0 .. start - 1 : hi <= p + Window => new[p % Window] = old[p % Window]

(* One row's store.  With at most Window rows kept, and everything kept    *)
(* when nothing is rejected, the ring holds the accepted rows.             *)
LEMMA StoreSegmentEffect ==
  ASSUME GpuMask, NEW r \in ReqIds, NEW start \in Nat, NEW len \in Nat,
         NEW rej \in Nat, rej + 1 <= len, rej > 0 => len <= Window,
         NEW old \in [0 .. Window - 1 -> RowType],
         NEW seg, seg = Rows(r, start, len, len - rej),
         NEW hi, hi = start + len - rej
  PROVE  SegmentStored(old, StoreSegment(old, seg, rej), r, start, hi)
<1> DEFINE drop == IF Len(seg) > Window THEN Len(seg) - Window ELSE 0
           kept == SubSeq(seg, drop + 1, Len(seg))
           valid == 1 .. ValidLen(Len(kept), rej)
           into(e) == {o \in valid : kept[o].pos % Window = e}
           new == StoreSegment(old, seg, rej)
<1>0. len - rej \in Nat
  OBVIOUS
<1>1. /\ Window \in Nat \ {0} /\ hi \in Nat /\ Len(seg) = len
      /\ seg \in Seq(RowType)
  <2>1. Window \in Nat \ {0} /\ hi \in Nat
    BY <1>0, RingAssumption
  <2>2. Len(seg) = len /\ seg \in Seq(RowType)
    BY <1>0, RowsType
  <2> QED  BY <2>1, <2>2
<1>2. /\ drop \in 0 .. len - 1 /\ len - drop <= Window
      /\ rej > 0 => drop = 0
  BY <1>1
<1>4. new = [e \in 0 .. Window - 1 |->
               IF into(e) = {} THEN old[e]
               ELSE kept[CHOOSE o \in into(e) : \A p \in into(e) : p <= o]]
  BY DEF StoreSegment
<1> HIDE DEF drop
<1>3. /\ Len(kept) = len - drop
      /\ \A o \in 1 .. len - drop :
           kept[o] = [req |-> r, pos |-> start + drop + o - 1, ok |-> drop + o <= len - rej]
  <2>1. /\ Len(kept) = len - drop
        /\ \A o \in 1 .. len - drop : kept[o] = seg[drop + o]
    <3>1. drop \in 0 .. Len(seg)
      BY <1>1, <1>2
    <3> QED  BY <1>1, <3>1, LastRows
  <2>2. \A o \in 1 .. len - drop :
          seg[drop + o] = [req |-> r, pos |-> start + drop + o - 1,
                           ok |-> drop + o <= len - rej]
    <3> SUFFICES ASSUME NEW o \in 1 .. len - drop
                 PROVE  seg[drop + o] = [req |-> r, pos |-> start + drop + o - 1,
                                         ok |-> drop + o <= len - rej]
      OBVIOUS
    <3>1. drop + o \in 1 .. len /\ start + (drop + o) - 1 = start + drop + o - 1
      BY <1>2
    <3> QED  BY <3>1 DEF Rows
  <2> HIDE DEF kept
  <2> QED  BY <2>1, <2>2
<1>5. valid = 1 .. len - drop - rej /\ valid \subseteq 1 .. len - drop
  <2> DEFINE n == len - drop
  <2>1. ValidLen(n, rej) = Bound(n - rej, 1, n)
    BY DEF ValidLen
  <2>2. n \in Nat /\ rej + 1 <= n
    BY <1>2
  <2> HIDE DEF n
  <2>3. Bound(n - rej, 1, n) = n - rej
    BY <2>2 DEF Bound
  <2>4. valid = 1 .. n - rej
    BY <1>3, <2>1, <2>3 DEF n
  <2> HIDE DEF valid
  <2> QED  BY <2>2, <2>4 DEF n
<1> HIDE DEF kept, valid, new
<1>6. ASSUME NEW o \in valid
      PROVE  /\ kept[o] = Expected(r, start + drop + o - 1)
             /\ start + drop + o - 1 \in start .. hi - 1
             /\ hi <= (start + drop + o - 1) + Window
  <2>1. o \in 1 .. len - drop /\ o <= len - drop - rej
    BY <1>2, <1>5
  <2>2. kept[o] = [req |-> r, pos |-> start + drop + o - 1, ok |-> drop + o <= len - rej]
    BY <1>3, <2>1
  <2>3. drop + o <= len - rej /\ start + drop + o - 1 \in start .. hi - 1
        /\ hi <= (start + drop + o - 1) + Window
    BY <1>1, <1>2, <2>1
  <2> QED  BY <2>2, <2>3 DEF Expected
<1>7. ASSUME NEW o \in valid, NEW p \in Nat, p < hi, hi <= p + Window,
             kept[o].pos % Window = p % Window
      PROVE  p = start + drop + o - 1
  <2> DEFINE q == start + drop + o - 1
  <2>1. q \in Nat /\ q < hi /\ kept[o].pos = q /\ hi <= q + Window
    <3>1. kept[o] = Expected(r, q) /\ q \in start .. hi - 1 /\ hi <= q + Window
      BY <1>6
    <3> HIDE DEF q
    <3> QED  BY <1>1, <3>1 DEF Expected
  <2> HIDE DEF q
  <2>2. CASE q < p
    <3>1. p - q < Window
      BY <1>1, <1>7, <2>1
    <3> QED  BY <1>1, <1>7, <2>1, <2>2, <3>1, CloseNumbersDiffer
  <2>3. CASE p < q
    <3>1. q - p < Window
      BY <1>1, <1>7, <2>1
    <3>2. p % Window # q % Window
      BY <1>1, <2>1, <2>3, <3>1, CloseNumbersDiffer
    <3> QED  BY <1>7, <2>1, <3>2
  <2> QED  BY <1>7, <2>1, <2>2, <2>3 DEF q
<1>8. ASSUME NEW p \in start .. hi - 1, hi <= p + Window
      PROVE  new[p % Window] = Expected(r, p)
  <2> DEFINE o == p - start - drop + 1
             e == p % Window
  <2>1. o \in valid /\ p = start + drop + o - 1 /\ p \in Nat
    BY <1>1, <1>2, <1>5, <1>8
  <2>2. e \in 0 .. Window - 1
    BY <1>1, <2>1
  <2>3. kept[o].pos % Window = e /\ kept[o] = Expected(r, p)
    BY <1>6, <2>1 DEF Expected
  <2>4. ASSUME NEW x \in valid, kept[x].pos % Window = e PROVE x = o
    <3>1. p \in Nat /\ p < hi
      BY <1>1, <1>2, <1>8, <2>1
    <3>2. p = start + drop + x - 1
      BY <1>7, <1>8, <2>4, <3>1
    <3>3. x \in Int /\ start \in Int /\ drop \in Int
      BY <1>2, <1>5
    <3> HIDE DEF drop, e
    <3> QED  BY <3>2, <3>3
  <2> HIDE DEF o, e
  <2>5. into(e) = {o}
    BY <2>1, <2>3, <2>4
  <2>6. (CHOOSE x \in into(e) : \A y \in into(e) : y <= x) = o
    <3>1. o \in Int
      BY <2>1, <1>5
    <3>2. \E x \in {o} : \A y \in {o} : y <= x
      BY <3>1
    <3> HIDE DEF into
    <3> QED  BY <2>5, <3>2
  <2> HIDE DEF into
  <2>7. new[e] = kept[o]
    BY <1>4, <2>2, <2>5, <2>6
  <2> QED  BY <2>3, <2>7 DEF e
<1>9. ASSUME NEW p \in 0 .. start - 1, hi <= p + Window
      PROVE  new[p % Window] = old[p % Window]
  <2>1. p \in Nat /\ p % Window \in 0 .. Window - 1
    BY <1>1
  <2>2. into(p % Window) = {}
    <3>1. ASSUME NEW o \in into(p % Window) PROVE FALSE
      <4>1. p < hi
        BY <1>1
      <4>2. p = start + drop + o - 1
        BY <1>7, <1>9, <2>1, <4>1
      <4> QED  BY <1>2, <1>5, <4>2
    <3> QED  BY <3>1
  <2> HIDE DEF into
  <2> QED  BY <1>4, <2>1, <2>2
<1>10. new \in [0 .. Window - 1 -> RowType]
  <2> SUFFICES ASSUME NEW e \in 0 .. Window - 1 PROVE new[e] \in RowType
    BY <1>4
  <2>1. CASE into(e) = {}
    BY <1>4, <2>1
  <2>2. CASE into(e) # {}
    <3>1. PICK o \in valid : kept[o].pos % Window = e
      BY <2>2
    <3>2. new[e] = kept[o]
      <4> DEFINE p == start + drop + o - 1
      <4>1. p \in start .. hi - 1 /\ kept[o] = Expected(r, p)
        BY <1>6
      <4>2. hi <= p + Window
        BY <1>6
      <4>3. kept[o].pos = p
        BY <4>1 DEF Expected
      <4> HIDE DEF p
      <4>4. new[p % Window] = Expected(r, p)
        BY <1>8, <4>1, <4>2
      <4> QED  BY <3>1, <4>1, <4>3, <4>4
    <3>3. start + drop + o - 1 \in Nat /\ kept[o] = Expected(r, start + drop + o - 1)
      BY <1>1, <1>6
    <3>4. Expected(r, start + drop + o - 1) \in RowType
      BY <3>3 DEF Expected, RowType
    <3> QED  BY <3>2, <3>3, <3>4
  <2> QED  BY <2>1, <2>2
<1> QED  BY <1>8, <1>9, <1>10 DEF new, SegmentStored

-----------------------------------------------------------------------------
(* With the GPU mask, prepare_context gives each request its own rows back *)
(* and does not raise, whatever the lengths of the segments and whether or *)
(* not a draft was rejected.                                               *)
LEMMA ContextIsSegments ==
  ASSUME GpuMask, NEW S, NEW n \in Nat, n # 0, NEW segs \in Segments(S, n), NEW rej
  PROVE  ContextRows(segs, rej) = segs /\ ~ContextError(segs, rej)
<1>1. CASE ~Uniform(segs)
  BY <1>1 DEF ContextRows, ContextError, Ragged
<1>2. CASE Uniform(segs)
  <2> DEFINE w == Len(segs[1])
             flat == FlattenSeq(segs)
  <2>0. DOMAIN segs = 1 .. n /\ Len(segs) = n /\ \A i \in 1 .. n : segs[i] \in Seq(S)
    BY DEF Segments
  <2>1. w \in Nat /\ OfLength(segs, n, w)
    <3>1. 1 \in 1 .. n
      OBVIOUS
    <3>2. segs[1] \in Seq(S)
      BY <2>0, <3>1
    <3>3. \A i \in 1 .. n : Len(segs[i]) = Len(segs[1])
      BY <1>2, <2>0, <3>1 DEF Uniform
    <3> QED  BY <3>2, <3>3 DEF OfLength
  <2> HIDE DEF w
  <2>2. Len(flat) = n * w
    <3>1. EvenRows(flat, segs, S, n, w)
      BY <2>1, FlattenEven
    <3> QED  BY <3>1 DEF EvenRows
  <2>3. \A i \in 1 .. n : SubSeq(flat, (i - 1) * w + 1, i * w) = segs[i]
    <3> SUFFICES ASSUME NEW i \in 1 .. n
                 PROVE  SubSeq(flat, (i - 1) * w + 1, i * w) = segs[i]
      OBVIOUS
    <3> QED  BY <2>1, CutEven
  <2>4. (n * w) \div n = w /\ (n * w) % n = 0
    <3>1. n * w = w * n + 0 /\ n \in Nat \ {0} /\ 0 \in 0 .. n - 1
      BY <2>1
    <3> QED  BY <2>1, <3>1, Unique
  <2> HIDE DEF flat
  <2>5. Rectangle(segs) = segs
    <3>1. Rectangle(segs) = [i \in 1 .. n |-> SubSeq(flat, (i - 1) * w + 1, i * w)]
      BY <2>0, <2>2, <2>4 DEF Rectangle, flat
    <3>2. Rectangle(segs) = [i \in 1 .. n |-> segs[i]]
      BY <2>3, <3>1
    <3> QED  BY <2>0, <3>2 DEF Segments
  <2>6. Len(FlattenSeq(segs)) % Len(segs) = 0
    BY <2>0, <2>2, <2>4 DEF flat
  <2>7. ContextRows(segs, rej) = segs
    BY <1>2, <2>5 DEF ContextRows, Ragged
  <2>8. ~ContextError(segs, rej)
    BY <2>6 DEF ContextError
  <2> QED  BY <2>7, <2>8
<1> QED  BY <1>1, <1>2

-----------------------------------------------------------------------------
(* The inductive invariant.  A request that holds drafts has exactly one   *)
(* known token to compute, so that a step with a rejection is a decode of  *)
(* at most NumSpec + 1 rows: the ring never drops an accepted row for a    *)
(* rejected one.  A row that was drafted from is the last one stored for   *)
(* its request, in the ring that the row's request owns.                   *)
Types ==
  /\ TypeOK
  /\ stored \in [ReqIds -> [from : Nat, to : Nat]]

DraftsReady ==
  \A r \in drafts : status[r] = "running" /\ tokens[r] = computed[r] + 1

AnchorsLinked ==
  anchor # <<>> =>
    /\ batch \in Slot!Batches
    /\ DOMAIN anchor = DOMAIN batch
    /\ slot_list = [i \in DOMAIN batch |-> slot_of[batch[i]]]
    /\ \A i \in DOMAIN anchor :
         slot_of[batch[i]] # NoSlot /\ anchor[i].pos + 1 = stored[batch[i]].to

IInv ==
  /\ Types /\ ~raised
  /\ DraftsReady
  /\ AnchorsLinked
  /\ RingHoldsStoredSuffix
  /\ AnchorIsLastAccepted

LEMMA InitIInv == Init => IInv
<1> SUFFICES ASSUME Init PROVE IInv
  OBVIOUS
<1> USE DEF Init
<1>1. Slot!TypeOK /\ \A r \in ReqIds : slot_of[r] = NoSlot
  BY RingAssumption DEF Slot!Init, Slot!TypeOK, Slot!Slots
<1>2. Types
  <2>1. ring \in [Slots -> [0 .. Window - 1 -> RowType]]
    BY DEF Zero, RowType
  <2>2. anchor \in Seq(RowType)
    BY EmptySeq
  <2>3. tokens \in [ReqIds -> 0 .. MaxModelLen] /\ computed \in [ReqIds -> 0 .. MaxModelLen]
    <3>1. Prompts \subseteq 0 .. MaxModelLen /\ 0 \in 0 .. MaxModelLen
      BY ONLY RingAssumption
    <3>2. tokens \in [ReqIds -> Prompts] /\ computed = [r \in ReqIds |-> 0]
      OBVIOUS
    <3> QED  BY ONLY <3>1, <3>2
  <2> QED  BY <1>1, <2>1, <2>2, <2>3 DEF Types, TypeOK
<1>3. DraftsReady /\ AnchorsLinked
  BY DEF DraftsReady, AnchorsLinked
<1>4. RingHoldsStoredSuffix
  BY <1>1 DEF RingHoldsStoredSuffix
<1>5. AnchorIsLastAccepted
  BY DEF AnchorIsLastAccepted
<1> QED  BY <1>2, <1>3, <1>4, <1>5 DEF IInv

(* What a piece of work of a step can be.                                  *)
LEMMA WorkFacts ==
  ASSUME Types, DraftsReady, NEW r \in ReqIds, NEW w \in Work(r)
  PROVE  /\ w.start \in Nat /\ w.len \in Nat /\ w.spec \in Nat /\ w.rej \in Nat
         /\ w.rej <= w.spec /\ w.spec + 1 <= w.len
         /\ w.start + w.len <= tokens[r] + w.spec
         /\ tokens[r] + w.spec < MaxModelLen /\ tokens[r] \in 0 .. MaxModelLen
         /\ w.rej > 0 => w.len <= Window
         /\ status[r] # "finished"
<1>1. /\ tokens[r] \in 0 .. MaxModelLen /\ computed[r] \in 0 .. MaxModelLen
      /\ status[r] \in {"waiting", "running", "finished"}
      /\ MaxModelLen \in Nat /\ NumSpec \in Nat /\ Window \in Nat /\ Window > NumSpec
  BY RingAssumption DEF Types, TypeOK
<1>2. /\ w.start \in (IF status[r] = "waiting" THEN PrefixHits ELSE {computed[r]})
      /\ w.len \in 1 .. tokens[r] - computed[r] + NumSpec
      /\ w.spec \in 0 .. NumSpec /\ w.rej \in 0 .. NumSpec
      /\ status[r] # "finished" /\ w.start < tokens[r] /\ w.rej <= w.spec
      /\ w.len - w.spec \in 1 .. tokens[r] - w.start
      /\ w.spec > 0 => r \in drafts /\ Samples(r, w)
      /\ WithinModelLen(r, w.spec)
  BY DEF Work
<1> HIDE DEF Work
<1>3. w.start \in Nat
  <2>1. PrefixHits \subseteq Nat /\ computed[r] \in Nat
    BY <1>1, RingAssumption
  <2>2. w.start \in PrefixHits \/ w.start = computed[r]
    BY <1>2
  <2> QED  BY <2>1, <2>2
<1>4. w.rej > 0 => w.len <= Window
  <2> SUFFICES ASSUME w.rej > 0 PROVE w.len <= Window
    OBVIOUS
  <2>1. r \in drafts /\ w.start + w.len - w.spec = tokens[r]
    BY <1>1, <1>2 DEF Samples
  <2>2. status[r] = "running" /\ tokens[r] = computed[r] + 1
    BY <2>1 DEF DraftsReady
  <2>3. w.start = computed[r]
    BY <1>2, <2>2
  <2> QED  BY <1>1, <1>2, <2>1, <2>2, <2>3
<1> QED  BY <1>1, <1>2, <1>3, <1>4 DEF WithinModelLen

-----------------------------------------------------------------------------
(* The batch of a step, and the work of its rows.                          *)
LEMMA BatchFacts ==
  ASSUME NEW b \in Slot!Batches, NEW work \in Plans(b)
  PROVE  \E n \in Nat :
           /\ n # 0 /\ b \in [1 .. n -> ReqIds] /\ DOMAIN work = 1 .. n
           /\ \A i, j \in 1 .. n : b[i] = b[j] => i = j
           /\ Slot!RowIds(b) = {b[i] : i \in 1 .. n}
           /\ \A i \in 1 .. n : work[i] \in Work(b[i])
<1>1. PICK n \in 1 .. MaxBatchSize :
        b \in [1 .. n -> ReqIds] /\ \A i, j \in 1 .. n : b[i] = b[j] => i = j
  BY DEF Slot!Batches
<1>2. n \in Nat /\ n # 0 /\ DOMAIN b = 1 .. n
  BY <1>1, RingAssumption
<1>3. DOMAIN work = 1 .. n /\ \A i \in 1 .. n : work[i] \in Work(b[i])
  <2> DEFINE pieces == UNION {{i} \X Work(b[i]) : i \in DOMAIN b}
  <2>1. DOMAIN work = 1 .. n /\ \A i \in 1 .. n : <<i, work[i]>> \in pieces
    BY <1>2 DEF Plans
  <2>2. ASSUME NEW i \in 1 .. n PROVE work[i] \in Work(b[i])
    <3>1. PICK j \in DOMAIN b : <<i, work[i]>> \in {j} \X Work(b[j])
      BY <2>1
    <3> QED  BY <3>1
  <2> QED  BY <2>1, <2>2
<1> QED  BY <1>1, <1>2, <1>3 DEF Slot!RowIds

(* Where the row of a request is, among rows that hold a request once.     *)
LEMMA RowOf ==
  ASSUME NEW n \in Nat, NEW b \in [1 .. n -> ReqIds],
         \A i, j \in 1 .. n : b[i] = b[j] => i = j, NEW i \in 1 .. n
  PROVE  (CHOOSE j \in DOMAIN b : b[j] = b[i]) = i
OBVIOUS

(* What a step does to the scheduler's view of the requests.               *)
Advanced(b, work) ==
  /\ tokens' \in [ReqIds -> 0 .. MaxModelLen]
  /\ computed' \in [ReqIds -> 0 .. MaxModelLen]
  /\ status' \in [ReqIds -> {"waiting", "running", "finished"}]
  /\ drafts' \subseteq ReqIds /\ batch' = b
  /\ DraftsReady'
  /\ \A i \in DOMAIN b : computed'[b[i]] = work[i].start + work[i].len - work[i].rej

LEMMA AdvanceEffect ==
  ASSUME Types, DraftsReady, NEW b \in Slot!Batches, NEW work \in Plans(b), Advance(b, work)
  PROVE  Advanced(b, work)
<1>1. PICK n \in Nat :
        /\ n # 0 /\ b \in [1 .. n -> ReqIds] /\ DOMAIN work = 1 .. n
        /\ \A i, j \in 1 .. n : b[i] = b[j] => i = j
        /\ Slot!RowIds(b) = {b[i] : i \in 1 .. n}
        /\ \A i \in 1 .. n : work[i] \in Work(b[i])
  BY BatchFacts
<1> DEFINE drawn == Slot!RowIds(b)
           row(r) == CHOOSE i \in DOMAIN b : b[i] = r
<1>2. \A i \in 1 .. n : row(b[i]) = i
  BY <1>1, RowOf
<1>3. /\ computed' = [r \in ReqIds |->
            IF r \in drawn THEN work[row(r)].start + work[row(r)].len - work[row(r)].rej
            ELSE computed[r]]
      /\ tokens' = [r \in ReqIds |->
            IF r \in drawn /\ Samples(r, work[row(r)])
            THEN tokens[r] + work[row(r)].spec - work[row(r)].rej + 1 ELSE tokens[r]]
      /\ drafts' = (drafts \ drawn) \cup {r \in drawn : Samples(r, work[row(r)])}
      /\ status' = [r \in ReqIds |-> IF r \in drawn THEN "running" ELSE status[r]]
      /\ batch' = b
  BY DEF Advance
<1> HIDE DEF row, drawn
<1>4. \A r \in drawn : \E i \in 1 .. n : r = b[i] /\ r \in ReqIds
  BY <1>1 DEF drawn
<1>5. \A i \in 1 .. n : b[i] \in drawn /\ b[i] \in ReqIds
  BY <1>1 DEF drawn
<1>6. /\ tokens \in [ReqIds -> 0 .. MaxModelLen] /\ computed \in [ReqIds -> 0 .. MaxModelLen]
      /\ status \in [ReqIds -> {"waiting", "running", "finished"}]
      /\ drafts \subseteq ReqIds
  BY DEF Types, TypeOK
<1>7. ASSUME NEW i \in 1 .. n
      PROVE  /\ work[i].start \in Nat /\ work[i].len \in Nat /\ work[i].spec \in Nat
             /\ work[i].rej \in Nat /\ work[i].rej <= work[i].spec
             /\ work[i].spec + 1 <= work[i].len
             /\ work[i].start + work[i].len <= tokens[b[i]] + work[i].spec
             /\ tokens[b[i]] + work[i].spec < MaxModelLen
             /\ tokens[b[i]] \in 0 .. MaxModelLen
  <2>1. work[i] \in Work(b[i]) /\ b[i] \in ReqIds
    BY <1>1
  <2> HIDE DEF Work
  <2> QED  BY <2>1, WorkFacts
<1>8. ASSUME NEW i \in 1 .. n
      PROVE  /\ computed'[b[i]] = work[i].start + work[i].len - work[i].rej
             /\ tokens'[b[i]] = IF Samples(b[i], work[i])
                               THEN tokens[b[i]] + work[i].spec - work[i].rej + 1
                               ELSE tokens[b[i]]
             /\ status'[b[i]] = "running"
             /\ b[i] \in drafts' => Samples(b[i], work[i])
  BY <1>2, <1>3, <1>5
<1>9. ASSUME NEW r \in ReqIds, r \notin drawn
      PROVE  /\ computed'[r] = computed[r] /\ tokens'[r] = tokens[r]
             /\ status'[r] = status[r]
             /\ r \in drafts' => r \in drafts
  BY <1>3, <1>9
<1>10. ASSUME NEW i \in 1 .. n
       PROVE  computed'[b[i]] \in 0 .. MaxModelLen /\ tokens'[b[i]] \in 0 .. MaxModelLen
  <2>1. MaxModelLen \in Nat
    BY RingAssumption
  <2>2. computed'[b[i]] \in 0 .. MaxModelLen
    BY <1>7, <1>8, <2>1
  <2>3. tokens'[b[i]] \in 0 .. MaxModelLen
    BY <1>7, <1>8, <2>1
  <2> QED  BY <2>2, <2>3
<1>11. \A r \in ReqIds : computed'[r] \in 0 .. MaxModelLen /\ tokens'[r] \in 0 .. MaxModelLen
  BY <1>4, <1>6, <1>9, <1>10
<1>12. tokens' \in [ReqIds -> 0 .. MaxModelLen] /\ computed' \in [ReqIds -> 0 .. MaxModelLen]
  BY <1>3, <1>11
<1>13. status' \in [ReqIds -> {"waiting", "running", "finished"}]
  BY <1>3, <1>6
<1>14. drafts' \subseteq ReqIds
  BY <1>3, <1>4, <1>6
<1>15. DraftsReady'
  <2> SUFFICES ASSUME NEW r \in drafts'
               PROVE  status'[r] = "running" /\ tokens'[r] = computed'[r] + 1
    BY DEF DraftsReady
  <2>1. CASE r \in drawn
    <3>1. PICK i \in 1 .. n : r = b[i]
      BY <1>4, <2>1
    <3>2. Samples(b[i], work[i])
      BY <1>8, <3>1
    <3>3. work[i].start + work[i].len - work[i].spec = tokens[b[i]]
      BY <3>2 DEF Samples
    <3>4. tokens'[b[i]] = computed'[b[i]] + 1
      BY <1>7, <1>8, <3>2, <3>3
    <3> QED  BY <1>8, <3>1, <3>4
  <2>2. CASE r \notin drawn
    <3>1. r \in ReqIds /\ r \in drafts
      BY <1>9, <1>14, <2>2
    <3> QED  BY <1>9, <2>2, <3>1 DEF DraftsReady
  <2> QED  BY <2>1, <2>2
<1> QED  BY <1>1, <1>3, <1>8, <1>12, <1>13, <1>14, <1>15 DEF Advanced

(* The position behind the last accepted row of a piece of work.           *)
End(w) == w.start + w.len - w.rej

(* What a call of the proposer does, when the slot map it leaves is sound: *)
(* each row's segment goes to the ring its request owns, and to no other.  *)
Proposed(b, work) ==
  /\ raised' = FALSE /\ prefilled' \in BOOLEAN
  /\ slot_list' = [i \in DOMAIN b |-> slot_of'[b[i]]]
  /\ \A i \in DOMAIN b : slot_of'[b[i]] \in Slots
  /\ \A r \in ReqIds \ Slot!RowIds(b) : slot_of'[r] = NoSlot
  /\ ring' = [s \in Slots |-> ring'[s]]
  /\ \A s \in Slots : ring'[s] = ring[s] \/ \E i \in DOMAIN b : slot_of'[b[i]] = s
  /\ \A i \in DOMAIN b :
       ring'[slot_of'[b[i]]] =
         StoreSegment(ring[slot_of'[b[i]]],
                      Rows(b[i], work[i].start, work[i].len, work[i].len - work[i].rej),
                      work[i].rej)
  /\ anchor' = <<>> \/
     anchor' = [i \in DOMAIN b |->
                  Expected(b[i], End(work[i]) - 1)]

LEMMA ProposeEffect ==
  ASSUME GpuMask, Types, DraftsReady, SlotsOK',
         NEW b \in Slot!Batches, NEW work \in Plans(b), Propose(b, work)
  PROVE  Proposed(b, work)
<1>1. PICK n \in Nat :
        /\ n # 0 /\ b \in [1 .. n -> ReqIds] /\ DOMAIN work = 1 .. n
        /\ \A i, j \in 1 .. n : b[i] = b[j] => i = j
        /\ Slot!RowIds(b) = {b[i] : i \in 1 .. n}
        /\ \A i \in 1 .. n : work[i] \in Work(b[i])
  BY BatchFacts
<1> DEFINE segs == [i \in DOMAIN b |-> Segment(b[i], work[i])]
           rej  == [i \in DOMAIN b |-> work[i].rej]
           drawn == ContextRows(segs, rej)
<1>2. ASSUME NEW i \in 1 .. n
      PROVE  /\ b[i] \in ReqIds
             /\ work[i].start \in Nat /\ work[i].len \in Nat /\ work[i].rej \in Nat
             /\ work[i].rej + 1 <= work[i].len
             /\ segs[i] = Rows(b[i], work[i].start, work[i].len, work[i].len - work[i].rej)
             /\ rej[i] = work[i].rej
             /\ work[i].len - work[i].rej \in 1 .. work[i].len
             /\ segs[i] \in Seq(RowType) /\ Len(segs[i]) = work[i].len
             /\ segs[i][work[i].len - work[i].rej]
                  = Expected(b[i], work[i].start + work[i].len - work[i].rej - 1)
  <2>1. work[i] \in Work(b[i]) /\ b[i] \in ReqIds /\ i \in DOMAIN b
    BY <1>1
  <2>2. /\ work[i].start \in Nat /\ work[i].len \in Nat /\ work[i].spec \in Nat
        /\ work[i].rej \in Nat
        /\ work[i].rej <= work[i].spec /\ work[i].spec + 1 <= work[i].len
    <3> HIDE DEF Work
    <3> QED  BY <2>1, WorkFacts
  <2>3. segs[i] = Rows(b[i], work[i].start, work[i].len, work[i].len - work[i].rej)
    BY <2>1 DEF Segment, Rows
  <2>4. rej[i] = work[i].rej
    BY <2>1
  <2> DEFINE start == work[i].start
             len == work[i].len
             k == len - work[i].rej
  <2>5. k \in 1 .. len /\ k \in Nat /\ start \in Nat /\ len \in Nat /\ work[i].rej \in Nat
    BY <2>2
  <2> HIDE DEF segs, rej, start, len
  <2>6. start + k - 1 = start + len - work[i].rej - 1
    BY <2>5
  <2> HIDE DEF k
  <2>7. Rows(b[i], start, len, k) \in Seq(RowType) /\ Len(Rows(b[i], start, len, k)) = len
    <3>1. \A st \in Nat, ln \in Nat, gd \in Nat :
            Rows(b[i], st, ln, gd) \in Seq(RowType) /\ Len(Rows(b[i], st, ln, gd)) = ln
      BY <2>1, RowsType
    <3> QED  BY <2>5, <3>1
  <2>8. Rows(b[i], start, len, k)[k] = Expected(b[i], start + k - 1)
    <3>1. Rows(b[i], start, len, k) =
            [o \in 1 .. len |-> [req |-> b[i], pos |-> start + o - 1, ok |-> o <= k]]
      BY DEF Rows
    <3>2. Rows(b[i], start, len, k)[k] = [req |-> b[i], pos |-> start + k - 1, ok |-> k <= k]
      <4>1. k \in 1 .. len
        BY <2>5
      <4> QED  BY <3>1, <4>1
    <3>3. (k <= k) = TRUE
      BY <2>5
    <3> QED  BY <3>2, <3>3 DEF Expected
  <2>9. segs[i] = Rows(b[i], start, len, k)
    BY <2>3 DEF start, len, k
  <2>10. segs[i] \in Seq(RowType) /\ Len(segs[i]) = len /\ segs[i][k] = Expected(b[i], start + k - 1)
    BY <2>7, <2>8, <2>9
  <2>11. segs[i][k] = Expected(b[i], start + len - work[i].rej - 1)
    BY <2>6, <2>10
  <2>12. /\ b[i] \in ReqIds /\ start \in Nat /\ len \in Nat /\ work[i].rej \in Nat
         /\ work[i].rej + 1 <= len
         /\ segs[i] = Rows(b[i], start, len, k) /\ rej[i] = work[i].rej
         /\ k \in 1 .. len /\ segs[i] \in Seq(RowType) /\ Len(segs[i]) = len
         /\ segs[i][k] = Expected(b[i], start + len - work[i].rej - 1)
    <3>1. work[i].rej + 1 <= len
      BY <2>2, <2>5 DEF len
    <3> QED  BY <2>1, <2>4, <2>5, <2>9, <2>10, <2>11, <3>1
  <2> QED  BY <2>12 DEF start, len, k
<1>3. segs \in Segments(RowType, n)
  <2> SUFFICES ASSUME NEW i \in 1 .. n PROVE segs[i] \in Seq(RowType)
    BY <1>1 DEF Segments
  <2> HIDE DEF segs
  <2> QED  BY <1>2
<1>4. /\ Slot!RowToSlot(b)
      /\ raised' = ContextError(segs, rej)
      /\ IF raised'
         THEN UNCHANGED <<ring, prefilled, anchor>>
         ELSE /\ ring' = Store(ring, drawn, rej, slot_list', Ragged(segs, rej))
              /\ anchor' = IF prefilled
                           THEN [i \in DOMAIN b |-> drawn[i][AnchorIndex(drawn[i], rej[i])]]
                           ELSE <<>>
              /\ prefilled' = TRUE
  BY DEF Propose
<1> HIDE DEF segs, rej
<1>5. drawn = segs /\ ~ContextError(segs, rej)
  BY <1>1, <1>3, ContextIsSegments
<1>6. slot_list' = [i \in 1 .. n |-> slot_of'[b[i]]]
  BY <1>1, <1>4 DEF Slot!RowToSlot
<1>7. \A r \in ReqIds \ Slot!RowIds(b) : slot_of'[r] = NoSlot
  BY <1>4 DEF Slot!RowToSlot, Slot!NewIds
<1>8. /\ \A i \in 1 .. n : slot_list'[i] \in Slots /\ slot_list'[i] = slot_of'[b[i]]
      /\ \A i, j \in 1 .. n : slot_list'[i] = slot_list'[j] => i = j
  <2>1. slot_list' \in Seq(Slots) /\ DOMAIN slot_list' = 1 .. n
    <3>1. slot_list' \in Seq(Slots)
      BY DEF SlotsOK, Slot!TypeOK, Slots
    <3> QED  BY <1>6, <3>1
  <2>2. \A i, j \in 1 .. n : slot_list'[i] = slot_list'[j] => i = j
    BY <2>1 DEF SlotsOK, Slot!RowsDistinct
  <2>3. \A i \in 1 .. n : slot_list'[i] \in Slots
    <3>1. Len(slot_list') = n
      BY <1>1, <2>1
    <3> QED  BY <2>1, <3>1, ElementOfSeq
  <2> QED  BY <1>6, <2>2, <2>3
<1>9. \A i \in 1 .. n, ragged \in BOOLEAN : StoreRow(i, slot_list', ragged) = slot_list'[i]
  <2>1. DOMAIN slot_list' = 1 .. n
    BY <1>6
  <2> QED  BY <2>1 DEF StoreRow, IsIdentity
<1>10. Ragged(segs, rej) \in BOOLEAN /\ DOMAIN segs = 1 .. n
  BY <1>3 DEF Ragged, Uniform, Segments
<1>11. ring' = [s \in Slots |->
          LET writers == {i \in 1 .. n : slot_list'[i] = s}
          IN IF writers = {} THEN ring[s]
             ELSE LET i == CHOOSE j \in writers : TRUE
                  IN StoreSegment(ring[s], segs[i], rej[i])]
  <2>1. \A s \in Slots : {i \in 1 .. n : StoreRow(i, slot_list', Ragged(segs, rej)) = s}
                       = {i \in 1 .. n : slot_list'[i] = s}
    BY <1>9, <1>10
  <2>2. ring' = Store(ring, segs, rej, slot_list', Ragged(segs, rej))
    BY <1>4, <1>5
  <2> HIDE DEF drawn
  <2> QED  BY <1>10, <2>1, <2>2 DEF Store
<1>12. ASSUME NEW i \in 1 .. n
       PROVE  ring'[slot_list'[i]] = StoreSegment(ring[slot_list'[i]], segs[i], rej[i])
  <2>1. {j \in 1 .. n : slot_list'[j] = slot_list'[i]} = {i}
    BY <1>8
  <2>2. (CHOOSE j \in {i} : TRUE) = i
    OBVIOUS
  <2> QED  BY <1>8, <1>11, <2>1, <2>2
<1>13. ASSUME NEW s \in Slots
       PROVE  ring'[s] = ring[s] \/ \E i \in 1 .. n : slot_list'[i] = s
  BY <1>11
<1>14. anchor' = <<>> \/
       anchor' = [i \in 1 .. n |-> Expected(b[i], End(work[i]) - 1)]
  <2> SUFFICES ASSUME NEW i \in 1 .. n
               PROVE  segs[i][AnchorIndex(segs[i], rej[i])] = Expected(b[i], End(work[i]) - 1)
    BY <1>1, <1>4, <1>5
  <2> DEFINE k == work[i].len - work[i].rej
  <2>1. /\ k \in 1 .. work[i].len /\ work[i].len \in Nat /\ Len(segs[i]) = work[i].len
        /\ work[i].rej \in Nat /\ rej[i] = work[i].rej
    BY <1>2
  <2>2. AnchorIndex(segs[i], rej[i]) = k
    BY <2>1 DEF AnchorIndex, Bound
  <2>3. segs[i][k] = Expected(b[i], End(work[i]) - 1)
    <3> HIDE DEF segs, rej
    <3>1. segs[i][work[i].len - work[i].rej]
            = Expected(b[i], work[i].start + work[i].len - work[i].rej - 1)
      BY <1>2
    <3>2. work[i].start \in Nat /\ work[i].len \in Nat /\ work[i].rej \in Nat
      BY <1>2
    <3>3. work[i].start + work[i].len - work[i].rej - 1 = End(work[i]) - 1
      BY <3>2 DEF End
    <3> QED  BY <3>1, <3>3, Zenon
  <2> HIDE DEF k
  <2> QED  BY <2>2, <2>3
<1>15. DOMAIN b = 1 .. n /\ ring' = [s \in Slots |-> ring'[s]]
  BY <1>1, <1>11
<1>16. \A i \in 1 .. n :
         ring'[slot_of'[b[i]]] =
           StoreSegment(ring[slot_of'[b[i]]],
                        Rows(b[i], work[i].start, work[i].len, work[i].len - work[i].rej),
                        work[i].rej)
  BY <1>2, <1>8, <1>12
<1>17. raised' = FALSE /\ prefilled' = TRUE
  BY <1>4, <1>5 DEF ContextError
<1> QED  BY <1>6, <1>7, <1>8, <1>13, <1>14, <1>15, <1>16, <1>17 DEF Proposed

(* A step that drafts keeps the invariant.                                 *)
LEMMA DraftedIInv ==
  ASSUME GpuMask, IInv, SlotsOK, SlotsOK', StepDrafted
  PROVE  IInv'
<1>0. PICK b \in Slot!Batches : \E work \in Plans(b) : Propose(b, work) /\ Advance(b, work)
  BY DEF StepDrafted, StepBatches
<1>1. PICK work \in Plans(b) : Propose(b, work) /\ Advance(b, work)
  BY <1>0
<1>2. PICK n \in Nat :
        /\ n # 0 /\ b \in [1 .. n -> ReqIds] /\ DOMAIN work = 1 .. n
        /\ \A i, j \in 1 .. n : b[i] = b[j] => i = j
        /\ Slot!RowIds(b) = {b[i] : i \in 1 .. n}
        /\ \A i \in 1 .. n : work[i] \in Work(b[i])
  BY BatchFacts
<1>3. Types /\ DraftsReady /\ RingHoldsStoredSuffix
  BY DEF IInv
<1> DEFINE start(i) == work[i].start
           len(i) == work[i].len
           rej(i) == work[i].rej
           hi(i) == End(work[i])
           slot(i) == slot_of'[b[i]]
           seg(i) == Rows(b[i], start(i), len(i), len(i) - rej(i))
<1>4. ASSUME NEW i \in 1 .. n
      PROVE  /\ start(i) \in Nat /\ len(i) \in Nat /\ rej(i) \in Nat
             /\ rej(i) + 1 <= len(i)
             /\ rej(i) > 0 => len(i) <= Window
             /\ hi(i) \in Nat /\ start(i) < hi(i)
             /\ hi(i) = start(i) + len(i) - rej(i)
  <2>1. work[i] \in Work(b[i]) /\ b[i] \in ReqIds
    BY <1>2
  <2>2. /\ work[i].start \in Nat /\ work[i].len \in Nat /\ work[i].spec \in Nat
        /\ work[i].rej \in Nat
        /\ work[i].rej <= work[i].spec /\ work[i].spec + 1 <= work[i].len
        /\ work[i].rej > 0 => work[i].len <= Window
    <3> HIDE DEF Work
    <3> QED  BY <1>3, <2>1, WorkFacts
  <2> QED  BY <2>2 DEF End
<1>5. /\ tokens' \in [ReqIds -> 0 .. MaxModelLen]
      /\ computed' \in [ReqIds -> 0 .. MaxModelLen]
      /\ status' \in [ReqIds -> {"waiting", "running", "finished"}]
      /\ drafts' \subseteq ReqIds /\ batch' = b
      /\ DraftsReady'
      /\ \A i \in 1 .. n : computed'[b[i]] = hi(i)
  <2>1. Advanced(b, work)
    BY <1>1, <1>3, AdvanceEffect
  <2> QED  BY <1>2, <2>1 DEF Advanced, End
<1>6. /\ raised' = FALSE /\ prefilled' \in BOOLEAN
      /\ slot_list' = [i \in 1 .. n |-> slot(i)]
      /\ \A i \in 1 .. n : slot(i) \in Slots
      /\ \A r \in ReqIds \ Slot!RowIds(b) : slot_of'[r] = NoSlot
      /\ ring' = [s \in Slots |-> ring'[s]]
      /\ \A s \in Slots : ring'[s] = ring[s] \/ \E i \in 1 .. n : slot(i) = s
      /\ \A i \in 1 .. n : ring'[slot(i)] = StoreSegment(ring[slot(i)], seg(i), rej(i))
      /\ anchor' = <<>> \/ anchor' = [i \in 1 .. n |-> Expected(b[i], hi(i) - 1)]
  <2>1. Proposed(b, work)
    BY <1>1, <1>3, ProposeEffect
  <2>2. DOMAIN b = 1 .. n
    BY <1>2
  <2>3. /\ slot_list' = [i \in DOMAIN b |-> slot(i)]
        /\ anchor' = <<>> \/ anchor' = [i \in DOMAIN b |-> Expected(b[i], hi(i) - 1)]
    <3>1. slot_list' = [i \in DOMAIN b |-> slot_of'[b[i]]]
      BY <2>1 DEF Proposed
    <3>2. anchor' = <<>> \/
          anchor' = [i \in DOMAIN b |->
                       Expected(b[i], End(work[i]) - 1)]
      BY <2>1 DEF Proposed
    <3>3. slot_list' = [i \in DOMAIN b |-> slot(i)]
      BY <3>1
    <3>4. anchor' = <<>> \/ anchor' = [i \in DOMAIN b |-> Expected(b[i], hi(i) - 1)]
      BY <3>2
    <3> HIDE DEF slot, hi
    <3> QED  BY <3>3, <3>4
  <2>4. \A i \in DOMAIN b : ring'[slot(i)] = StoreSegment(ring[slot(i)], seg(i), rej(i))
    BY <2>1 DEF Proposed
  <2>5. /\ raised' = FALSE /\ prefilled' \in BOOLEAN
        /\ \A i \in DOMAIN b : slot(i) \in Slots
        /\ \A r \in ReqIds \ Slot!RowIds(b) : slot_of'[r] = NoSlot
        /\ ring' = [s \in Slots |-> ring'[s]]
        /\ \A s \in Slots : ring'[s] = ring[s] \/ \E i \in DOMAIN b : slot(i) = s
    BY <2>1 DEF Proposed
  <2> HIDE DEF slot, seg, rej, hi
  <2> QED  BY <2>2, <2>3, <2>4, <2>5
<1>7. stored' = StoredAfter(b, work)
  BY <1>1 DEF Propose
<1>8. ASSUME NEW i \in 1 .. n
      PROVE  /\ stored'[b[i]].from = IF slot_of[b[i]] = slot(i) /\ stored[b[i]].to = start(i)
                                    THEN stored[b[i]].from ELSE start(i)
             /\ stored'[b[i]].to = hi(i)
             /\ stored'[b[i]] \in [from : Nat, to : Nat]
  <2>1. (CHOOSE j \in DOMAIN b : b[j] = b[i]) = i
    BY <1>2, RowOf
  <2>2. b[i] \in Slot!RowIds(b) /\ b[i] \in ReqIds
    BY <1>2
  <2>3. stored'[b[i]] =
          [from |-> IF slot_of[b[i]] = slot(i) /\ stored[b[i]].to = start(i)
                    THEN stored[b[i]].from ELSE start(i),
           to |-> hi(i)]
    <3>1. stored'[b[i]] = StoredAfter(b, work)[b[i]]
      BY <1>7
    <3>2. StoredAfter(b, work)[b[i]] =
            LET w == work[CHOOSE j \in DOMAIN b : b[j] = b[i]]
            IN [from |-> IF slot_of[b[i]] = slot_of'[b[i]] /\ stored[b[i]].to = w.start
                         THEN stored[b[i]].from ELSE w.start,
                to |-> w.start + w.len - w.rej]
      BY <2>2 DEF StoredAfter
    <3>3. stored'[b[i]] =
            [from |-> IF slot_of[b[i]] = slot(i) /\ stored[b[i]].to = start(i)
                      THEN stored[b[i]].from ELSE start(i),
             to |-> work[i].start + work[i].len - work[i].rej]
      BY <2>1, <3>1, <3>2
    <3> QED  BY <3>3 DEF End
  <2>4. stored[b[i]].from \in Nat /\ hi(i) \in Nat /\ start(i) \in Nat
    BY <1>3, <1>4, <2>2 DEF Types
  <2> HIDE DEF slot, start, hi
  <2> QED  BY <2>3, <2>4
<1>9. ring \in [Slots -> [0 .. Window - 1 -> RowType]]
  BY <1>3 DEF Types, TypeOK
<1> HIDE DEF slot, seg, start, len, rej, hi
<1>10. ASSUME NEW i \in 1 .. n
       PROVE  SegmentStored(ring[slot(i)], ring'[slot(i)], b[i], start(i), hi(i))
  <2> DEFINE r == b[i]
             s == start(i)
             l == len(i)
             k == rej(i)
             h == hi(i)
             old == ring[slot(i)]
             sg == seg(i)
  <2>1. /\ r \in ReqIds /\ s \in Nat /\ l \in Nat /\ k \in Nat /\ k + 1 <= l
        /\ k > 0 => l <= Window
    BY <1>2, <1>4
  <2>2. old \in [0 .. Window - 1 -> RowType] /\ sg = Rows(r, s, l, l - k) /\ h = s + l - k
    BY <1>4, <1>6, <1>9 DEF seg
  <2>3. ring'[slot(i)] = StoreSegment(old, sg, k)
    BY <1>6
  <2> HIDE DEF r, s, l, k, h, old, sg
  <2>4. SegmentStored(old, StoreSegment(old, sg, k), r, s, h)
    BY <2>1, <2>2, StoreSegmentEffect
  <2> QED  BY <2>3, <2>4 DEF r, s, l, k, h, old, sg
<1>11. Types'
  <2>1. ring' \in [Slots -> [0 .. Window - 1 -> RowType]]
    <3>1. ASSUME NEW s \in Slots PROVE ring'[s] \in [0 .. Window - 1 -> RowType]
      BY <1>6, <1>9, <1>10 DEF SegmentStored
    <3> QED  BY <1>6, <3>1
  <2>2. anchor' \in Seq(RowType)
    <3>1. CASE anchor' = <<>>
      BY <3>1, EmptySeq
    <3>2. CASE anchor' = [i \in 1 .. n |-> Expected(b[i], hi(i) - 1)]
      <4>1. \A i \in 1 .. n : Expected(b[i], hi(i) - 1) \in RowType
        <5> SUFFICES ASSUME NEW i \in 1 .. n PROVE Expected(b[i], hi(i) - 1) \in RowType
          OBVIOUS
        <5>1. hi(i) - 1 \in Nat /\ b[i] \in ReqIds
          <6>1. /\ start(i) \in Nat /\ hi(i) \in Nat /\ start(i) < hi(i)
            BY <1>4
          <6> QED  BY <1>2, <6>1
        <5> QED  BY <5>1 DEF Expected, RowType
      <4> QED  BY <3>2, <4>1
    <3> QED  BY <1>6, <3>1, <3>2
  <2>3. stored' \in [ReqIds -> [from : Nat, to : Nat]]
    <3>1. DOMAIN stored' = ReqIds /\ stored' = [r \in ReqIds |-> stored'[r]]
      BY <1>7 DEF StoredAfter
    <3>2. ASSUME NEW r \in ReqIds PROVE stored'[r] \in [from : Nat, to : Nat]
      <4>1. CASE r \notin Slot!RowIds(b)
        BY <1>7, <4>1 DEF StoredAfter
      <4>2. CASE r \in Slot!RowIds(b)
        <5>1. PICK i \in 1 .. n : r = b[i]
          BY <1>2, <4>2
        <5> QED  BY <1>8, <5>1
      <4> QED  BY <4>1, <4>2
    <3> QED  BY <3>1, <3>2
  <2>4. Slot!TypeOK'
    BY DEF SlotsOK
  <2>5. prefilled' \in BOOLEAN /\ raised' \in BOOLEAN /\ batch' \in Slot!Batches
    BY <1>5, <1>6
  <2>6. TypeOK'
    BY <1>5, <2>1, <2>2, <2>4, <2>5 DEF TypeOK
  <2> QED  BY <2>3, <2>6 DEF Types
<1>12. RingHoldsStoredSuffix'
  <2> SUFFICES ASSUME NEW r \in ReqIds, slot_of'[r] # NoSlot,
                      NEW p \in stored'[r].from .. stored'[r].to - 1,
                      p >= Low(r, stored'[r].to)
               PROVE  ring'[slot_of'[r]][p % Window] = Expected(r, p)
    BY DEF RingHoldsStoredSuffix, Low, Expected
  <2>1. PICK i \in 1 .. n : r = b[i]
    BY <1>2, <1>6
  <2>2. Window \in Nat
    BY RingAssumption
  <2>3. stored[r].from \in Nat /\ stored[r].to \in Nat
    BY <1>3 DEF Types
  <2>4. /\ stored'[r].to = hi(i) /\ stored'[r].from \in Nat
        /\ stored'[r].from >= start(i) \/
             (slot_of[r] = slot(i) /\ stored[r].to = start(i) /\ stored'[r].from = stored[r].from)
    <3>1. stored'[r].to = hi(i) /\ stored'[r].from \in Nat
      BY <1>8, <2>1
    <3>2. CASE slot_of[r] = slot(i) /\ stored[r].to = start(i)
      BY <1>8, <2>1, <3>1, <3>2
    <3>3. CASE ~(slot_of[r] = slot(i) /\ stored[r].to = start(i))
      <4>1. stored'[r].from = start(i) /\ start(i) \in Nat
        BY <1>4, <1>8, <2>1, <3>3
      <4> QED  BY <3>1, <4>1
    <3> QED  BY <3>2, <3>3
  <2>5. p \in Nat /\ p < hi(i) /\ hi(i) <= p + Window
    BY <1>4, <2>2, <2>4 DEF Low
  <2>6. CASE p >= start(i)
    <3>1. p \in start(i) .. hi(i) - 1
      BY <1>4, <2>5, <2>6
    <3> QED  BY <1>10, <2>1, <2>5, <3>1 DEF slot, SegmentStored
  <2>7. CASE p < start(i)
    <3>1. p \in 0 .. start(i) - 1
      BY <1>4, <2>5, <2>7
    <3>2. slot_of[r] = slot(i) /\ p \in stored[r].from .. stored[r].to - 1
      BY <1>4, <2>3, <2>4, <2>5, <2>7
    <3>3. p >= Low(r, stored[r].to) /\ slot_of[r] # NoSlot
      <4>1. stored[r].to = start(i)
        BY <1>4, <2>4, <2>5, <2>7
      <4> QED  BY <1>4, <2>1, <2>2, <2>5, <3>2, <4>1 DEF Low, slot
    <3>4. ring[slot(i)][p % Window] = Expected(r, p)
      BY <1>3, <3>2, <3>3 DEF RingHoldsStoredSuffix
    <3> QED  BY <1>10, <2>1, <2>5, <3>1, <3>4 DEF slot, SegmentStored
  <2> QED  BY <1>4, <2>5, <2>6, <2>7
<1>13. AnchorIsLastAccepted'
  <2> SUFFICES ASSUME NEW i \in DOMAIN anchor'
               PROVE  anchor'[i] = Expected(batch'[i], computed'[batch'[i]] - 1)
    BY DEF AnchorIsLastAccepted, Expected
  <2>1. anchor' = [j \in 1 .. n |-> Expected(b[j], hi(j) - 1)]
    BY <1>6
  <2> QED  BY <1>5, <2>1
<1>14. AnchorsLinked'
  <2> SUFFICES ASSUME anchor' # <<>> PROVE AnchorsLinked'
    BY DEF AnchorsLinked
  <2>1. anchor' = [j \in 1 .. n |-> Expected(b[j], hi(j) - 1)]
    BY <1>6
  <2>2. ASSUME NEW i \in 1 .. n
        PROVE  slot_of'[b[i]] # NoSlot /\ anchor'[i].pos + 1 = stored'[b[i]].to
    <3>1. slot_of'[b[i]] \in Slots
      BY <1>6 DEF slot
    <3>2. NoSlot \notin Slots
      BY RingAssumption DEF Slots, Slot!Slots
    <3>3. anchor'[i].pos = hi(i) - 1 /\ stored'[b[i]].to = hi(i)
      <4>1. anchor'[i] = Expected(b[i], hi(i) - 1)
        BY <2>1
      <4> QED  BY <1>8, <4>1 DEF Expected
    <3>4. hi(i) \in Nat
      BY <1>4
    <3> QED  BY <3>1, <3>2, <3>3, <3>4
  <2>3. batch' = b /\ DOMAIN b = 1 .. n /\ DOMAIN anchor' = 1 .. n
    BY <1>2, <1>5, <2>1
  <2>4. slot_list' = [i \in DOMAIN b |-> slot_of'[b[i]]]
    BY <1>6, <2>3 DEF slot
  <2> QED  BY <2>2, <2>3, <2>4 DEF AnchorsLinked
<1> QED  BY <1>5, <1>6, <1>11, <1>12, <1>13, <1>14 DEF IInv

(* So does a step that skips the proposer: the rings and the slot map stay *)
(* as they are, only the requests advance.                                 *)
LEMMA SkippedIInv ==
  ASSUME IInv, StepSkipped
  PROVE  IInv'
<1>0. PICK b \in Slot!Batches : \E work \in Plans(b) : Advance(b, work)
  BY DEF StepSkipped, StepBatches
<1>1. PICK work \in Plans(b) : Advance(b, work)
  BY <1>0
<1>2. Advanced(b, work)
  BY <1>1, AdvanceEffect DEF IInv
<1>3. anchor' = <<>> /\ UNCHANGED <<slotVars, ring, prefilled, raised, stored>>
  BY DEF StepSkipped
<1>4. Types'
  <2>1. anchor' \in Seq(RowType)
    BY <1>3, EmptySeq
  <2>2. Slot!TypeOK'
    BY <1>3 DEF IInv, Types, TypeOK, slotVars, Slot!TypeOK
  <2>3. TypeOK'
    BY <1>2, <1>3, <2>1, <2>2 DEF IInv, Types, TypeOK, Advanced
  <2> QED  BY <1>3, <2>3 DEF IInv, Types
<1>5. DraftsReady'
  BY <1>2 DEF Advanced
<1>6. RingHoldsStoredSuffix'
  BY <1>3 DEF IInv, RingHoldsStoredSuffix, Low, Expected, slotVars
<1>7. AnchorsLinked' /\ AnchorIsLastAccepted'
  BY <1>3 DEF AnchorsLinked, AnchorIsLastAccepted
<1> QED  BY <1>3, <1>4, <1>5, <1>6, <1>7 DEF IInv

(* And preemption and the end of a request.                                *)
LEMMA LeaveIInv ==
  ASSUME IInv, NEW r \in ReqIds, Preempt(r) \/ Finish(r)
  PROVE  IInv'
<1>1. /\ anchor' = <<>> /\ drafts' = drafts \ {r}
      /\ UNCHANGED <<slotVars, ring, prefilled, batch, raised, stored>>
      /\ computed' = [computed EXCEPT ![r] = 0]
      /\ tokens' = [tokens EXCEPT ![r] = 0] \/ tokens' = tokens
      /\ \/ status' = [status EXCEPT ![r] = "waiting"]
         \/ status' = [status EXCEPT ![r] = "finished"]
  BY DEF Preempt, Finish
<1>2. /\ computed \in [ReqIds -> 0 .. MaxModelLen] /\ tokens \in [ReqIds -> 0 .. MaxModelLen]
      /\ status \in [ReqIds -> {"waiting", "running", "finished"}] /\ drafts \subseteq ReqIds
  BY DEF IInv, Types, TypeOK
<1>3. Types'
  <2>1. anchor' \in Seq(RowType)
    BY <1>1, EmptySeq
  <2>2. Slot!TypeOK'
    BY <1>1 DEF IInv, Types, TypeOK, slotVars, Slot!TypeOK
  <2>3. 0 \in 0 .. MaxModelLen
    BY RingAssumption
  <2>4. computed' \in [ReqIds -> 0 .. MaxModelLen]
    BY <1>1, <1>2, <2>3
  <2>5. status' \in [ReqIds -> {"waiting", "running", "finished"}]
    BY <1>1, <1>2
  <2>6. TypeOK'
    BY <1>1, <1>2, <2>1, <2>2, <2>4, <2>5 DEF IInv, Types, TypeOK
  <2> QED  BY <1>1, <2>6 DEF IInv, Types
<1>4. DraftsReady'
  <2>1. \A q \in ReqIds \ {r} : computed'[q] = computed[q] /\ status'[q] = status[q]
    BY <1>1, <1>2
  <2> QED  BY <1>1, <1>2, <2>1 DEF IInv, DraftsReady
<1>5. RingHoldsStoredSuffix'
  BY <1>1 DEF IInv, RingHoldsStoredSuffix, Low, Expected, slotVars
<1>6. AnchorsLinked' /\ AnchorIsLastAccepted'
  BY <1>1 DEF AnchorsLinked, AnchorIsLastAccepted
<1> QED  BY <1>1, <1>3, <1>4, <1>5, <1>6 DEF IInv

LEMMA NextIInv ==
  ASSUME GpuMask, IInv, SlotsOK, SlotsOK', [Next]_vars
  PROVE  IInv'
<1>1. CASE StepDrafted
  BY <1>1, DraftedIInv
<1>2. CASE StepSkipped
  BY <1>2, SkippedIInv
<1>3. ASSUME NEW r \in ReqIds, Preempt(r) \/ Finish(r) PROVE IInv'
  BY <1>3, LeaveIInv
<1>4. CASE UNCHANGED vars
  BY <1>4 DEF vars, slotVars, reqVars, IInv, Types, TypeOK, Slot!TypeOK, DraftsReady,
              AnchorsLinked, RingHoldsStoredSuffix, AnchorIsLastAccepted, Low, Expected
<1> QED  BY <1>1, <1>2, <1>3, <1>4 DEF Next

(* The inductive invariant holds in every state, whatever the batches, the *)
(* lengths of the prompts and the numbers of rejected tokens.              *)
THEOREM RingInvariant == ASSUME GpuMask PROVE Spec => []IInv
<1>1. IInv /\ SlotsOK /\ SlotsOK' /\ [Next]_vars => IInv'
  BY NextIInv
<1> QED  BY <1>1, InitIInv, SlotsAlwaysOK, PTL DEF Spec

(* With the GPU mask, no mix of prefill chunks and decodes, of rejections  *)
(* and of rows ever makes the context path raise.                          *)
THEOREM ContextPathNeverRaises == ASSUME GpuMask PROVE Spec => []NeverRaises
<1>1. IInv => NeverRaises
  BY DEF IInv, Types, NeverRaises
<1> QED  BY <1>1, RingInvariant, PTL

(* The ring of a request holds the accepted rows of its last Window stored *)
(* positions, and no other request's or rejected row.                      *)
THEOREM RingsHoldTheirSuffix == ASSUME GpuMask PROVE Spec => []RingHoldsStoredSuffix
<1>1. IInv => RingHoldsStoredSuffix
  BY DEF IInv
<1> QED  BY <1>1, RingInvariant, PTL

(* Every draft starts from the last accepted row of its own request.       *)
THEOREM DraftsStartFromAccepted == ASSUME GpuMask PROVE Spec => []AnchorIsLastAccepted
<1>1. IInv => AnchorIsLastAccepted
  BY DEF IInv
<1> QED  BY <1>1, RingInvariant, PTL

(* A draft whose request has no gap in its window reads exactly that       *)
(* request's last accepted positions: each index it attends to holds one   *)
(* of them, through the identity path of the slots or the indexed one.     *)
LEMMA LinkedReadsContext ==
  ASSUME IInv, NEW i \in DOMAIN anchor,
         stored[batch[i]].from <= Low(batch[i], stored[batch[i]].to)
  PROVE  ReadsExactly(i)
<1> DEFINE r == batch[i]
           last == anchor[i].pos
<1>1. /\ batch \in Slot!Batches /\ DOMAIN anchor = DOMAIN batch
      /\ slot_list = [j \in DOMAIN batch |-> slot_of[batch[j]]]
      /\ slot_of[r] # NoSlot /\ last + 1 = stored[r].to
  BY DEF IInv, AnchorsLinked
<1>2. r \in ReqIds
  BY <1>1 DEF Slot!Batches
<1>3. DraftRow(i, slot_list) = slot_of[r]
  BY <1>1 DEF DraftRow, IsIdentity
<1>4. last \in Nat /\ Window \in Nat \ {0} /\ stored[r].from \in Nat /\ stored[r].to \in Nat
  <2>1. anchor \in Seq(RowType) /\ stored[r] \in [from : Nat, to : Nat]
    BY <1>2 DEF IInv, Types, TypeOK
  <2>2. anchor[i] \in RowType
    BY <2>1
  <2> QED  BY <2>1, <2>2, RingAssumption DEF RowType
<1>5. stored[r].from <= Low(r, last + 1)
  BY <1>1
<1> HIDE DEF r, last
<1>6. ASSUME NEW e \in 0 .. (IF last + 1 < Window THEN last ELSE Window - 1)
      PROVE  \E p \in Low(r, last + 1) .. last :
               p % Window = e /\ ring[DraftRow(i, slot_list)][e] = Expected(r, p)
  <2>1. PICK p \in Nat : p % Window = e /\ p <= last /\ last - p < Window
    <3>1. e \in 0 .. Window - 1 /\ e <= last
      BY <1>4
    <3> QED  BY <1>4, <3>1, ResidueBelow
  <2>2. p \in Low(r, last + 1) .. last
    BY <1>4, <2>1 DEF Low
  <2>3. p \in stored[r].from .. stored[r].to - 1 /\ p >= Low(r, stored[r].to)
    BY <1>1, <1>4, <1>5, <2>1, <2>2 DEF Low
  <2>4. ring[slot_of[r]][p % Window] = Expected(r, p)
    BY <1>1, <1>2, <2>3 DEF IInv, RingHoldsStoredSuffix
  <2> QED  BY <1>3, <2>1, <2>2, <2>4
<1> QED  BY <1>6 DEF ReadsExactly, ReadIndexes, r, last

(* Every draft of a request whose window has no gap attends to exactly the *)
(* accepted rows of that window, at their own positions.                   *)
THEOREM DraftsReadContiguousContext == ASSUME GpuMask PROVE Spec => []DraftReadsContiguousContext
<1>1. IInv => DraftReadsContiguousContext
  BY LinkedReadsContext DEF DraftReadsContiguousContext
<1> QED  BY <1>1, RingInvariant, PTL

-----------------------------------------------------------------------------
(* The encoder cache: for any requests, items, sizes and number of steps in  *)
(* flight, the scheduler's cache and the worker's agree.                     *)

(* The sets that the state of EncoderCache is in.                            *)
Hashes == {f.hash : f \in Items}
Caches == [refs : UNION {[H -> SUBSET Requests] : H \in SUBSET Hashes},
           freeable : Seq(Hashes), freed : SUBSET Hashes]
PlannedRows == {row \in [req : Requests, first : Int, n : Int, inputs : SUBSET Nat] :
                  row.inputs \subseteq DOMAIN Features[row.req]}
PlannedSteps == [rows : Seq(PlannedRows), freed : SUBSET Hashes, done : BOOLEAN]
Statuses == {"new", "waiting", "running", "gone"}

EncoderTypes ==
  /\ shift \in {0, 1} /\ req_status \in [Requests -> Statuses]
  /\ num_computed \in [Requests -> Int]
  /\ running \in Seq(Requests) /\ waiting \in Seq(Requests)
  /\ cache \in Caches
  /\ token_budget \in Int /\ budget \in Nat
  /\ rows \in Seq(PlannedRows) /\ flight \in Seq(PlannedSteps)
  /\ worker \in SUBSET Hashes

(* A request is in one place of one queue, or in none.                       *)
QueuesApart ==
  /\ IsInjective(running) /\ IsInjective(waiting)
  /\ ToSet(running) \cap ToSet(waiting) = {}
  /\ \A r \in ToSet(running) \cup ToSet(waiting) : req_status[r] # "new"

(* The scheduler's cache: what may be evicted is cached and in use by nobody,*)
(* and all that is cached fits.                                              *)
FreeableUnused(m) ==
  \A h \in ToSet(m.freeable) : h \in Cached(m) /\ m.refs[h] = {}
CacheSound(m) == m \in Caches /\ FreeableUnused(m) /\ Size(Cached(m)) <= CacheSize

(* Outputs that inputs of r produce, that r refers to, and that its tokens   *)
(* first .. first + n - 1 look up; embeddings that a step computes.          *)
Hashed(r, inputs) == {HashOf(r, i) : i \in inputs}
Holds(m, r, h) == h \in Cached(m) /\ r \in m.refs[h]
Wanted(r, first, n) == {f.hash : f \in {g \in ToSet(Features[r]) : Reached(g, first, n) # {}}}
EmbedsOf(r, inputs) == Total([i \in inputs |-> NumEmbeds(Features[r][i])])
SpentOn(q) == Total([row \in Range(q) |-> InputEmbeds(row)])

(* The rows planned so far: one for a request, which runs and refers to all  *)
(* that the row encodes or looks up; the budget that is left was not spent.  *)
Ready(m, row) ==
  \A h \in Hashed(row.req, row.inputs) \cup Wanted(row.req, row.first, row.n) :
    Holds(m, row.req, h)
RowsPlanned ==
  /\ pc = "idle" => rows = <<>>
  /\ \A x, y \in ToSet(rows) : x.req = y.req => x = y
  /\ \A row \in ToSet(rows) :
       row.req \in ToSet(running) /\ Ready(cache, row)
  /\ SpentOn(rows) + budget <= EncoderBudget

(* The pass over the running requests is beyond those that have a row, so    *)
(* the last of the running requests has none unless the pass is over.        *)
AheadOf(q, r, j) == \E i \in 1 .. Len(q) : i < j /\ q[i] = r
PassInOrder ==
  pc \in {"running", "allocate"} =>
    at \in Nat \ {0} /\ \A row \in ToSet(rows) : AheadOf(running, row.req, at)

(* Until its KV entries are allocated, what _try_schedule_encoder_inputs     *)
(* found for a request stays true: preemption only makes room.               *)
TryStands ==
  pc = "allocate" =>
    LET r == try.req
        new == Hashed(r, try.inputs) IN
    /\ r \in Requests /\ try.inputs \subseteq DOMAIN Features[r]
    /\ try.n \in Int /\ try.left \in Nat
    /\ \E j \in 1 .. Len(running) :
         j <= at /\ running[j] = r /\ \A row \in ToSet(rows) : AheadOf(running, row.req, j)
    /\ new \cap Cached(cache) = {}
    /\ \A h \in Wanted(r, num_computed[r], try.n) : h \in new \/ Holds(cache, r, h)
    /\ Size(Cached(cache)) + EmbedsOf(r, try.inputs) <= CacheSize
    /\ SpentOn(rows) + EmbedsOf(r, try.inputs) + try.left <= EncoderBudget

Fcfs == Policy = "fcfs"
(* What the worker will hold. W[i] is its cache after the i-th planned step: *)
(* each drops its `freed` and adds what it encodes. Every step then finds    *)
(* room and, under "fcfs", what its rows look up; and the last of the caches *)
(* is the scheduler's, but for what is planned or dropped in the next step.  *)
DonePrefix == \A i, j \in 1 .. Len(flight) : i < j /\ flight[j].done => flight[i].done
Replays(W) ==
  /\ W[0] = worker
  /\ \A i \in 1 .. Len(flight) :
       W[i] = IF flight[i].done THEN worker
              ELSE (W[i - 1] \ flight[i].freed) \cup Encoded(flight[i])
Serves(have, step) ==
  /\ Size(have) <= CacheSize
  /\ Fcfs => \A row \in ToSet(step.rows) : Wanted(row.req, row.first, row.n) \subseteq have
Foreseen(have, m, q) ==
  /\ have \ m.freed \subseteq Cached(m)
  /\ Fcfs => Cached(m) \subseteq (have \ m.freed) \cup Encoded([rows |-> q])
Predicted(W) ==
  /\ \A i \in 1 .. Len(flight) : ~ flight[i].done => Serves(W[i], flight[i])
  /\ Foreseen(W[Len(flight)], cache, rows)
Tracked == \E W \in [0 .. Len(flight) -> SUBSET Hashes] : Replays(W) /\ Predicted(W)

WorkerSound ==
  /\ Size(worker) <= CacheSize
  /\ Fcfs => "target" \notin missed

(* The inductive invariant of the encoder cache.                             *)
EInv ==
  /\ EncoderTypes /\ QueuesApart /\ CacheSound(cache) /\ RowsPlanned /\ PassInOrder
  /\ TryStands /\ DonePrefix /\ WorkerSound /\ Tracked

-----------------------------------------------------------------------------
(* The operators of the encoder cache.                                       *)

LEMMA KeptFacts ==
  ASSUME NEW U, NEW q \in Seq(U), NEW S
  PROVE  /\ Without(q, S) \in Seq(U)
         /\ ToSet(Without(q, S)) = ToSet(q) \ S
         /\ IsInjective(q) => IsInjective(Without(q, S))
         /\ KeepsOrder(q, S, Without(q, S), Len(q))
<1> DEFINE n == Len(q)
           V == Seq(U)
           Eq(f) == f = [i \in 0 .. n |-> IF i = 0 THEN <<>>
                                          ELSE IF q[i] \in S THEN f[i - 1]
                                          ELSE Append(f[i - 1], q[i])]
           next == [i \in 1 .. n |-> [x \in V |-> IF q[i] \in S THEN x ELSE Append(x, q[i])]]
           kept == CHOOSE f : Eq(f)
<1>0. n \in Nat /\ \A i \in 1 .. n : q[i] \in U
  BY LenProperties, ElementOfSeq
<1>1. next \in Steps(n, V)
  BY <1>0, AppendProperties DEF Steps
<1>2. PICK v : Iterates(v, n, V, <<>>, next)
  <2>1. <<>> \in V
    BY EmptySeq
  <2> HIDE DEF next, V
  <2> QED  BY ONLY <1>0, <1>1, <2>1, Recursion
<1>3. ASSUME NEW i \in 1 .. n
      PROVE  v[i] = IF q[i] \in S THEN v[i - 1] ELSE Append(v[i - 1], q[i])
  <2>1. v[i] = next[i][v[i - 1]]
    BY <1>2 DEF Iterates
  <2>2. v[i - 1] \in V
    <3>1. i - 1 \in 0 .. n
      BY <1>0
    <3> QED  BY <1>2, <3>1 DEF Iterates
  <2> HIDE DEF V
  <2> QED  BY <2>1, <2>2
<1>4. Eq(v)
  <2>1. v[0] = <<>> /\ v = [i \in 0 .. n |-> v[i]]
    BY <1>2 DEF Iterates
  <2>2. ASSUME NEW i \in 0 .. n
        PROVE  v[i] = IF i = 0 THEN <<>>
                      ELSE IF q[i] \in S THEN v[i - 1] ELSE Append(v[i - 1], q[i])
    <3>1. CASE i = 0
      BY <2>1, <3>1
    <3>2. CASE i # 0
      <4>1. i \in 1 .. n
        BY <1>0, <3>2
      <4> QED  BY <1>3, <3>2, <4>1
    <3> QED  BY <3>1, <3>2
  <2>3. [i \in 0 .. n |-> v[i]] =
        [i \in 0 .. n |-> IF i = 0 THEN <<>>
                          ELSE IF q[i] \in S THEN v[i - 1] ELSE Append(v[i - 1], q[i])]
    BY <2>2
  <2> QED  BY <2>1, <2>3
<1>5. Eq(kept)
  <2> HIDE DEF Eq
  <2> QED  BY <1>4
<1>6. Without(q, S) = kept[n]
  BY DEF Without
<1> HIDE DEF kept
<1>7. /\ kept[0] = <<>>
      /\ \A i \in 1 .. n : kept[i] = IF q[i] \in S THEN kept[i - 1] ELSE Append(kept[i - 1], q[i])
  <2>0. kept = [i \in 0 .. n |-> IF i = 0 THEN <<>>
                                 ELSE IF q[i] \in S THEN kept[i - 1]
                                 ELSE Append(kept[i - 1], q[i])]
    BY <1>5
  <2>1. \A i \in 0 .. n : kept[i] = IF i = 0 THEN <<>>
                                    ELSE IF q[i] \in S THEN kept[i - 1]
                                    ELSE Append(kept[i - 1], q[i])
    BY ONLY <2>0
  <2>2. 0 \in 0 .. n /\ \A i \in 1 .. n : i \in 0 .. n /\ i # 0
    BY <1>0
  <2> HIDE DEF Eq
  <2> QED  BY ONLY <2>1, <2>2
<1> DEFINE P(m) == kept[m] \in Seq(U) /\ KeepsOrder(q, S, kept[m], m)
           T == {m \in Nat : m <= n => P(m)}
<1>8. 0 \in T
  <2>1. P(0)
    BY <1>7, KeepNone, EmptySeq
  <2> QED  BY <2>1
<1>9. ASSUME NEW m \in Nat, m \in T PROVE m + 1 \in T
  <2> SUFFICES ASSUME m + 1 <= n PROVE P(m + 1)
    OBVIOUS
  <2>1. PICK a : a = kept[m]
    OBVIOUS
  <2>2. a \in Seq(U) /\ KeepsOrder(q, S, a, m)
    BY <1>0, <1>9, <2>1
  <2>3. m + 1 \in 1 .. n /\ (m + 1) - 1 = m
    BY <1>0
  <2>4. kept[m + 1] = IF q[m + 1] \in S THEN a ELSE Append(a, q[m + 1])
    BY <1>7, <2>1, <2>3
  <2>5. q[m + 1] \in U
    BY <1>0, <2>3
  <2>6. KeepsOrder(q, S, IF q[m + 1] \in S THEN a ELSE Append(a, q[m + 1]), m + 1)
    BY <2>2, <2>5, KeepNext
  <2>7. kept[m + 1] \in Seq(U)
    BY <2>2, <2>4, <2>5, AppendProperties
  <2> QED  BY <2>4, <2>6, <2>7
<1>10. P(n)
  <2> HIDE DEF T, P
  <2>1. n \in T
    BY <1>0, <1>8, <1>9, Induction
  <2> QED  BY <1>0, <2>1 DEF T
<1>11. Without(q, S) \in Seq(U) /\ KeepsOrder(q, S, Without(q, S), Len(q))
  BY <1>6, <1>10
<1> QED  BY <1>11, KeptElements

(* Who is preempted and who is next are in their queues.                     *)
Ahead(r, s) == Priority[r] < Priority[s] \/ (Priority[r] = Priority[s] /\ r <= s)

LEMMA AheadIsTotal ==
  ASSUME NEW q \in Requests, NEW r \in Requests, NEW s \in Requests
  PROVE  /\ Ahead(r, r) /\ (Ahead(r, s) \/ Ahead(s, r))
         /\ Ahead(q, r) /\ Ahead(r, s) => Ahead(q, s)
<1>1. /\ q \in Int /\ r \in Int /\ s \in Int
      /\ Priority[q] \in Int /\ Priority[r] \in Int /\ Priority[s] \in Int
  BY EncoderAssumption
<1> QED  BY <1>1 DEF Ahead

LEMMA Extremes ==
  ASSUME NEW T \in SUBSET Requests, T # {}
  PROVE  /\ \E r \in T : \A s \in T : Ahead(r, s)
         /\ \E r \in T : \A s \in T : Ahead(s, r)
<1> DEFINE P(R) == R # {} => /\ \E r \in R : \A s \in R : Ahead(r, s)
                             /\ \E r \in R : \A s \in R : Ahead(s, r)
           N == {n \in Nat : \A R \in SUBSET T : Cardinality(R) = n => P(R)}
<1>0. ASSUME NEW R \in SUBSET T
      PROVE  IsFiniteSet(R) /\ Cardinality(R) \in Nat /\ (Cardinality(R) = 0 <=> R = {})
  <2>1. IsFiniteSet(R)
    BY FS_Subset, EncoderAssumption
  <2> QED  BY <2>1, FS_CardinalityType, FS_EmptySet
<1>1. 0 \in N
  BY <1>0
<1>2. ASSUME NEW n \in Nat, n \in N PROVE n + 1 \in N
  <2> SUFFICES ASSUME NEW R \in SUBSET T, Cardinality(R) = n + 1 PROVE P(R)
    OBVIOUS
  <2>1. PICK z : z \in R
    BY <1>0
  <2> DEFINE Q == R \ {z}
  <2>2. Q \in SUBSET T /\ Cardinality(Q) = n
    BY <1>0, <2>1, FS_RemoveElement
  <2>3. P(Q)
    BY <1>2, <2>2
  <2>4. z \in Requests /\ Ahead(z, z)
    BY <2>1, AheadIsTotal
  <2>5. CASE Q = {}
    <3>1. R = {z}
      BY <2>1, <2>5
    <3> QED  BY <2>4, <3>1
  <2>6. CASE Q # {}
    <3>1. PICK a \in Q : \A s \in Q : Ahead(a, s)
      BY <2>3, <2>6
    <3>2. PICK b \in Q : \A s \in Q : Ahead(s, b)
      BY <2>3, <2>6
    <3>3. \E r \in R : \A s \in R : Ahead(r, s)
      <4>1. CASE Ahead(a, z)
        BY <2>4, <3>1, <4>1
      <4>2. CASE Ahead(z, a)
        <5>1. \A s \in R : Ahead(z, s)
          BY <2>1, <2>4, <3>1, <4>2, AheadIsTotal
        <5> QED  BY <2>1, <5>1
      <4> QED  BY <2>4, <4>1, <4>2, AheadIsTotal
    <3>4. \E r \in R : \A s \in R : Ahead(s, r)
      <4>1. CASE Ahead(z, b)
        BY <2>4, <3>2, <4>1
      <4>2. CASE Ahead(b, z)
        <5>1. \A s \in R : Ahead(s, z)
          BY <2>1, <2>4, <3>2, <4>2, AheadIsTotal
        <5> QED  BY <2>1, <5>1
      <4> QED  BY <2>4, <4>1, <4>2, AheadIsTotal
    <3> QED  BY <3>3, <3>4
  <2> QED  BY <2>5, <2>6
<1>3. Cardinality(T) \in N
  <2>1. Cardinality(T) \in Nat
    BY <1>0
  <2> HIDE DEF N
  <2> QED  BY <1>1, <1>2, <2>1, Induction
<1> QED  BY <1>3

LEMMA ChoicesExist ==
  /\ running \in Seq(Requests) /\ running # <<>> =>
       Victim \in ToSet(running) /\ (Policy = "fcfs" => Victim = running[Len(running)])
  /\ waiting \in Seq(Requests) /\ waiting # <<>> => NextWaiting \in ToSet(waiting)
<1>1. ASSUME NEW q \in Seq(Requests), q # <<>>
      PROVE  /\ Head(q) \in ToSet(q) /\ Last(q) \in ToSet(q) /\ Last(q) = q[Len(q)]
             /\ Range(q) = ToSet(q) /\ ToSet(q) \in SUBSET Requests
             /\ \E r \in ToSet(q) : \A s \in ToSet(q) : Ahead(r, s)
             /\ \E r \in ToSet(q) : \A s \in ToSet(q) : Ahead(s, r)
  <2>1. Head(q) \in ToSet(q) /\ Last(q) \in ToSet(q) /\ Last(q) = q[Len(q)]
    BY <1>1, PoppedSeq, CutSeq
  <2>2. ToSet(q) \in SUBSET Requests /\ ToSet(q) # {}
    BY <2>1 DEF ToSet
  <2> QED  BY <2>1, <2>2, Extremes, RangeIsToSet
<1>2. ASSUME running \in Seq(Requests), running # <<>>
      PROVE  Victim \in ToSet(running) /\ (Policy = "fcfs" => Victim = running[Len(running)])
  BY <1>1, <1>2 DEF Victim, Ahead
<1>3. ASSUME waiting \in Seq(Requests), waiting # <<>> PROVE NextWaiting \in ToSet(waiting)
  BY <1>1, <1>3 DEF NextWaiting, Ahead
<1> QED  BY <1>2, <1>3

(* Sizes.                                                                    *)
LEMMA LimitsTyped == EncoderBudget \in Nat /\ CacheSize \in Nat
BY EncoderAssumption

LEMMA ItemFacts ==
  ASSUME NEW r \in Requests
  PROVE  /\ Features[r] \in Seq(Items) /\ ToSet(Features[r]) \subseteq Items
         /\ DOMAIN Features[r] = 1 .. Len(Features[r]) /\ Len(Features[r]) \in Nat
         /\ \A i \in DOMAIN Features[r] :
              Features[r][i] \in Items /\ HashOf(r, i) = Features[r][i].hash /\ HashOf(r, i) \in Hashes
<1>1. PICK q : q = Features[r]
  OBVIOUS
<1>2. q \in Seq(Items)
  BY <1>1, EncoderAssumption
<1>3. DOMAIN q = 1 .. Len(q) /\ Len(q) \in Nat /\ \A i \in DOMAIN q : q[i] \in Items
  BY ONLY <1>2
<1> QED  BY <1>1, <1>2, <1>3 DEF ToSet, HashOf, Hashes

LEMMA HashesFinite == IsFiniteSet(Items) /\ IsFiniteSet(Hashes)
<1> DEFINE g == [r \in Requests |-> Range(Features[r])]
           P == {g[r] : r \in Requests}
<1>1. ASSUME NEW r \in Requests PROVE IsFiniteSet(Range(Features[r]))
  <2>1. PICK q : q = Features[r]
    OBVIOUS
  <2>2. DOMAIN q = 1 .. Len(q) /\ Len(q) \in Nat
    BY <2>1, ItemFacts
  <2>3. IsFiniteSet(DOMAIN q)
    BY <2>2, FS_Interval
  <2>4. IsFiniteSet({q[i] : i \in DOMAIN q})
    BY <2>3, ImageFinite
  <2> QED  BY <2>1, <2>4 DEF Range
<1>2. IsFiniteSet(P)
  <2>1. IsFiniteSet(Requests)
    BY EncoderAssumption
  <2> HIDE DEF g
  <2> QED  BY <2>1, ImageFinite
<1>3. \A T \in P : IsFiniteSet(T)
  BY <1>1
<1>4. Items = UNION P
  BY DEF Items
<1> HIDE DEF P
<1>5. IsFiniteSet(Items)
  BY <1>2, <1>3, <1>4, FS_UNION
<1> DEFINE hash == [f \in Items |-> f.hash]
<1>6. Hashes = {hash[f] : f \in Items}
  BY DEF Hashes
<1> HIDE DEF hash
<1>7. IsFiniteSet(Hashes)
  BY <1>5, <1>6, ImageFinite
<1> QED  BY <1>5, <1>7

Weight == [h \in Hashes |-> NumEmbeds(CHOOSE f \in Items : f.hash = h)]

LEMMA WeightFacts ==
  /\ \A h \in Hashes : Weight[h] \in Nat
  /\ \A f \in Items : /\ f.hash \in Hashes /\ Weight[f.hash] = NumEmbeds(f)
                      /\ NumEmbeds(f) \in Nat
<1>1. ASSUME NEW f \in Items PROVE NumEmbeds(f) \in Nat
  <2>1. f.embeds \subseteq 0 .. f.length - 1 /\ f.length \in Nat
    BY EncoderAssumption
  <2>2. IsFiniteSet(0 .. f.length - 1)
    BY <2>1, FS_Interval
  <2>3. IsFiniteSet(f.embeds)
    BY <2>1, <2>2, FS_Subset
  <2> QED  BY <2>3, FS_CardinalityType DEF NumEmbeds
<1>2. ASSUME NEW f \in Items
      PROVE  f.hash \in Hashes /\ Weight[f.hash] = NumEmbeds(f)
  <2> DEFINE g == CHOOSE x \in Items : x.hash = f.hash
  <2>1. g \in Items /\ g.hash = f.hash
    OBVIOUS
  <2>2. f.hash \in Hashes
    BY DEF Hashes
  <2>3. Weight[f.hash] = NumEmbeds(g)
    BY <2>2 DEF Weight
  <2> HIDE DEF g
  <2>4. g.embeds = f.embeds
    BY <2>1, EncoderAssumption
  <2> QED  BY <2>2, <2>3, <2>4 DEF NumEmbeds
<1>3. ASSUME NEW h \in Hashes PROVE Weight[h] \in Nat
  <2>1. PICK f \in Items : f.hash = h
    BY DEF Hashes
  <2> QED  BY <1>1, <1>2, <2>1
<1> QED  BY <1>1, <1>2, <1>3

LEMMA SizeIsSum ==
  ASSUME NEW H \in SUBSET Hashes
  PROVE  /\ IsFiniteSet(H) /\ IntOn(Weight, H)
         /\ Size(H) = SumOver(Weight, H) /\ Size(H) \in Nat
<1> DEFINE g == [h \in H |-> NumEmbeds(CHOOSE f \in Items : f.hash = h)]
<1>1. IsFiniteSet(H)
  BY HashesFinite, FS_Subset
<1>2. \A h \in H : g[h] = Weight[h] /\ Weight[h] \in Nat /\ g[h] \in Int
  BY WeightFacts DEF Weight
<1>3. DOMAIN g = H
  OBVIOUS
<1>4. Size(H) = FoldFunction(+, 0, g)
  BY DEF Size, Total
<1> HIDE DEF g
<1>5. IntOn(Weight, H) /\ IntOn(g, H)
  BY <1>1, <1>2 DEF IntOn
<1>6. Size(H) = SumOver(g, H)
  BY <1>3, <1>4, <1>5, TotalIsSum
<1>7. SumOver(g, H) = SumOver(Weight, H)
  BY <1>2, <1>5, SumEqual
<1>8. SumOver(Weight, H) \in Nat
  BY <1>1, <1>2, SumOfNaturals
<1> QED  BY <1>1, <1>5, <1>6, <1>7, <1>8

LEMMA SizeMinus ==
  ASSUME NEW H \in SUBSET Hashes, NEW G \in SUBSET H
  PROVE  /\ Size(H) \in Nat /\ Size(G) \in Nat /\ Size(H \ G) \in Nat
         /\ Size(H \ G) = Size(H) - Size(G) /\ Size(G) <= Size(H)
<1>1. G \in SUBSET Hashes /\ H \ G \in SUBSET Hashes
  OBVIOUS
<1>2. SumOver(Weight, H) = SumOver(Weight, G) + SumOver(Weight, H \ G)
  BY SizeIsSum, SumSplit
<1> QED  BY <1>1, <1>2, SizeIsSum

LEMMA SizeUnion ==
  ASSUME NEW H \in SUBSET Hashes, NEW G \in SUBSET Hashes
  PROVE  Size(H \cup G) <= Size(H) + Size(G)
<1> DEFINE B == H \cup G
<1>1. B \in SUBSET Hashes /\ H \in SUBSET B /\ B \ H \in SUBSET G /\ B \ H \in SUBSET Hashes
  OBVIOUS
<1> HIDE DEF B
<1>2. Size(B \ H) = Size(B) - Size(H) /\ Size(B) \in Nat
  BY <1>1, SizeMinus
<1>3. Size(B \ H) <= Size(G)
  BY <1>1, SizeMinus
<1>4. Size(H) \in Nat /\ Size(G) \in Nat /\ Size(B \ H) \in Nat
  BY <1>1, SizeIsSum
<1> QED  BY <1>2, <1>3, <1>4 DEF B

LEMMA SizeOfNone == Size({}) = 0
BY SizeIsSum, EmptySum

ItemWeights(r) == [i \in DOMAIN Features[r] |-> NumEmbeds(Features[r][i])]

LEMMA EmbedsIsSum ==
  ASSUME NEW r \in Requests, NEW I, I \subseteq DOMAIN Features[r]
  PROVE  /\ IsFiniteSet(I) /\ IntOn(ItemWeights(r), I)
         /\ EmbedsOf(r, I) = SumOver(ItemWeights(r), I) /\ EmbedsOf(r, I) \in Nat
<1> DEFINE g == [i \in I |-> NumEmbeds(Features[r][i])]
           w == ItemWeights(r)
<1>1. IsFiniteSet(I)
  <2>1. PICK n \in Nat : DOMAIN Features[r] = 1 .. n
    BY ItemFacts
  <2>2. IsFiniteSet(1 .. n)
    BY <2>1, FS_Interval
  <2> QED  BY <2>1, <2>2, FS_Subset
<1>2. \A i \in I : g[i] = w[i] /\ w[i] \in Nat /\ g[i] \in Int
  BY WeightFacts, ItemFacts DEF ItemWeights
<1>3. DOMAIN g = I
  OBVIOUS
<1>4. EmbedsOf(r, I) = FoldFunction(+, 0, g)
  BY DEF EmbedsOf, Total
<1> HIDE DEF g, w
<1>5. IntOn(w, I) /\ IntOn(g, I)
  BY <1>1, <1>2 DEF IntOn
<1>6. EmbedsOf(r, I) = SumOver(g, I)
  BY <1>3, <1>4, <1>5, TotalIsSum
<1>7. SumOver(g, I) = SumOver(w, I)
  BY <1>2, <1>5, SumEqual
<1>8. SumOver(w, I) \in Nat
  BY <1>1, <1>2, SumOfNaturals
<1> QED  BY <1>1, <1>5, <1>6, <1>7, <1>8 DEF w

LEMMA EmbedsOfNone == ASSUME NEW r \in Requests PROVE EmbedsOf(r, {}) = 0
BY EmbedsIsSum, EmptySum

LEMMA EmbedsWith ==
  ASSUME NEW r \in Requests, NEW I, I \subseteq DOMAIN Features[r],
         NEW i \in DOMAIN Features[r], i \notin I
  PROVE  EmbedsOf(r, I \cup {i}) = EmbedsOf(r, I) + NumEmbeds(Features[r][i])
<1> DEFINE w == ItemWeights(r)  J == I \cup {i}
<1>1. J \subseteq DOMAIN Features[r] /\ i \in J /\ J \ {i} = I
  OBVIOUS
<1>2. w[i] = NumEmbeds(Features[r][i]) /\ w[i] \in Nat
  BY WeightFacts, ItemFacts DEF ItemWeights
<1> HIDE DEF w, J
<1>3. EmbedsOf(r, J) = SumOver(w, J) /\ IntOn(w, J)
  BY <1>1, EmbedsIsSum DEF w
<1>4. EmbedsOf(r, I) = SumOver(w, I) /\ EmbedsOf(r, I) \in Nat
  BY EmbedsIsSum DEF w
<1>5. SumOver(w, J) = w[i] + SumOver(w, J \ {i})
  BY <1>1, <1>3, SumWithout
<1>6. EmbedsOf(r, J) = w[i] + EmbedsOf(r, I)
  <2>1. SumOver(w, J \ {i}) = EmbedsOf(r, I)
    BY <1>1, <1>4
  <2>2. SumOver(w, J) = w[i] + EmbedsOf(r, I)
    BY ONLY <1>5, <2>1
  <2> QED  BY ONLY <1>3, <2>2
<1>7. w[i] + EmbedsOf(r, I) = EmbedsOf(r, I) + w[i]
  BY <1>2, <1>4
<1>8. EmbedsOf(r, J) = EmbedsOf(r, I) + NumEmbeds(Features[r][i])
  BY ONLY <1>2, <1>6, <1>7
<1> QED  BY <1>8 DEF J

LEMMA HashedSize ==
  ASSUME NEW r \in Requests, NEW I, I \subseteq DOMAIN Features[r]
  PROVE  Hashed(r, I) \in SUBSET Hashes /\ Size(Hashed(r, I)) <= EmbedsOf(r, I)
<1> DEFINE g == [i \in I |-> HashOf(r, i)]
           w == ItemWeights(r)
           v == [i \in I |-> Weight[g[i]]]
<1>1. \A i \in I : g[i] \in Hashes /\ Weight[g[i]] = w[i] /\ Weight[g[i]] \in Nat
  BY ItemFacts, WeightFacts DEF ItemWeights
<1>2. Hashed(r, I) = {g[i] : i \in I}
  BY DEF Hashed
<1> HIDE DEF g, w
<1>3. Hashed(r, I) \in SUBSET Hashes
  BY <1>1, <1>2
<1>4. SumOver(Weight, {g[i] : i \in I}) <= SumOver(v, I)
  BY <1>1, EmbedsIsSum, SumOfImage
<1>5. \A i \in I : v[i] = w[i]
  BY <1>1
<1> HIDE DEF v
<1>6. IntOn(w, I) /\ EmbedsOf(r, I) = SumOver(w, I)
  BY EmbedsIsSum DEF w
<1>7. SumOver(v, I) = SumOver(w, I)
  BY <1>5, <1>6, SumEqual
<1>8. Size(Hashed(r, I)) = SumOver(Weight, Hashed(r, I))
  BY <1>3, SizeIsSum
<1> QED  BY <1>2, <1>3, <1>4, <1>6, <1>7, <1>8

(* What the rows of a step spend.                                            *)
RowWeight == [row \in PlannedRows |-> InputEmbeds(row)]

LEMMA RowFacts ==
  ASSUME NEW row \in PlannedRows
  PROVE  /\ row.req \in Requests /\ row.inputs \subseteq DOMAIN Features[row.req]
         /\ row.first \in Int /\ row.n \in Int
         /\ RowWeight[row] = EmbedsOf(row.req, row.inputs)
         /\ InputEmbeds(row) = EmbedsOf(row.req, row.inputs)
         /\ EmbedsOf(row.req, row.inputs) \in Nat
<1>1. /\ row.req \in Requests /\ row.inputs \subseteq DOMAIN Features[row.req]
      /\ row.first \in Int /\ row.n \in Int
  BY DEF PlannedRows
<1>2. InputEmbeds(row) = EmbedsOf(row.req, row.inputs)
  BY DEF InputEmbeds, EmbedsOf
<1> QED  BY <1>1, <1>2, EmbedsIsSum DEF RowWeight

LEMMA RowsFinite ==
  ASSUME NEW U, NEW q \in Seq(U)
  PROVE  IsFiniteSet(ToSet(q)) /\ ToSet(q) \subseteq U
<1>1. DOMAIN q = 1 .. Len(q) /\ Len(q) \in Nat /\ \A i \in DOMAIN q : q[i] \in U
  OBVIOUS
<1>2. IsFiniteSet(DOMAIN q)
  BY <1>1, FS_Interval
<1>3. IsFiniteSet({q[i] : i \in DOMAIN q})
  BY <1>2, ImageFinite
<1> QED  BY <1>1, <1>3 DEF ToSet

LEMMA InputsTotal ==
  ASSUME NEW S \in SUBSET PlannedRows, IsFiniteSet(S)
  PROVE  /\ IntOn(RowWeight, S)
         /\ Total([row \in S |-> InputEmbeds(row)]) = SumOver(RowWeight, S)
         /\ SumOver(RowWeight, S) \in Nat
<1> DEFINE g == [row \in S |-> InputEmbeds(row)]
<1>1. \A row \in S : g[row] = RowWeight[row] /\ RowWeight[row] \in Nat /\ g[row] \in Int
  BY RowFacts DEF RowWeight
<1>2. DOMAIN g = S
  OBVIOUS
<1>3. Total(g) = FoldFunction(+, 0, g)
  BY DEF Total
<1> HIDE DEF g
<1>4. IntOn(RowWeight, S) /\ IntOn(g, S)
  BY <1>1 DEF IntOn
<1>5. FoldFunction(+, 0, g) = SumOver(g, S)
  BY <1>2, <1>4, TotalIsSum
<1>6. SumOver(g, S) = SumOver(RowWeight, S)
  BY <1>1, <1>4, SumEqual
<1>7. SumOver(RowWeight, S) \in Nat
  BY <1>1, SumOfNaturals
<1>8. Total(g) = SumOver(RowWeight, S)
  BY <1>3, <1>5, <1>6
<1> QED  BY <1>4, <1>7, <1>8 DEF g

LEMMA TokensTotal ==
  ASSUME NEW S \in SUBSET PlannedRows, IsFiniteSet(S)
  PROVE  Total([row \in S |-> row.n]) \in Int
<1> DEFINE g == [row \in S |-> row.n]
<1>1. \A row \in S : g[row] \in Int
  BY RowFacts
<1>2. DOMAIN g = S
  OBVIOUS
<1>3. Total(g) = FoldFunction(+, 0, g)
  BY DEF Total
<1> HIDE DEF g
<1>4. IntOn(g, S)
  BY <1>1 DEF IntOn
<1>5. FoldFunction(+, 0, g) = SumOver(g, S) /\ SumOver(g, S) \in Int
  BY <1>2, <1>4, TotalIsSum, SumIn
<1>6. Total(g) \in Int
  BY <1>3, <1>5
<1> QED  BY <1>6 DEF g

LEMMA SpentIsSum ==
  ASSUME NEW q \in Seq(PlannedRows)
  PROVE  /\ IntOn(RowWeight, ToSet(q)) /\ SpentOn(q) = SumOver(RowWeight, ToSet(q))
         /\ SpentOn(q) \in Nat
<1>1. ToSet(q) \in SUBSET PlannedRows /\ IsFiniteSet(ToSet(q)) /\ Range(q) = ToSet(q)
  BY RowsFinite, RangeIsToSet
<1>2. SpentOn(q) = Total([row \in ToSet(q) |-> InputEmbeds(row)])
  BY <1>1 DEF SpentOn
<1> QED  BY <1>1, <1>2, InputsTotal

LEMMA SpentOnNone == SpentOn(<<>>) = 0
<1>1. <<>> \in Seq(PlannedRows) /\ ToSet(<<>>) = {}
  BY EmptySeq DEF ToSet
<1> QED  BY <1>1, SpentIsSum, EmptySum

LEMMA SpentAppend ==
  ASSUME NEW q \in Seq(PlannedRows), NEW row \in PlannedRows
  PROVE  SpentOn(Append(q, row)) <= SpentOn(q) + EmbedsOf(row.req, row.inputs)
<1>1. PICK p : p = Append(q, row)
  OBVIOUS
<1>2. p \in Seq(PlannedRows) /\ ToSet(p) = ToSet(q) \cup {row}
  BY <1>1, AppendedSeq
<1>3. SpentOn(p) = SumOver(RowWeight, ToSet(p)) /\ IntOn(RowWeight, ToSet(p))
  BY <1>2, SpentIsSum
<1>4. SpentOn(q) = SumOver(RowWeight, ToSet(q)) /\ SpentOn(q) \in Nat
  BY SpentIsSum
<1>5. RowWeight[row] = EmbedsOf(row.req, row.inputs) /\ RowWeight[row] \in Nat
  BY RowFacts
<1>6. CASE row \in ToSet(q)
  <2>1. ToSet(p) = ToSet(q)
    BY <1>2, <1>6
  <2>2. SpentOn(p) = SpentOn(q)
    BY <1>3, <1>4, <2>1
  <2> QED  BY <1>1, <1>4, <1>5, <2>2
<1>7. CASE row \notin ToSet(q)
  <2>1. ToSet(p) \ {row} = ToSet(q) /\ row \in ToSet(p)
    BY <1>2, <1>7
  <2>2. SumOver(RowWeight, ToSet(p)) = RowWeight[row] + SumOver(RowWeight, ToSet(p) \ {row})
    BY <1>3, <2>1, SumWithout
  <2>3. SpentOn(p) = RowWeight[row] + SpentOn(q)
    BY <1>3, <1>4, <2>1, <2>2
  <2> QED  BY <1>1, <1>4, <1>5, <2>3
<1> QED  BY <1>6, <1>7

LEMMA SpentWithout ==
  ASSUME NEW q \in Seq(PlannedRows), NEW S \in SUBSET ToSet(q)
  PROVE  /\ Total([row \in S |-> InputEmbeds(row)]) \in Nat
         /\ SpentOn(Without(q, S)) + Total([row \in S |-> InputEmbeds(row)]) = SpentOn(q)
         /\ SpentOn(Without(q, S)) \in Nat
<1>1. PICK p : p = Without(q, S)
  OBVIOUS
<1>2. p \in Seq(PlannedRows) /\ ToSet(p) = ToSet(q) \ S
  BY <1>1, KeptFacts
<1>3. SpentOn(p) = SumOver(RowWeight, ToSet(p)) /\ SpentOn(p) \in Nat
  BY <1>2, SpentIsSum
<1>4. SpentOn(q) = SumOver(RowWeight, ToSet(q)) /\ IntOn(RowWeight, ToSet(q))
  BY SpentIsSum
<1>5. S \in SUBSET PlannedRows /\ IsFiniteSet(S)
  BY RowsFinite, FS_Subset
<1>6. SumOver(RowWeight, ToSet(q)) = SumOver(RowWeight, S) + SumOver(RowWeight, ToSet(q) \ S)
  BY <1>4, SumSplit
<1>7. /\ Total([row \in S |-> InputEmbeds(row)]) = SumOver(RowWeight, S)
      /\ SumOver(RowWeight, S) \in Nat
  BY <1>5, InputsTotal
<1>8. SpentOn(q) = SumOver(RowWeight, S) + SpentOn(p)
  BY <1>2, <1>3, <1>4, <1>6
<1>9. SpentOn(p) + SumOver(RowWeight, S) = SpentOn(q)
  BY <1>3, <1>7, <1>8
<1> QED  BY <1>1, <1>3, <1>7, <1>9

(* The operations of the cache.                                              *)
Keeps(m, w) ==
  /\ CacheSound(w) /\ Cached(w) \subseteq Cached(m) /\ Cached(m) \subseteq Cached(w) \cup w.freed
  /\ m.freed \subseteq w.freed /\ Cached(w) \cap w.freed \subseteq m.freed
  /\ \A s, h : Holds(m, s, h) => Holds(w, s, h)
Spares(m, w, r) ==
  /\ CacheSound(w) /\ Cached(w) = Cached(m) /\ w.freed = m.freed
  /\ \A s, h : s # r /\ Holds(m, s, h) => Holds(w, s, h)

LEMMA CacheFacts ==
  ASSUME NEW m, m \in Caches
  PROVE  /\ m = [refs |-> m.refs, freeable |-> m.freeable, freed |-> m.freed]
         /\ m.refs = [h \in Cached(m) |-> m.refs[h]] /\ Cached(m) \in SUBSET Hashes
         /\ \A h \in Cached(m) : m.refs[h] \in SUBSET Requests
         /\ m.freeable \in Seq(Hashes) /\ m.freed \in SUBSET Hashes
<1>1. /\ m = [refs |-> m.refs, freeable |-> m.freeable, freed |-> m.freed]
      /\ m.freeable \in Seq(Hashes) /\ m.freed \in SUBSET Hashes
      /\ m.refs \in UNION {[H -> SUBSET Requests] : H \in SUBSET Hashes}
  BY DEF Caches
<1>2. PICK H \in SUBSET Hashes : m.refs \in [H -> SUBSET Requests]
  BY <1>1
<1>3. Cached(m) = H
  BY <1>2 DEF Cached
<1> QED  BY <1>1, <1>2, <1>3

Consists(m, H, g, q, F) ==
  m \in Caches /\ Cached(m) = H /\ m.refs = g /\ m.freeable = q /\ m.freed = F

LEMMA CacheMade ==
  ASSUME NEW H \in SUBSET Hashes, NEW g \in [H -> SUBSET Requests],
         NEW q \in Seq(Hashes), NEW F \in SUBSET Hashes,
         NEW m, m = [refs |-> g, freeable |-> q, freed |-> F]
  PROVE  Consists(m, H, g, q, F)
<1>1. g \in UNION {[G -> SUBSET Requests] : G \in SUBSET Hashes}
  OBVIOUS
<1> QED  BY <1>1 DEF Caches, Cached, Consists

LEMMA TouchKeeps ==
  ASSUME NEW m, CacheSound(m), NEW h \in Cached(m), NEW r \in Requests
  PROVE  Keeps(m, Touch(m, h, r)) /\ Holds(Touch(m, h, r), r, h)
<1> DEFINE H == Cached(m)
           g == [x \in H |-> IF x = h THEN m.refs[x] \cup {r} ELSE m.refs[x]]
           q == Without(m.freeable, {h})
<1>0. m \in Caches /\ FreeableUnused(m) /\ Size(Cached(m)) <= CacheSize
  BY DEF CacheSound
<1>1. /\ H \in SUBSET Hashes /\ g \in [H -> SUBSET Requests]
      /\ m.freeable \in Seq(Hashes) /\ m.freed \in SUBSET Hashes
  BY <1>0, CacheFacts
<1>2. q \in Seq(Hashes) /\ ToSet(q) = ToSet(m.freeable) \ {h}
  BY <1>1, KeptFacts
<1>3. PICK w : w = Touch(m, h, r)
  OBVIOUS
<1>4. w = [refs |-> g, freeable |-> q, freed |-> m.freed]
  <2>1. /\ m = [refs |-> m.refs, freeable |-> m.freeable, freed |-> m.freed]
        /\ m.refs = [x \in H |-> m.refs[x]]
    BY <1>0, CacheFacts
  <2>2. [m.refs EXCEPT ![h] = @ \cup {r}] = g
    BY <2>1 DEF Cached
  <2> HIDE DEF g, q, H
  <2>3. w = [m EXCEPT !.refs = g, !.freeable = q]
    BY <1>3, <2>2 DEF Touch, q
  <2> QED  BY <2>1, <2>3
<1>5. w \in Caches /\ Cached(w) = H /\ w.refs = g /\ w.freeable = q /\ w.freed = m.freed
  <2>1. Consists(w, H, g, q, m.freed)
    <3> HIDE DEF g, q, H
    <3> QED  BY ONLY <1>1, <1>2, <1>4, CacheMade
  <2> QED  BY <2>1 DEF Consists
<1>6. FreeableUnused(w)
  <2> SUFFICES ASSUME NEW x \in ToSet(q) PROVE x \in H /\ g[x] = {}
    BY <1>5 DEF FreeableUnused
  <2> QED  BY <1>0, <1>2 DEF FreeableUnused
<1>7. CacheSound(w)
  BY <1>0, <1>5, <1>6 DEF CacheSound
<1>8. ASSUME NEW s, NEW x, Holds(m, s, x) PROVE Holds(w, s, x)
  BY <1>5, <1>8 DEF Holds
<1>9. Holds(w, r, h)
  BY <1>5 DEF Holds
<1> QED  BY <1>3, <1>5, <1>7, <1>8, <1>9 DEF Keeps

LEMMA ReleaseSpares ==
  ASSUME NEW m, CacheSound(m), NEW h \in Hashes, NEW r
  PROVE  Spares(m, Release(m, h, r), r)
<1> DEFINE H == Cached(m)
           g == [x \in H |-> IF x = h THEN m.refs[x] \ {r} ELSE m.refs[x]]
           q == IF m.refs[h] = {r} THEN Append(m.freeable, h) ELSE m.freeable
<1>0. m \in Caches /\ FreeableUnused(m) /\ Size(Cached(m)) <= CacheSize
  BY DEF CacheSound
<1>1. PICK w : w = Release(m, h, r)
  OBVIOUS
<1>2. CASE h \notin Cached(m) \/ m.refs[h] = {}
  <2>1. w = m
    BY <1>1, <1>2 DEF Release
  <2> QED  BY <1>1, <2>1 DEF Spares
<1>3. CASE h \in Cached(m) /\ m.refs[h] # {}
  <2>1. /\ H \in SUBSET Hashes /\ g \in [H -> SUBSET Requests]
        /\ m.freeable \in Seq(Hashes) /\ m.freed \in SUBSET Hashes
    BY <1>0, CacheFacts
  <2>2. q \in Seq(Hashes) /\ ToSet(q) \subseteq ToSet(m.freeable) \cup {h}
        /\ (h \in ToSet(q) => h \in ToSet(m.freeable) \/ m.refs[h] = {r})
    BY <2>1, AppendedSeq
  <2>3. w = [refs |-> g, freeable |-> q, freed |-> m.freed]
    <3>1. /\ m = [refs |-> m.refs, freeable |-> m.freeable, freed |-> m.freed]
          /\ m.refs = [x \in H |-> m.refs[x]]
      BY <1>0, CacheFacts
    <3>2. [m.refs EXCEPT ![h] = @ \ {r}] = g
      BY <1>3, <3>1 DEF Cached
    <3>3. w = [m EXCEPT !.refs = [m.refs EXCEPT ![h] = @ \ {r}], !.freeable = q]
      BY <1>1, <1>3 DEF Release
    <3> HIDE DEF g, q, H
    <3> QED  BY <3>1, <3>2, <3>3
  <2>4. w \in Caches /\ Cached(w) = H /\ w.refs = g /\ w.freeable = q /\ w.freed = m.freed
    <3>1. Consists(w, H, g, q, m.freed)
      <4> HIDE DEF g, q, H
      <4> QED  BY ONLY <2>1, <2>2, <2>3, CacheMade
    <3> QED  BY <3>1 DEF Consists
  <2>5. FreeableUnused(w)
    <3> SUFFICES ASSUME NEW x \in ToSet(q) PROVE x \in H /\ g[x] = {}
      BY <2>4 DEF FreeableUnused
    <3>1. CASE x \in ToSet(m.freeable)
      BY <1>0, <3>1 DEF FreeableUnused
    <3>2. CASE x \notin ToSet(m.freeable)
      <4>1. x = h /\ m.refs[h] = {r}
        BY <2>2, <3>2
      <4> QED  BY <1>3, <4>1
    <3> QED  BY <3>1, <3>2
  <2>6. CacheSound(w)
    BY <1>0, <2>4, <2>5 DEF CacheSound
  <2>7. ASSUME NEW s, NEW x, s # r, Holds(m, s, x) PROVE Holds(w, s, x)
    BY <2>4, <2>7 DEF Holds
  <2> QED  BY <1>1, <2>4, <2>6, <2>7 DEF Spares
<1> QED  BY <1>2, <1>3

LEMMA AllocateFacts ==
  ASSUME NEW m, CacheSound(m), NEW H \in SUBSET Hashes, H \cap Cached(m) = {},
         NEW k \in Int, Size(H) <= k, Size(Cached(m)) + k <= CacheSize, NEW r \in Requests,
         NEW w, w = Allocate(m, H, r)
  PROVE  /\ CacheSound(w) /\ Cached(w) = Cached(m) \cup H /\ w.freed = m.freed
         /\ \A s, h : Holds(m, s, h) => Holds(w, s, h)
         /\ \A h \in H : Holds(w, r, h)
<1> DEFINE D == Cached(m) \cup H
           g == [x \in D |->
                  (IF x \in Cached(m) THEN m.refs[x] ELSE {}) \cup (IF x \in H THEN {r} ELSE {})]
<1>0. m \in Caches /\ FreeableUnused(m) /\ Size(Cached(m)) <= CacheSize
  BY DEF CacheSound
<1>1. /\ Cached(m) \in SUBSET Hashes /\ D \in SUBSET Hashes /\ g \in [D -> SUBSET Requests]
      /\ m.freeable \in Seq(Hashes) /\ m.freed \in SUBSET Hashes
  BY <1>0, CacheFacts
<1>2. w = [refs |-> g, freeable |-> m.freeable, freed |-> m.freed]
  <2>1. m = [refs |-> m.refs, freeable |-> m.freeable, freed |-> m.freed]
    BY <1>0, CacheFacts
  <2>2. w = [m EXCEPT !.refs = g]
    BY DEF Allocate
  <2> HIDE DEF g
  <2> QED  BY <2>1, <2>2
<1>3. w \in Caches /\ Cached(w) = D /\ w.refs = g /\ w.freeable = m.freeable /\ w.freed = m.freed
  <2>1. Consists(w, D, g, m.freeable, m.freed)
    <3> HIDE DEF g, D
    <3> QED  BY ONLY <1>1, <1>2, CacheMade
  <2> QED  BY <2>1 DEF Consists
<1>4. FreeableUnused(w)
  <2> SUFFICES ASSUME NEW x \in ToSet(m.freeable) PROVE x \in D /\ g[x] = {}
    BY <1>3 DEF FreeableUnused
  <2> QED  BY <1>0 DEF FreeableUnused
<1>5. Size(D) <= CacheSize
  <2>1. Size(D) <= Size(Cached(m)) + Size(H)
    BY <1>1, SizeUnion
  <2>2. Size(D) \in Nat /\ Size(Cached(m)) \in Nat /\ Size(H) \in Nat /\ CacheSize \in Nat
    BY <1>1, SizeIsSum, LimitsTyped
  <2> HIDE DEF D
  <2> QED  BY <2>1, <2>2
<1>6. CacheSound(w)
  BY <1>3, <1>4, <1>5 DEF CacheSound
<1>7. ASSUME NEW s, NEW x, Holds(m, s, x) PROVE Holds(w, s, x)
  BY <1>3, <1>7 DEF Holds
<1>8. ASSUME NEW h \in H PROVE Holds(w, r, h)
  BY <1>3, <1>8 DEF Holds
<1> QED  BY <1>3, <1>6, <1>7, <1>8

LEMMA EvictedKeeps ==
  ASSUME NEW m, CacheSound(m), NEW e \in Nat, CanAllocate(m, e), NEW w, w = Evicted(m, e)
  PROVE  Keeps(m, w) /\ Size(Cached(w)) + e <= CacheSize
<1> DEFINE q == m.freeable
           enough == {k \in 0 .. Len(q) : FreeSlots(m) + Size(Range(SubSeq(q, 1, k))) >= e}
           k == Min(enough)
           gone == Range(SubSeq(q, 1, k))
           H == Cached(m) \ gone
           g == [h \in H |-> m.refs[h]]
<1>0. m \in Caches /\ FreeableUnused(m) /\ Size(Cached(m)) <= CacheSize
  BY DEF CacheSound
<1>1. /\ Cached(m) \in SUBSET Hashes /\ H \in SUBSET Hashes /\ g \in [H -> SUBSET Requests]
      /\ q \in Seq(Hashes) /\ m.freed \in SUBSET Hashes
  BY <1>0, CacheFacts
<1>2. k \in 0 .. Len(q) /\ FreeSlots(m) + Size(gone) >= e
  <2>1. Len(q) \in Nat /\ SubSeq(q, 1, Len(q)) = q
    <3> HIDE DEF q
    <3> QED  BY <1>1
  <2>2. FreeSlots(m) + Size(Range(q)) >= e
    <3>1. Range(q) \in SUBSET Hashes
      BY <1>1, RowsFinite, RangeIsToSet
    <3>2. Size(Range(q)) \in Nat /\ Size(Cached(m)) \in Nat /\ CacheSize \in Nat
      BY <1>1, <3>1, SizeIsSum, LimitsTyped
    <3>3. e <= FreeSlots(m) + Size(Range(q))
      BY DEF CanAllocate
    <3>4. FreeSlots(m) \in Int
      BY <3>2 DEF FreeSlots
    <3> HIDE DEF q
    <3> QED  BY <3>2, <3>3, <3>4
  <2>3. Len(q) \in enough
    <3>1. Len(q) \in 0 .. Len(q)
      BY <2>1
    <3>2. FreeSlots(m) + Size(Range(SubSeq(q, 1, Len(q)))) >= e
      BY <2>1, <2>2
    <3> HIDE DEF q
    <3> QED  BY <3>1, <3>2
  <2>4. enough \in SUBSET Nat
    BY <2>1
  <2>5. k \in enough
    <3> HIDE DEF enough
    <3>1. \E x \in enough : \A y \in enough : x <= y
      BY <2>3, <2>4, LeastNumber
    <3> QED  BY <3>1 DEF Min
  <2> QED  BY <2>5
<1>3. gone \subseteq ToSet(q)
  <2>1. PICK j \in 0 .. Len(q) : j = k
    BY <1>2
  <2>2. ASSUME NEW i \in 1 .. j PROVE SubSeq(q, 1, j)[i] = q[i] /\ i \in DOMAIN q
    <3> HIDE DEF q
    <3> QED  BY <1>1, <2>1, <2>2
  <2>3. DOMAIN SubSeq(q, 1, j) = 1 .. j
    <3> HIDE DEF q
    <3> QED  BY <1>1, <2>1
  <2>4. gone = Range(SubSeq(q, 1, j))
    BY <2>1
  <2> HIDE DEF gone, q, k
  <2> QED  BY <2>2, <2>3, <2>4 DEF ToSet, Range
<1>4. gone \subseteq Cached(m) /\ \A h \in gone : m.refs[h] = {}
  BY <1>0, <1>3 DEF FreeableUnused
<1>5. w = [refs |-> g, freeable |-> Without(q, gone), freed |-> m.freed \cup gone]
  BY DEF Evicted
<1> HIDE DEF gone, enough, k
<1>6. Without(q, gone) \in Seq(Hashes) /\ ToSet(Without(q, gone)) = ToSet(q) \ gone
  BY <1>1, KeptFacts
<1>7. /\ w \in Caches /\ Cached(w) = H /\ w.refs = g
      /\ w.freeable = Without(q, gone) /\ w.freed = m.freed \cup gone
  <2>1. m.freed \cup gone \in SUBSET Hashes
    BY <1>1, <1>4
  <2>2. Consists(w, H, g, Without(q, gone), m.freed \cup gone)
    <3> HIDE DEF g, H, q
    <3> QED  BY ONLY <1>1, <1>5, <1>6, <2>1, CacheMade
  <2> QED  BY <2>2 DEF Consists
<1>8. FreeableUnused(w)
  <2> SUFFICES ASSUME NEW x \in ToSet(w.freeable) PROVE x \in H /\ g[x] = {}
    BY <1>7 DEF FreeableUnused
  <2>1. x \in ToSet(q) \ gone
    BY <1>6, <1>7
  <2> QED  BY <1>0, <2>1 DEF FreeableUnused
<1>9. Size(H) = Size(Cached(m)) - Size(gone) /\ Size(H) \in Nat /\ Size(gone) \in Nat
      /\ Size(Cached(m)) \in Nat
  BY <1>1, <1>4, SizeMinus
<1>10. Size(H) + e <= CacheSize /\ Size(H) <= CacheSize
  <2>1. CacheSize \in Nat
    BY EncoderAssumption
  <2>2. CacheSize - Size(Cached(m)) + Size(gone) >= e
    BY <1>2 DEF FreeSlots
  <2> HIDE DEF H
  <2> QED  BY <1>9, <2>1, <2>2
<1>11. CacheSound(w)
  BY <1>7, <1>8, <1>10 DEF CacheSound
<1>12. ASSUME NEW s, NEW x, Holds(m, s, x) PROVE Holds(w, s, x)
  <2>1. x \in Cached(m) /\ s \in m.refs[x]
    BY <1>12 DEF Holds
  <2>2. x \in H
    BY <1>4, <2>1
  <2> QED  BY <1>7, <2>1, <2>2 DEF Holds
<1> QED  BY <1>7, <1>10, <1>11, <1>12 DEF Keeps

LEMMA KeepsTrans ==
  ASSUME NEW l, NEW m, NEW w, Keeps(l, m), Keeps(m, w)
  PROVE  Keeps(l, w)
BY DEF Keeps

LEMMA KeepsItself ==
  ASSUME NEW m, CacheSound(m)
  PROVE  Keeps(m, m) /\ \A r : Spares(m, m, r)
BY DEF Keeps, Spares

LEMMA SparesTrans ==
  ASSUME NEW l, NEW m, NEW w, NEW r, Spares(l, m, r), Spares(m, w, r)
  PROVE  Spares(l, w, r)
BY DEF Spares

(* A request gives back some of its entries, or all.                         *)
LEMMA ReleaseThoseSpares ==
  ASSUME NEW m, CacheSound(m), NEW r \in Requests, NEW S
  PROVE  Spares(m, ReleaseThose(m, r, S), r)
<1> DEFINE Step(w, f) == IF f \in S THEN Release(w, f.hash, r) ELSE w
           seq  == Features[r]
           n    == Len(seq)
           V    == {w \in Caches : Spares(m, w, r)}
           next == [i \in 1 .. n |-> [w \in V |-> Step(w, seq[i])]]
           Eq(iter) ==
             iter = [s \in SUBSET DOMAIN seq |->
                       IF s = {} THEN m ELSE Step(iter[s \ {Max(s)}], seq[Max(s)])]
           it == CHOOSE iter : Eq(iter)
<1>1. ReleaseThose(m, r, S) = it[DOMAIN seq]
  BY DEF ReleaseThose, FoldLeft, MapThenFoldSet
<1>2. DOMAIN seq = 1 .. n /\ n \in Nat /\ \A i \in 1 .. n : seq[i] \in Items /\ seq[i].hash \in Hashes
  BY ItemFacts, WeightFacts
<1> HIDE DEF seq, n
<1>3. ASSUME NEW w \in V, NEW i \in 1 .. n PROVE Step(w, seq[i]) \in V
  <2>1. Spares(m, w, r) /\ CacheSound(w)
    BY DEF Spares
  <2>2. PICK h : h = seq[i].hash
    OBVIOUS
  <2>3. PICK x : x = Release(w, h, r)
    OBVIOUS
  <2>4. Spares(m, x, r)
    <3>1. Spares(w, x, r)
      BY <1>2, <2>1, <2>2, <2>3, ReleaseSpares
    <3> QED  BY <2>1, <3>1, SparesTrans
  <2>5. x \in Caches
    BY <2>4 DEF Spares, CacheSound
  <2> QED  BY <2>2, <2>3, <2>4, <2>5
<1>4. next \in Steps(n, V)
  <2> HIDE DEF Step, V
  <2> QED  BY <1>3 DEF Steps
<1>5. m \in V
  BY KeepsItself DEF CacheSound
<1>6. PICK fold : IsFold(fold, n, V, m, next)
  <2> HIDE DEF next, V
  <2> QED  BY <1>2, <1>4, <1>5, FoldExists
<1>7. \A s : Max(s) = LastOf(s)
  BY DEF Max, LastOf
<1>8. ASSUME NEW s \in SUBSET (1 .. n), s # {}
      PROVE  Max(s) \in 1 .. n /\ s \ {Max(s)} \in SUBSET (1 .. n)
  <2>1. LastOf(s) \in s
    BY <1>2, <1>8, LastIsGreatest
  <2> QED  BY <1>7, <2>1
<1>9. Eq(fold)
  <2> HIDE DEF V, Step
  <2>1. fold = [s \in SUBSET (1 .. n) |-> fold[s]]
    BY <1>6 DEF IsFold
  <2>2. ASSUME NEW s \in SUBSET (1 .. n)
        PROVE  fold[s] = IF s = {} THEN m ELSE Step(fold[s \ {Max(s)}], seq[Max(s)])
    <3>1. FoldsAt(fold, m, next, s)
      BY <1>6 DEF IsFold
    <3>2. CASE s = {}
      BY <3>1, <3>2 DEF FoldsAt
    <3>3. CASE s # {}
      <4>1. fold[s] = next[Max(s)][fold[s \ {Max(s)}]]
        BY <1>7, <3>1, <3>3 DEF FoldsAt
      <4>2. Max(s) \in 1 .. n /\ fold[s \ {Max(s)}] \in V
        BY <1>6, <1>8, <3>3 DEF IsFold
      <4>3. next[Max(s)][fold[s \ {Max(s)}]] = Step(fold[s \ {Max(s)}], seq[Max(s)])
        BY <4>2
      <4> QED  BY <3>3, <4>1, <4>3
    <3> QED  BY <3>2, <3>3
  <2>3. [s \in SUBSET (1 .. n) |-> fold[s]] =
        [s \in SUBSET (1 .. n) |->
           IF s = {} THEN m ELSE Step(fold[s \ {Max(s)}], seq[Max(s)])]
    BY <2>2
  <2> QED  BY <1>2, <2>1, <2>3
<1>10. Eq(it)
  <2> HIDE DEF Eq
  <2> QED  BY <1>9
<1> HIDE DEF it
<1>11. ASSUME NEW s \in SUBSET (1 .. n)
       PROVE  it[s] = IF s = {} THEN m ELSE Step(it[s \ {Max(s)}], seq[Max(s)])
  <2> HIDE DEF Step, V
  <2> QED  BY <1>2, <1>10
<1>12. it[1 .. n] \in V
  <2>1. it[{}] = m
    BY <1>11
  <2>2. ASSUME NEW s \in SUBSET (1 .. n), s # {}, it[s \ {LastOf(s)}] \in V
        PROVE  it[s] = next[LastOf(s)][it[s \ {LastOf(s)}]]
    <3>1. LastOf(s) \in 1 .. n /\ it[s] = Step(it[s \ {LastOf(s)}], seq[LastOf(s)])
      BY <1>7, <1>8, <1>11, <2>2
    <3> HIDE DEF Step, V
    <3> QED  BY <2>2, <3>1
  <2>3. Unfolds(it, n, V, m, next)
    <3> HIDE DEF next, V
    <3> QED  BY <2>1, <2>2 DEF Unfolds
  <2> HIDE DEF next, V
  <2>4. \A k \in 0 .. n : it[1 .. k] \in V
    BY ONLY <1>2, <1>4, <1>5, <2>3, FoldReaches
  <2> QED  BY <1>2, <2>4
<1> QED  BY <1>1, <1>2, <1>12

(* What comes back: every row of a step gives up what its request is past.   *)
LEMMA AfterRowSpares ==
  ASSUME NEW m, CacheSound(m), NEW row \in PlannedRows
  PROVE  /\ CacheSound(AfterRow(m, row)) /\ Cached(AfterRow(m, row)) = Cached(m)
         /\ AfterRow(m, row).freed = m.freed
<1> DEFINE r == row.req
           freed == FreeEncoderInputs(m, r)
<1>1. r \in Requests
  BY RowFacts
<1> HIDE DEF r
<1>2. Spares(m, freed, r)
  BY <1>1, ReleaseThoseSpares DEF FreeEncoderInputs
<1> HIDE DEF freed
<1>3. Spares(freed, ReleaseAll(freed, r), r)
  <2>1. CacheSound(freed)
    BY <1>2 DEF Spares
  <2> QED  BY <1>1, <2>1, ReleaseThoseSpares DEF ReleaseAll
<1>4. AfterRow(m, row) \in {m, freed, ReleaseAll(freed, r)}
  BY DEF AfterRow, r, freed
<1>5. PICK w : w = AfterRow(m, row)
  OBVIOUS
<1>6. PICK all : all = ReleaseAll(freed, r)
  OBVIOUS
<1>7. w = m \/ Spares(m, w, r)
  <2>1. Spares(m, all, r)
    BY <1>2, <1>3, <1>6, SparesTrans
  <2> QED  BY <1>2, <1>4, <1>5, <1>6, <2>1
<1> QED  BY <1>5, <1>7 DEF Spares

LEMMA AfterRowsSpare ==
  ASSUME NEW m, CacheSound(m), NEW seq \in Seq(PlannedRows)
  PROVE  /\ CacheSound(FoldLeft(AfterRow, m, seq)) /\ Cached(FoldLeft(AfterRow, m, seq)) = Cached(m)
         /\ FoldLeft(AfterRow, m, seq).freed = m.freed
<1> DEFINE Step(w, row) == AfterRow(w, row)
           n    == Len(seq)
           V    == {w \in Caches : CacheSound(w) /\ Cached(w) = Cached(m) /\ w.freed = m.freed}
           next == [i \in 1 .. n |-> [w \in V |-> Step(w, seq[i])]]
           Eq(iter) ==
             iter = [s \in SUBSET DOMAIN seq |->
                       IF s = {} THEN m ELSE Step(iter[s \ {Max(s)}], seq[Max(s)])]
           it == CHOOSE iter : Eq(iter)
<1>1. FoldLeft(AfterRow, m, seq) = it[DOMAIN seq]
  BY DEF FoldLeft, MapThenFoldSet
<1>2. DOMAIN seq = 1 .. n /\ n \in Nat /\ \A i \in 1 .. n : seq[i] \in PlannedRows
  BY LenProperties, ElementOfSeq
<1> HIDE DEF n
<1>3. ASSUME NEW w \in V, NEW i \in 1 .. n PROVE Step(w, seq[i]) \in V
  <2>1. w \in Caches /\ CacheSound(w) /\ Cached(w) = Cached(m) /\ w.freed = m.freed
    BY <1>3
  <2>2. seq[i] \in PlannedRows
    BY <1>2
  <2>3. PICK x : x = AfterRow(w, seq[i])
    OBVIOUS
  <2>4. CacheSound(x) /\ Cached(x) = Cached(w) /\ x.freed = w.freed
    BY <2>1, <2>2, <2>3, AfterRowSpares
  <2>5. x \in Caches
    BY <2>4 DEF CacheSound
  <2> QED  BY <2>1, <2>3, <2>4, <2>5
<1>4. next \in Steps(n, V)
  <2> HIDE DEF Step, V
  <2> QED  BY <1>3 DEF Steps
<1>5. m \in V
  BY DEF CacheSound
<1>6. PICK fold : IsFold(fold, n, V, m, next)
  <2> HIDE DEF next, V
  <2> QED  BY <1>2, <1>4, <1>5, FoldExists
<1>7. \A s : Max(s) = LastOf(s)
  BY DEF Max, LastOf
<1>8. ASSUME NEW s \in SUBSET (1 .. n), s # {}
      PROVE  Max(s) \in 1 .. n /\ s \ {Max(s)} \in SUBSET (1 .. n)
  <2>1. LastOf(s) \in s
    BY <1>2, <1>8, LastIsGreatest
  <2> QED  BY <1>7, <2>1
<1>9. Eq(fold)
  <2> HIDE DEF V, Step
  <2>1. fold = [s \in SUBSET (1 .. n) |-> fold[s]]
    BY <1>6 DEF IsFold
  <2>2. ASSUME NEW s \in SUBSET (1 .. n)
        PROVE  fold[s] = IF s = {} THEN m ELSE Step(fold[s \ {Max(s)}], seq[Max(s)])
    <3>1. FoldsAt(fold, m, next, s)
      BY <1>6 DEF IsFold
    <3>2. CASE s = {}
      BY <3>1, <3>2 DEF FoldsAt
    <3>3. CASE s # {}
      <4>1. fold[s] = next[Max(s)][fold[s \ {Max(s)}]]
        BY <1>7, <3>1, <3>3 DEF FoldsAt
      <4>2. Max(s) \in 1 .. n /\ fold[s \ {Max(s)}] \in V
        BY <1>6, <1>8, <3>3 DEF IsFold
      <4>3. next[Max(s)][fold[s \ {Max(s)}]] = Step(fold[s \ {Max(s)}], seq[Max(s)])
        BY <4>2
      <4> QED  BY <3>3, <4>1, <4>3
    <3> QED  BY <3>2, <3>3
  <2>3. [s \in SUBSET (1 .. n) |-> fold[s]] =
        [s \in SUBSET (1 .. n) |->
           IF s = {} THEN m ELSE Step(fold[s \ {Max(s)}], seq[Max(s)])]
    BY <2>2
  <2> QED  BY <1>2, <2>1, <2>3
<1>10. Eq(it)
  <2> HIDE DEF Eq
  <2> QED  BY <1>9
<1> HIDE DEF it
<1>11. ASSUME NEW s \in SUBSET (1 .. n)
       PROVE  it[s] = IF s = {} THEN m ELSE Step(it[s \ {Max(s)}], seq[Max(s)])
  <2> HIDE DEF Step, V
  <2> QED  BY <1>2, <1>10
<1>12. it[1 .. n] \in V
  <2>1. it[{}] = m
    BY <1>11
  <2>2. ASSUME NEW s \in SUBSET (1 .. n), s # {}, it[s \ {LastOf(s)}] \in V
        PROVE  it[s] = next[LastOf(s)][it[s \ {LastOf(s)}]]
    <3>1. LastOf(s) \in 1 .. n /\ it[s] = Step(it[s \ {LastOf(s)}], seq[LastOf(s)])
      BY <1>7, <1>8, <1>11, <2>2
    <3> HIDE DEF Step, V
    <3> QED  BY <2>2, <3>1
  <2>3. Unfolds(it, n, V, m, next)
    <3> HIDE DEF next, V
    <3> QED  BY <2>1, <2>2 DEF Unfolds
  <2> HIDE DEF next, V
  <2>4. \A k \in 0 .. n : it[1 .. k] \in V
    BY ONLY <1>2, <1>4, <1>5, <2>3, FoldReaches
  <2> QED  BY <1>2, <2>4
<1> QED  BY <1>1, <1>2, <1>12

(* Choosing encoder inputs.                                                  *)
LEMMA ReachedFacts ==
  ASSUME NEW f \in Items, NEW first \in Int, NEW n \in Int
  PROVE  /\ n <= 0 => Reached(f, first, n) = {}
         /\ first + n <= f.offset => Reached(f, first, n) = {}
         /\ f.offset + f.length <= first => Reached(f, first, n) = {}
         /\ \A k \in Int : k <= n => Reached(f, first, k) \subseteq Reached(f, first, n)
<1>1. f.offset \in Nat /\ f.length \in Nat /\ f.embeds \subseteq 0 .. f.length - 1
  BY EncoderAssumption
<1>2. PICK o \in Nat : o = f.offset
  BY <1>1
<1>3. PICK l \in Nat : l = f.length
  BY <1>1
<1> DEFINE lo == IF first - o <= 0 THEN 0 ELSE first - o
           hi(k) == IF first + k - o <= l THEN first + k - o ELSE l
<1>4. ASSUME NEW k \in Int PROVE Reached(f, first, k) = f.embeds \cap (lo .. hi(k) - 1)
  <2>1. PICK a \in Int : a = first - o
    OBVIOUS
  <2>2. PICK b \in Int : b = first + k - o
    OBVIOUS
  <2>3. Max({0, a}) = lo
    <3>1. Max({0, a}) = IF 0 >= a THEN 0 ELSE a
      BY ONLY 0 \in Int, a \in Int, TwoExtremes
    <3>2. lo = IF 0 >= a THEN 0 ELSE a
      BY <2>1
    <3> HIDE DEF lo
    <3> QED  BY ONLY <3>1, <3>2
  <2>4. Min({l, b}) = hi(k)
    <3>1. l \in Int
      BY <1>3
    <3> QED  BY <2>2, <3>1, TwoExtremes
  <2>5. Reached(f, first, k) = f.embeds \cap (Max({0, a}) .. Min({l, b}) - 1)
    BY <1>2, <1>3, <2>1, <2>2 DEF Reached, EmbedsIn
  <2> HIDE DEF lo, hi
  <2> QED  BY <2>3, <2>4, <2>5
<1>5. n <= 0 => lo .. hi(n) - 1 = {}
  OBVIOUS
<1>6. first + n <= o => lo .. hi(n) - 1 = {}
  OBVIOUS
<1>7. o + l <= first => lo .. hi(n) - 1 = {}
  OBVIOUS
<1>8. ASSUME NEW k \in Int, k <= n PROVE lo .. hi(k) - 1 \subseteq lo .. hi(n) - 1
  <2>1. hi(k) <= hi(n) /\ hi(k) \in Int /\ hi(n) \in Int /\ lo \in Int
    BY <1>8
  <2> HIDE DEF lo, hi
  <2> QED  BY <2>1
<1> HIDE DEF lo, hi
<1> QED  BY <1>2, <1>3, <1>4, <1>5, <1>6, <1>7, <1>8

LEMMA BeforeFacts ==
  ASSUME NEW f \in Items, NEW first \in Int, NEW n \in Int, shift \in {0, 1},
         f.offset < first + n + shift, NEW k, k = Before(f, first)
  PROVE  k \in Int /\ (k <= 0 \/ (k <= n /\ first + k <= f.offset))
<1>1. PICK o \in Int : o = f.offset
  BY EncoderAssumption
<1>2. PICK b \in Int : b = o - (first + shift)
  OBVIOUS
<1>3. k = IF 0 >= b THEN 0 ELSE b
  <2>1. k = Max({0, b})
    BY <1>1, <1>2 DEF Before
  <2>2. Max({0, b}) = IF 0 >= b THEN 0 ELSE b
    BY ONLY 0 \in Int, b \in Int, TwoExtremes
  <2> QED  BY ONLY <2>1, <2>2
<1>4. o < first + n + shift /\ (k = 0 \/ (k = b /\ 0 < b))
  BY <1>1, <1>3
<1>5. k \in Int
  BY <1>3
<1>6. k = 0 \/ (first + k <= o /\ k <= n)
  <2>1. PICK d \in Nat : d = shift
    OBVIOUS
  <2>2. b = o - (first + d) /\ o < first + n + d
    BY <1>2, <1>4, <2>1
  <2>3. first + b <= o /\ b <= n
    BY ONLY <2>2, first \in Int, n \in Int, o \in Int, b \in Int, d \in Nat
  <2> QED  BY <1>4, <2>3
<1> QED  BY <1>1, <1>5, <1>6

Gathered(a, r, m, left) ==
  /\ Keeps(m, a.cache)
  /\ a.hashes = Hashed(r, a.inputs) /\ a.hashes \cap Cached(a.cache) = {}
  /\ a.embeds = EmbedsOf(r, a.inputs) /\ a.embeds + a.left <= left
  /\ Size(Cached(a.cache)) + a.embeds <= CacheSize
Gatherings(r, m, left) ==
  {a \in [n : Int, left : Nat, inputs : SUBSET DOMAIN Features[r], cache : Caches,
          hashes : SUBSET Hashes, embeds : Nat, stop : BOOLEAN] : Gathered(a, r, m, left)}
Had(a, r, i) == HashOf(r, i) \in a.hashes \/ Holds(a.cache, r, HashOf(r, i))
Covered(a, r, first, k) ==
  /\ \A i \in 1 .. k : Reached(Features[r][i], first, a.n) # {} => Had(a, r, i)
  /\ a.stop => \A i \in DOMAIN Features[r] : i > k => Reached(Features[r][i], first, a.n) = {}

LEMMA StoppedCovers ==
  ASSUME NEW r \in Requests, NEW m, NEW left \in Int, NEW a \in Gatherings(r, m, left),
         NEW first \in Int, NEW k \in DOMAIN Features[r], NEW n \in Int, n <= 0 \/ (n <= a.n /\ first + n <= Features[r][k].offset),
         NEW b, b = Stopped(a, n)
  PROVE  b \in Gatherings(r, m, left) /\ (Covered(a, r, first, k - 1) => Covered(b, r, first, k))
<1>1. b.n = n /\ b.stop /\ b.left = a.left /\ b.inputs = a.inputs /\ b.cache = a.cache
      /\ b.hashes = a.hashes /\ b.embeds = a.embeds
  BY DEF Stopped, Gatherings
<1>2. b \in Gatherings(r, m, left)
  <2>1. b \in [n : Int, left : Nat, inputs : SUBSET DOMAIN Features[r], cache : Caches,
               hashes : SUBSET Hashes, embeds : Nat, stop : BOOLEAN]
    BY DEF Stopped, Gatherings
  <2>2. Gathered(b, r, m, left)
    BY <1>1 DEF Gatherings, Gathered
  <2> QED  BY <2>1, <2>2 DEF Gatherings
<1>3. ASSUME NEW i \in DOMAIN Features[r], Reached(Features[r][i], first, n) # {}
      PROVE  n <= a.n /\ i < k
  <2>1. Features[r][i] \in Items
    BY ItemFacts
  <2>2. ~ n <= 0 /\ ~ first + n <= Features[r][i].offset
    BY <1>3, <2>1, ReachedFacts
  <2>3. n <= a.n /\ first + n <= Features[r][k].offset
    BY <2>2
  <2>4. CASE k <= i
    <3>1. Features[r][k].offset <= Features[r][i].offset
      BY <2>4, EncoderAssumption
    <3>0. \A f \in Items : f.offset \in Int
      BY EncoderAssumption
    <3>2. PICK x \in Int : x = Features[r][k].offset
      BY <3>0, ItemFacts
    <3>3. PICK y \in Int : y = Features[r][i].offset
      BY <2>1, <3>0
    <3>4. first + n <= x /\ x <= y /\ ~ first + n <= y
      BY <2>2, <2>3, <3>1, <3>2, <3>3
    <3> QED  BY ONLY <3>4, first \in Int, n \in Int, x \in Int, y \in Int
  <2>5. i \in Nat /\ k \in Nat
    BY ItemFacts
  <2> QED  BY <2>3, <2>4, <2>5
<1>4. ASSUME Covered(a, r, first, k - 1), NEW i \in 1 .. k,
             Reached(Features[r][i], first, b.n) # {}
      PROVE  Had(b, r, i)
  <2>1. k \in 1 .. Len(Features[r]) /\ Len(Features[r]) \in Nat /\ i \in DOMAIN Features[r]
    BY ItemFacts
  <2>2. n <= a.n /\ i < k
    BY <1>1, <1>3, <1>4, <2>1
  <2>3. a.n \in Int /\ Features[r][i] \in Items
    BY <2>1, ItemFacts DEF Gatherings
  <2>4. Reached(Features[r][i], first, a.n) # {}
    BY <1>1, <1>4, <2>2, <2>3, ReachedFacts
  <2>5. i \in 1 .. k - 1
    BY <2>1, <2>2
  <2>6. Had(a, r, i)
    BY <1>4, <2>4, <2>5 DEF Covered
  <2> QED  BY <1>1, <2>6 DEF Had
<1>5. ASSUME NEW i \in DOMAIN Features[r], i > k PROVE Reached(Features[r][i], first, b.n) = {}
  <2>1. i \in Nat /\ k \in Nat
    BY <1>5, ItemFacts
  <2>2. ~ i < k
    BY <1>5, <2>1
  <2>3. Reached(Features[r][i], first, n) = {}
    BY <1>3, <1>5, <2>2
  <2> QED  BY <1>1, <2>3
<1> QED  BY <1>2, <1>4, <1>5 DEF Covered

LEMMA MoreCovered ==
  ASSUME NEW r \in Requests, NEW a, NEW b, NEW first, NEW k \in DOMAIN Features[r],
         ~ a.stop, ~ b.stop, b.n = a.n, \A i : Had(a, r, i) => Had(b, r, i),
         Reached(Features[r][k], first, a.n) = {} \/ Had(b, r, k)
  PROVE  Covered(a, r, first, k - 1) => Covered(b, r, first, k)
<1> SUFFICES ASSUME Covered(a, r, first, k - 1), NEW i \in 1 .. k,
                    Reached(Features[r][i], first, a.n) # {}
             PROVE  Had(b, r, i)
  BY DEF Covered
<1>1. k \in Nat
  BY ItemFacts
<1>2. i = k \/ i \in 1 .. k - 1
  BY <1>1
<1> QED  BY <1>2 DEF Covered

LEMMA ConsiderCovers ==
  ASSUME shift \in {0, 1}, NEW r \in Requests, NEW m, NEW left \in Int,
         NEW a \in Gatherings(r, m, left), NEW first \in Int,
         NEW k \in DOMAIN Features[r], NEW b, b = Consider(a, r, k, first)
  PROVE  b \in Gatherings(r, m, left) /\ (Covered(a, r, first, k - 1) => Covered(b, r, first, k))
<1> DEFINE new == a.embeds + NumEmbeds(Features[r][k])
<1>1. PICK f : f = Features[r][k]
  OBVIOUS
<1>2. /\ f \in Items /\ HashOf(r, k) = f.hash /\ f.hash \in Hashes
      /\ NumEmbeds(f) \in Nat /\ f.offset \in Nat /\ f.length \in Nat
  BY <1>1, ItemFacts, WeightFacts, EncoderAssumption
<1>3. /\ a.n \in Int /\ a.left \in Nat /\ a.inputs \subseteq DOMAIN Features[r]
      /\ a.cache \in Caches /\ a.hashes \in SUBSET Hashes /\ a.embeds \in Nat
      /\ a.stop \in BOOLEAN /\ Gathered(a, r, m, left)
      /\ a = [n |-> a.n, left |-> a.left, inputs |-> a.inputs, cache |-> a.cache,
              hashes |-> a.hashes, embeds |-> a.embeds, stop |-> a.stop]
  BY DEF Gatherings
<1>4. Keeps(m, a.cache) /\ CacheSound(a.cache)
  BY <1>3 DEF Gathered, Keeps
<1>5. CASE a.stop
  <2>1. b = a
    <3>1. b = Stopped(a, a.n)
      BY <1>5 DEF Consider
    <3>2. Stopped(a, a.n) = a
      BY ONLY <1>3, <1>5 DEF Stopped
    <3> QED  BY <3>1, <3>2
  <2>2. ASSUME Covered(a, r, first, k - 1) PROVE Covered(a, r, first, k)
    <3>1. k \in Nat
      BY ItemFacts
    <3>2. ASSUME NEW i \in 1 .. k, Reached(Features[r][i], first, a.n) # {} PROVE Had(a, r, i)
      <4>1. i = k \/ i \in 1 .. k - 1
        BY <3>1
      <4>2. i # k
        BY <1>5, <2>2, <3>1, <3>2 DEF Covered
      <4> QED  BY <2>2, <3>2, <4>1, <4>2 DEF Covered
    <3>3. ASSUME NEW i \in DOMAIN Features[r], i > k
          PROVE  Reached(Features[r][i], first, a.n) = {}
      <4>1. i \in Nat /\ i > k - 1
        BY <3>1, <3>3, ItemFacts
      <4> QED  BY <1>5, <2>2, <4>1 DEF Covered
    <3> QED  BY <3>2, <3>3 DEF Covered
  <2> QED  BY <2>1, <2>2
<1>6. CASE ~ a.stop /\ f.offset >= first + a.n + shift
  <2>1. b = Stopped(a, a.n)
    BY <1>1, <1>6 DEF Consider
  <2>2. first + a.n <= f.offset
    BY <1>2, <1>3, <1>6
  <2>3. PICK n \in Int : n = a.n
    BY <1>3
  <2>4. n <= a.n /\ first + n <= Features[r][k].offset
    BY <1>1, <2>2, <2>3
  <2> QED  BY <2>1, <2>3, <2>4, StoppedCovers
<1>7. CASE /\ ~ a.stop /\ ~ f.offset >= first + a.n + shift
           /\ f.offset + f.length <= first \/ f.hash \in a.hashes
  <2>1. b = a
    BY <1>1, <1>7 DEF Consider
  <2>2. Reached(f, first, a.n) = {} \/ Had(a, r, k)
    BY <1>2, <1>3, <1>7, ReachedFacts DEF Had
  <2>3. Covered(a, r, first, k - 1) => Covered(a, r, first, k)
    BY <1>1, <1>7, <2>2, MoreCovered
  <2> QED  BY <2>1, <2>3
<1>8. CASE /\ ~ a.stop /\ ~ f.offset >= first + a.n + shift
           /\ ~ f.offset + f.length <= first /\ f.hash \notin a.hashes
           /\ f.hash \in Cached(a.cache)
  <2>1. PICK w : w = Touch(a.cache, f.hash, r)
    OBVIOUS
  <2>2. Keeps(a.cache, w) /\ Holds(w, r, f.hash)
    BY <1>4, <1>8, <2>1, TouchKeeps
  <2>3. b = [a EXCEPT !.cache = w]
    BY <1>1, <1>8, <2>1 DEF Consider
  <2>4. /\ b.n = a.n /\ b.stop = a.stop /\ b.left = a.left /\ b.inputs = a.inputs
        /\ b.cache = w /\ b.hashes = a.hashes /\ b.embeds = a.embeds
        /\ b = [n |-> b.n, left |-> b.left, inputs |-> b.inputs, cache |-> b.cache,
                hashes |-> b.hashes, embeds |-> b.embeds, stop |-> b.stop]
    BY <1>3, <2>3
  <2>5. Gathered(b, r, m, left)
    <3>1. Keeps(m, w)
      BY <1>4, <2>2, KeepsTrans
    <3>2. Cached(w) = Cached(a.cache)
      BY <2>1 DEF Touch, Cached
    <3> QED  BY <1>3, <2>4, <3>1, <3>2 DEF Gathered
  <2>6. b \in Gatherings(r, m, left)
    <3>1. w \in Caches
      BY <2>2 DEF Keeps, CacheSound
    <3> QED  BY <1>3, <2>4, <2>5, <3>1 DEF Gatherings
  <2>7. \A i : Had(a, r, i) => Had(b, r, i)
    BY <2>2, <2>4 DEF Had, Keeps
  <2>8. Had(b, r, k)
    BY <1>2, <2>2, <2>4 DEF Had
  <2> QED  BY <1>8, <2>4, <2>6, <2>7, <2>8, MoreCovered
<1>9. CASE /\ ~ a.stop /\ ~ f.offset >= first + a.n + shift
           /\ ~ f.offset + f.length <= first /\ f.hash \notin a.hashes
           /\ f.hash \notin Cached(a.cache)
           /\ \/ whole /\ first < f.offset /\ first + a.n < f.offset + f.length
              \/ NumEmbeds(f) > a.left
              \/ ~ CanAllocate(a.cache, new)
  <2>1. b = Stopped(a, Before(f, first))
    BY <1>1, <1>9 DEF Consider
  <2>2. PICK n : n = Before(f, first)
    OBVIOUS
  <2>3. f.offset < first + a.n + shift
    BY <1>2, <1>3, <1>9
  <2>4. n \in Int /\ (n <= 0 \/ (n <= a.n /\ first + n <= f.offset))
    BY <1>2, <1>3, <2>2, <2>3, BeforeFacts
  <2> QED  BY <1>1, <2>1, <2>2, <2>4, StoppedCovers
<1>10. CASE /\ ~ a.stop /\ ~ f.offset >= first + a.n + shift
            /\ ~ f.offset + f.length <= first /\ f.hash \notin a.hashes
            /\ f.hash \notin Cached(a.cache)
            /\ ~ \/ whole /\ first < f.offset /\ first + a.n < f.offset + f.length
                 \/ NumEmbeds(f) > a.left
                 \/ ~ CanAllocate(a.cache, new)
  <2>1. PICK e : e = new
    OBVIOUS
  <2>2. e \in Nat /\ CanAllocate(a.cache, e) /\ NumEmbeds(f) <= a.left
    BY <1>1, <1>2, <1>3, <1>10, <2>1
  <2>3. PICK w : w = Evicted(a.cache, e)
    OBVIOUS
  <2>4. Keeps(a.cache, w) /\ Size(Cached(w)) + e <= CacheSize
    BY <1>4, <2>2, <2>3, EvictedKeeps
  <2>5. /\ Keeps(m, w) /\ w \in Caches /\ a.hashes \cap Cached(w) = {}
        /\ f.hash \notin Cached(w)
    <3>1. Keeps(m, w)
      BY <1>4, <2>4, KeepsTrans
    <3>2. w \in Caches /\ Cached(w) \subseteq Cached(a.cache)
      BY <2>4 DEF Keeps, CacheSound
    <3> QED  BY <1>3, <1>10, <3>1, <3>2 DEF Gathered
  <2>6. Size(Cached(w)) \in Nat /\ CacheSize \in Nat
    BY <2>5, CacheFacts, SizeIsSum, LimitsTyped
  <2>7. CASE Reached(f, first, a.n) = {}
    <3>1. b = [a EXCEPT !.cache = w]
      BY <1>1, <1>10, <2>1, <2>3, <2>7 DEF Consider
    <3>2. /\ b.n = a.n /\ b.stop = a.stop /\ b.left = a.left /\ b.inputs = a.inputs
          /\ b.cache = w /\ b.hashes = a.hashes /\ b.embeds = a.embeds
          /\ b = [n |-> b.n, left |-> b.left, inputs |-> b.inputs, cache |-> b.cache,
                  hashes |-> b.hashes, embeds |-> b.embeds, stop |-> b.stop]
      BY <1>3, <3>1
    <3>3. Size(Cached(w)) + a.embeds <= CacheSize
      BY <1>1, <1>2, <1>3, <2>1, <2>4, <2>6
    <3>4. Gathered(b, r, m, left)
      BY <1>3, <2>5, <3>2, <3>3 DEF Gathered
    <3>5. b \in Gatherings(r, m, left)
      BY <1>3, <2>5, <3>2, <3>4 DEF Gatherings
    <3>6. \A i : Had(a, r, i) => Had(b, r, i)
      BY <2>4, <3>2 DEF Had, Keeps
    <3> QED  BY <1>1, <1>10, <2>7, <3>2, <3>5, <3>6, MoreCovered
  <2>8. CASE Reached(f, first, a.n) # {}
    <3>1. b = [a EXCEPT !.cache = w, !.left = @ - NumEmbeds(f), !.embeds = e,
                        !.hashes = @ \cup {f.hash}, !.inputs = @ \cup {k}]
      BY <1>1, <1>10, <2>1, <2>3, <2>8 DEF Consider
    <3>2. /\ b.n = a.n /\ b.stop = a.stop /\ b.left = a.left - NumEmbeds(f)
          /\ b.inputs = a.inputs \cup {k}
          /\ b.cache = w /\ b.hashes = a.hashes \cup {f.hash} /\ b.embeds = e
          /\ b = [n |-> b.n, left |-> b.left, inputs |-> b.inputs, cache |-> b.cache,
                  hashes |-> b.hashes, embeds |-> b.embeds, stop |-> b.stop]
      BY <1>3, <3>1
    <3>3. b.left \in Nat /\ b.embeds + b.left <= left
      <4>1. a.embeds + a.left <= left
        BY <1>3 DEF Gathered
      <4>2. e = a.embeds + NumEmbeds(f)
        BY <1>1, <2>1
      <4> QED  BY <1>2, <1>3, <2>2, <3>2, <4>1, <4>2
    <3>4. b.hashes = Hashed(r, b.inputs) /\ k \notin a.inputs
      <4>1. a.hashes = Hashed(r, a.inputs)
        BY <1>3 DEF Gathered
      <4>2. Hashed(r, a.inputs \cup {k}) = Hashed(r, a.inputs) \cup {f.hash}
        BY <1>2 DEF Hashed
      <4>3. k \notin a.inputs
        BY <1>2, <1>10, <4>1 DEF Hashed
      <4> QED  BY <3>2, <4>1, <4>2, <4>3
    <3>5. b.embeds = EmbedsOf(r, b.inputs)
      <4>1. EmbedsOf(r, a.inputs \cup {k}) = EmbedsOf(r, a.inputs) + NumEmbeds(Features[r][k])
        BY <1>3, <3>4, EmbedsWith
      <4>2. a.embeds = EmbedsOf(r, a.inputs)
        BY <1>3 DEF Gathered
      <4> QED  BY <2>1, <3>2, <4>1, <4>2
    <3>6. Gathered(b, r, m, left)
      <4>1. b.hashes \cap Cached(w) = {}
        BY <2>5, <3>2
      <4> QED  BY <2>4, <2>5, <3>2, <3>3, <3>4, <3>5, <4>1 DEF Gathered
    <3>7. b \in Gatherings(r, m, left)
      <4>1. b.inputs \subseteq DOMAIN Features[r] /\ b.hashes \in SUBSET Hashes
        BY <1>2, <1>3, <3>2
      <4> QED  BY <1>3, <2>2, <2>5, <3>2, <3>3, <3>6, <4>1 DEF Gatherings
    <3>8. \A i : Had(a, r, i) => Had(b, r, i)
      BY <2>4, <3>2 DEF Had, Keeps
    <3>9. Had(b, r, k)
      BY <1>2, <3>2 DEF Had
    <3> QED  BY <1>10, <3>2, <3>7, <3>8, <3>9, MoreCovered
  <2> QED  BY <2>7, <2>8
<1> HIDE DEF new
<1> QED  BY <1>5, <1>6, <1>7, <1>8, <1>9, <1>10

Attempt(t, r, first, m, left) ==
  /\ t.n \in Int /\ t.left \in Nat /\ t.inputs \subseteq DOMAIN Features[r]
  /\ Keeps(m, t.cache) /\ Hashed(r, t.inputs) \cap Cached(t.cache) = {}
  /\ EmbedsOf(r, t.inputs) + t.left <= left
  /\ Size(Cached(t.cache)) + EmbedsOf(r, t.inputs) <= CacheSize
  /\ \A h \in Wanted(r, first, t.n) : h \in Hashed(r, t.inputs) \/ Holds(t.cache, r, h)

LEMMA AttemptMade ==
  ASSUME NEW r \in Requests, NEW m, NEW left \in Int, NEW first \in Int,
         NEW a \in Gatherings(r, m, left), Covered(a, r, first, Len(Features[r])),
         NEW t, t = [n |-> a.n, left |-> a.left, inputs |-> a.inputs, cache |-> a.cache]
  PROVE  Attempt(t, r, first, m, left)
<1>1. /\ a.n \in Int /\ a.left \in Nat /\ a.inputs \subseteq DOMAIN Features[r]
      /\ Gathered(a, r, m, left)
  BY DEF Gatherings
<1>2. t.n = a.n /\ t.left = a.left /\ t.inputs = a.inputs /\ t.cache = a.cache
  OBVIOUS
<1>3. /\ Keeps(m, a.cache) /\ a.hashes = Hashed(r, a.inputs)
      /\ a.hashes \cap Cached(a.cache) = {} /\ a.embeds = EmbedsOf(r, a.inputs)
      /\ a.embeds + a.left <= left /\ Size(Cached(a.cache)) + a.embeds <= CacheSize
  BY <1>1 DEF Gathered
<1>4. ASSUME NEW h \in Wanted(r, first, a.n) PROVE h \in a.hashes \/ Holds(a.cache, r, h)
  <2>1. PICK i \in DOMAIN Features[r] :
          h = Features[r][i].hash /\ Reached(Features[r][i], first, a.n) # {}
    BY <1>4 DEF Wanted, ToSet
  <2>2. i \in 1 .. Len(Features[r]) /\ HashOf(r, i) = h
    BY <2>1, ItemFacts
  <2> QED  BY <2>1, <2>2 DEF Covered, Had
<1> QED  BY <1>1, <1>2, <1>3, <1>4 DEF Attempt

LEMMA NoInputsAttempt ==
  ASSUME NEW r \in Requests, NEW m, CacheSound(m), NEW left \in Nat, NEW first \in Int,
         NEW t, t = NoInputs(0, left, m)
  PROVE  Attempt(t, r, first, m, left)
<1>1. t.n = 0 /\ t.left = left /\ t.inputs = {} /\ t.cache = m
  BY DEF NoInputs
<1>2. EmbedsOf(r, {}) = 0 /\ Hashed(r, {}) = {}
  BY EmbedsOfNone DEF Hashed
<1>3. Wanted(r, first, 0) = {}
  <2>1. \A f \in ToSet(Features[r]) : Reached(f, first, 0) = {}
    BY ItemFacts, ReachedFacts
  <2> QED  BY <2>1 DEF Wanted
<1>4. Keeps(m, m)
  BY KeepsItself
<1>5. EmbedsOf(r, {}) + left <= left
  BY <1>2
<1>6. Size(Cached(m)) + EmbedsOf(r, {}) <= CacheSize
  <2>1. Size(Cached(m)) \in Nat /\ Size(Cached(m)) <= CacheSize
    BY CacheFacts, SizeIsSum DEF CacheSound
  <2> QED  BY <1>2, <2>1
<1> QED  BY <1>1, <1>2, <1>3, <1>4, <1>5, <1>6 DEF Attempt

LEMMA ScheduledInputs ==
  ASSUME shift \in {0, 1}, NEW r \in Requests, NEW m, CacheSound(m), NEW left \in Nat,
         NEW first \in Int, NEW most \in Int, NEW t,
         t = TryScheduleEncoderInputs(r, first, most, left, m)
  PROVE  Attempt(t, r, first, m, left)
<1> DEFINE Step(a, i) == Consider(a, r, i, first)
           n    == Len(Features[r])
           seq  == [i \in 1 .. n |-> i]
           start == [n |-> most, left |-> left, inputs |-> {}, cache |-> m,
                     hashes |-> {}, embeds |-> 0, stop |-> FALSE]
           V    == Gatherings(r, m, left)
           next == [i \in 1 .. n |-> [a \in V |-> Step(a, seq[i])]]
           Eq(iter) ==
             iter = [s \in SUBSET DOMAIN seq |->
                       IF s = {} THEN start ELSE Step(iter[s \ {Max(s)}], seq[Max(s)])]
           it == CHOOSE iter : Eq(iter)
           all == it[DOMAIN seq]
<1>0. CASE most = 0
  <2>1. t = NoInputs(0, left, m)
    BY <1>0 DEF TryScheduleEncoderInputs
  <2> QED  BY <2>1, NoInputsAttempt
<1>1. most # 0 => t = [n |-> all.n, left |-> all.left, inputs |-> all.inputs, cache |-> all.cache]
  BY DEF TryScheduleEncoderInputs, FoldLeft, MapThenFoldSet
<1>2. DOMAIN seq = 1 .. n /\ n \in Nat /\ DOMAIN Features[r] = 1 .. n /\ \A i \in 1 .. n : seq[i] = i
  BY ItemFacts
<1> HIDE DEF seq, n
<1>3. ASSUME NEW a \in V, NEW i \in 1 .. n
      PROVE  /\ Step(a, seq[i]) \in V
             /\ Covered(a, r, first, i - 1) => Covered(Step(a, seq[i]), r, first, i)
  <2>1. PICK b : b = Step(a, i)
    OBVIOUS
  <2>2. i \in DOMAIN Features[r] /\ seq[i] = i
    BY <1>2
  <2>3. b \in Gatherings(r, m, left) /\ (Covered(a, r, first, i - 1) => Covered(b, r, first, i))
    BY <2>1, <2>2, ConsiderCovers
  <2> QED  BY <2>1, <2>2, <2>3
<1>4. next \in Steps(n, V)
  <2> HIDE DEF Step, V
  <2> QED  BY <1>3 DEF Steps
<1>5. start \in V
  <2>1. Keeps(m, m) /\ m \in Caches /\ Size(Cached(m)) \in Nat /\ Size(Cached(m)) <= CacheSize
    BY KeepsItself, CacheFacts, SizeIsSum DEF CacheSound
  <2>2. EmbedsOf(r, {}) = 0 /\ Hashed(r, {}) = {}
    BY EmbedsOfNone DEF Hashed
  <2>3. Gathered(start, r, m, left)
    BY <2>1, <2>2 DEF Gathered
  <2> QED  BY <2>1, <2>3 DEF Gatherings
<1>6. PICK fold : IsFold(fold, n, V, start, next)
  <2> HIDE DEF next, V, start
  <2> QED  BY <1>2, <1>4, <1>5, FoldExists
<1>7. \A s : Max(s) = LastOf(s)
  BY DEF Max, LastOf
<1>8. ASSUME NEW s \in SUBSET (1 .. n), s # {}
      PROVE  Max(s) \in 1 .. n /\ s \ {Max(s)} \in SUBSET (1 .. n)
  <2>1. LastOf(s) \in s
    BY <1>2, <1>8, LastIsGreatest
  <2> QED  BY <1>7, <2>1
<1>9. Eq(fold)
  <2> HIDE DEF V, Step, start
  <2>1. fold = [s \in SUBSET (1 .. n) |-> fold[s]]
    BY <1>6 DEF IsFold
  <2>2. ASSUME NEW s \in SUBSET (1 .. n)
        PROVE  fold[s] = IF s = {} THEN start ELSE Step(fold[s \ {Max(s)}], seq[Max(s)])
    <3>1. FoldsAt(fold, start, next, s)
      BY <1>6 DEF IsFold
    <3>2. CASE s = {}
      BY <3>1, <3>2 DEF FoldsAt
    <3>3. CASE s # {}
      <4>1. fold[s] = next[Max(s)][fold[s \ {Max(s)}]]
        BY <1>7, <3>1, <3>3 DEF FoldsAt
      <4>2. Max(s) \in 1 .. n /\ fold[s \ {Max(s)}] \in V
        BY <1>6, <1>8, <3>3 DEF IsFold
      <4>3. next[Max(s)][fold[s \ {Max(s)}]] = Step(fold[s \ {Max(s)}], seq[Max(s)])
        BY <4>2
      <4> QED  BY <3>3, <4>1, <4>3
    <3> QED  BY <3>2, <3>3
  <2>3. [s \in SUBSET (1 .. n) |-> fold[s]] =
        [s \in SUBSET (1 .. n) |->
           IF s = {} THEN start ELSE Step(fold[s \ {Max(s)}], seq[Max(s)])]
    BY <2>2
  <2> QED  BY <1>2, <2>1, <2>3
<1>10. Eq(it)
  <2> HIDE DEF Eq
  <2> QED  BY <1>9
<1> HIDE DEF it
<1>11. ASSUME NEW s \in SUBSET (1 .. n)
       PROVE  it[s] = IF s = {} THEN start ELSE Step(it[s \ {Max(s)}], seq[Max(s)])
  <2> HIDE DEF Step, V, start
  <2> QED  BY <1>2, <1>10
<1>12. \A k \in 0 .. n : it[1 .. k] \in V /\ (k # 0 => it[1 .. k] = next[k][it[1 .. k - 1]])
  <2>1. it[{}] = start
    BY <1>11
  <2>2. ASSUME NEW s \in SUBSET (1 .. n), s # {}, it[s \ {LastOf(s)}] \in V
        PROVE  it[s] = next[LastOf(s)][it[s \ {LastOf(s)}]]
    <3>1. LastOf(s) \in 1 .. n /\ it[s] = Step(it[s \ {LastOf(s)}], seq[LastOf(s)])
      BY <1>7, <1>8, <1>11, <2>2
    <3> HIDE DEF Step, V, start
    <3> QED  BY <2>2, <3>1
  <2>3. Unfolds(it, n, V, start, next)
    <3> HIDE DEF next, V, start
    <3> QED  BY <2>1, <2>2 DEF Unfolds
  <2> HIDE DEF next, V, start
  <2> QED  BY ONLY <1>2, <1>4, <1>5, <2>3, FoldReaches
<1> DEFINE P(k) == Covered(it[1 .. k], r, first, k)
           T == {k \in Nat : k <= n => P(k)}
<1>13. 0 \in T
  <2>1. it[1 .. 0] = start
    <3>1. 1 .. 0 = {}
      OBVIOUS
    <3> QED  BY <1>11, <3>1
  <2>2. Covered(start, r, first, 0)
    BY DEF Covered
  <2> QED  BY <2>1, <2>2
<1>14. ASSUME NEW k \in Nat, k \in T PROVE k + 1 \in T
  <2> SUFFICES ASSUME k + 1 <= n PROVE P(k + 1)
    OBVIOUS
  <2>1. k + 1 \in 1 .. n /\ k \in 0 .. n /\ (k + 1) - 1 = k /\ k + 1 \in 0 .. n /\ k + 1 # 0
    BY <1>2, <1>14
  <2>2. PICK a \in V : a = it[1 .. k]
    BY <1>12, <2>1
  <2>3. Covered(a, r, first, k)
    BY <1>2, <1>14, <2>1, <2>2
  <2>4. it[1 .. k + 1] = next[k + 1][a]
    BY <1>12, <2>1, <2>2
  <2>5. next[k + 1][a] = Step(a, seq[k + 1])
    BY <2>1
  <2> HIDE DEF Step, V, next
  <2>6. Covered(Step(a, seq[k + 1]), r, first, k + 1)
    BY <1>3, <2>1, <2>3
  <2> QED  BY <2>4, <2>5, <2>6
<1>15. all \in V /\ Covered(all, r, first, n)
  <2>1. n \in 0 .. n
    BY <1>2
  <2>2. n \in T
    <3> HIDE DEF T
    <3> QED  BY <1>2, <1>13, <1>14, Induction
  <2>3. P(n)
    BY <1>2, <2>1, <2>2
  <2> HIDE DEF V
  <2> QED  BY <1>2, <1>12, <2>1, <2>3
<1>16. CASE most # 0
  <2>1. PICK a \in Gatherings(r, m, left) : a = all
    BY <1>15
  <2>2. Covered(a, r, first, Len(Features[r]))
    BY <1>15, <2>1 DEF n
  <2>3. t = [n |-> a.n, left |-> a.left, inputs |-> a.inputs, cache |-> a.cache]
    BY <1>1, <1>16, <2>1
  <2> QED  BY <2>2, <2>3, AttemptMade
<1> QED  BY <1>0, <1>16

(* What the worker will hold: what the scheduler caches, once it has been    *)
(* told what to drop and has run the steps that are under way.               *)
LEMMA ForeseenKept ==
  ASSUME NEW m, NEW w, NEW have, NEW q, Foreseen(have, m, q)
  PROVE  /\ Keeps(m, w) => Foreseen(have, w, q)
         /\ \A r : Spares(m, w, r) => Foreseen(have, w, q)
BY DEF Foreseen, Keeps, Spares

LEMMA ForeseenMore ==
  ASSUME NEW m, NEW w, NEW have, NEW q, NEW p, Foreseen(have, m, q),
         NEW H, Cached(w) = Cached(m) \cup H, w.freed = m.freed,
         Fcfs => Encoded([rows |-> q]) \cup H \subseteq Encoded([rows |-> p])
  PROVE  Foreseen(have, w, p)
BY DEF Foreseen

LEMMA EncodedOf ==
  ASSUME NEW q
  PROVE  Encoded([rows |-> q]) = UNION {Hashed(row.req, row.inputs) : row \in ToSet(q)}
BY RangeIsToSet DEF Encoded, Hashed

LEMMA WorkerKept ==
  ASSUME Tracked, UNCHANGED <<flight, worker>>,
         \A have : Foreseen(have, cache, rows) => Foreseen(have, cache', rows')
  PROVE  Tracked'
<1>1. PICK W \in [0 .. Len(flight) -> SUBSET Hashes] : Replays(W) /\ Predicted(W)
  BY DEF Tracked
<1>2. Replays(W)'
  BY <1>1 DEF Replays, Encoded
<1>3. Predicted(W)'
  BY <1>1 DEF Predicted, Serves
<1> QED  BY <1>1, <1>2, <1>3 DEF Tracked

LEMMA RowsStayReady ==
  ASSUME NEW m, NEW w, NEW row, Ready(m, row)
  PROVE  /\ (\A s, h : Holds(m, s, h) => Holds(w, s, h)) => Ready(w, row)
         /\ \A r : Spares(m, w, r) /\ row.req # r => Ready(w, row)
BY DEF Ready, Spares

(* The steps of schedule().                                                  *)
LEMMA StartKeeps == ASSUME EInv, StartStep PROVE EInv'
<1> USE DEF StartStep, config, queues
<1>1. EncoderTypes'
  <2>1. TokenBudget \in Nat /\ EncoderBudget \in Nat /\ <<>> \in Seq(PlannedRows)
    BY EncoderAssumption, EmptySeq
  <2> QED  BY <2>1 DEF EInv, EncoderTypes
<1>2. QueuesApart' /\ CacheSound(cache)' /\ DonePrefix' /\ WorkerSound'
  BY DEF EInv, QueuesApart, DonePrefix, WorkerSound
<1>3. ToSet(rows') = {}
  BY DEF ToSet
<1>4. RowsPlanned'
  <2>1. SpentOn(rows') + budget' <= EncoderBudget
    BY SpentOnNone, LimitsTyped
  <2> QED  BY <1>3, <2>1 DEF RowsPlanned
<1>5. PassInOrder' /\ TryStands'
  BY <1>3 DEF PassInOrder, TryStands
<1>6. Tracked'
  <2>1. rows' = rows /\ cache' = cache
    BY DEF EInv, RowsPlanned
  <2> QED  BY <2>1, WorkerKept DEF EInv
<1> QED  BY <1>1, <1>2, <1>4, <1>5, <1>6 DEF EInv

LEMMA EndKeeps == ASSUME EInv, EndRunning \/ EndWaiting PROVE EInv'
<1>0. /\ pc' \in {"commit", "waiting"} /\ pc # "idle"
      /\ UNCHANGED <<shift, whole, req_status, num_computed, running, waiting, held, cache, at, token_budget,
                     budget, rows, try, preempted, flight, worker, missed>>
  BY DEF EndRunning, EndWaiting, config, queues, locals
<1>1. EncoderTypes' /\ QueuesApart' /\ CacheSound(cache)' /\ DonePrefix' /\ WorkerSound'
  BY <1>0 DEF EInv, EncoderTypes, QueuesApart, DonePrefix, WorkerSound
<1>2. RowsPlanned'
  BY <1>0 DEF EInv, RowsPlanned
<1>3. PassInOrder' /\ TryStands'
  BY <1>0 DEF PassInOrder, TryStands
<1>4. Tracked'
  BY <1>0, WorkerKept DEF EInv
<1> QED  BY <1>1, <1>2, <1>3, <1>4 DEF EInv

LEMMA ElementFacts ==
  ASSUME NEW U, NEW q \in Seq(U)
  PROVE  /\ Len(q) \in Nat /\ \A i \in 1 .. Len(q) : q[i] \in U /\ q[i] \in ToSet(q)
         /\ \A x \in ToSet(q) : x \in U /\ \E i \in 1 .. Len(q) : q[i] = x
         /\ (IsInjective(q) => \A i, j \in 1 .. Len(q) : q[i] = q[j] => i = j)
BY LenProperties, ElementOfSeq DEF ToSet, IsInjective

LEMMA PromptLeft ==
  ASSUME NEW r \in Requests, NEW k \in Int
  PROVE  Prompt[r] - k \in Int
<1>1. Prompt[r] \in Nat
  BY EncoderAssumption
<1> QED  BY <1>1

LEMMA ConsiderKeeps == ASSUME EInv, ConsiderRunning PROVE EInv'
<1> DEFINE r == running[at]
           most == Min({token_budget, Prompt[r] - num_computed[r]})
           t == TryScheduleEncoderInputs(r, num_computed[r], most, budget, cache)
<1>0. /\ EncoderTypes /\ QueuesApart /\ CacheSound(cache) /\ RowsPlanned /\ PassInOrder
      /\ DonePrefix /\ WorkerSound /\ Tracked
  BY DEF EInv
<1>1. /\ pc = "running" /\ at <= Len(running) /\ cache' = t.cache
      /\ \/ t.n = 0 /\ at' = at + 1 /\ pc' = "running"
         \/ t.n # 0 /\ try' = [req |-> r, n |-> t.n, left |-> t.left, inputs |-> t.inputs]
            /\ pc' = "allocate" /\ at' = at
      /\ UNCHANGED <<shift, whole, req_status, num_computed, running, waiting, held, token_budget, budget,
                     rows, preempted, flight, worker, missed>>
  BY DEF ConsiderRunning, config, queues
<1>2. /\ shift \in {0, 1} /\ budget \in Nat /\ token_budget \in Int /\ running \in Seq(Requests)
      /\ num_computed \in [Requests -> Int] /\ rows \in Seq(PlannedRows)
  BY <1>0 DEF EncoderTypes
<1>3. at \in 1 .. Len(running) /\ r \in Requests
  <2>1. at \in Nat \ {0}
    BY <1>0, <1>1 DEF PassInOrder
  <2>2. at \in 1 .. Len(running)
    BY <1>1, <1>2, <2>1
  <2> QED  BY <1>2, <2>2, ElementFacts
<1>4. Attempt(t, r, num_computed[r], cache, budget)
  <2>1. num_computed[r] \in Int
    BY <1>2, <1>3
  <2>2. most \in Int
    <3>1. PICK left \in Int : left = Prompt[r] - num_computed[r]
      BY <1>3, <2>1, PromptLeft
    <3> QED  BY <1>2, <3>1, TwoExtremes
  <2>3. PICK first \in Int : first = num_computed[r]
    BY <2>1
  <2>4. PICK w : w = TryScheduleEncoderInputs(r, first, most, budget, cache)
    OBVIOUS
  <2> HIDE DEF r, most
  <2>5. Attempt(w, r, first, cache, budget)
    BY <1>0, <1>2, <1>3, <2>2, <2>4, ScheduledInputs
  <2> QED  BY <2>3, <2>4, <2>5
<1> HIDE DEF t, most
<1>5. Keeps(cache, cache') /\ CacheSound(cache')
  BY <1>1, <1>4 DEF Attempt, Keeps
<1>6. EncoderTypes'
  <2>1. cache' \in Caches
    BY <1>5 DEF CacheSound
  <2> QED  BY <1>0, <1>1, <2>1 DEF EncoderTypes
<1>7. QueuesApart' /\ DonePrefix' /\ WorkerSound'
  BY <1>0, <1>1 DEF QueuesApart, DonePrefix, WorkerSound
<1>8. RowsPlanned'
  <2>1. \A row \in ToSet(rows) : Ready(cache', row)
    BY <1>0, <1>5, RowsStayReady DEF RowsPlanned, Keeps
  <2> QED  BY <1>0, <1>1, <2>1 DEF RowsPlanned
<1>9. Tracked'
  <2>1. ASSUME NEW have, Foreseen(have, cache, rows) PROVE Foreseen(have, cache', rows)
    BY <1>5, <2>1, ForeseenKept
  <2> QED  BY <1>0, <1>1, <2>1, WorkerKept
<1>10. \A row \in ToSet(rows) : AheadOf(running, row.req, at)
  BY <1>0, <1>1 DEF PassInOrder
<1>11. PassInOrder'
  <2>1. at' \in Nat \ {0} /\ at <= at'
    BY <1>1, <1>3
  <2>2. ASSUME NEW row \in ToSet(rows) PROVE AheadOf(running', row.req, at')
    <3>1. PICK i \in 1 .. Len(running) : i < at /\ running[i] = row.req
      BY <1>10, <2>2 DEF AheadOf
    <3>2. i < at'
      BY <1>2, <1>3, <2>1, <3>1
    <3> QED  BY <1>1, <3>1, <3>2 DEF AheadOf
  <2> QED  BY <1>1, <2>1, <2>2 DEF PassInOrder
<1>12. TryStands'
  <2>1. CASE t.n = 0
    BY <1>1, <2>1 DEF TryStands
  <2>2. CASE t.n # 0
    <3>1. /\ try'.req = r /\ try'.n = t.n /\ try'.left = t.left /\ try'.inputs = t.inputs
          /\ cache' = t.cache /\ at' = at
      BY <1>1, <2>2
    <3>3. \E j \in 1 .. Len(running') : j <= at' /\ running'[j] = r /\
            \A row \in ToSet(rows') : AheadOf(running', row.req, j)
      <4>1. running' = running /\ rows' = rows /\ at \in 1 .. Len(running) /\ at <= at'
        BY <1>1, <1>2, <1>3, <3>1
      <4> QED  BY <1>10, <4>1
    <3>4. SpentOn(rows) + EmbedsOf(r, t.inputs) + t.left <= EncoderBudget
      <4>1. EmbedsOf(r, t.inputs) + t.left <= budget
        BY <1>4 DEF Attempt
      <4>2. SpentOn(rows) + budget <= EncoderBudget
        BY <1>0 DEF RowsPlanned
      <4>3. /\ SpentOn(rows) \in Nat /\ EmbedsOf(r, t.inputs) \in Nat /\ t.left \in Nat
            /\ EncoderBudget \in Nat
        <5>1. t.inputs \subseteq DOMAIN Features[r] /\ t.left \in Nat
          BY <1>4 DEF Attempt
        <5> QED  BY <1>2, <1>3, <5>1, SpentIsSum, EmbedsIsSum, LimitsTyped
      <4> QED  BY <1>2, <4>1, <4>2, <4>3
    <3> HIDE DEF r
    <3> QED  BY <1>1, <1>3, <1>4, <3>1, <3>3, <3>4 DEF TryStands, Attempt
  <2> QED  BY <2>1, <2>2
<1> QED  BY <1>5, <1>6, <1>7, <1>8, <1>9, <1>11, <1>12 DEF EInv

LEMMA MadeRow ==
  ASSUME NEW r \in Requests, NEW first \in Int, NEW t, t.n \in Int,
         t.inputs \subseteq DOMAIN Features[r], NEW row, row = Row(r, first, t)
  PROVE  /\ row \in PlannedRows /\ row.req = r /\ row.first = first /\ row.n = t.n
         /\ row.inputs = t.inputs
<1>1. row.req = r /\ row.first = first /\ row.n = t.n /\ row.inputs = t.inputs
  BY DEF Row
<1>2. t.inputs \in SUBSET Nat
  BY ItemFacts
<1> QED  BY <1>1, <1>2 DEF Row, PlannedRows

(* A row joins the step, and the cache makes room for its inputs.            *)
Room(t, r, first, m) ==
  /\ t.n \in Int /\ t.inputs \subseteq DOMAIN Features[r]
  /\ Hashed(r, t.inputs) \cap Cached(m) = {}
  /\ Size(Cached(m)) + EmbedsOf(r, t.inputs) <= CacheSize
  /\ \A h \in Wanted(r, first, t.n) : h \in Hashed(r, t.inputs) \/ Holds(m, r, h)
Joined(m, w, q, p, row, r, t) ==
  /\ CacheSound(w) /\ (\A s, h : Holds(m, s, h) => Holds(w, s, h)) /\ Ready(w, row)
  /\ p \in Seq(PlannedRows) /\ ToSet(p) = ToSet(q) \cup {row}
  /\ row \in PlannedRows /\ row.req = r
  /\ SpentOn(p) <= SpentOn(q) + EmbedsOf(r, t.inputs)
  /\ \A have : Foreseen(have, m, q) => Foreseen(have, w, p)

LEMMA RowJoins ==
  ASSUME NEW r \in Requests, NEW first \in Int, NEW t, NEW row, row = Row(r, first, t),
         NEW m, CacheSound(m), NEW q \in Seq(PlannedRows), Room(t, r, first, m),
         NEW w, w = AllocateInputs(m, r, t.inputs), NEW p, p = Append(q, row)
  PROVE  Joined(m, w, q, p, row, r, t)
<1> USE DEF Room
<1> DEFINE H == Hashed(r, t.inputs)
<1>1. /\ row \in PlannedRows /\ row.req = r /\ row.first = first /\ row.n = t.n
      /\ row.inputs = t.inputs
  BY MadeRow
<1>2. H \in SUBSET Hashes /\ Size(H) <= EmbedsOf(r, t.inputs) /\ EmbedsOf(r, t.inputs) \in Int
  BY HashedSize, EmbedsIsSum
<1>3. w = Allocate(m, H, r)
  BY DEF AllocateInputs, Hashed
<1> HIDE DEF H
<1>4. /\ CacheSound(w) /\ Cached(w) = Cached(m) \cup H /\ w.freed = m.freed
      /\ \A s, h : Holds(m, s, h) => Holds(w, s, h)
      /\ \A h \in H : Holds(w, r, h)
  <2>1. PICK k \in Int : k = EmbedsOf(r, t.inputs)
    BY <1>2
  <2>2. Size(H) <= k /\ Size(Cached(m)) + k <= CacheSize /\ H \cap Cached(m) = {}
    BY <1>2, <2>1 DEF H
  <2> QED  BY <1>2, <1>3, <2>2, AllocateFacts
<1>5. Ready(w, row)
  BY <1>1, <1>4 DEF Ready, H
<1>6. p \in Seq(PlannedRows) /\ ToSet(p) = ToSet(q) \cup {row}
  BY <1>1, AppendedSeq
<1>7. SpentOn(p) <= SpentOn(q) + EmbedsOf(r, t.inputs)
  BY <1>1, SpentAppend
<1>8. ASSUME NEW have, Foreseen(have, m, q) PROVE Foreseen(have, w, p)
  <2>1. Encoded([rows |-> q]) \cup H \subseteq Encoded([rows |-> p])
    <3>1. Hashed(row.req, row.inputs) = H
      BY <1>1 DEF H
    <3>2. /\ Encoded([rows |-> q]) = UNION {Hashed(x.req, x.inputs) : x \in ToSet(q)}
          /\ Encoded([rows |-> p]) = UNION {Hashed(x.req, x.inputs) : x \in ToSet(p)}
      BY EncodedOf
    <3>3. /\ \A x \in ToSet(q) : Hashed(x.req, x.inputs) \subseteq Encoded([rows |-> p])
          /\ Hashed(row.req, row.inputs) \subseteq Encoded([rows |-> p])
      BY ONLY <1>6, <3>2
    <3>4. Encoded([rows |-> q]) \subseteq Encoded([rows |-> p])
      BY ONLY <3>2, <3>3
    <3> QED  BY ONLY <3>1, <3>3, <3>4
  <2> QED  BY <1>4, <1>8, <2>1, ForeseenMore
<1> QED  BY <1>1, <1>4, <1>5, <1>6, <1>7, <1>8 DEF Joined

LEMMA BudgetStays ==
  ASSUME NEW q \in Seq(PlannedRows), NEW p \in Seq(PlannedRows), NEW r \in Requests, NEW t,
         t.inputs \subseteq DOMAIN Features[r], t.left \in Nat, budget \in Nat,
         SpentOn(p) <= SpentOn(q) + EmbedsOf(r, t.inputs),
         SpentOn(q) + EmbedsOf(r, t.inputs) + t.left <= EncoderBudget,
         SpentOn(q) + budget <= EncoderBudget
  PROVE  BudgetAfter(t) \in Nat /\ SpentOn(p) + BudgetAfter(t) <= EncoderBudget
<1>1. PICK e \in Nat : e = EmbedsOf(r, t.inputs)
  BY EmbedsIsSum
<1>2. PICK x \in Nat : x = SpentOn(p)
  BY SpentIsSum
<1>3. PICK y \in Nat : y = SpentOn(q)
  BY SpentIsSum
<1>4. EncoderBudget \in Nat /\ x <= y + e
  BY <1>1, <1>2, <1>3, LimitsTyped
<1>5. CASE t.inputs = {}
  <2>1. BudgetAfter(t) = budget
    BY <1>5 DEF BudgetAfter
  <2>2. e = 0
    BY <1>1, <1>5, EmbedsOfNone
  <2>3. y + budget <= EncoderBudget
    BY <1>3
  <2> QED  BY <1>2, <1>4, <2>1, <2>2, <2>3
<1>6. CASE t.inputs # {}
  <2>1. BudgetAfter(t) = t.left
    BY <1>6 DEF BudgetAfter
  <2>2. PICK l \in Nat : l = t.left
    OBVIOUS
  <2>3. y + e + l <= EncoderBudget
    BY <1>1, <1>3, <2>2
  <2>4. x + l <= EncoderBudget
    BY <1>4, <2>3
  <2> QED  BY <1>2, <2>1, <2>2, <2>4
<1> QED  BY <1>5, <1>6

LEMMA ScheduleKeeps == ASSUME EInv, ScheduleRunning PROVE EInv'
<1> DEFINE r == try.req
           row == Row(r, num_computed[r], try)
<1>0. /\ EncoderTypes /\ QueuesApart /\ CacheSound(cache) /\ RowsPlanned /\ PassInOrder
      /\ TryStands /\ DonePrefix /\ WorkerSound /\ Tracked
  BY DEF EInv
<1>1. /\ pc = "allocate" /\ pc' = "running" /\ rows' = Append(rows, row)
      /\ token_budget' = token_budget - try.n /\ budget' = BudgetAfter(try)
      /\ cache' = AllocateInputs(cache, r, try.inputs) /\ at' = at + 1
      /\ UNCHANGED <<shift, req_status, num_computed, running, waiting, flight, worker, missed>>
  BY DEF ScheduleRunning, config
<1>2. /\ budget \in Nat /\ token_budget \in Int /\ running \in Seq(Requests)
      /\ num_computed \in [Requests -> Int] /\ rows \in Seq(PlannedRows)
  BY <1>0 DEF EncoderTypes
<1>3. /\ r \in Requests /\ try.inputs \subseteq DOMAIN Features[r]
      /\ try.n \in Int /\ try.left \in Nat
      /\ \E j \in 1 .. Len(running) : j <= at /\ running[j] = r /\
           \A x \in ToSet(rows) : AheadOf(running, x.req, j)
      /\ Hashed(r, try.inputs) \cap Cached(cache) = {}
      /\ \A h \in Wanted(r, num_computed[r], try.n) : h \in Hashed(r, try.inputs) \/ Holds(cache, r, h)
      /\ Size(Cached(cache)) + EmbedsOf(r, try.inputs) <= CacheSize
      /\ SpentOn(rows) + EmbedsOf(r, try.inputs) + try.left <= EncoderBudget
  BY <1>0, <1>1 DEF TryStands
<1>4. PICK first \in Int : first = num_computed[r]
  BY <1>2, <1>3
<1> HIDE DEF r
<1>5. /\ CacheSound(cache') /\ (\A s, h : Holds(cache, s, h) => Holds(cache', s, h))
      /\ Ready(cache', row)
      /\ rows' \in Seq(PlannedRows) /\ ToSet(rows') = ToSet(rows) \cup {row}
      /\ row \in PlannedRows /\ row.req = r
      /\ SpentOn(rows') <= SpentOn(rows) + EmbedsOf(r, try.inputs)
      /\ \A have : Foreseen(have, cache, rows) => Foreseen(have, cache', rows')
  <2>1. Room(try, r, first, cache)
    BY <1>3, <1>4 DEF Room
  <2>2. row = Row(r, first, try)
    BY <1>4
  <2>3. PICK w : w = cache'
    OBVIOUS
  <2>4. PICK p : p = rows'
    OBVIOUS
  <2>5. w = AllocateInputs(cache, r, try.inputs) /\ p = Append(rows, row)
    BY <1>1, <2>3, <2>4
  <2> HIDE DEF row
  <2>6. Joined(cache, w, rows, p, row, r, try)
    BY <1>0, <1>2, <1>3, <2>1, <2>2, <2>5, RowJoins
  <2> QED  BY ONLY <2>3, <2>4, <2>6 DEF Joined
<1> HIDE DEF row
<1>6. budget' \in Nat /\ SpentOn(rows') + budget' <= EncoderBudget
  <2>1. SpentOn(rows) + budget <= EncoderBudget
    BY <1>0 DEF RowsPlanned
  <2>2. PICK p \in Seq(PlannedRows) : p = rows'
    BY <1>5
  <2>3. BudgetAfter(try) \in Nat /\ SpentOn(p) + BudgetAfter(try) <= EncoderBudget
    BY <1>2, <1>3, <1>5, <2>1, <2>2, BudgetStays
  <2> QED  BY <1>1, <2>2, <2>3
<1>7. EncoderTypes'
  <2>1. cache' \in Caches /\ token_budget' \in Int
    BY <1>1, <1>2, <1>3, <1>5 DEF CacheSound
  <2> QED  BY <1>0, <1>1, <1>5, <1>6, <2>1 DEF EncoderTypes
<1>8. QueuesApart' /\ DonePrefix' /\ WorkerSound'
  BY <1>0, <1>1 DEF QueuesApart, DonePrefix, WorkerSound
<1>9. PICK j \in 1 .. Len(running) : j <= at /\ running[j] = r /\
        \A x \in ToSet(rows) : AheadOf(running, x.req, j)
  BY <1>3
<1>10. RowsPlanned'
  <2>1. \A x \in ToSet(rows) : Ready(cache', x) /\ x.req \in ToSet(running)
    BY <1>0, <1>5, RowsStayReady DEF RowsPlanned
  <2>2. r \in ToSet(running)
    BY <1>2, <1>9, ElementFacts
  <2>3. ASSUME NEW x \in ToSet(rows) PROVE x.req # r
    <3>1. PICK i \in 1 .. Len(running) : i < j /\ running[i] = x.req
      BY <1>9, <2>3 DEF AheadOf
    <3>2. IsInjective(running) /\ i # j
      BY <1>0, <1>2, <3>1 DEF QueuesApart
    <3> QED  BY <1>2, <1>9, <3>1, <3>2, ElementFacts
  <2>4. \A x, y \in ToSet(rows) : x.req = y.req => x = y
    BY <1>0 DEF RowsPlanned
  <2>5. \A x, y \in ToSet(rows') : x.req = y.req => x = y
    BY <1>5, <2>3, <2>4
  <2>6. \A x \in ToSet(rows') : x.req \in ToSet(running') /\ Ready(cache', x)
    BY <1>1, <1>5, <2>1, <2>2
  <2> QED  BY <1>1, <1>6, <2>5, <2>6 DEF RowsPlanned
<1>11. PassInOrder'
  <2>1. at \in Nat \ {0} /\ at' = at + 1
    BY <1>0, <1>1 DEF PassInOrder
  <2>2. ASSUME NEW x \in ToSet(rows') PROVE AheadOf(running', x.req, at')
    <3>1. CASE x \in ToSet(rows)
      <4>1. PICK i \in 1 .. Len(running) : i < j /\ running[i] = x.req
        BY <1>9, <3>1 DEF AheadOf
      <4>2. i < at'
        BY <1>2, <1>9, <2>1, <4>1
      <4> QED  BY <1>1, <4>1, <4>2 DEF AheadOf
    <3>2. CASE x = row
      <4>1. j < at' /\ running[j] = x.req
        BY <1>2, <1>5, <1>9, <2>1, <3>2
      <4> QED  BY <1>1, <1>9, <4>1 DEF AheadOf
    <3> QED  BY <1>5, <2>2, <3>1, <3>2
  <2>3. at' \in Nat \ {0}
    BY <2>1
  <2> QED  BY <2>2, <2>3 DEF PassInOrder
<1>12. Tracked'
  BY <1>0, <1>1, <1>5, WorkerKept
<1>13. TryStands'
  BY <1>1 DEF TryStands
<1> QED  BY <1>5, <1>7, <1>8, <1>10, <1>11, <1>12, <1>13 DEF EInv

(* Both ways to treat a waiting request begin by trying its inputs.          *)
LEMMA AdmissionTried ==
  ASSUME EInv, waiting # <<>>, NEW hit \in Hits, NEW r, r = NextWaiting,
         NEW t, t = Admission(r, hit)
  PROVE  /\ r \in Requests /\ r \in ToSet(waiting) /\ r \notin ToSet(running)
         /\ hit \in Int /\ Attempt(t, r, hit, cache, budget)
<1>0. /\ EncoderTypes /\ QueuesApart /\ CacheSound(cache)
  BY DEF EInv
<1>1. /\ budget \in Nat /\ token_budget \in Int /\ waiting \in Seq(Requests) /\ shift \in {0, 1}
  BY <1>0 DEF EncoderTypes
<1>2. r \in ToSet(waiting)
  BY <1>1, ChoicesExist
<1>3. r \in Requests /\ r \notin ToSet(running)
  BY <1>0, <1>1, <1>2, ElementFacts DEF QueuesApart
<1>4. hit \in Int
  BY EncoderAssumption
<1>5. PICK most : most = Min({token_budget, Prompt[r] - hit})
  OBVIOUS
<1>6. most \in Int
  <2>1. PICK left \in Int : left = Prompt[r] - hit
    BY <1>3, <1>4, PromptLeft
  <2> QED  BY <1>1, <1>5, <2>1, TwoExtremes
<1>7. t = TryScheduleEncoderInputs(r, hit, most, budget, cache)
  BY <1>5 DEF Admission
<1>8. Attempt(t, r, hit, cache, budget)
  BY <1>0, <1>1, <1>3, <1>4, <1>6, <1>7, ScheduledInputs
<1> QED  BY <1>2, <1>3, <1>4, <1>8

LEMMA RefuseKeeps == ASSUME EInv, NEW hit \in Hits, Refuse(hit) PROVE EInv'
<1> DEFINE r == NextWaiting
           t == Admission(r, hit)
<1>0. /\ EncoderTypes /\ QueuesApart /\ CacheSound(cache) /\ RowsPlanned
      /\ DonePrefix /\ WorkerSound /\ Tracked
  BY DEF EInv
<1>1. /\ pc' = "commit" /\ pc = "waiting" /\ waiting # <<>>
      /\ cache' = t.cache \/ cache' = ReleaseAll(t.cache, r)
      /\ UNCHANGED <<shift, req_status, num_computed, running, waiting, at, token_budget, budget, rows, try,
                     flight, worker, missed>>
  BY DEF Refuse, MayAdmit, config, queues, locals
<1>2. r \in Requests /\ r \notin ToSet(running) /\ Attempt(t, r, hit, cache, budget)
  BY <1>1, AdmissionTried
<1> HIDE DEF t, r
<1>3. Keeps(cache, t.cache) /\ CacheSound(t.cache)
  BY <1>2 DEF Attempt, Keeps
<1>4. Spares(t.cache, cache', r)
  <2>1. cache' = t.cache => Spares(t.cache, cache', r)
    BY <1>3, KeepsItself
  <2>2. Spares(t.cache, ReleaseAll(t.cache, r), r)
    BY <1>2, <1>3, ReleaseThoseSpares DEF ReleaseAll
  <2> QED  BY <1>1, <2>1, <2>2
<1>5. CacheSound(cache') /\ cache' \in Caches
  BY <1>4 DEF Spares, CacheSound
<1>6. EncoderTypes' /\ QueuesApart' /\ DonePrefix' /\ WorkerSound'
  BY <1>0, <1>1, <1>5 DEF EncoderTypes, QueuesApart, DonePrefix, WorkerSound
<1>7. RowsPlanned'
  <2>1. ASSUME NEW row \in ToSet(rows) PROVE Ready(cache', row)
    <3>1. Ready(cache, row) /\ row.req # r
      BY <1>0, <1>2, <2>1 DEF RowsPlanned
    <3>2. Ready(t.cache, row)
      BY <1>3, <3>1, RowsStayReady DEF Keeps
    <3> QED  BY <1>4, <3>1, <3>2, RowsStayReady
  <2> QED  BY <1>0, <1>1, <2>1 DEF RowsPlanned
<1>8. Tracked'
  <2>1. ASSUME NEW have, Foreseen(have, cache, rows) PROVE Foreseen(have, cache', rows)
    BY <1>3, <1>4, <2>1, ForeseenKept
  <2> QED  BY <1>0, <1>1, <2>1, WorkerKept
<1>9. PassInOrder' /\ TryStands'
  BY <1>1 DEF PassInOrder, TryStands
<1> QED  BY <1>5, <1>6, <1>7, <1>8, <1>9 DEF EInv

LEMMA AdmitKeeps == ASSUME EInv, NEW hit \in Hits, Admit(hit) PROVE EInv'
<1> DEFINE r == NextWaiting
           t == Admission(r, hit)
           row == Row(r, hit, t)
<1>0. /\ EncoderTypes /\ QueuesApart /\ CacheSound(cache) /\ RowsPlanned
      /\ DonePrefix /\ WorkerSound /\ Tracked
  BY DEF EInv
<1>1. /\ pc' = pc /\ pc = "waiting" /\ waiting # <<>>
      /\ waiting' = Without(waiting, {r}) /\ running' = Append(running, r)
      /\ req_status' = [req_status EXCEPT ![r] = "running"]
      /\ num_computed' = [num_computed EXCEPT ![r] = hit]
      /\ rows' = Append(rows, row) /\ token_budget' = token_budget - t.n /\ budget' = BudgetAfter(t)
      /\ cache' = AllocateInputs(t.cache, r, t.inputs)
      /\ UNCHANGED <<shift, flight, worker, missed>>
  BY DEF Admit, MayAdmit, config
<1>2. /\ r \in Requests /\ r \in ToSet(waiting) /\ r \notin ToSet(running)
      /\ hit \in Int /\ Attempt(t, r, hit, cache, budget)
  BY <1>1, AdmissionTried
<1> HIDE DEF t, r
<1>3. /\ budget \in Nat /\ token_budget \in Int /\ running \in Seq(Requests) /\ waiting \in Seq(Requests)
      /\ req_status \in [Requests -> Statuses]
      /\ num_computed \in [Requests -> Int] /\ rows \in Seq(PlannedRows)
  BY <1>0 DEF EncoderTypes
<1>4. /\ Keeps(cache, t.cache) /\ CacheSound(t.cache) /\ Room(t, r, hit, t.cache)
      /\ t.n \in Int /\ t.left \in Nat /\ t.inputs \subseteq DOMAIN Features[r]
      /\ EmbedsOf(r, t.inputs) + t.left <= budget
  BY <1>2 DEF Attempt, Keeps, Room
<1>5. /\ CacheSound(cache') /\ (\A s, h : Holds(t.cache, s, h) => Holds(cache', s, h))
      /\ Ready(cache', row)
      /\ rows' \in Seq(PlannedRows) /\ ToSet(rows') = ToSet(rows) \cup {row}
      /\ row \in PlannedRows /\ row.req = r
      /\ SpentOn(rows') <= SpentOn(rows) + EmbedsOf(r, t.inputs)
      /\ \A have : Foreseen(have, t.cache, rows) => Foreseen(have, cache', rows')
  <2>1. PICK w : w = cache'
    OBVIOUS
  <2>2. PICK p : p = rows'
    OBVIOUS
  <2>3. PICK m : m = t.cache
    OBVIOUS
  <2>4. w = AllocateInputs(m, r, t.inputs) /\ p = Append(rows, row)
    BY <1>1, <2>1, <2>2, <2>3
  <2>5. row = Row(r, hit, t) /\ Room(t, r, hit, m) /\ CacheSound(m)
    BY <1>4, <2>3
  <2> HIDE DEF row
  <2>6. Joined(m, w, rows, p, row, r, t)
    BY <1>2, <1>3, <2>4, <2>5, RowJoins
  <2> QED  BY ONLY <2>1, <2>2, <2>3, <2>6 DEF Joined
<1> HIDE DEF row
<1>6. budget' \in Nat /\ SpentOn(rows') + budget' <= EncoderBudget
  <2>1. SpentOn(rows) + budget <= EncoderBudget
    BY <1>0 DEF RowsPlanned
  <2>2. SpentOn(rows) + EmbedsOf(r, t.inputs) + t.left <= EncoderBudget
    <3>1. SpentOn(rows) \in Nat /\ EmbedsOf(r, t.inputs) \in Nat /\ EncoderBudget \in Nat
      BY <1>2, <1>3, <1>4, SpentIsSum, EmbedsIsSum, LimitsTyped
    <3> QED  BY <1>3, <1>4, <2>1, <3>1
  <2>3. PICK p \in Seq(PlannedRows) : p = rows'
    BY <1>5
  <2>4. BudgetAfter(t) \in Nat /\ SpentOn(p) + BudgetAfter(t) <= EncoderBudget
    BY <1>2, <1>3, <1>4, <1>5, <2>1, <2>2, <2>3, BudgetStays
  <2> QED  BY <1>1, <2>3, <2>4
<1>7. /\ running' \in Seq(Requests) /\ ToSet(running') = ToSet(running) \cup {r}
      /\ IsInjective(running')
  <2>1. IsInjective(running)
    BY <1>0 DEF QueuesApart
  <2> QED  BY <1>1, <1>2, <1>3, <2>1, AppendedSeq
<1>8. /\ waiting' \in Seq(Requests) /\ ToSet(waiting') = ToSet(waiting) \ {r}
      /\ IsInjective(waiting')
  <2>1. IsInjective(waiting)
    BY <1>0 DEF QueuesApart
  <2> QED  BY <1>1, <1>3, <2>1, KeptFacts
<1>9. EncoderTypes'
  <2>1. cache' \in Caches /\ token_budget' \in Int
    BY <1>1, <1>3, <1>4, <1>5 DEF CacheSound
  <2>2. req_status' \in [Requests -> Statuses] /\ num_computed' \in [Requests -> Int]
    BY <1>1, <1>2, <1>3 DEF Statuses
  <2> QED  BY <1>0, <1>1, <1>5, <1>6, <1>7, <1>8, <2>1, <2>2 DEF EncoderTypes
<1>10. QueuesApart'
  <2>1. ASSUME NEW x \in ToSet(running') \cup ToSet(waiting') PROVE req_status'[x] # "new"
    <3>1. x \in Requests
      BY <1>7, <1>8, <2>1, ElementFacts
    <3>2. x = r \/ req_status'[x] = req_status[x]
      BY <1>1, <1>3, <3>1
    <3>3. x = r => req_status'[x] = "running"
      BY <1>1, <1>2, <1>3
    <3>4. req_status[x] # "new"
      BY <1>0, <1>2, <1>7, <1>8, <2>1 DEF QueuesApart
    <3> QED  BY <3>2, <3>3, <3>4
  <2>2. ToSet(running') \cap ToSet(waiting') = {}
    BY <1>0, <1>7, <1>8 DEF QueuesApart
  <2> QED  BY <1>7, <1>8, <2>1, <2>2 DEF QueuesApart
<1>11. RowsPlanned'
  <2>1. ASSUME NEW x \in ToSet(rows)
        PROVE  Ready(cache', x) /\ x.req \in ToSet(running) /\ x.req # r
    <3>1. Ready(cache, x) /\ x.req \in ToSet(running)
      BY <1>0, <2>1 DEF RowsPlanned
    <3>2. Ready(t.cache, x)
      BY <1>4, <3>1, RowsStayReady DEF Keeps
    <3> QED  BY <1>2, <1>5, <3>1, <3>2, RowsStayReady
  <2>2. \A x, y \in ToSet(rows) : x.req = y.req => x = y
    BY <1>0 DEF RowsPlanned
  <2>3. \A x, y \in ToSet(rows') : x.req = y.req => x = y
    BY <1>5, <2>1, <2>2
  <2>4. \A x \in ToSet(rows') : x.req \in ToSet(running') /\ Ready(cache', x)
    BY <1>5, <1>7, <2>1
  <2> QED  BY <1>1, <1>6, <2>3, <2>4 DEF RowsPlanned
<1>12. Tracked'
  <2>1. ASSUME NEW have, Foreseen(have, cache, rows) PROVE Foreseen(have, cache', rows')
    BY <1>4, <1>5, <2>1, ForeseenKept
  <2> QED  BY <1>0, <1>1, <2>1, WorkerKept
<1>13. PassInOrder' /\ TryStands' /\ DonePrefix' /\ WorkerSound'
  BY <1>0, <1>1 DEF PassInOrder, TryStands, DonePrefix, WorkerSound
<1> QED  BY <1>5, <1>9, <1>10, <1>11, <1>12, <1>13 DEF EInv

LEMMA AddKeeps == ASSUME EInv, NEW r \in Requests, AddRequest(r) PROVE EInv'
<1>0. /\ EncoderTypes /\ QueuesApart /\ CacheSound(cache) /\ RowsPlanned
      /\ DonePrefix /\ WorkerSound /\ Tracked
  BY DEF EInv
<1>1. /\ pc = "idle" /\ req_status[r] = "new" /\ req_status' = [req_status EXCEPT ![r] = "waiting"]
      /\ waiting' = Append(waiting, r)
      /\ UNCHANGED <<shift, num_computed, running, cache, pc, at, token_budget, budget, rows, try,
                     flight, worker, missed>>
  BY DEF AddRequest, config, locals
<1>2. /\ running \in Seq(Requests) /\ waiting \in Seq(Requests)
      /\ req_status \in [Requests -> Statuses]
  BY <1>0 DEF EncoderTypes
<1>3. r \notin ToSet(running) \cup ToSet(waiting)
  BY <1>0, <1>1 DEF QueuesApart
<1>4. /\ waiting' \in Seq(Requests) /\ ToSet(waiting') = ToSet(waiting) \cup {r}
      /\ IsInjective(waiting')
  <2>1. IsInjective(waiting)
    BY <1>0 DEF QueuesApart
  <2> QED  BY <1>1, <1>2, <1>3, <2>1, AppendedSeq
<1>5. EncoderTypes'
  <2>1. req_status' \in [Requests -> Statuses]
    BY <1>1, <1>2 DEF Statuses
  <2> QED  BY <1>0, <1>1, <1>4, <2>1 DEF EncoderTypes
<1>6. QueuesApart'
  <2>1. ASSUME NEW x \in ToSet(running') \cup ToSet(waiting') PROVE req_status'[x] # "new"
    <3>1. x = r \/ x \in ToSet(running) \cup ToSet(waiting)
      BY <1>1, <1>4, <2>1
    <3>2. CASE x = r
      BY <1>1, <1>2, <3>2
    <3>3. CASE x # r
      <4>1. x \in Requests /\ req_status[x] # "new"
        BY <1>0, <1>2, <3>1, <3>3, ElementFacts DEF QueuesApart
      <4> QED  BY <1>1, <1>2, <3>3, <4>1
    <3> QED  BY <3>2, <3>3
  <2>2. IsInjective(running') /\ ToSet(running') \cap ToSet(waiting') = {}
    BY <1>0, <1>1, <1>3, <1>4 DEF QueuesApart
  <2> QED  BY <1>4, <2>1, <2>2 DEF QueuesApart
<1>7. CacheSound(cache)' /\ DonePrefix' /\ WorkerSound' /\ RowsPlanned'
  BY <1>0, <1>1 DEF DonePrefix, WorkerSound, RowsPlanned
<1>8. PassInOrder' /\ TryStands'
  BY <1>1 DEF PassInOrder, TryStands
<1>9. Tracked'
  BY <1>0, <1>1, WorkerKept
<1> QED  BY <1>5, <1>6, <1>7, <1>8, <1>9 DEF EInv

(* Requests that end leave the queues, and the cache.                        *)
LEMMA GoneKeeps ==
  ASSUME EInv, pc = "idle", NEW S, Gone(S),
         UNCHANGED <<shift, pc, at, token_budget, budget, rows, try, worker, missed>>,
         CacheSound(cache')
  PROVE  /\ flight' \in Seq(PlannedSteps) => EncoderTypes'
         /\ QueuesApart' /\ RowsPlanned' /\ PassInOrder' /\ TryStands' /\ WorkerSound'
<1>0. EncoderTypes /\ QueuesApart /\ RowsPlanned /\ WorkerSound
  BY DEF EInv
<1>1. /\ running \in Seq(Requests) /\ waiting \in Seq(Requests)
      /\ req_status \in [Requests -> Statuses] /\ num_computed \in [Requests -> Int]
  BY <1>0 DEF EncoderTypes
<1>2. /\ running' \in Seq(Requests) /\ ToSet(running') = ToSet(running) \ S
      /\ IsInjective(running')
      /\ waiting' \in Seq(Requests) /\ ToSet(waiting') = ToSet(waiting) \ S
      /\ IsInjective(waiting')
  <2>1. IsInjective(running) /\ IsInjective(waiting)
    BY <1>0 DEF QueuesApart
  <2> QED  BY <1>1, <2>1, KeptFacts DEF Gone
<1>3. req_status' \in [Requests -> Statuses] /\ num_computed' \in [Requests -> Int]
  BY <1>1 DEF Gone, Statuses
<1>4. flight' \in Seq(PlannedSteps) => EncoderTypes'
  BY <1>0, <1>2, <1>3 DEF EncoderTypes, CacheSound
<1>5. QueuesApart'
  <2>1. ASSUME NEW x \in ToSet(running') \cup ToSet(waiting') PROVE req_status'[x] # "new"
    <3>1. x \in Requests /\ req_status[x] # "new" /\ x \notin S
      BY <1>0, <1>1, <1>2, <2>1, ElementFacts DEF QueuesApart
    <3> QED  BY <3>1 DEF Gone
  <2>2. ToSet(running') \cap ToSet(waiting') = {}
    BY <1>0, <1>2 DEF QueuesApart
  <2> QED  BY <1>2, <2>1, <2>2 DEF QueuesApart
<1>6. RowsPlanned'
  <2>1. rows' = <<>> /\ ToSet(rows') = {}
    BY <1>0 DEF RowsPlanned, ToSet
  <2>2. SpentOn(rows') + budget' <= EncoderBudget
    BY <1>0 DEF RowsPlanned
  <2> QED  BY <2>1, <2>2 DEF RowsPlanned
<1>7. PassInOrder' /\ TryStands' /\ WorkerSound'
  BY <1>0 DEF PassInOrder, TryStands, WorkerSound
<1> QED  BY <1>4, <1>5, <1>6, <1>7

LEMMA AbortKeeps == ASSUME EInv, NEW r \in Requests, Abort(r) PROVE EInv'
<1>0. EncoderTypes /\ CacheSound(cache) /\ DonePrefix /\ Tracked
  BY DEF EInv
<1>1. /\ pc = "idle" /\ Gone({r}) /\ cache' = ReleaseAll(cache, r)
      /\ UNCHANGED <<shift, pc, at, token_budget, budget, rows, try, flight, worker, missed>>
  BY DEF Abort, config, locals
<1>2. Spares(cache, cache', r)
  BY <1>0, <1>1, ReleaseThoseSpares DEF ReleaseAll
<1>3. CacheSound(cache')
  BY <1>2 DEF Spares
<1>4. flight' \in Seq(PlannedSteps) /\ DonePrefix'
  BY <1>0, <1>1 DEF EncoderTypes, DonePrefix
<1>5. Tracked'
  <2>1. ASSUME NEW have, Foreseen(have, cache, rows) PROVE Foreseen(have, cache', rows')
    BY <1>1, <1>2, <2>1, ForeseenKept
  <2> QED  BY <1>0, <1>1, <2>1, WorkerKept
<1>6. EncoderTypes' /\ QueuesApart' /\ RowsPlanned' /\ PassInOrder' /\ TryStands' /\ WorkerSound'
  BY <1>1, <1>3, <1>4, GoneKeeps
<1> QED  BY <1>3, <1>4, <1>5, <1>6 DEF EInv

(* When one request leaves the queue, whoever was ahead of another still is. *)
MovesUp(q, w, v, j, k) ==
  /\ k <= j /\ w[k] = q[j] /\ (AheadOf(q, v, j) => k < j)
  /\ \A x : x # v /\ AheadOf(q, x, j) => AheadOf(w, x, k)

LEMMA StillAhead ==
  ASSUME NEW q \in Seq(Requests), IsInjective(q), NEW v, NEW w, w = Without(q, {v}),
         NEW j \in 1 .. Len(q), q[j] # v
  PROVE  \E k \in 1 .. Len(w) : MovesUp(q, w, v, j, k)
<1>0. /\ w \in Seq(Requests) /\ KeepsOrder(q, {v}, w, Len(q))
      /\ Len(q) \in Nat /\ Len(w) \in Nat
  BY KeptFacts, LenProperties
<1>1. PICK k \in 1 .. Len(w) :
        k <= j /\ w[k] = q[j] /\ ((\E i \in 1 .. j - 1 : q[i] \in {v}) => k < j)
  BY <1>0 DEF KeepsOrder
<1>2. AheadOf(q, v, j) => k < j
  <2> SUFFICES ASSUME NEW i \in 1 .. Len(q), i < j, q[i] = v PROVE k < j
    BY DEF AheadOf
  <2>1. i \in 1 .. j - 1
    BY <1>0
  <2> QED  BY <1>1, <2>1
<1>3. ASSUME NEW x, x # v, AheadOf(q, x, j) PROVE AheadOf(w, x, k)
  <2>1. PICK i \in 1 .. Len(q) : i < j /\ q[i] = x
    BY <1>3 DEF AheadOf
  <2>0. /\ \A y \in 1 .. Len(q) : q[y] \notin {v} => \E l \in 1 .. Len(w) : w[l] = q[y]
        /\ \A c, d \in 1 .. Len(w) : c <= d =>
             \E a, b \in 1 .. Len(q) : w[c] = q[a] /\ w[d] = q[b] /\ a <= b
    <3>0. KeepsOrder(q, {v}, w, Len(q))
      BY <1>0
    <3>1. \A y \in 1 .. Len(q) : q[y] \notin {v} => \E l \in 1 .. Len(w) : w[l] = q[y]
      BY ONLY <3>0 DEF KeepsOrder
    <3>2. ASSUME NEW c \in 1 .. Len(w), NEW d \in 1 .. Len(w), c <= d
          PROVE  \E a, b \in 1 .. Len(q) : w[c] = q[a] /\ w[d] = q[b] /\ a <= b
      BY ONLY <3>0, <3>2 DEF KeepsOrder
    <3> QED  BY <3>1, <3>2
  <2>2. PICK l \in 1 .. Len(w) : w[l] = x
    BY <1>3, <2>0, <2>1
  <2>3. CASE k <= l
    <3>1. PICK a, b \in 1 .. Len(q) : w[k] = q[a] /\ w[l] = q[b] /\ a <= b
      BY <2>0, <2>3
    <3>2. a = j /\ b = i
      <4>1. q[a] = q[j] /\ q[b] = q[i]
        BY <1>1, <2>1, <2>2, <3>1
      <4>2. \A c, d \in 1 .. Len(q) : q[c] = q[d] => c = d
        BY ElementFacts
      <4> QED  BY <4>1, <4>2
    <3> QED  BY <1>0, <2>1, <3>1, <3>2
  <2>4. CASE ~ k <= l
    <3>1. l < k
      BY <1>0, <2>4
    <3> QED  BY <2>2, <3>1 DEF AheadOf
  <2> QED  BY <2>3, <2>4
<1> QED  BY <1>1, <1>2, <1>3 DEF MovesUp

LEMMA PreemptKeeps == ASSUME EInv, PreemptVictim PROVE EInv'
<1> DEFINE r == try.req
           v == Victim
           planned == {row \in Range(rows) : row.req = v}
<1>0. /\ EncoderTypes /\ QueuesApart /\ CacheSound(cache) /\ RowsPlanned /\ PassInOrder
      /\ TryStands /\ DonePrefix /\ WorkerSound /\ Tracked
  BY DEF EInv
<1>1. /\ pc = "allocate" /\ cache' = ReleaseAll(cache, v)
      /\ running' = Without(running, {v}) /\ waiting' = <<v>> \o waiting
      /\ req_status' = [req_status EXCEPT ![v] = "waiting"]
      /\ num_computed' = [num_computed EXCEPT ![v] = 0]
      /\ rows' = Without(rows, planned)
      /\ token_budget' = token_budget + Total([row \in planned |-> row.n])
      /\ budget' = budget + Total([row \in planned |-> InputEmbeds(row)])
      /\ at' = at - Cardinality(planned)
      /\ IF v = r THEN pc' = "commit" /\ try' = Untried ELSE pc' = pc /\ try' = try
      /\ UNCHANGED <<shift, flight, worker, missed>>
  BY DEF PreemptVictim, config
<1>2. /\ budget \in Nat /\ token_budget \in Int /\ running \in Seq(Requests) /\ waiting \in Seq(Requests)
      /\ req_status \in [Requests -> Statuses]
      /\ num_computed \in [Requests -> Int] /\ rows \in Seq(PlannedRows)
  BY <1>0 DEF EncoderTypes
<1>3. PICK j \in 1 .. Len(running) : j <= at /\ running[j] = r /\
        \A x \in ToSet(rows) : AheadOf(running, x.req, j)
  BY <1>0, <1>1 DEF TryStands
<1>4. at \in Nat \ {0} /\ Len(running) \in Nat /\ j \in Nat
  BY <1>0, <1>1, <1>2, LenProperties DEF PassInOrder
<1>5. /\ v \in ToSet(running) /\ v \in Requests /\ v \notin ToSet(waiting)
      /\ (Fcfs => v = running[Len(running)])
  <2>1. running # <<>>
    BY <1>4
  <2>2. v \in ToSet(running) /\ (Fcfs => v = running[Len(running)])
    BY <1>2, <2>1, ChoicesExist DEF Fcfs
  <2> QED  BY <1>0, <1>2, <2>2, ElementFacts DEF QueuesApart
<1> HIDE DEF v
<1>6. /\ planned \in SUBSET ToSet(rows) /\ planned \in SUBSET PlannedRows
      /\ planned = {row \in ToSet(rows) : row.req = v}
      /\ IsFiniteSet(planned) /\ Cardinality(planned) \in {0, 1}
      /\ (Cardinality(planned) = 1 => AheadOf(running, v, j))
      /\ (Fcfs => planned = {})
  <2>1. planned = {row \in ToSet(rows) : row.req = v}
    BY RangeIsToSet
  <2> HIDE DEF planned
  <2>2. planned \in SUBSET ToSet(rows) /\ planned \in SUBSET PlannedRows /\ IsFiniteSet(planned)
    BY <1>2, <2>1, RowsFinite, FS_Subset
  <2>3. \A x, y \in planned : x = y
    BY <1>0, <2>1 DEF RowsPlanned
  <2>4. planned # {} => AheadOf(running, v, j)
    BY <1>3, <2>1
  <2>5. CASE planned = {}
    <3>1. Cardinality(planned) = 0
      BY <2>5, FS_EmptySet
    <3> QED  BY <2>1, <2>2, <2>5, <3>1
  <2>6. CASE planned # {}
    <3>0. PICK x : x \in planned
      BY <2>6
    <3>1. planned = {x}
      BY <2>3, <3>0
    <3>2. Cardinality(planned) = 1
      BY <3>1, FS_Singleton
    <3>3. ~ Fcfs
      <4> SUFFICES ASSUME Fcfs PROVE FALSE
        OBVIOUS
      <4>1. PICK i \in 1 .. Len(running) : i < j /\ running[i] = v
        BY <2>4, <2>6 DEF AheadOf
      <4>2. Len(running) \in 1 .. Len(running) /\ running[Len(running)] = v
        BY <1>4, <1>5
      <4>3. i = Len(running)
        BY <1>0, <1>2, <4>1, <4>2, ElementFacts DEF QueuesApart
      <4> QED  BY <1>4, <4>1, <4>3
    <3> QED  BY <2>1, <2>2, <2>4, <2>6, <3>2, <3>3
  <2> QED  BY <2>5, <2>6
<1> HIDE DEF planned
<1>7. Spares(cache, cache', v) /\ CacheSound(cache') /\ cache' \in Caches
  <2>1. Spares(cache, cache', v)
    BY <1>0, <1>1, <1>5, ReleaseThoseSpares DEF ReleaseAll
  <2> QED  BY <2>1 DEF Spares, CacheSound
<1>8. rows' \in Seq(PlannedRows) /\ ToSet(rows') = ToSet(rows) \ planned
  BY <1>1, <1>2, KeptFacts
<1>9. /\ budget' \in Nat /\ SpentOn(rows') \in Nat
      /\ SpentOn(rows') + budget' = SpentOn(rows) + budget
  <2>1. PICK back : back = Total([row \in planned |-> InputEmbeds(row)])
    OBVIOUS
  <2>2. back \in Nat /\ SpentOn(rows') + back = SpentOn(rows) /\ SpentOn(rows') \in Nat
    BY <1>1, <1>2, <1>6, <2>1, SpentWithout
  <2>3. budget' = budget + back
    BY <1>1, <2>1
  <2>4. SpentOn(rows) \in Nat
    BY <1>2, SpentIsSum
  <2> QED  BY <1>2, <2>2, <2>3, <2>4
<1>10. /\ running' \in Seq(Requests) /\ ToSet(running') = ToSet(running) \ {v}
       /\ IsInjective(running')
       /\ waiting' \in Seq(Requests) /\ ToSet(waiting') = ToSet(waiting) \cup {v}
       /\ IsInjective(waiting')
  <2>1. IsInjective(running) /\ IsInjective(waiting)
    BY <1>0 DEF QueuesApart
  <2> QED  BY <1>1, <1>2, <1>5, <2>1, KeptFacts, PushedSeq
<1>11. EncoderTypes'
  <2>0. PICK back : back = Total([row \in planned |-> row.n])
    OBVIOUS
  <2>1. token_budget' \in Int
    <3>1. back \in Int
      BY <1>6, <2>0, TokensTotal
    <3>2. token_budget' = token_budget + back
      BY <1>1, <2>0
    <3> QED  BY <1>2, <3>1, <3>2
  <2>2. req_status' \in [Requests -> Statuses] /\ num_computed' \in [Requests -> Int]
    BY <1>1, <1>2, <1>5 DEF Statuses
  <2> QED  BY <1>0, <1>1, <1>7, <1>8, <1>9, <1>10, <2>1, <2>2 DEF EncoderTypes
<1>12. QueuesApart'
  <2>1. ASSUME NEW x \in ToSet(running') \cup ToSet(waiting') PROVE req_status'[x] # "new"
    <3>1. x \in ToSet(running) \cup ToSet(waiting)
      BY <1>5, <1>10, <2>1
    <3>2. x \in Requests /\ req_status[x] # "new"
      BY <1>0, <1>2, <3>1, ElementFacts DEF QueuesApart
    <3>3. CASE x = v
      BY <1>1, <1>2, <3>2, <3>3
    <3>4. CASE x # v
      BY <1>1, <1>2, <3>2, <3>4
    <3> QED  BY <3>3, <3>4
  <2>2. ToSet(running') \cap ToSet(waiting') = {}
    BY <1>0, <1>10 DEF QueuesApart
  <2> QED  BY <1>10, <2>1, <2>2 DEF QueuesApart
<1>13. RowsPlanned'
  <2>1. ASSUME NEW x \in ToSet(rows')
        PROVE  x.req \in ToSet(running') /\ Ready(cache', x)
    <3>1. x \in ToSet(rows) /\ x.req # v
      BY <1>6, <1>8, <2>1
    <3>2. x.req \in ToSet(running) /\ Ready(cache, x)
      BY <1>0, <3>1 DEF RowsPlanned
    <3> QED  BY <1>7, <1>10, <3>1, <3>2, RowsStayReady
  <2>2. \A x, y \in ToSet(rows') : x.req = y.req => x = y
    BY <1>0, <1>8 DEF RowsPlanned
  <2>3. SpentOn(rows') + budget' <= EncoderBudget
    BY <1>0, <1>9 DEF RowsPlanned
  <2>4. pc' # "idle"
    BY <1>1
  <2> QED  BY <2>1, <2>2, <2>3, <2>4 DEF RowsPlanned
<1>14. Tracked'
  <2>1. ASSUME NEW have, Foreseen(have, cache, rows) PROVE Foreseen(have, cache', rows')
    <3>1. Foreseen(have, cache', rows)
      BY <1>7, <2>1, ForeseenKept
    <3>2. Fcfs => Encoded([rows |-> rows]) \cup {} \subseteq Encoded([rows |-> rows'])
      <4> SUFFICES ASSUME Fcfs PROVE Encoded([rows |-> rows]) \subseteq Encoded([rows |-> rows'])
        OBVIOUS
      <4>1. ToSet(rows') = ToSet(rows)
        BY <1>6, <1>8
      <4> QED  BY <4>1, EncodedOf
    <3>3. Cached(cache') = Cached(cache') \cup {}
      OBVIOUS
    <3> QED  BY <3>1, <3>2, <3>3, ForeseenMore
  <2> QED  BY <1>0, <1>1, <2>1, WorkerKept
<1>15. DonePrefix' /\ WorkerSound'
  BY <1>0, <1>1 DEF DonePrefix, WorkerSound
<1>16. PassInOrder' /\ TryStands'
  <2>1. CASE v = r
    <3>1. pc' = "commit"
      BY <1>1, <2>1
    <3> QED  BY <3>1 DEF PassInOrder, TryStands
  <2>2. CASE v # r
    <3>1. pc' = "allocate" /\ try' = try
      BY <1>1, <2>2
    <3>2. PICK k \in 1 .. Len(running') :
            /\ k <= j /\ running'[k] = r /\ (AheadOf(running, v, j) => k < j)
            /\ \A x : x # v /\ AheadOf(running, x, j) => AheadOf(running', x, k)
      <4>1. PICK w : w = running'
        OBVIOUS
      <4>2. w = Without(running, {v}) /\ IsInjective(running) /\ running[j] # v
        BY <1>0, <1>1, <1>3, <2>2, <4>1 DEF QueuesApart
      <4>3. \E k \in 1 .. Len(w) : MovesUp(running, w, v, j, k)
        BY <1>2, <4>2, StillAhead
      <4> QED  BY <1>3, <4>1, <4>3 DEF MovesUp
    <3>3. Len(running') \in Nat /\ k \in Nat \ {0}
      BY <1>10, <3>2, LenProperties
    <3>4. at' \in Nat \ {0} /\ k <= at'
      <4>1. PICK c \in {0, 1} : c = Cardinality(planned)
        BY <1>6
      <4>2. at' = at - c /\ (c = 1 => k < j)
        BY <1>1, <1>6, <3>2, <4>1
      <4> QED  BY <1>3, <1>4, <3>2, <3>3, <4>2
    <3>5. ASSUME NEW x \in ToSet(rows') PROVE AheadOf(running', x.req, k)
      <4>1. x \in ToSet(rows) /\ x.req # v
        BY <1>6, <1>8, <3>5
      <4> QED  BY <1>3, <3>2, <4>1
    <3>6. ASSUME NEW x \in ToSet(rows') PROVE AheadOf(running', x.req, at')
      <4>1. PICK i \in 1 .. Len(running') : i < k /\ running'[i] = x.req
        BY <3>5, <3>6 DEF AheadOf
      <4>2. i < at'
        BY <3>3, <3>4, <4>1
      <4> QED  BY <4>1, <4>2 DEF AheadOf
    <3>7. PassInOrder'
      BY <3>4, <3>6 DEF PassInOrder
    <3>8. /\ r \in Requests /\ try.inputs \subseteq DOMAIN Features[r]
          /\ try.n \in Int /\ try.left \in Nat
          /\ Hashed(r, try.inputs) \cap Cached(cache) = {}
          /\ \A h \in Wanted(r, num_computed[r], try.n) :
               h \in Hashed(r, try.inputs) \/ Holds(cache, r, h)
          /\ Size(Cached(cache)) + EmbedsOf(r, try.inputs) <= CacheSize
          /\ SpentOn(rows) + EmbedsOf(r, try.inputs) + try.left <= EncoderBudget
      BY <1>0, <1>1 DEF TryStands
    <3>9. Cached(cache') = Cached(cache) /\ num_computed'[r] = num_computed[r]
      BY <1>1, <1>2, <1>7, <2>2, <3>8 DEF Spares
    <3>10. \A h \in Wanted(r, num_computed'[r], try.n) :
             h \in Hashed(r, try.inputs) \/ Holds(cache', r, h)
      BY <1>7, <2>2, <3>8, <3>9 DEF Spares
    <3>11. SpentOn(rows') + EmbedsOf(r, try.inputs) + try.left <= EncoderBudget
      <4>1. /\ EmbedsOf(r, try.inputs) \in Nat /\ SpentOn(rows) \in Nat /\ EncoderBudget \in Nat
        BY <1>2, <3>8, EmbedsIsSum, SpentIsSum, LimitsTyped
      <4>2. SpentOn(rows') <= SpentOn(rows)
        <5>1. PICK back : back = Total([row \in planned |-> InputEmbeds(row)])
          OBVIOUS
        <5>2. back \in Nat /\ SpentOn(rows') + back = SpentOn(rows)
          BY <1>1, <1>2, <1>6, <5>1, SpentWithout
        <5> QED  BY <1>9, <4>1, <5>2
      <4>3. PICK e \in Nat : e = EmbedsOf(r, try.inputs)
        BY <4>1
      <4>4. try.left \in Nat /\ SpentOn(rows) + e + try.left <= EncoderBudget
        BY <3>8, <4>3
      <4>5. SpentOn(rows') \in Nat
        BY <1>9
      <4>6. SpentOn(rows') + e + try.left <= EncoderBudget
        BY <4>1, <4>2, <4>4, <4>5
      <4> QED  BY <4>3, <4>6
    <3>12. TryStands'
      <4>1. \E l \in 1 .. Len(running') : l <= at' /\ running'[l] = r /\
              \A x \in ToSet(rows') : AheadOf(running', x.req, l)
        BY <3>2, <3>4, <3>5
      <4> QED  BY <3>1, <3>8, <3>9, <3>10, <3>11, <4>1 DEF TryStands
    <3> QED  BY <3>7, <3>12
  <2> QED  BY <2>1, <2>2
<1> QED  BY <1>7, <1>11, <1>12, <1>13, <1>14, <1>15, <1>16 DEF EInv

LEMMA StepFacts ==
  ASSUME NEW step \in PlannedSteps
  PROVE  /\ step.rows \in Seq(PlannedRows) /\ step.freed \in SUBSET Hashes /\ step.done \in BOOLEAN
         /\ Encoded(step) = UNION {Hashed(row.req, row.inputs) : row \in ToSet(step.rows)}
         /\ Encoded(step) \in SUBSET Hashes
<1>1. step.rows \in Seq(PlannedRows) /\ step.freed \in SUBSET Hashes /\ step.done \in BOOLEAN
  BY DEF PlannedSteps
<1>2. Encoded(step) = UNION {Hashed(row.req, row.inputs) : row \in ToSet(step.rows)}
  BY RangeIsToSet DEF Encoded, Hashed
<1>3. ASSUME NEW row \in ToSet(step.rows) PROVE Hashed(row.req, row.inputs) \in SUBSET Hashes
  <2>1. row \in PlannedRows
    BY <1>1, <1>3, RowsFinite
  <2> QED  BY <2>1, RowFacts, HashedSize
<1> QED  BY <1>1, <1>2, <1>3

(* Handing a step out.                                                       *)
Handed(next, step, m) ==
  /\ step \in PlannedSteps /\ next \in SUBSET Hashes /\ Serves(next, step)
  /\ Foreseen(next, m, <<>>) /\ CacheSound(m)

LEMMA CommitServes ==
  ASSUME EInv, NEW have \in SUBSET Hashes, Foreseen(have, cache, rows),
         NEW step, step = [rows |-> rows, freed |-> cache.freed, done |-> FALSE],
         NEW next, next = (have \ step.freed) \cup Encoded(step),
         NEW m, m = [cache EXCEPT !.freed = {}]
  PROVE  Handed(next, step, m)
<1>0. /\ CacheSound(cache) /\ RowsPlanned /\ rows \in Seq(PlannedRows) /\ cache \in Caches
  BY DEF EInv, EncoderTypes
<1>1. step \in PlannedSteps /\ step.rows = rows /\ step.freed = cache.freed
  BY <1>0, CacheFacts DEF PlannedSteps
<1>2. Cached(cache) \in SUBSET Hashes
  BY <1>0, CacheFacts
<1>3. Encoded(step) = Encoded([rows |-> rows])
  BY <1>1 DEF Encoded
<1>4. Encoded(step) \subseteq Cached(cache)
  <2>1. ASSUME NEW row \in ToSet(rows) PROVE Hashed(row.req, row.inputs) \subseteq Cached(cache)
    BY <1>0, <2>1 DEF RowsPlanned, Ready, Holds
  <2>2. Encoded(step) = UNION {Hashed(row.req, row.inputs) : row \in ToSet(rows)}
    BY <1>1, StepFacts
  <2> QED  BY <2>1, <2>2
<1>5. next \subseteq Cached(cache) /\ (Fcfs => Cached(cache) \subseteq next)
  BY <1>1, <1>3, <1>4 DEF Foreseen
<1>6. next \in SUBSET Hashes
  BY <1>2, <1>5
<1>7. Serves(next, step)
  <2>1. Size(next) <= CacheSize
    <3>1. Size(next) <= Size(Cached(cache)) /\ Size(next) \in Nat /\ Size(Cached(cache)) \in Nat
      BY <1>2, <1>5, SizeMinus
    <3>2. Size(Cached(cache)) <= CacheSize /\ CacheSize \in Nat
      BY <1>0, LimitsTyped DEF CacheSound
    <3> QED  BY <3>1, <3>2
  <2>2. ASSUME Fcfs, NEW row \in ToSet(step.rows)
        PROVE  Wanted(row.req, row.first, row.n) \subseteq next
    <3>1. Wanted(row.req, row.first, row.n) \subseteq Cached(cache)
      BY <1>0, <1>1, <2>2 DEF RowsPlanned, Ready, Holds
    <3> QED  BY <1>5, <2>2, <3>1
  <2> QED  BY <2>1, <2>2 DEF Serves
<1>8. m.refs = cache.refs /\ m.freeable = cache.freeable /\ m.freed = {} /\ m \in Caches
  BY <1>0 DEF Caches
<1>9. Cached(m) = Cached(cache)
  BY <1>8 DEF Cached
<1>10. Foreseen(next, m, <<>>)
  BY <1>5, <1>8, <1>9 DEF Foreseen
<1>11. CacheSound(m)
  BY <1>0, <1>8, <1>9 DEF CacheSound, FreeableUnused
<1> QED  BY <1>1, <1>6, <1>7, <1>10, <1>11 DEF Handed

LEMMA CommitTracks ==
  ASSUME EInv, CommitStep
  PROVE  Tracked' /\ CacheSound(cache') /\ flight' \in Seq(PlannedSteps) /\ DonePrefix'
<1> DEFINE n == Len(flight)
           step == [rows |-> rows, freed |-> cache.freed, done |-> FALSE]
<1>0. /\ Tracked /\ DonePrefix /\ flight \in Seq(PlannedSteps) /\ n \in Nat
  BY LenProperties DEF EInv, EncoderTypes
<1>1. /\ flight' = Append(flight, step) /\ cache' = [cache EXCEPT !.freed = {}]
      /\ rows' = <<>> /\ worker' = worker
  BY DEF CommitStep
<1>2. PICK W \in [0 .. n -> SUBSET Hashes] : Replays(W) /\ Predicted(W)
  BY <1>0 DEF Tracked
<1> DEFINE next == (W[n] \ step.freed) \cup Encoded(step)
<1>3. /\ step \in PlannedSteps /\ next \in SUBSET Hashes /\ Serves(next, step)
      /\ Foreseen(next, cache', <<>>) /\ CacheSound(cache')
  <2>1. W[n] \in SUBSET Hashes /\ Foreseen(W[n], cache, rows)
    BY <1>0, <1>2 DEF Predicted
  <2>2. PICK s : s = step
    OBVIOUS
  <2>3. PICK h : h = next
    OBVIOUS
  <2>4. PICK have : have = W[n]
    OBVIOUS
  <2>5. PICK m : m = cache'
    OBVIOUS
  <2>6. h = (have \ s.freed) \cup Encoded(s)
    BY <2>2, <2>3, <2>4
  <2>7. m = [cache EXCEPT !.freed = {}]
    BY <1>1, <2>5
  <2>8. have \in SUBSET Hashes /\ Foreseen(have, cache, rows)
    BY <2>1, <2>4
  <2>9. Handed(h, s, m)
    BY <2>2, <2>6, <2>7, <2>8, CommitServes
  <2> HIDE DEF step, next
  <2> QED  BY ONLY <2>2, <2>3, <2>5, <2>9 DEF Handed
<1>4. step.done = FALSE
  OBVIOUS
<1> HIDE DEF step, next
<1>5. /\ flight' \in Seq(PlannedSteps) /\ Len(flight') = n + 1 /\ flight'[n + 1] = step
      /\ \A i \in 1 .. n : flight'[i] = flight[i]
  BY <1>0, <1>1, <1>3, AppendProperties
<1>6. DonePrefix'
  <2> SUFFICES ASSUME NEW i \in 1 .. n + 1, NEW j \in 1 .. n + 1, i < j, flight'[j].done
               PROVE  flight'[i].done
    BY <1>5 DEF DonePrefix
  <2>1. j # n + 1
    BY <1>4, <1>5
  <2>2. i \in 1 .. n /\ j \in 1 .. n
    BY <1>0, <2>1
  <2> QED  BY <1>0, <1>5, <2>2 DEF DonePrefix
<1>6a. PICK X : X = [i \in 0 .. n + 1 |-> IF i = n + 1 THEN next ELSE W[i]]
  OBVIOUS
<1>7. X \in [0 .. n + 1 -> SUBSET Hashes] /\ X[n + 1] = next /\ \A i \in 0 .. n : X[i] = W[i]
  <2>1. \A i \in 0 .. n : i # n + 1 /\ i \in 0 .. n + 1
    BY <1>0
  <2>2. \A i \in 0 .. n + 1 : i = n + 1 \/ i \in 0 .. n
    BY <1>0
  <2>3. n + 1 \in 0 .. n + 1
    BY <1>0
  <2> QED  BY <1>2, <1>3, <2>1, <2>2, <2>3, <1>6a
<1>8. Replays(X)'
  <2>1. X[0] = worker'
    BY <1>0, <1>1, <1>2, <1>7 DEF Replays
  <2>2. ASSUME NEW i \in 1 .. n + 1
        PROVE  X[i] = IF flight'[i].done THEN worker'
                      ELSE (X[i - 1] \ flight'[i].freed) \cup Encoded(flight'[i])
    <3>1. CASE i = n + 1
      <4>1. i - 1 = n /\ X[i - 1] = W[n]
        BY <1>0, <1>7, <3>1
      <4>2. flight'[i] = step
        BY <1>5, <3>1
      <4> QED  BY <1>4, <1>7, <3>1, <4>1, <4>2 DEF next
    <3>2. CASE i # n + 1
      <4>1. i \in 1 .. n /\ i - 1 \in 0 .. n /\ i \in 0 .. n
        BY <1>0, <3>2
      <4>2. X[i] = W[i] /\ X[i - 1] = W[i - 1] /\ flight'[i] = flight[i]
        BY <1>5, <1>7, <4>1
      <4>3. W[i] = IF flight[i].done THEN worker
                   ELSE (W[i - 1] \ flight[i].freed) \cup Encoded(flight[i])
        BY <1>2, <4>1 DEF Replays
      <4> QED  BY <1>1, <4>2, <4>3
    <3> QED  BY <3>1, <3>2
  <2> QED  BY <1>5, <2>1, <2>2 DEF Replays, Encoded
<1>9. Predicted(X)'
  <2>1. ASSUME NEW i \in 1 .. n + 1, ~ flight'[i].done PROVE Serves(X[i], flight'[i])
    <3>1. CASE i = n + 1
      BY <1>3, <1>5, <1>7, <3>1
    <3>2. CASE i # n + 1
      <4>1. i \in 1 .. n /\ i \in 0 .. n
        BY <1>0, <3>2
      <4>2. X[i] = W[i] /\ flight'[i] = flight[i]
        BY <1>5, <1>7, <4>1
      <4>3. Serves(W[i], flight[i])
        BY <1>2, <2>1, <4>1, <4>2 DEF Predicted
      <4> QED  BY <4>2, <4>3
    <3> QED  BY <3>1, <3>2
  <2>2. Foreseen(X[n + 1], cache', rows')
    BY <1>1, <1>3, <1>7
  <2> QED  BY <1>5, <2>1, <2>2 DEF Predicted, Serves
<1>10. Tracked'
  BY <1>5, <1>7, <1>8, <1>9 DEF Tracked
<1> QED  BY <1>3, <1>5, <1>6, <1>10

LEMMA CommitKeeps == ASSUME EInv, CommitStep PROVE EInv'
<1>0. EncoderTypes /\ QueuesApart /\ RowsPlanned /\ WorkerSound
  BY DEF EInv
<1>1. /\ rows' = <<>> /\ pc' = "idle"
      /\ num_computed' = [r \in Requests |->
           num_computed[r] + Total([row \in {x \in Range(rows) : x.req = r} |-> row.n])]
      /\ UNCHANGED <<shift, req_status, running, waiting, at, token_budget, budget, try, worker, missed>>
  BY DEF CommitStep, config
<1>2. Tracked' /\ CacheSound(cache') /\ flight' \in Seq(PlannedSteps) /\ DonePrefix'
  BY CommitTracks
<1>3. /\ num_computed \in [Requests -> Int] /\ rows \in Seq(PlannedRows) /\ budget \in Nat
  BY <1>0 DEF EncoderTypes
<1>4. num_computed' \in [Requests -> Int]
  <2>1. ASSUME NEW r \in Requests
        PROVE  num_computed[r] + Total([row \in {x \in Range(rows) : x.req = r} |-> row.n]) \in Int
    <3>1. PICK S : S = {x \in Range(rows) : x.req = r}
      OBVIOUS
    <3>2. S \in SUBSET ToSet(rows)
      BY <3>1, RangeIsToSet
    <3>3. S \in SUBSET PlannedRows /\ IsFiniteSet(S)
      BY <1>3, <3>2, RowsFinite, FS_Subset
    <3>4. PICK moved \in Int : moved = Total([row \in S |-> row.n])
      BY <3>3, TokensTotal
    <3> QED  BY <1>3, <3>1, <3>4
  <2> QED  BY <1>1, <2>1
<1>5. EncoderTypes'
  <2>1. rows' \in Seq(PlannedRows) /\ cache' \in Caches
    BY <1>1, <1>2, EmptySeq DEF CacheSound
  <2> QED  BY <1>0, <1>1, <1>2, <1>4, <2>1 DEF EncoderTypes
<1>6. QueuesApart' /\ WorkerSound'
  BY <1>0, <1>1 DEF QueuesApart, WorkerSound
<1>7. RowsPlanned'
  <2>1. ToSet(rows') = {}
    BY <1>1 DEF ToSet
  <2>2. SpentOn(rows') + budget' <= EncoderBudget
    <3>1. SpentOn(rows) + budget <= EncoderBudget /\ SpentOn(rows) \in Nat /\ EncoderBudget \in Nat
      BY <1>0, <1>3, SpentIsSum, LimitsTyped DEF RowsPlanned
    <3>2. SpentOn(rows') = 0 /\ budget' = budget
      BY <1>1, SpentOnNone
    <3> QED  BY <1>3, <3>1, <3>2
  <2> QED  BY <1>1, <2>1, <2>2 DEF RowsPlanned
<1>8. PassInOrder' /\ TryStands'
  BY <1>1 DEF PassInOrder, TryStands
<1> QED  BY <1>2, <1>5, <1>6, <1>7, <1>8 DEF EInv

(* The worker runs the oldest step it has not run.                           *)
LEMMA FirstUndone ==
  ASSUME flight \in Seq(PlannedSteps), DonePrefix, NEW i,
         i = (CHOOSE k \in 1 .. Len(flight) :
                ~ flight[k].done /\ \A j \in 1 .. k - 1 : flight[j].done),
         \E k \in 1 .. Len(flight) : ~ flight[k].done
  PROVE  /\ i \in 1 .. Len(flight) /\ ~ flight[i].done
         /\ \A j \in 1 .. Len(flight) : j < i <=> flight[j].done
<1> DEFINE T == {k \in 1 .. Len(flight) : ~ flight[k].done}
<1>0. Len(flight) \in Nat
  BY LenProperties
<1>1. T \in SUBSET Nat /\ T # {}
  BY <1>0
<1>2. PICK k \in T : \A y \in T : k <= y
  <2> HIDE DEF T
  <2> QED  BY <1>1, LeastNumber
<1>3. \A j \in 1 .. k - 1 : flight[j].done
  <2> SUFFICES ASSUME NEW j \in 1 .. k - 1, ~ flight[j].done PROVE FALSE
    OBVIOUS
  <2>1. j \in T /\ j < k
    BY <1>0, <1>2
  <2> QED  BY <1>0, <1>2, <2>1
<1>4. i \in 1 .. Len(flight) /\ ~ flight[i].done /\ \A j \in 1 .. i - 1 : flight[j].done
  <2>1. \E l \in 1 .. Len(flight) : ~ flight[l].done /\ \A j \in 1 .. l - 1 : flight[j].done
    BY <1>2, <1>3
  <2> QED  BY <2>1
<1>5. ASSUME NEW j \in 1 .. Len(flight) PROVE j < i <=> flight[j].done
  <2>1. j < i => flight[j].done
    BY <1>0, <1>4
  <2>2. ASSUME flight[j].done PROVE j < i
    <3>1. j # i /\ ~ i < j
      BY <1>4, <2>2 DEF DonePrefix
    <3> QED  BY <1>0, <1>4, <3>1
  <2> QED  BY <2>1, <2>2
<1> QED  BY <1>4, <1>5

LEMMA LookedUpWanted ==
  ASSUME NEW row \in PlannedRows
  PROVE  LookedUp(row, 0) \subseteq Wanted(row.req, row.first, row.n)
<1>1. row.first \in Int /\ row.first + 0 = row.first /\ row.req \in Requests
  BY RowFacts
<1>2. ToSet(Features[row.req]) = Range(Features[row.req])
  BY RangeIsToSet
<1> QED  BY <1>1, <1>2 DEF LookedUp, Wanted

LEMMA ExecuteKeeps == ASSUME EInv, Execute PROVE EInv'
<1> DEFINE n == Len(flight)
<1>0. /\ EncoderTypes /\ QueuesApart /\ CacheSound(cache) /\ RowsPlanned
      /\ DonePrefix /\ WorkerSound /\ Tracked
      /\ flight \in Seq(PlannedSteps) /\ n \in Nat
  BY LenProperties DEF EInv, EncoderTypes
<1>1. PICK i : i = (CHOOSE k \in 1 .. Len(flight) :
                      ~ flight[k].done /\ \A j \in 1 .. k - 1 : flight[j].done)
  OBVIOUS
<1>2. /\ pc = "idle" /\ worker' = AfterEncoding(flight[i])
      /\ missed' = missed
           \cup (IF Misses(flight[i], 0, AfterEncoding(flight[i])) THEN {"target"} ELSE {})
           \cup (IF shift = 1 /\ Misses(flight[i], 1, AfterEncoding(flight[i]))
                 THEN {"drafter"} ELSE {})
      /\ flight' = [flight EXCEPT ![i].done = TRUE]
      /\ \E k \in 1 .. Len(flight) : ~ flight[k].done
      /\ UNCHANGED <<shift, req_status, num_computed, running, waiting, cache, pc, at, token_budget, budget,
                     rows, try>>
  BY <1>1 DEF Execute, config, queues, locals
<1>3. /\ i \in 1 .. n /\ ~ flight[i].done
      /\ \A j \in 1 .. n : j < i <=> flight[j].done
  <2>1. \E k \in 1 .. Len(flight) : ~ flight[k].done
    BY <1>2
  <2> QED  BY <1>0, <1>1, <2>1, FirstUndone
<1>4. PICK step \in PlannedSteps : step = flight[i]
  BY <1>0, <1>3, ElementFacts
<1>5. PICK W \in [0 .. n -> SUBSET Hashes] : Replays(W) /\ Predicted(W)
  BY <1>0 DEF Tracked
<1>6. worker' = W[i] /\ W[i] \in SUBSET Hashes
  <2>1. W[i - 1] = worker
    <3>1. CASE i = 1
      BY <1>5, <3>1 DEF Replays
    <3>2. CASE i # 1
      <4>1. i - 1 \in 1 .. n /\ i - 1 < i
        BY <1>0, <1>3, <3>2
      <4>2. flight[i - 1].done
        BY <1>3, <4>1
      <4> QED  BY <1>5, <4>1, <4>2 DEF Replays
    <3> QED  BY <3>1, <3>2
  <2>2. W[i] = (W[i - 1] \ flight[i].freed) \cup Encoded(flight[i])
    BY <1>3, <1>5 DEF Replays
  <2>3. i \in 0 .. n
    BY <1>0, <1>3
  <2> QED  BY <1>2, <1>5, <2>1, <2>2, <2>3 DEF AfterEncoding
<1>7. Serves(W[i], step)
  BY <1>3, <1>4, <1>5 DEF Predicted
<1>8. WorkerSound'
  <2>1. Size(worker') <= CacheSize
    BY <1>6, <1>7 DEF Serves
  <2>2. ASSUME Fcfs PROVE "target" \notin missed'
    <3>1. ~ Misses(step, 0, worker')
      <4> SUFFICES ASSUME NEW row \in ToSet(step.rows) PROVE LookedUp(row, 0) \subseteq worker'
        BY RangeIsToSet DEF Misses
      <4>1. row \in PlannedRows
        BY StepFacts, RowsFinite
      <4>2. Wanted(row.req, row.first, row.n) \subseteq worker'
        BY <1>6, <1>7, <2>2 DEF Serves
      <4> QED  BY <4>1, <4>2, LookedUpWanted
    <3>2. "target" \notin missed
      BY <1>0, <2>2 DEF WorkerSound
    <3> QED  BY <1>2, <1>4, <3>1, <3>2
  <2> QED  BY <2>1, <2>2 DEF WorkerSound
<1>9. /\ flight' \in Seq(PlannedSteps) /\ Len(flight') = n /\ flight'[i].done
      /\ \A j \in 1 .. n : /\ flight'[j].freed = flight[j].freed /\ flight'[j].rows = flight[j].rows
                           /\ j # i => flight'[j] = flight[j]
  <2>1. PICK new : new = [step EXCEPT !.done = TRUE]
    OBVIOUS
  <2>2. new \in PlannedSteps /\ new.done /\ new.freed = step.freed /\ new.rows = step.rows
    BY <2>1 DEF PlannedSteps
  <2>3. flight' = [flight EXCEPT ![i] = new]
    BY <1>2, <1>4, <2>1
  <2>4. DOMAIN flight = 1 .. n
    BY <1>0
  <2>5. /\ flight' \in Seq(PlannedSteps) /\ Len(flight') = n /\ flight'[i] = new
        /\ \A j \in 1 .. n : j # i => flight'[j] = flight[j]
    BY <1>0, <1>3, <2>2, <2>3, <2>4
  <2>6. ASSUME NEW j \in 1 .. n
        PROVE  flight'[j].freed = flight[j].freed /\ flight'[j].rows = flight[j].rows
    BY <1>4, <2>2, <2>5
  <2> QED  BY <2>2, <2>5, <2>6
<1>10. \A j \in 1 .. n : (j <= i) <=> flight'[j].done
  <2>1. ASSUME NEW j \in 1 .. n PROVE (j <= i) <=> flight'[j].done
    <3>1. CASE j = i
      BY <1>0, <1>3, <1>9, <3>1
    <3>2. CASE j # i
      <4>1. flight'[j] = flight[j] /\ ((j < i) <=> flight[j].done)
        BY <1>3, <1>9, <3>2
      <4>2. (j <= i) <=> (j < i)
        BY <1>0, <1>3, <3>2
      <4> QED  BY <4>1, <4>2
    <3> QED  BY <3>1, <3>2
  <2> QED  BY <2>1
<1>11. DonePrefix'
  <2> SUFFICES ASSUME NEW j \in 1 .. n, NEW k \in 1 .. n, j < k, flight'[k].done
               PROVE  flight'[j].done
    BY <1>9 DEF DonePrefix
  <2>1. k <= i
    BY <1>10
  <2>2. j <= i
    BY <1>0, <1>3, <2>1
  <2> QED  BY <1>10, <2>2
<1>12. \A j \in 1 .. n : Encoded(flight'[j]) = Encoded(flight[j])
  BY <1>9 DEF Encoded
<1>13. PICK X : X = [j \in 0 .. n |-> IF j <= i THEN W[i] ELSE W[j]]
  OBVIOUS
<1>14. X \in [0 .. n -> SUBSET Hashes]
  BY <1>5, <1>6, <1>13
<1>15. Replays(X)'
  <2>1. X[0] = worker'
    BY <1>0, <1>3, <1>6, <1>13
  <2>2. ASSUME NEW j \in 1 .. n
        PROVE  X[j] = IF flight'[j].done THEN worker'
                      ELSE (X[j - 1] \ flight'[j].freed) \cup Encoded(flight'[j])
    <3>0. j \in 0 .. n /\ j - 1 \in 0 .. n
      BY <1>0
    <3>1. CASE j <= i
      BY <1>6, <1>10, <1>13, <3>0, <3>1
    <3>2. CASE ~ j <= i
      <4>1. ~ flight'[j].done /\ ~ flight[j].done
        BY <1>0, <1>3, <1>10, <3>2
      <4>2. X[j] = W[j]
        BY <1>13, <3>0, <3>2
      <4>3. W[j] = (W[j - 1] \ flight[j].freed) \cup Encoded(flight[j])
        BY <1>5, <4>1 DEF Replays
      <4>4. X[j - 1] = W[j - 1]
        <5>1. CASE j - 1 <= i
          <6>1. j - 1 = i
            BY <1>0, <1>3, <3>2, <5>1
          <6> QED  BY <1>13, <3>0, <5>1, <6>1
        <5>2. CASE ~ j - 1 <= i
          BY <1>13, <3>0, <5>2
        <5> QED  BY <5>1, <5>2
      <4>5. flight'[j].freed = flight[j].freed /\ Encoded(flight'[j]) = Encoded(flight[j])
        BY <1>9, <1>12
      <4> QED  BY <4>1, <4>2, <4>3, <4>4, <4>5
    <3> QED  BY <3>1, <3>2
  <2> QED  BY <1>9, <2>1, <2>2 DEF Replays, Encoded
<1>16. Predicted(X)'
  <2>1. ASSUME NEW j \in 1 .. n, ~ flight'[j].done PROVE Serves(X[j], flight'[j])
    <3>1. ~ j <= i /\ j # i /\ j \in 0 .. n
      BY <1>0, <1>3, <1>10, <2>1
    <3>2. flight'[j] = flight[j] /\ X[j] = W[j]
      BY <1>9, <1>13, <3>1
    <3>3. Serves(W[j], flight[j])
      BY <1>5, <2>1, <3>2 DEF Predicted
    <3> QED  BY <3>2, <3>3
  <2>2. X[n] = W[n]
    <3>1. n \in 0 .. n
      BY <1>0
    <3>2. CASE n <= i
      <4>1. n = i
        BY <1>0, <1>3, <3>2
      <4> QED  BY <1>13, <3>1, <4>1
    <3>3. CASE ~ n <= i
      BY <1>13, <3>1, <3>3
    <3> QED  BY <3>2, <3>3
  <2>3. Foreseen(X[n], cache', rows')
    BY <1>2, <1>5, <2>2 DEF Predicted
  <2> QED  BY <1>9, <2>1, <2>3 DEF Predicted, Serves
<1>17. Tracked'
  BY <1>9, <1>14, <1>15, <1>16 DEF Tracked
<1>18. EncoderTypes'
  BY <1>0, <1>2, <1>6, <1>9 DEF EncoderTypes
<1>19. QueuesApart' /\ CacheSound(cache') /\ RowsPlanned'
  BY <1>0, <1>2 DEF QueuesApart, RowsPlanned
<1>20. PassInOrder' /\ TryStands'
  BY <1>2 DEF PassInOrder, TryStands
<1> QED  BY <1>8, <1>11, <1>17, <1>18, <1>19, <1>20 DEF EInv

LEMMA UpdateKeeps == ASSUME EInv, UpdateFromOutput PROVE EInv'
<1> DEFINE n == Len(flight)
           step == Head(flight)
<1>0. /\ EncoderTypes /\ CacheSound(cache) /\ DonePrefix /\ Tracked
      /\ flight \in Seq(PlannedSteps) /\ n \in Nat
  BY LenProperties DEF EInv, EncoderTypes
<1>1. /\ pc = "idle" /\ flight # <<>> /\ step.done
      /\ cache' = FoldLeft(AfterRow, cache, step.rows) /\ Gone(Ended(step))
      /\ flight' = Tail(flight)
      /\ UNCHANGED <<shift, pc, at, token_budget, budget, rows, try, worker, missed>>
  BY DEF UpdateFromOutput, config, locals
<1>2. /\ step = flight[1] /\ n \in Nat \ {0}
      /\ flight' \in Seq(PlannedSteps) /\ Len(flight') = n - 1
      /\ \A j \in 1 .. n - 1 : flight'[j] = flight[j + 1]
  BY <1>0, <1>1
<1>3. step.rows \in Seq(PlannedRows)
  <2>1. step \in PlannedSteps
    BY <1>0, <1>1
  <2> QED  BY <2>1, StepFacts
<1> HIDE DEF step
<1>4. CacheSound(cache') /\ Cached(cache') = Cached(cache) /\ cache'.freed = cache.freed
  BY <1>0, <1>1, <1>3, AfterRowsSpare
<1>5. EncoderTypes' /\ QueuesApart' /\ RowsPlanned' /\ PassInOrder' /\ TryStands' /\ WorkerSound'
  <2>1. PICK S : S = Ended(step)
    OBVIOUS
  <2>2. Gone(S)
    BY <1>1, <2>1
  <2> QED  BY <1>1, <1>2, <1>4, <2>2, GoneKeeps
<1>6. DonePrefix'
  <2> SUFFICES ASSUME NEW i \in 1 .. n - 1, NEW j \in 1 .. n - 1, i < j, flight'[j].done
               PROVE  flight'[i].done
    BY <1>2 DEF DonePrefix
  <2>1. i + 1 \in 1 .. n /\ j + 1 \in 1 .. n /\ i + 1 < j + 1
    BY <1>0
  <2> QED  BY <1>0, <1>2, <2>1 DEF DonePrefix
<1>7. PICK W \in [0 .. n -> SUBSET Hashes] : Replays(W) /\ Predicted(W)
  BY <1>0 DEF Tracked
<1>8. PICK X : X = [j \in 0 .. n - 1 |-> W[j + 1]]
  OBVIOUS
<1>9. X \in [0 .. n - 1 -> SUBSET Hashes]
  <2>1. \A j \in 0 .. n - 1 : j + 1 \in 0 .. n
    BY <1>2
  <2> QED  BY <1>7, <1>8, <2>1
<1>10. Replays(X)'
  <2>1. X[0] = worker'
    <3>1. 1 \in 1 .. n /\ 0 \in 0 .. n - 1 /\ 0 + 1 = 1
      BY <1>2
    <3>2. W[1] = worker
      BY <1>1, <1>2, <1>7, <3>1 DEF Replays
    <3> QED  BY <1>1, <1>8, <3>1, <3>2
  <2>2. ASSUME NEW j \in 1 .. n - 1
        PROVE  X[j] = IF flight'[j].done THEN worker'
                      ELSE (X[j - 1] \ flight'[j].freed) \cup Encoded(flight'[j])
    <3>1. /\ j + 1 \in 1 .. n /\ j \in 0 .. n - 1 /\ j - 1 \in 0 .. n - 1
          /\ (j - 1) + 1 = j /\ (j + 1) - 1 = j
      BY <1>2
    <3>2. X[j] = W[j + 1] /\ X[j - 1] = W[j] /\ flight'[j] = flight[j + 1] /\ worker' = worker
      BY <1>1, <1>2, <1>8, <3>1
    <3>3. W[j + 1] = IF flight[j + 1].done THEN worker
                     ELSE (W[(j + 1) - 1] \ flight[j + 1].freed) \cup Encoded(flight[j + 1])
      BY <1>7, <3>1 DEF Replays
    <3> QED  BY <3>1, <3>2, <3>3
  <2> QED  BY <1>2, <2>1, <2>2 DEF Replays, Encoded
<1>11. Predicted(X)'
  <2>1. ASSUME NEW j \in 1 .. n - 1, ~ flight'[j].done PROVE Serves(X[j], flight'[j])
    <3>1. j + 1 \in 1 .. n /\ j \in 0 .. n - 1
      BY <1>2
    <3>2. X[j] = W[j + 1] /\ flight'[j] = flight[j + 1]
      BY <1>2, <1>8, <3>1
    <3>3. Serves(W[j + 1], flight[j + 1])
      BY <1>7, <2>1, <3>1, <3>2 DEF Predicted
    <3> QED  BY <3>2, <3>3
  <2>2. X[n - 1] = W[n]
    <3>1. n - 1 \in 0 .. n - 1 /\ (n - 1) + 1 = n
      BY <1>2
    <3> QED  BY <1>8, <3>1
  <2>3. Foreseen(X[n - 1], cache', rows')
    <3>1. Foreseen(W[n], cache, rows)
      BY <1>7 DEF Predicted
    <3> QED  BY <1>1, <1>4, <2>2, <3>1 DEF Foreseen
  <2> QED  BY <1>2, <2>1, <2>3 DEF Predicted, Serves
<1>12. Tracked'
  BY <1>2, <1>9, <1>10, <1>11 DEF Tracked
<1> QED  BY <1>4, <1>5, <1>6, <1>12 DEF EInv

LEMMA EncoderInitKeeps == ASSUME EncoderInit PROVE EInv
<1> USE DEF EncoderInit
<1>1. Cached(cache) = {} /\ cache.freeable = <<>> /\ cache.freed = {} /\ cache \in Caches
  <2>1. [h \in {} |-> {}] \in UNION {[H -> SUBSET Requests] : H \in SUBSET Hashes}
    <3>1. [h \in {} |-> {}] \in [{} -> SUBSET Requests] /\ {} \in SUBSET Hashes
      OBVIOUS
    <3> QED  BY <3>1
  <2>2. <<>> \in Seq(Hashes)
    BY EmptySeq
  <2> QED  BY <2>1, <2>2 DEF EmptyCache, Caches, Cached
<1>2. EncoderTypes
  <2>1. <<>> \in Seq(Requests) /\ <<>> \in Seq(PlannedRows) /\ <<>> \in Seq(PlannedSteps)
    BY EmptySeq
  <2>2. shift \in {0, 1}
    BY EncoderAssumption
  <2>3. req_status \in [Requests -> Statuses] /\ num_computed \in [Requests -> Int]
    BY DEF Statuses
  <2> QED  BY <1>1, <2>1, <2>2, <2>3 DEF EncoderTypes
<1>3. ToSet(<<>>) = {}
  BY DEF ToSet
<1>4. QueuesApart
  BY <1>3 DEF QueuesApart, IsInjective
<1>5. 0 \in Nat /\ CacheSize \in Nat /\ EncoderBudget \in Nat
  BY EncoderAssumption
<1>6. CacheSound(cache) /\ WorkerSound
  BY <1>1, <1>3, <1>5, SizeOfNone DEF CacheSound, FreeableUnused, WorkerSound
<1>7. RowsPlanned /\ PassInOrder /\ TryStands
  BY <1>3, <1>5, SpentOnNone DEF RowsPlanned, PassInOrder, TryStands
<1>8. DonePrefix
  BY DEF DonePrefix
<1>9. Tracked
  <2>1. PICK W : W = [i \in 0 .. 0 |-> {}]
    OBVIOUS
  <2>2. Len(flight) = 0 /\ 1 .. Len(flight) = {} /\ 0 .. Len(flight) = 0 .. 0
    OBVIOUS
  <2>3. W \in [0 .. Len(flight) -> SUBSET Hashes] /\ W[0] = {}
    BY <2>1, <2>2
  <2>4. Replays(W)
    BY <2>2, <2>3 DEF Replays
  <2>5. Predicted(W)
    BY <1>1, <2>2, <2>3 DEF Predicted, Foreseen
  <2> QED  BY <2>3, <2>4, <2>5 DEF Tracked
<1> QED  BY <1>2, <1>4, <1>6, <1>7, <1>8, <1>9 DEF EInv

LEMMA EncoderStutters == ASSUME EInv, UNCHANGED encoderVars PROVE EInv'
<1>0. UNCHANGED <<shift, whole, req_status, num_computed, running, waiting, held, cache, pc, at, token_budget,
                  budget, rows, try, preempted, flight, worker, missed>>
  BY DEF encoderVars, config, queues, locals
<1>1. EncoderTypes' /\ QueuesApart' /\ CacheSound(cache)' /\ DonePrefix' /\ WorkerSound'
  BY <1>0 DEF EInv, EncoderTypes, QueuesApart, DonePrefix, WorkerSound
<1>2. RowsPlanned' /\ PassInOrder' /\ TryStands'
  BY <1>0 DEF EInv, RowsPlanned, PassInOrder, TryStands
<1>3. Tracked'
  BY <1>0, WorkerKept DEF EInv
<1> QED  BY <1>1, <1>2, <1>3 DEF EInv

LEMMA EncoderStepKeeps == ASSUME EInv, EncoderNext PROVE EInv'
<1>1. CASE StartStep
  BY <1>1, StartKeeps
<1>2. CASE ConsiderRunning
  BY <1>2, ConsiderKeeps
<1>3. CASE ScheduleRunning
  BY <1>3, ScheduleKeeps
<1>4. CASE PreemptVictim
  BY <1>4, PreemptKeeps
<1>5. CASE EndRunning \/ EndWaiting
  BY <1>5, EndKeeps
<1>6. CASE \E hit \in Hits : Admit(hit)
  BY <1>6, AdmitKeeps
<1>7. CASE \E hit \in Hits : Refuse(hit)
  BY <1>7, RefuseKeeps
<1>8. CASE CommitStep
  BY <1>8, CommitKeeps
<1>9. CASE Execute
  BY <1>9, ExecuteKeeps
<1>10. CASE UpdateFromOutput
  BY <1>10, UpdateKeeps
<1>11. CASE \E r \in Requests : AddRequest(r)
  BY <1>11, AddKeeps
<1>12. CASE \E r \in Requests : Abort(r)
  BY <1>12, AbortKeeps
<1> QED  BY <1>1, <1>2, <1>3, <1>4, <1>5, <1>6, <1>7, <1>8, <1>9, <1>10, <1>11, <1>12
         DEF EncoderNext, Engine

(* The invariant holds of every behaviour: in particular the worker's cache, *)
(* with the planned steps replayed on it, always is the one that the         *)
(* scheduler has in mind (but for outputs that a preempted row was to add).  *)
THEOREM CachesAlwaysAgree == EncoderSpec => []EInv
<1>1. EncoderInit => EInv
  BY EncoderInitKeeps
<1>2. EInv /\ [EncoderNext]_encoderVars => EInv'
  BY EncoderStepKeeps, EncoderStutters
<1> QED  BY <1>1, <1>2, PTL DEF EncoderSpec

(* Whatever is cached, evicted, released, preempted or aborted, the worker   *)
(* never holds more embeddings than encoder_cache_size, although it only is  *)
(* told hashes to encode and hashes to drop, and no step computes more than  *)
(* its encoder budget, under either policy.                                  *)
THEOREM EncoderLimitsAlwaysKept == EncoderSpec => []EncoderLimitsKept
<1>1. EInv => EncoderLimitsKept
  <2> SUFFICES ASSUME EInv PROVE EncoderLimitsKept
    OBVIOUS
  <2>1. WorkerWithinCacheSize
    BY DEF EInv, WorkerSound, WorkerWithinCacheSize
  <2>2. rows \in Seq(PlannedRows) /\ budget \in Nat /\ SpentOn(rows) + budget <= EncoderBudget
    BY DEF EInv, EncoderTypes, RowsPlanned
  <2>3. SpentOn(rows) \in Nat /\ EncoderBudget \in Nat
    BY <2>2, SpentIsSum, LimitsTyped
  <2>4. SpentOn(rows) <= EncoderBudget
    BY <2>2, <2>3
  <2>5. EncoderBudgetKept
    BY <2>4 DEF SpentOn, EncoderBudgetKept
  <2> QED  BY <2>1, <2>5 DEF EncoderLimitsKept
<1> QED  BY <1>1, CachesAlwaysAgree, PTL

(* Under the "fcfs" policy every encoder output that the target looks up is  *)
(* in the worker's cache when its step runs ("Encoder cache miss" is never   *)
(* raised), for any requests, items, sizes and number of steps in flight.    *)
THEOREM TargetAlwaysFindsItsOutputs ==
  ASSUME Policy = "fcfs"
  PROVE  EncoderSpec => []TargetFindsItsOutputs
<1>1. EInv => TargetFindsItsOutputs
  BY DEF EInv, WorkerSound, Fcfs, TargetFindsItsOutputs
<1> QED  BY <1>1, CachesAlwaysAgree, PTL
=============================================================================
