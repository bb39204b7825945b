------------------------------ MODULE DSparkRing ------------------------------
(***************************************************************************)
(* The draft model's sliding-window KV (main_kv_cache), the slot map that  *)
(* addresses it and the persistent batch that feeds it.  A step of the     *)
(* model is an engine step as the worker sees it:                          *)
(*                                                                         *)
(*   _update_states makes the scheduled requests the rows of the batch; a  *)
(*   request that is not scheduled leaves the batch;                       *)
(*   the target forward computes the rows' tokens and rejects a suffix of  *)
(*   each row's drafts;                                                    *)
(*   DSparkProposer.propose maps rows to slots, segments the hidden states *)
(*   by request, stores them into the rings and drafts (StepDrafted),      *)
(*   unless the batch does not fit the drafter (StepSkipped).              *)
(*                                                                         *)
(* A row of hidden states is the record of what it was computed from: the  *)
(* request, the position, and whether the token at that position was       *)
(* accepted.  That is all the properties tell apart.                       *)
(***************************************************************************)
EXTENDS Naturals, Sequences, FiniteSets, SequencesExt

CONSTANTS
  ReqIds, MaxBatchSize, NoSlot,
  Window,         \* window_size: entries of one ring
  NumSpec,        \* num_speculative_tokens
  Prompts,        \* prompt lengths of the workload
  PrefixHits,     \* lengths a prefix-cache hit may have; 0 is no hit
  MaxModelLen,    \* a request with this many tokens is stopped
  DrafterMaxLen,  \* effective_drafter_max_model_len
  Victims,        \* requests the scheduler may preempt
  Starvable,      \* running requests a step may leave out (token budget,
                  \* or the asynchronous max_tokens guard)
  GpuMask         \* VLLM_DSPARK_GPU_REJECTED_CONTEXT_MASK

(* A step verifies at most NumSpec drafts after one sampled token, and the *)
(* ring is wider than that (128 against 5 in the deployment): with a       *)
(* narrower ring the truncation of a segment to the last Window rows would *)
(* drop accepted rows in favour of masked ones.                            *)
ASSUME RingAssumption ==
  /\ {Window, NumSpec, MaxModelLen, DrafterMaxLen} \subseteq Nat
  /\ Window > NumSpec
  /\ MaxBatchSize \in Nat \ {0} /\ NoSlot \notin Nat
  /\ GpuMask \in BOOLEAN
  /\ Prompts \subseteq 0 .. MaxModelLen
  /\ PrefixHits \subseteq Nat /\ 0 \in PrefixHits

VARIABLES
  slot_of, free_slots, slot_list,
  ring,       \* main_kv_cache: slot -> window index -> stored row
  prefilled,  \* _prefilled
  status,     \* the scheduler's view: waiting, running or finished
  tokens,     \* known tokens: prompt and accepted output
  computed,   \* num_computed_tokens, corrected for rejections
  drafts,     \* the requests that hold draft tokens from their last step
  batch,      \* input_batch.req_ids
  anchor,     \* rows the step just taken drafted from, <<>> if it did not
  raised,     \* the ValueError that ended the engine, if any
  stored      \* ghost: per request, the positions [from, to) its ring holds

slotVars == <<slot_of, free_slots, slot_list>>
reqVars  == <<status, tokens, computed, drafts>>
vars == <<slotVars, ring, prefilled, reqVars, batch, anchor, raised, stored>>

Slot == INSTANCE DSparkSlots WITH
  ReqIds <- ReqIds, MaxBatchSize <- MaxBatchSize, NoSlot <- NoSlot,
  slot_of <- slot_of, free_slots <- free_slots, slot_list <- slot_list

Slots == Slot!Slots
Zero == [req |-> NoSlot, pos |-> 0, ok |-> FALSE]  \* torch.zeros
Bound(x, lo, hi) == IF x < lo THEN lo ELSE IF x > hi THEN hi ELSE x

-----------------------------------------------------------------------------
(* Work w on r computes the last token of its request, so the row samples  *)
(* one.                                                                    *)
Samples(r, w) == w.start + w.len - w.spec = tokens[r]

(* schedule() leaves room for the token the target samples.                *)
WithinModelLen(r, spec) == tokens[r] + spec < MaxModelLen

(* What a step may do for a request: compute len tokens from position      *)
(* start, the last spec of them drafts, rej of which are rejected.  A      *)
(* waiting request starts behind a prefix-cache hit; drafts are scheduled  *)
(* when the tokens before them are.                                        *)
Work(r) ==
  {w \in [start : IF status[r] = "waiting" THEN PrefixHits ELSE {computed[r]},
          len : 1 .. tokens[r] - computed[r] + NumSpec, spec : 0 .. NumSpec, rej : 0 .. NumSpec] :
     /\ status[r] # "finished"
     /\ w.start < tokens[r] /\ w.rej <= w.spec
     /\ w.len - w.spec \in 1 .. tokens[r] - w.start
     /\ w.spec > 0 => r \in drafts /\ Samples(r, w)
     /\ WithinModelLen(r, w.spec)}

(* The rows the target forward produces for a request.                     *)
Segment(r, w) ==
  [o \in 1 .. w.len |->
     [req |-> r, pos |-> w.start + o - 1, ok |-> o <= w.len - w.rej]]

Uniform(segs) == \A i, j \in DOMAIN segs : Len(segs[i]) = Len(segs[j])

(* _trim_rejected_target_context, the path without the GPU mask: rejected  *)
(* suffixes are cut off on the CPU, if there is any.                       *)
Trimmed(segs, rej) ==
  IF \A i \in DOMAIN rej : rej[i] = 0 THEN segs
  ELSE [i \in DOMAIN segs |-> SubSeq(segs[i], 1, Len(segs[i]) - rej[i])]

(* _view_by_request: the flat rows reshaped to [batch, rows / batch].      *)
Rectangle(segs) ==
  LET flat == FlattenSeq(segs)
      width == Len(flat) \div Len(segs)
  IN [i \in DOMAIN segs |-> SubSeq(flat, (i - 1) * width + 1, i * width)]

Mut_Ragged(segs, rej) ==  \* mutant: detection only on steps with a rejection
  GpuMask /\ ~Uniform(segs) /\ \E i \in DOMAIN rej : rej[i] # 0

Ragged(segs, rej) == GpuMask /\ ~Uniform(segs)

(* How prepare_context attributes rows to requests.                        *)
ContextRows(segs, rej) ==
  IF Ragged(segs, rej) THEN segs
  ELSE Rectangle(IF GpuMask THEN segs ELSE Trimmed(segs, rej))

(* The ValueErrors of the context path.                                    *)
ContextError(segs, rej) ==
  LET kept == IF GpuMask THEN segs ELSE Trimmed(segs, rej)
  IN \/ ~GpuMask /\ kept # segs
        /\ (~Uniform(kept) \/ \E i \in DOMAIN kept : kept[i] = <<>>)
     \/ ~Ragged(segs, rej) /\ Len(FlattenSeq(kept)) % Len(kept) # 0

Mut_AnchorIndex(seg, k) == Len(seg)  \* mutant: the last row, rejected or not

(* The row of a segment with k rejected rows that the draft starts from.   *)
AnchorIndex(seg, k) ==
  IF GpuMask THEN Bound(Len(seg) - k, 1, Len(seg)) ELSE Len(seg)

-----------------------------------------------------------------------------
Mut_ValidLen(n, k) == n  \* mutant: the rejected suffix is stored as well

(* How many of n kept rows a store with k rejected rows writes.            *)
ValidLen(n, k) == IF GpuMask THEN Bound(n - k, 1, n) ELSE n

(* store_main_kv for one row: the last Window rows of the segment, without *)
(* the rejected suffix, at index position % Window.                        *)
StoreSegment(old, seg, k) ==
  LET kept  == SubSeq(seg, (IF Len(seg) > Window THEN Len(seg) - Window ELSE 0) + 1,
                      Len(seg))
      valid == 1 .. ValidLen(Len(kept), k)
      at(e) == {o \in valid : kept[o].pos % Window = e}
  IN [e \in 0 .. Window - 1 |->
        IF at(e) = {} THEN old[e]
        ELSE kept[CHOOSE o \in at(e) : \A p \in at(e) : p <= o]]

Mut_IsIdentity(slots) == Len(slots) = 1  \* mutant: gate on batch == 1

(* slot_index is None when the slots are those of the rows.                *)
IsIdentity(slots) == \A i \in DOMAIN slots : slots[i] = i - 1

(* The ring row the store (ragged or not) and the draft of row i address.  *)
StoreRow(i, slots, ragged) ==
  IF ~ragged /\ IsIdentity(slots) THEN i - 1 ELSE slots[i]
DraftRow(i, slots) == IF IsIdentity(slots) THEN i - 1 ELSE slots[i]

Store(rings, rows, rej, slots, ragged) ==
  [s \in Slots |->
     LET writers == {i \in DOMAIN rows : StoreRow(i, slots, ragged) = s}
     IN IF writers = {} THEN rings[s]
        ELSE LET i == CHOOSE j \in writers : TRUE
             IN StoreSegment(rings[s], rows[i], rej[i])]

-----------------------------------------------------------------------------
Init ==
  /\ Slot!Init
  /\ ring = [s \in Slots |-> [e \in 0 .. Window - 1 |-> Zero]]
  /\ prefilled = FALSE
  /\ status = [r \in ReqIds |-> "waiting"]
  /\ tokens \in [ReqIds -> Prompts]
  /\ computed = [r \in ReqIds |-> 0]
  /\ drafts = {}
  /\ batch = <<>>
  /\ anchor = <<>>
  /\ raised = FALSE
  /\ stored = [r \in ReqIds |-> [from |-> 0, to |-> 0]]

Fits(work) == \A i \in DOMAIN work : work[i].start + work[i].len + NumSpec <= DrafterMaxLen

(* The scheduler and the persistent batch after a step with rows b: the    *)
(* accepted drafts and the sampled token extend the request.               *)
Advance(b, work) ==
  LET row(r) == CHOOSE i \in DOMAIN b : b[i] = r
      rows   == Slot!RowIds(b)
  IN /\ computed' = [r \in ReqIds |->
         IF r \in rows THEN work[row(r)].start + work[row(r)].len - work[row(r)].rej
         ELSE computed[r]]
     /\ tokens' = [r \in ReqIds |->
         IF r \in rows /\ Samples(r, work[row(r)])
         THEN tokens[r] + work[row(r)].spec - work[row(r)].rej + 1 ELSE tokens[r]]
     /\ drafts' = (drafts \ rows) \cup {r \in rows : Samples(r, work[row(r)])}
     /\ status' = [r \in ReqIds |-> IF r \in rows THEN "running" ELSE status[r]]
     /\ batch' = b

(* Ghost: the interval of positions a request's ring holds after a store   *)
(* through the slots of slot_of'; none without a slot.                     *)
StoredAfter(b, work) ==
  [r \in ReqIds |->
     IF r \notin Slot!RowIds(b) THEN [from |-> 0, to |-> 0]
     ELSE LET w == work[CHOOSE i \in DOMAIN b : b[i] = r]
          IN [from |-> IF slot_of[r] = slot_of'[r] /\ stored[r].to = w.start
                       THEN stored[r].from ELSE w.start,
              to |-> w.start + w.len - w.rej]]

(* DSparkProposer.propose.  The first call of the engine stores the        *)
(* context but drafts noise tokens without reading it; a ValueError ends   *)
(* the engine.                                                             *)
Propose(b, work) ==
  LET segs == [i \in DOMAIN b |-> Segment(b[i], work[i])]
      rej  == [i \in DOMAIN b |-> work[i].rej]
      rows == ContextRows(segs, rej)
  IN /\ Slot!RowToSlot(b)
     /\ stored' = StoredAfter(b, work)
     /\ raised' = ContextError(segs, rej)
     /\ IF raised'
        THEN UNCHANGED <<ring, prefilled, anchor>>
        ELSE /\ ring' = Store(ring, rows, rej, slot_list', Ragged(segs, rej))
             /\ anchor' = IF prefilled
                          THEN [i \in DOMAIN b |-> rows[i][AnchorIndex(rows[i], rej[i])]]
                          ELSE <<>>
             /\ prefilled' = TRUE

(* The batches a step can have: every running request is in it, unless the *)
(* scheduler may leave it out.                                             *)
StepBatches ==
  {b \in Slot!Batches :
     {r \in ReqIds \ Starvable : status[r] = "running"} \subseteq Slot!RowIds(b)}

(* The plans of a step with rows b: one piece of work per row.             *)
Plans(b) ==
  LET work == UNION {{i} \X Work(b[i]) : i \in DOMAIN b}
  IN  {p \in [DOMAIN b -> {w[2] : w \in work}] : \A i \in DOMAIN b : <<i, p[i]>> \in work}

(* A step whose batch fits the drafter.                                    *)
StepDrafted ==
  /\ ~raised
  /\ \E b \in StepBatches : \E work \in Plans(b) :
       Fits(work) /\ Propose(b, work) /\ Advance(b, work)

(* max_seq_len + num_spec_tokens exceeds the drafter's length because of   *)
(* one row: the proposer is called for no row, and zeros are the drafts.   *)
StepSkipped ==
  /\ ~raised
  /\ \E b \in StepBatches : \E work \in Plans(b) : ~Fits(work) /\ Advance(b, work)
  /\ anchor' = <<>>
  /\ UNCHANGED <<slotVars, ring, prefilled, raised, stored>>

(* Preemption: back to the waiting queue with no computed token.           *)
Preempt(r) ==
  /\ r \in Victims /\ status[r] = "running" /\ ~raised
  /\ status' = [status EXCEPT ![r] = "waiting"]
  /\ computed' = [computed EXCEPT ![r] = 0]
  /\ drafts' = drafts \ {r}
  /\ anchor' = <<>>
  /\ UNCHANGED <<slotVars, ring, prefilled, tokens, batch, raised, stored>>

(* The counters of a request that has finished are forgotten.              *)
Finish(r) ==
  /\ status[r] = "running" /\ tokens[r] > computed[r] /\ ~raised
  /\ status' = [status EXCEPT ![r] = "finished"]
  /\ tokens' = [tokens EXCEPT ![r] = 0] /\ computed' = [computed EXCEPT ![r] = 0]
  /\ drafts' = drafts \ {r}
  /\ anchor' = <<>>
  /\ UNCHANGED <<slotVars, ring, prefilled, batch, raised, stored>>

Next ==
  \/ StepDrafted
  \/ StepSkipped
  \/ \E r \in ReqIds : Preempt(r) \/ Finish(r)

Spec == Init /\ [][Next]_vars

-----------------------------------------------------------------------------
RowType == [req : ReqIds \cup {NoSlot}, pos : Nat, ok : BOOLEAN]

(* The type invariant.                                                     *)
TypeOK ==
  /\ Slot!TypeOK
  /\ ring \in [Slots -> [0 .. Window - 1 -> RowType]]
  /\ prefilled \in BOOLEAN /\ raised \in BOOLEAN
  /\ status \in [ReqIds -> {"waiting", "running", "finished"}]
  /\ tokens \in [ReqIds -> 0 .. MaxModelLen]
  /\ computed \in [ReqIds -> 0 .. MaxModelLen]
  /\ drafts \subseteq ReqIds
  /\ batch = <<>> \/ batch \in Slot!Batches
  /\ anchor \in Seq(RowType)

(* The context path never raises: with the GPU mask every mix of prefill   *)
(* chunks and decodes is segmented, whether or not a draft was rejected    *)
(* (prepare_context; this is what Patch 2b repaired), and what it leaves    *)
(* behind is well formed.                                                  *)
NeverRaises == TypeOK /\ ~raised

Expected(r, p) == [req |-> r, pos |-> p, ok |-> TRUE]
Low(r, hi) == IF hi > Window THEN hi - Window ELSE 0

(* The ring of a request holds, at position % Window, the accepted rows of *)
(* the last Window positions stored since its last gap: no rejected row    *)
(* survives in it, no other request wrote to it, whatever rows the request *)
(* was moved to and whichever store path (ragged, rectangular, in place)   *)
(* each step took.                                                         *)
RingHoldsStoredSuffix ==
  \A r \in ReqIds : slot_of[r] # NoSlot =>
    \A p \in stored[r].from .. stored[r].to - 1 :
      p >= Low(r, stored[r].to) => ring[slot_of[r]][p % Window] = Expected(r, p)

(* The draft of a row starts from the last accepted row of that row's own  *)
(* request, however many of its drafts were rejected.                      *)
AnchorIsLastAccepted ==
  \A i \in DOMAIN anchor : anchor[i] = Expected(batch[i], computed[batch[i]] - 1)

(* The entries the draft of row i attends to: valid_main_lengths of them.  *)
ReadIndexes(i) == 0 .. (IF anchor[i].pos + 1 < Window THEN anchor[i].pos ELSE Window - 1)

ReadsExactly(i) ==
  LET r == batch[i]  last == anchor[i].pos
  IN \A e \in ReadIndexes(i) :
       \E p \in Low(r, last + 1) .. last :
         p % Window = e /\ ring[DraftRow(i, slot_list)][e] = Expected(r, p)

(* A draft whose request has no gap within the window reads exactly the    *)
(* request's own last Window accepted positions.                           *)
DraftReadsContiguousContext ==
  \A i \in DOMAIN anchor :
    stored[batch[i]].from <= Low(batch[i], stored[batch[i]].to) => ReadsExactly(i)

=============================================================================
