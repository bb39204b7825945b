----------------------------- MODULE CudaGraphs -----------------------------
(* Engine steps that replay CUDA graphs. A graph reads the runner's          *)
(* persistent buffers at the size it was captured with, so every step pads   *)
(* its batch to a captured size, and what an earlier step, a dummy run or a  *)
(* finished request left in the buffers must not reach the KV cache or the   *)
(* attention of a live request. capture_model() captures the graphs of the   *)
(* target and, through the drafter's dummy run, those of DSpark; once it has *)
(* returned, a graph that is not there is an error.                          *)
(*                                                                           *)
(* External, modelled from their use: CudagraphDispatcher, CUDAGraphWrapper, *)
(* BlockTable, the KV cache manager and the other data-parallel rank.        *)
EXTENDS Integers, Sequences, SequencesExt, FiniteSets, FiniteSetsExt, Functions

CONSTANTS
  Requests,     \* requests that may ever run
  Prompt,       \* prompt tokens of each of them
  MaxLen,       \* max_model_len
  DraftMaxLen,  \* effective_drafter_max_model_len
  MaxReqs,      \* max_num_seqs
  MaxTokens,    \* max_num_batched_tokens
  MaxChunk,     \* bound: most prompt tokens of one request in a step
  Q,            \* uniform_decode_query_len: 1 + num_speculative_tokens
  Sizes,        \* cudagraph_capture_sizes
  BlockSize,
  NumBlocks,    \* blocks of the KV cache; block 0 is the null block
  Modes,        \* cudagraph_mode: the instances checked
  SeparateUpdates,  \* has_separate_kv_update: the instances checked
  Cascades,     \* whether a step may use cascade attention
  Peers,        \* what the other data-parallel rank may announce
  DraftPeers    \* and what its drafter may

ASSUME GraphAssumption ==
  /\ Sizes # {} /\ \A s \in Sizes : s \in 1 .. MaxTokens /\ s % Q = 0
  /\ Modes \subseteq {"NONE", "PIECEWISE", "FULL", "FULL_DECODE_ONLY",
                      "FULL_AND_PIECEWISE"}

VARIABLES
  mode,      \* compilation_config.cudagraph_mode after its resolution
  separate,  \* has_separate_kv_update
  phase,     \* "capturing", "serving", or "failed": an error was raised
  todo,      \* descriptors that capture_model has still to capture
  graphs,    \* captured graphs of the target
  drafts,    \* captured graphs of the drafter
  held,      \* [Requests -> Seq(block)]
  computed,  \* [Requests -> Nat]
  ended,     \* requests that have finished
  rows,      \* CPU block table: the blocks of the rows of the last batch
  qsl,       \* GPU query_start_loc
  seqLens,   \* GPU seq_lens
  table,     \* GPU block table
  slotMap,   \* GPU slot mapping
  draftRows, \* the drafter's buffers, by the request whose anchor a row holds
  kv,        \* KV cache: [slot -> <<request, position>>, or Nothing]
  step       \* ghost: what the last forward pass was given

buffers == <<qsl, seqLens, table, slotMap, draftRows>>
config == <<mode, separate>>
vars == <<config, phase, todo, graphs, drafts, held, computed, ended, rows,
          buffers, kv, step>>

Nothing == <<>>
RowIndex == 0 .. MaxReqs - 1
TokenIndex == 0 .. MaxTokens - 1
Slots == 0 .. NumBlocks * BlockSize - 1
CeilDiv(a, b) == (a + b - 1) \div b
PerRequest == CeilDiv(MaxLen, BlockSize)
Least(a, b) == IF a < b THEN a ELSE b
NullRow == [i \in 0 .. PerRequest - 1 |-> 0]
RowOf(blocks) == [i \in 0 .. PerRequest - 1 |->
                    IF i < Len(blocks) THEN blocks[i + 1] ELSE 0]
SlotOf(row, p) == row[p \div BlockSize] * BlockSize + (p % BlockSize)

-----------------------------------------------------------------------------
(* Dispatch                                                                  *)

MixedMode(m) == CASE m = "FULL" -> "FULL"
                  [] m \in {"PIECEWISE", "FULL_AND_PIECEWISE"} -> "PIECEWISE"
                  [] OTHER -> "NONE"
SeparateRoutine(m) == m \in {"FULL_AND_PIECEWISE", "FULL_DECODE_ONLY"}

Eager(n) == [mode |-> "NONE", tokens |-> n, reqs |-> 0, uniform |-> FALSE]
Piecewise(n) == [Eager(n) EXCEPT !.mode = "PIECEWISE"]
FullGraph(m, n, uniform) ==
  LET u == uniform /\ SeparateRoutine(m)
  IN  [mode |-> "FULL", tokens |-> n, uniform |-> u,
       reqs |-> Least(IF u THEN n \div Q ELSE n, MaxReqs)]

Keys(m) ==
  (CASE MixedMode(m) = "PIECEWISE" -> {Piecewise(n) : n \in Sizes}
     [] MixedMode(m) = "FULL" -> {FullGraph(m, n, FALSE) : n \in Sizes}
     [] OTHER -> {})
  \cup (IF SeparateRoutine(m)
        THEN {FullGraph(m, n, TRUE) : n \in {s \in Sizes : s \in Q .. Q * MaxReqs}}
        ELSE {})

Runtime == {"NONE", "PIECEWISE", "FULL"}
Padded(n) == Min({s \in Sizes : s >= n})

Dispatch(m, n, uniform, allowed) ==
  IF m = "NONE" \/ n > Max(Sizes) THEN Eager(n)
  ELSE LET full == FullGraph(m, Padded(n), uniform)
           piece == Piecewise(Padded(n))
       IN  IF "FULL" \in allowed /\ full \in Keys(m) THEN full
           ELSE IF "PIECEWISE" \in allowed /\ piece \in Keys(m) THEN piece
           ELSE Eager(n)

(* get_capture_descs: piecewise graphs first, each kind largest first.       *)
CaptureOrder(m) ==
  LET largest(S) == SetToSortSeq(S, LAMBDA a, b : a.tokens > b.tokens)
  IN  largest({k \in Keys(m) : k.mode = "PIECEWISE"})
      \o largest({k \in Keys(m) : k.mode = "FULL"})

(* Both ranks take the weaker mode; unless that is NONE, the larger size.    *)
NoPeer == [tokens |-> 0, mode |-> "FULL"]
Rank(x) == CASE x = "NONE" -> 0 [] x = "PIECEWISE" -> 1 [] OTHER -> 2
Synced(a, b) == IF Rank(a) < Rank(b) THEN a ELSE b
Agreed(own, peer) ==
  IF Synced(own.mode, peer.mode) = "NONE" \/ peer.tokens < own.tokens
  THEN own.tokens ELSE peer.tokens

(* dispatch, coordinate, and dispatch again at the agreed size.              *)
BatchExecution(n, uniform, disableFull, peer) ==
  LET own == Dispatch(mode, n, uniform,
                      IF disableFull THEN Runtime \ {"FULL"} ELSE Runtime)
  IN  Dispatch(mode, Agreed(own, peer), uniform, {Synced(own.mode, peer.mode)})

IsUniformDecode(tokens, total) ==
  Max(Range(tokens)) = Q /\ total = Q * Len(tokens)

-----------------------------------------------------------------------------
(* The drafter's graphs                                                      *)

\* mutant: keys whenever the target has any graph
Mut_DraftMode(m) == IF m = "NONE" THEN "NONE" ELSE "PIECEWISE"
(* initialize_cudagraph_keys: piecewise keys whenever mixed batches of the   *)
(* target have graphs.                                                       *)
DraftMode(m) == IF MixedMode(m) = "NONE" THEN "NONE" ELSE "PIECEWISE"

(* _determine_graph_batch                                                    *)
DraftGraph(n, useGraphs, peer) ==
  LET own == Dispatch(DraftMode(mode), n, FALSE, IF useGraphs THEN Runtime ELSE {"NONE"})
  IN  Dispatch(DraftMode(mode), Agreed(own, peer), FALSE, {Synced(own.mode, peer.mode)})

(* _prepare_draft_buffers: the batch's anchors, then noise up to the graph's *)
(* size; the rest keeps what it had. The buffers have max_num_seqs rows.     *)
DraftBuffers(anchors, key) ==
  [i \in RowIndex |-> IF i < Len(anchors) THEN anchors[i + 1]
                      ELSE IF i < key.tokens THEN "noise" ELSE draftRows[i]]

-----------------------------------------------------------------------------
(* Buffers of a forward pass                                                 *)

(* Row i starts after the tokens of the rows before it.                      *)
Start(tokens, i) == FoldLeft(LAMBDA a, b : a + b, 0, SubSeq(tokens, 1, i))
Total(tokens) == Start(tokens, Len(tokens))

\* mutant: the tail of query_start_loc keeps what it had
Mut_PaddedStarts(tokens) ==
  [i \in 0 .. MaxReqs |-> IF i <= Len(tokens) THEN Start(tokens, i) ELSE qsl[i]]
(* query_start_loc of a step: the tail repeats the total.                    *)
PaddedStarts(tokens) ==
  [i \in 0 .. MaxReqs |-> Start(tokens, Least(i, Len(tokens)))]
(* Of a dummy run: the tail keeps what it had.                               *)
DummyStarts(tokens) ==
  [i \in 0 .. MaxReqs |-> IF i <= Len(tokens) THEN Start(tokens, i) ELSE qsl[i]]

SeqLens(lens) == [i \in RowIndex |-> IF i < Len(lens) THEN lens[i + 1] ELSE 0]

(* commit_block_table(n): the first n rows, from the CPU; cleared rows are   *)
(* null.                                                                     *)
Committed(cpu, n) ==
  [i \in RowIndex |-> IF i >= n THEN table[i]
                      ELSE RowOf(IF i < Len(cpu) THEN cpu[i + 1] ELSE <<>>)]
NullFilled(tab, first, end) ==
  [i \in RowIndex |-> IF i \in first .. end - 1 THEN NullRow ELSE tab[i]]

(* compute_slot_mapping, then -1 up to the padded number of tokens.          *)
Mapped(tab, first, tokens) ==
  [j \in TokenIndex |->
     IF j >= Total(tokens) THEN slotMap[j]
     ELSE LET i == CHOOSE k \in 1 .. Len(tokens) : j \in Start(tokens, k - 1) .. Start(tokens, k) - 1
          IN  SlotOf(tab[i - 1], first[i] + j - Start(tokens, i - 1))]
\* mutant: the unused entries keep what they had
Mut_SlotMapping(tab, first, tokens, padded) == Mapped(tab, first, tokens)
SlotMapping(tab, first, tokens, padded) ==
  LET mapped == Mapped(tab, first, tokens)
  IN  [j \in TokenIndex |-> IF j \in Total(tokens) .. padded - 1 THEN -1 ELSE mapped[j]]

(* A forward pass writes the keys of its tokens to their slots; a padding    *)
(* token has no key worth keeping.                                           *)
Written(batch, first, tokens, map, written) ==
  LET padding == {map[j] : j \in Total(tokens) .. written - 1}
      real == UNION {{<<map[Start(tokens, i - 1) + k], <<batch[i], first[i] + k>>>> :
                        k \in 0 .. tokens[i] - 1} : i \in 1 .. Len(batch)}
  IN  [s \in Slots |->
         IF s \in padding THEN Nothing
         ELSE LET here == {w \in real : w[1] = s}
              IN  IF here = {} THEN kv[s] ELSE (CHOOSE w \in here : TRUE)[2]]

(* A graph that was not captured is captured now, if capturing is enabled.   *)
Available(key, captured) == key.mode = "NONE" \/ key \in captured \/ phase = "capturing"
Capturing(key, captured) == captured \cup (IF key.mode = "NONE" THEN {} ELSE {key})

-----------------------------------------------------------------------------
(* Dummy runs                                                                *)

DummyTokens(n, uniform) ==
  LET r == Least(IF uniform THEN CeilDiv(n, Q) ELSE n, MaxReqs)
  IN  IF uniform
      THEN [i \in 1 .. r |-> IF i = r /\ n % Q # 0 THEN n % Q ELSE Q]
      ELSE [i \in 1 .. r |-> (n \div r) + (IF i = r THEN n % r ELSE 0)]

(* use_cudagraphs: during capture only the piecewise pass captures drafts.   *)
DraftsUseGraphs(isCapturing, m) ==
  IF isCapturing THEN m = "PIECEWISE" ELSE m # "NONE"

(* _dummy_run(n): `forced` is "NONE" for a warm-up, the mode to capture, or  *)
(* "" where the dispatcher decides. An assertion may fail.                   *)
DummyRun(n, uniform, forced, isCapturing, forceAttention, peer, draftPeer) ==
  LET tokens == DummyTokens(n, uniform)
      key == IF forced = "NONE" THEN Eager(n)
             ELSE BatchExecution(n, uniform, FALSE, peer)
      reqs == IF key.reqs = 0 THEN Len(tokens) ELSE key.reqs
      attention == forceAttention \/ key.mode = "FULL"
      batch == Max({1, Least(n, MaxReqs)})
      draft == DraftGraph(batch, DraftsUseGraphs(isCapturing, key.mode), draftPeer)
      sound == /\ Total(tokens) = n
               /\ forced \in {"", key.mode}
               /\ Available(key, graphs) /\ Available(draft, drafts)
  IN  /\ slotMap' = [j \in TokenIndex |-> IF j < key.tokens THEN -1 ELSE slotMap[j]]
      /\ IF attention
         THEN /\ seqLens' = SeqLens([i \in 1 .. Len(tokens) |-> IF uniform THEN Q ELSE n])
              /\ qsl' = DummyStarts(tokens)
              /\ table' = Committed(rows, reqs)
         ELSE UNCHANGED <<seqLens, qsl, table>>
      /\ draftRows' = DraftBuffers([i \in 1 .. batch |-> "zero"], draft)
      /\ graphs' = Capturing(key, graphs)
      /\ drafts' = Capturing(draft, drafts)
      /\ phase' = IF sound THEN phase ELSE "failed"
      /\ step' = [batch |-> <<>>, first |-> <<>>, tokens |-> tokens, drafted |-> 0,
                  rows |-> IF attention THEN reqs ELSE 0]
      /\ UNCHANGED kv

(* _warmup_and_capture of the next descriptor. The warm-up run before it     *)
(* writes the same buffers and captures nothing.                             *)
Capture ==
  /\ phase = "capturing" /\ todo # <<>>
  /\ LET key == Head(todo)
     IN  DummyRun(key.tokens, key.uniform, key.mode, TRUE, FALSE, NoPeer, NoPeer)
  /\ todo' = Tail(todo)
  /\ UNCHANGED <<config, held, computed, ended, rows>>

(* capture_model returns: capturing is disabled from here on.                *)
EndCapture ==
  /\ phase = "capturing" /\ todo = <<>>
  /\ phase' = "serving"
  /\ UNCHANGED <<config, todo, graphs, drafts, held, computed, ended, rows, buffers,
                 kv, step>>

(* The rank has no work while another one has: execute_dummy_batch asks for  *)
(* a uniform run of one token, execute_model for one of any kind.            *)
DummyBatch(uniform, peer, draftPeer) ==
  /\ phase = "serving" /\ peer # NoPeer
  /\ DummyRun(1, uniform, "", FALSE, FALSE, peer, draftPeer)
  /\ UNCHANGED <<config, todo, held, computed, ended, rows>>

-----------------------------------------------------------------------------
(* Engine steps                                                              *)

Live == Requests \ ended
FreeBlocks == (1 .. NumBlocks - 1) \ UNION {Range(held[r]) : r \in Requests}

(* The KV cache manager's blocks for n more tokens, lowest first.            *)
Needed(r, n) == CeilDiv(computed[r] + n, BlockSize) - Len(held[r])

(* Prompt chunks, then one token, with or without drafts.                    *)
Work(r) == IF computed[r] < Prompt
           THEN 1 .. Least(MaxChunk, Prompt - computed[r])
           ELSE {n \in {1, Q} : computed[r] + n <= MaxLen}

(* New blocks of the batch, as the KV cache manager hands them out: each of  *)
(* its requests in turn takes the lowest free ones.                          *)
Allocated(batch, tokens) ==
  LET free == SetToSortSeq(FreeBlocks, LAMBDA a, b : a < b)
      need(i) == Max({0, Needed(batch[i], tokens[i])})
      before(i) == FoldLeft(LAMBDA a, k : a + need(k), 0, [k \in 1 .. i - 1 |-> k])
  IN  [r \in Requests |->
         IF r \notin Range(batch) THEN held[r]
         ELSE LET i == CHOOSE k \in 1 .. Len(batch) : batch[k] = r
              IN  held[r] \o SubSeq(free, before(i) + 1, before(i) + need(i))]

Batches ==
  {b \in UNION {[1 .. n -> Live] : n \in 1 .. MaxReqs} : IsInjective(b)}
Plans(b) ==
  {t \in [1 .. Len(b) -> 1 .. Max({MaxChunk, Q})] :
     /\ \A i \in 1 .. Len(b) : t[i] \in Work(b[i])
     /\ Total(t) <= MaxTokens
     /\ FoldLeft(LAMBDA a, i : a + Max({0, Needed(b[i], t[i])}), 0,
                 [i \in 1 .. Len(b) |-> i]) <= Cardinality(FreeBlocks)}

(* input_fits_in_drafter: otherwise the step proposes nothing.               *)
FitsInDrafter(first, t) ==
  Max({first[i] + t[i] : i \in DOMAIN t}) + Q - 1 <= DraftMaxLen

(* execute_model and sample_tokens for one batch: the last `rejected` tokens *)
(* of a row are drafts that do not survive.                                  *)
ExecuteModel(b, t, rejected, cascade, peer, draftPeer) ==
  LET n == Len(b)
      total == Total(t)
      first == [i \in 1 .. n |-> computed[b[i]]]
      blocks == Allocated(b, t)
      cpu == [i \in 1 .. n |-> blocks[b[i]]]
      key == BatchExecution(total, IsUniformDecode(t, total), cascade, peer)
      padAttn == key.mode = "FULL"
      reqs == IF padAttn THEN key.reqs ELSE n
      padded == IF padAttn \/ separate THEN key.tokens ELSE total
      tab == Committed(cpu, n)
      map == SlotMapping(tab, first, t, padded)
      cache == Written(b, first, t, map, padded)
      lost == {SlotOf(tab[i - 1], first[i] + t[i] - k) :
                 <<i, k>> \in {x \in (1 .. n) \X (1 .. Q) : x[2] <= rejected[x[1]]}}
      fits == FitsInDrafter(first, t)
      draft == IF fits THEN DraftGraph(n, TRUE, draftPeer) ELSE Eager(0)
  IN  /\ held' = blocks
      /\ rows' = cpu
      /\ qsl' = PaddedStarts(t)
      /\ seqLens' = SeqLens([i \in 1 .. n |-> first[i] + t[i]])
      /\ table' = NullFilled(tab, n, reqs)
      /\ slotMap' = map
      /\ kv' = [s \in Slots |-> IF s \in lost THEN Nothing ELSE cache[s]]
      /\ computed' = [r \in Requests |->
                        IF r \notin Range(b) THEN computed[r]
                        ELSE LET i == CHOOSE k \in 1 .. n : b[k] = r
                             IN  computed[r] + t[i] - rejected[i]]
      /\ draftRows' = IF fits THEN DraftBuffers(b, draft) ELSE draftRows
      /\ graphs' = Capturing(key, graphs)
      /\ drafts' = Capturing(draft, drafts)
      /\ phase' = IF Available(key, graphs) /\ Available(draft, drafts)
                     /\ key.tokens >= total
                  THEN "serving" ELSE "failed"
      /\ step' = [batch |-> b, first |-> first, tokens |-> t, rows |-> reqs,
                  drafted |-> IF fits THEN Least(draft.tokens, MaxReqs) ELSE 0]
      /\ UNCHANGED <<config, todo, ended>>

(* Drafts are verified by rows past their prompt; the first of their tokens  *)
(* is never rejected.                                                        *)
Rejections(b, t) ==
  {x \in [1 .. Len(b) -> 0 .. Q - 1] :
     \A i \in 1 .. Len(b) : x[i] < t[i] /\ (computed[b[i]] < Prompt => x[i] = 0)}

Step ==
  /\ phase = "serving"
  /\ \E b \in Batches : \E t \in Plans(b) : \E x \in Rejections(b, t) :
       \E cascade \in Cascades, peer \in Peers, draftPeer \in DraftPeers :
         ExecuteModel(b, t, x, cascade, peer, draftPeer)

(* The request ends, or is preempted: its blocks are free for others while   *)
(* its row stays in the persistent batch and in the GPU's buffers. What its  *)
(* entries hold from now on is of no use to anybody.                         *)
Finish(r) ==
  /\ phase = "serving" /\ held[r] # <<>>
  /\ ended' = ended \cup {r}
  /\ held' = [held EXCEPT ![r] = <<>>]
  /\ computed' = [computed EXCEPT ![r] = 0]
  /\ kv' = [s \in Slots |-> IF s \div BlockSize \in Range(held[r]) THEN Nothing ELSE kv[s]]
  /\ UNCHANGED <<config, phase, todo, graphs, drafts, rows, buffers, step>>

Init ==
  /\ mode \in Modes /\ separate \in SeparateUpdates
  /\ phase = "capturing"
  /\ todo = CaptureOrder(mode)
  /\ graphs = {} /\ drafts = {}
  /\ held = [r \in Requests |-> <<>>]
  /\ computed = [r \in Requests |-> 0]
  /\ ended = {}
  /\ rows = <<>>
  /\ qsl = [i \in 0 .. MaxReqs |-> 0]
  /\ seqLens = [i \in RowIndex |-> 0]
  /\ table = [i \in RowIndex |-> NullRow]
  /\ slotMap = [j \in TokenIndex |-> 0]
  /\ draftRows = [i \in RowIndex |-> "zero"]
  /\ kv = [s \in Slots |-> Nothing]
  /\ step = [batch |-> <<>>, first |-> <<>>, tokens |-> <<>>, rows |-> 0, drafted |-> 0]

Next ==
  \/ Capture
  \/ EndCapture
  \/ Step
  \/ \E u \in BOOLEAN, peer \in Peers, draftPeer \in DraftPeers : DummyBatch(u, peer, draftPeer)
  \/ \E r \in Requests : Finish(r)

Spec == Init /\ [][Next]_vars

-----------------------------------------------------------------------------
(* Properties                                                                *)

TypeOK ==
  /\ phase \in {"capturing", "serving", "failed"}
  /\ \A j \in TokenIndex : slotMap[j] \in Slots \cup {-1}
  /\ \A s \in Slots : kv[s] = Nothing \/ kv[s] \in Requests \X (0 .. MaxLen - 1)
  /\ \A r \in Requests : Range(held[r]) \subseteq 1 .. NumBlocks - 1

(* Whatever was padded, replayed or run as a dummy, and whoever had the      *)
(* blocks before: the entries that count as computed of a live request are   *)
(* its own (_get_slot_mappings: unused entries are -1; _dummy_run: all are). *)
CacheIntact ==
  \A r \in Live : \A p \in 0 .. computed[r] - 1 :
    kv[SlotOf(RowOf(held[r]), p)] = <<r, p>>

(* Every row of an engine step's attention is given its own tokens, its own  *)
(* length and blocks with its own entries; every row that pads the step to a *)
(* captured size is given no query, no length and no block but the null one  *)
(* (_prepare_inputs, _build_attention_metadata). The drafter's graph has a   *)
(* row for each request of the batch, with that request's anchor.            *)
AttendsToItsOwn ==
  LET n == Len(step.batch) IN
  /\ \A i \in 1 .. n :
       /\ qsl[i] - qsl[i - 1] = step.tokens[i]
       /\ seqLens[i - 1] = step.first[i] + step.tokens[i]
       /\ step.batch[i] \in Live =>
          \A p \in 0 .. step.first[i] - 1 : kv[SlotOf(table[i - 1], p)] = <<step.batch[i], p>>
  /\ n > 0 => \A i \in n + 1 .. step.rows :
                qsl[i] = qsl[n] /\ seqLens[i - 1] = 0 /\ table[i - 1] = NullRow
  /\ step.drafted > 0 => /\ step.drafted >= n
                         /\ \A i \in 1 .. n : draftRows[i - 1] = step.batch[i]

(* "pad query_start_loc to be non-decreasing, as kernels like FlashAttention *)
(* requires that": for engine steps, and for dummy runs, which leave the     *)
(* tail as they find it and may be padded to the other rank's size.          *)
QueryStartsNonDecreasing ==
  \A i \in 1 .. step.rows : qsl[i - 1] <= qsl[i]

(* What a step or a dummy run hands to attention is its own and well formed. *)
MetadataSound == TypeOK /\ AttendsToItsOwn /\ QueryStartsNonDecreasing

(* After capture_model no step, with or without drafts, and no dummy run     *)
(* meets a graph that was not captured, or an assertion that fails.          *)
ServesFromCapturedGraphs == phase # "failed"

=============================================================================
