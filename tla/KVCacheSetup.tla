---------------------------- MODULE KVCacheSetup ----------------------------
(* How GPUModelRunner lays the KV cache out. The engine asks for the layers' *)
(* cache specs, may first run the whole set-up on a minimal cache to measure *)
(* the memory of the CUDA graphs and throw it away, may shrink max_model_len,*)
(* and then initialises the real cache: groups of layers, one attention      *)
(* group per backend, spec and head count, an input batch whose block tables *)
(* fit, raw tensors that layers of different groups share, and the views of  *)
(* them that the layers write through.                                       *)
(*                                                                           *)
(* A view is one array [halves][blocks][tokens][cell] of elements with its   *)
(* strides; a layer's cache is a sequence of views (several for Mamba).      *)
(* External, modelled from their use: the KVCacheConfig (part of the model   *)
(* record), prepare_kernel_block_sizes, bind_kv_cache, the attention         *)
(* backends, CUDAGraphWrapper.                                               *)
EXTENDS Integers, Sequences, SequencesExt, FiniteSets, FiniteSetsExt, Functions

CONSTANTS
  CacheModels,   \* the models: layers, KV cache groups and raw tensors
  Backends,      \* [name -> [block_dim, sizes, threshold, support]]
  Placeholders,  \* block sizes the runner may be constructed with
  MaxLens,       \* values max_model_len may have
  NumBlocks,     \* numbers of blocks the engine may decide on
  MinBlocks,     \* max_cudagraph_capture_size or 1
  Requested      \* cudagraph_mode: the instances checked

Unset == "none"
NoThreshold == 0
Everywhere == 3   \* AttentionCGSupport.ALWAYS
IsAttention(s) == s.type # "mamba"

(* The configurations that the engine hands to the runner. A layer that      *)
(* reuses a cache reuses that of one that has its own; every other layer but *)
(* encoder-only ones is in a group; a Mamba layer has a state. Pages are     *)
(* padded only for backends that have the block index first, and those of MLA*)
(* are such backends (_reshape_kv_cache_tensors relies on it).               *)
LayersAssumption(m) ==
  \A n \in DOMAIN m.layers :
    LET l == m.layers[n] IN
    /\ l.backend \in DOMAIN Backends /\ l.index \in Nat
    /\ {l.spec.storage, l.spec.cell, l.spec.page} \subseteq Nat \ {0}
    /\ l.spec.padded \in BOOLEAN
    /\ IsAttention(l.spec) /\ (l.spec.padded \/ l.spec.type = "mla") =>
         Backends[l.backend].block_dim = 0
    /\ l.target # Unset => l.target \in UNION m.tensors /\ l.spec.type # "encoder_only"
    /\ l.target = Unset /\ l.spec.type # "encoder_only" =>
         \E i \in DOMAIN m.groups : n \in m.groups[i].names
    /\ l.spec.type = "mamba" => l.spec.states \in Seq(Nat) /\ l.spec.states # <<>>

(* The groups are for the layers that have a cache of their own, each in one *)
(* group and with the spec of that group; the backends of a group, those of  *)
(* the layers that reuse its caches included, can all take its blocks some   *)
(* part at a time.                                                           *)
GroupsAssumption(m) ==
  /\ m.groups \in Seq(Range(m.groups))
  /\ \A i \in DOMAIN m.groups :
       LET g == m.groups[i] IN
       /\ g = [names |-> g.names, spec |-> g.spec]
       /\ g.spec.block_size \in Nat \ {0} /\ g.spec.type # "encoder_only"
       /\ \A n \in g.names :
            n \in DOMAIN m.layers /\ m.layers[n].spec = g.spec /\ m.layers[n].target = Unset
       /\ \A j \in DOMAIN m.groups \ {i} : g.names \cap m.groups[j].names = {}
       /\ g.spec.type = "mamba" => g.spec.spec_blocks \in Nat
       /\ IsAttention(g.spec) =>
            \E k \in 1 .. g.spec.block_size :
              /\ g.spec.block_size % k = 0
              /\ \A n \in DOMAIN m.layers :
                   n \in g.names \/ m.layers[n].target \in g.names =>
                     k \in Backends[m.layers[n].backend].sizes

(* Layers that share a raw tensor have pages of one size, and the backends of*)
(* attention layers that share one agree on where the block index is, unless *)
(* there are Mamba layers, for which the runner moves it.                    *)
TensorsAssumption(m) ==
  /\ UNION m.tensors \subseteq DOMAIN m.layers /\ IsFiniteSet(UNION m.tensors)
  /\ \A t \in m.tensors : \A a, b \in t :
       /\ m.layers[a].spec.page = m.layers[b].spec.page
       /\ \/ \E n \in UNION m.tensors : m.layers[n].spec.type = "mamba"
          \/ Backends[m.layers[a].backend].block_dim
               = Backends[m.layers[b].backend].block_dim

ASSUME SetupAssumption ==
  /\ MaxLens \subseteq Nat \ {0} /\ Placeholders \subseteq Nat \ {0}
  /\ NumBlocks \subseteq Nat /\ MinBlocks \in Nat
  /\ \A b \in Range(Backends) :
       b.threshold \in Nat /\ b.support \in 0 .. Everywhere /\ b.block_dim \in {0, 1}
  /\ \A m \in CacheModels : LayersAssumption(m) /\ GroupsAssumption(m) /\ TensorsAssumption(m)

VARIABLES
  model,      \* the model loaded
  stage,      \* "loaded", "profiling", "captured", "ready", "failed", "down"
  requested,  \* compilation_config.cudagraph_mode as configured
  maxLen,     \* max_model_len
  shared,     \* shared_kv_cache_layers: [layer -> target]
  runnerOnly, \* runner_only_attn_layers
  eligible,   \* kv_sharing_fast_prefill_eligible_layers
  groups,     \* kv_cache_config.kv_cache_groups
  attnGroups, \* attn_groups
  kernels,    \* _kernel_block_sizes
  threshold,  \* reorder_batch_threshold
  batch,      \* the input batch: block sizes, kernel block sizes, table widths
  bound,      \* layer.kv_cache of every layer
  runners,    \* kv_caches: the tensors the runner itself holds
  mode,       \* resolved cudagraph mode that the dispatcher's keys are for
  pools,      \* [wrapper -> graph pool]
  graphs,     \* allocations that the captured graphs read and write
  registered  \* allocation registered with the KV connector

layout == <<shared, runnerOnly, eligible, groups, attnGroups, kernels, threshold,
            bound, runners, mode>>
cacheVars == <<model, stage, requested, maxLen, layout, batch, pools, graphs, registered>>

ModelLayers == DOMAIN model.layers
Layer(n) == model.layers[n]
Wrappers == {"target", "drafter"}
CeilDiv(a, b) == (a + b - 1) \div b

-----------------------------------------------------------------------------
(* Groups                                                                    *)

(* may_add_encoder_only_layers_to_kv_cache_config: a last group of their own. *)
EncoderOnly == {n \in ModelLayers : Layer(n).spec.type = "encoder_only"}
WithEncoderOnly(gs) ==
  IF EncoderOnly = {} THEN gs
  ELSE Append(gs, [names |-> EncoderOnly,
                   spec |-> Layer(CHOOSE n \in EncoderOnly : TRUE).spec])

(* add_kv_sharing_layers_to_kv_cache_groups: into the target's group.        *)
WithShared(gs) ==
  [i \in DOMAIN gs |->
     [gs[i] EXCEPT !.names = @ \cup {n \in DOMAIN shared : shared[n] \in @}]]

(* The layers at the end of the model that all reuse a cache may leave the   *)
(* prefill early.                                                            *)
Eligible ==
  IF ~model.fast_prefill THEN {}
  ELSE {n \in DOMAIN shared :
          \A k \in ModelLayers : Layer(k).index >= Layer(n).index => k \in DOMAIN shared}

BackendName(n, early) ==
  IF n \in early THEN <<"FastPrefill", Layer(n).backend>> ELSE <<Layer(n).backend>>

(* AttentionGroupKey                                                         *)
GroupKey(n, spec, early) == <<BackendName(n, early), spec, Layer(n).heads>>

(* initialize_attn_backend: one attention group per key of each group.       *)
AttnGroups(gs, early) ==
  [i \in DOMAIN gs |->
     LET key(n) == GroupKey(n, gs[i].spec, early)
     IN  {[names |-> {n \in gs[i].names : key(n) = k}, spec |-> gs[i].spec, gid |-> i] :
            k \in {key(n) : n \in gs[i].names}}]

BackendsOf(names) == {Backends[Layer(n).backend] : n \in names}

(* _check_and_update_cudagraph_mode: the weakest backend decides.            *)
Support(gs) ==
  Min({Everywhere} \cup UNION {{b.support : b \in BackendsOf(gs[i].names)} : i \in DOMAIN gs})
ResolvedMode(m, support) ==
  IF m = "FULL" /\ support < Everywhere THEN "FULL_AND_PIECEWISE" ELSE m

(* calculate_reorder_batch_threshold: the smallest any backend asks for.     *)
Threshold(gs) ==
  LET asked == {b.threshold : b \in BackendsOf(UNION {gs[i].names : i \in DOMAIN gs})} \ {NoThreshold}
  IN  IF asked = {} THEN NoThreshold ELSE Min(asked)

(* prepare_kernel_block_sizes: the largest size all backends of a group take. *)
KernelSize(g) ==
  IF ~IsAttention(g.spec) THEN g.spec.block_size
  ELSE Max({k \in 1 .. g.spec.block_size :
              /\ g.spec.block_size % k = 0
              /\ \A b \in BackendsOf(g.names) : k \in b.sizes})
(* Groups without a cache, at the end, have no block size.                   *)
Cached(gs) == {i \in DOMAIN gs : gs[i].spec.type # "encoder_only"}
KernelSizes(gs) == [i \in Cached(gs) |-> KernelSize(gs[i])]

-----------------------------------------------------------------------------
(* The input batch                                                           *)

(* InputBatch without max_num_blocks_per_req: as many blocks as attention    *)
(* over max_model_len needs.                                                 *)
NewBatch(sizes, ks) ==
  [blocks |-> sizes, kernels |-> ks,
   widths |-> [i \in DOMAIN sizes |-> CeilDiv(maxLen, sizes[i])]]

(* Blocks that a request of max_model_len tokens may hold in group g.        *)
Width(g) ==
  IF IsAttention(g.spec) THEN CeilDiv(maxLen, g.spec.block_size)
  ELSE (IF model.prefix_caching THEN CeilDiv(maxLen, g.spec.block_size) ELSE 1)
         + g.spec.spec_blocks

\* mutant: the kernel block sizes are not compared
Mut_Reinitialized(gs, ks) ==
  LET sizes == [i \in Cached(gs) |-> gs[i].spec.block_size]
  IN  IF sizes = batch.blocks THEN batch
      ELSE [blocks |-> sizes, kernels |-> ks,
            widths |-> [i \in DOMAIN sizes |-> Width(gs[i])]]
(* may_reinitialize_input_batch                                              *)
Reinitialized(gs, ks) ==
  LET sizes == [i \in Cached(gs) |-> gs[i].spec.block_size]
  IN  IF sizes = batch.blocks /\ ks = batch.kernels THEN batch
      ELSE [blocks |-> sizes, kernels |-> ks,
            widths |-> [i \in DOMAIN sizes |-> Width(gs[i])]]

-----------------------------------------------------------------------------
(* Tensors and views                                                         *)

View(raw, halves, blocks, tokens, cell, hs, bs, off) ==
  [raw |-> raw, halves |-> halves, blocks |-> blocks, tokens |-> tokens,
   cell |-> cell, half_stride |-> hs, block_stride |-> bs, offset |-> off]

(* Elements of block b of a layer whose blocks are split into ratio blocks.  *)
Footprint(v, b, ratio) ==
  {v.offset + h * v.half_stride + k * v.block_stride + e :
     h \in 0 .. v.halves - 1, k \in ratio * b .. ratio * b + ratio - 1,
     e \in 0 .. v.tokens * v.cell - 1}
Extent(v) == v.offset + (v.halves - 1) * v.half_stride
               + (v.blocks - 1) * v.block_stride + v.tokens * v.cell

(* _reshape_kv_cache_tensors for attention: the backend's shape; a padded    *)
(* page becomes the stride of the first dimension.                           *)
AttentionViews(n, spec, raw, num, k) ==
  LET ratio  == spec.block_size \div k
      tokens == IF spec.storage # spec.block_size THEN spec.storage ELSE k
      halves == IF spec.type = "mla" THEN 1 ELSE 2
      size   == tokens * spec.cell
      first  == Backends[Layer(n).backend].block_dim
      hs     == IF first = 0 THEN size ELSE num * ratio * size
      bs     == IF first = 0 THEN halves * size ELSE size
      v      == View(raw, halves, num * ratio, tokens, spec.cell, hs, bs, 0)
  IN  <<IF ~spec.padded THEN v
        ELSE IF first = 0 THEN [v EXCEPT !.block_stride = spec.page]
        ELSE [v EXCEPT !.half_stride = spec.page]>>

(* and for Mamba: the states of a block follow one another in its page.      *)
Offset(states, i) == FoldFunction(+, 0, [j \in 1 .. i - 1 |-> states[j]])
MambaViews(spec, raw, num) ==
  [i \in DOMAIN spec.states |->
     View(raw, 1, num, 1, spec.states[i], 0, spec.page, Offset(spec.states, i))]

(* allocate_uniform_kv_caches: one tensor, the layers side by side in each   *)
(* block.                                                                    *)
UniformViews(n, num, gen, k) ==
  LET spec   == Layer(n).spec
      owners == UNION model.tensors
      halves == IF spec.type = "mla" THEN 1 ELSE 2
      size   == k * spec.cell
      raw    == [gen |-> gen, of |-> owners, num |-> num,
                 elements |-> Cardinality(owners) * spec.page * num]
      place  == Cardinality({o \in owners : Layer(o).index < Layer(n).index})
  IN  <<View(raw, halves, num * (spec.block_size \div k), k, spec.cell, size,
             Cardinality(owners) * halves * size, place * halves * size)>>

(* use_uniform_kv_cache                                                      *)
UsesUniform(ags) ==
  /\ model.cross_layers /\ Len(ags) = 1 /\ Cardinality(ags[1]) = 1
  /\ IsAttention(model.groups[1].spec)

(* _allocate_kv_cache_tensors: the layers of an entry share its tensor.      *)
RawTensor(n, num, gen) ==
  LET t == CHOOSE t \in model.tensors : n \in t
  IN  [gen |-> gen, of |-> t, num |-> num, elements |-> Layer(n).spec.page * num]

(* _reshape_kv_cache_tensors                                                 *)
Views(n, num, gen, k) ==
  IF IsAttention(Layer(n).spec)
  THEN AttentionViews(n, Layer(n).spec, RawTensor(n, num, gen), num, k)
  ELSE MambaViews(Layer(n).spec, RawTensor(n, num, gen), num)

(* Neither view() nor as_strided() reaches outside the raw tensor.           *)
Fits(v, padded) ==
  IF padded THEN Extent(v) <= v.raw.elements
  ELSE v.halves * v.blocks * v.tokens * v.cell = v.raw.elements

Hybrid(names) ==
  /\ \E n \in names : IsAttention(Layer(n).spec)
  /\ \E n \in names : ~IsAttention(Layer(n).spec)
(* Attention groups whose layout starts with the two halves.                 *)
HalvesFirst(ags) ==
  {g \in UNION Range(ags) :
     IsAttention(g.spec) /\ \A b \in BackendsOf(g.names) : b.block_dim = 1}

\* mutant: the attention layers of a hybrid model keep their layout
Mut_HybridLayout(caches, ags) == caches
(* _update_hybrid_attention_mamba_layout: the two halves of a block become   *)
(* neighbours, so that block b of every layer is the same bytes.             *)
HybridLayout(caches, ags) ==
  [n \in DOMAIN caches |->
     IF \E g \in HalvesFirst(ags) : n \in g.names
     THEN LET v == caches[n][1]
              hidden == v.tokens * v.cell
          IN  <<View(v.raw, v.halves, v.blocks, v.tokens, v.cell, hidden, 2 * hidden, v.offset)>>
     ELSE caches[n]]

-----------------------------------------------------------------------------
(* Actions                                                                   *)

NewWrapper(m) == IF m = "NONE" THEN pools ELSE [pools EXCEPT !["drafter"] = "main"]

\* mutant: layers that share a cache join its group after the attention groups
Mut_AllGroups == WithEncoderOnly(model.groups)
(* The groups as initialize_attn_backend finds them.                         *)
AllGroups == WithShared(WithEncoderOnly(model.groups))

(* The layers that own a cache, and their views of the raw tensors.          *)
Owners(gs) == (UNION {gs[i].names : i \in DOMAIN gs}) \ (EncoderOnly \cup DOMAIN shared)
Kernel(gs, n) == KernelSizes(gs)[CHOOSE i \in DOMAIN gs : n \in gs[i].names]
Plain(gs, ags, num, gen) ==
  [n \in Owners(gs) |-> IF UsesUniform(ags) THEN UniformViews(n, num, gen, Kernel(gs, n))
                        ELSE Views(n, num, gen, Kernel(gs, n))]
Moved(gs, ags) == ~UsesUniform(ags) /\ Hybrid(Owners(gs))
Caches(gs, ags, num, gen) ==
  IF Moved(gs, ags) THEN HybridLayout(Plain(gs, ags, num, gen), ags)
  ELSE Plain(gs, ags, num, gen)

(* The assertions, and the errors of view(), as_strided() and a missing key. *)
Raises(gs, ags, num, gen) ==
  \/ attnGroups # <<>> \/ runners # {}
  \/ Owners(gs) # UNION model.tensors
  \/ /\ UsesUniform(ags)
     /\ \E n \in Owners(gs) : LET v == Plain(gs, ags, num, gen)[n][1] IN
          Cardinality(Owners(gs)) * v.halves * v.blocks * v.tokens * v.cell # v.raw.elements
  \/ /\ ~UsesUniform(ags)
     /\ \E n \in Owners(gs) : \E v \in Range(Plain(gs, ags, num, gen)[n]) :
          ~Fits(v, Layer(n).spec.padded \/ ~IsAttention(Layer(n).spec))
  \/ Moved(gs, ags) /\ \E g \in HalvesFirst(ags) : ~ g.names \subseteq Owners(gs)

(* initialize_kv_cache                                                       *)
InitializeKVCache(num, gen, next) ==
  LET gs     == AllGroups
      ags    == AttnGroups(gs, eligible \cup Eligible)
      caches == Caches(gs, ags, num, gen)
  IN  /\ runnerOnly' = runnerOnly \cup EncoderOnly \cup DOMAIN shared
      /\ eligible' = eligible \cup Eligible
      /\ groups' = gs
      /\ IF Raises(gs, ags, num, gen)
         THEN /\ stage' = "failed"
              /\ UNCHANGED <<attnGroups, kernels, threshold, batch, bound, runners,
                             mode, pools, registered>>
         ELSE /\ stage' = next
              /\ attnGroups' = ags
              /\ kernels' = KernelSizes(gs)
              /\ threshold' = Threshold(gs)
              /\ mode' = ResolvedMode(requested, Support(gs))
              /\ pools' = NewWrapper(mode')
              /\ batch' = Reinitialized(gs, KernelSizes(gs))
              /\ bound' = [n \in Owners(gs) \cup DOMAIN shared |->
                             caches[IF n \in Owners(gs) THEN n ELSE shared[n]]]
              /\ runners' = {caches[n][1].raw : n \in Owners(gs)}
              /\ registered' = IF gen = "real" THEN gen ELSE registered

(* get_kv_cache_spec: layers that reuse another's cache are set aside.       *)
SharedLayers ==
  LET named == {n \in ModelLayers : Layer(n).target # Unset}
  IN  [n \in named |-> Layer(n).target]
GetKVCacheSpec ==
  /\ stage = "loaded" /\ shared # SharedLayers
  /\ shared' = SharedLayers
  /\ UNCHANGED <<model, stage, requested, maxLen, runnerOnly, eligible, groups,
                 attnGroups, kernels, threshold, bound, runners, mode, batch, pools,
                 graphs, registered>>

(* profile_cudagraph_memory: _init_minimal_kv_cache_for_profiling            *)
StartProfiling ==
  /\ stage = "loaded" /\ shared = SharedLayers /\ registered = Unset
  /\ InitializeKVCache(MinBlocks, "profile", "profiling")
  /\ UNCHANGED <<model, requested, maxLen, shared, graphs>>

\* mutant: the layers keep their cache
Mut_Unbound == bound
(* _cleanup_profiling_kv_cache: every layer of the forward context.          *)
Unbound == [n \in {} |-> <<>>]
Cleanup(next) ==
  /\ stage' = next
  /\ runners' = {} /\ attnGroups' = <<>> /\ groups' = <<>>
  /\ bound' = Unbound
  /\ UNCHANGED <<model, requested, maxLen, shared, runnerOnly, eligible, kernels,
                 threshold, batch, registered>>

(* No graphs to capture.                                                     *)
SkipProfiling ==
  /\ stage = "profiling" /\ mode = "NONE"
  /\ Cleanup("loaded")
  /\ UNCHANGED <<mode, pools, graphs>>

Alive == {w \in Wrappers : pools[w] # Unset}
(* The captures, in a pool of their own; one of them may run out of memory.  *)
CaptureForProfile ==
  /\ stage = "profiling" /\ mode # "NONE"
  /\ stage' \in {"captured", "failed"}
  /\ pools' = [w \in Wrappers |-> IF w \in Alive THEN "profiling" ELSE Unset]
  /\ graphs' = Alive \X {"profile"}
  /\ UNCHANGED <<model, requested, maxLen, layout, batch, registered>>

EndProfiling ==
  /\ stage = "captured"
  /\ Cleanup("loaded")
  /\ mode' = Unset
  /\ graphs' = {}
  /\ pools' = [w \in Wrappers |-> IF w \in Alive THEN "main" ELSE Unset]

(* update_max_model_len: auto-fit to the memory there is.                    *)
UpdateMaxModelLen ==
  /\ stage = "loaded"
  /\ maxLen' \in {l \in MaxLens : l < maxLen}
  /\ UNCHANGED <<model, stage, requested, layout, batch, pools, graphs, registered>>

Initialize ==
  /\ stage = "loaded" /\ shared = SharedLayers
  /\ \E num \in NumBlocks : InitializeKVCache(num, "real", "ready")
  /\ UNCHANGED <<model, requested, maxLen, shared, graphs>>

(* capture_model                                                             *)
CaptureModel ==
  /\ stage = "ready"
  /\ stage' = "serving"
  /\ graphs' = IF mode = "NONE" THEN {} ELSE Alive \X {"real"}
  /\ UNCHANGED <<model, requested, maxLen, layout, batch, pools, registered>>

(* shutdown: the model, its graphs and its cache; the drafter stays.         *)
Shutdown ==
  /\ stage \in {"ready", "serving", "failed"}
  /\ Cleanup("down")
  /\ graphs' = {g \in graphs : g[1] = "drafter"}
  /\ pools' = [pools EXCEPT !["target"] = Unset]
  /\ mode' = mode

CacheInit ==
  /\ model \in CacheModels /\ requested \in Requested /\ maxLen \in MaxLens
  /\ stage = "loaded"
  /\ shared = [n \in {} |-> Unset] /\ runnerOnly = {} /\ eligible = {}
  /\ groups = <<>> /\ attnGroups = <<>> /\ kernels = <<>>
  /\ threshold = NoThreshold /\ mode = Unset
  /\ \E p \in Placeholders : batch = NewBatch(<<p>>, <<p>>)
  /\ bound = [n \in {} |-> <<>>] /\ runners = {}
  /\ pools = [w \in Wrappers |-> IF w = "target" THEN "main" ELSE Unset]
  /\ graphs = {} /\ registered = Unset

CacheNext ==
  \/ GetKVCacheSpec \/ StartProfiling \/ SkipProfiling \/ CaptureForProfile
  \/ EndProfiling \/ UpdateMaxModelLen \/ Initialize \/ CaptureModel \/ Shutdown

CacheSpec == CacheInit /\ [][CacheNext]_cacheVars

-----------------------------------------------------------------------------
(* Properties                                                                *)

OwnsCache(n) == n \notin DOMAIN shared
Elements(n, b) ==
  UNION {Footprint(v, b, v.blocks \div v.raw.num) : v \in Range(bound[n])}
Blocks(n) == 0 .. bound[n][1].raw.num - 1

(* Whatever is written to a block of one layer leaves every other block      *)
(* alone, also the blocks of the layers in other groups that live in the     *)
(* same raw tensor and are given to other requests, and stays inside the     *)
(* tensor. With Mamba layers this needs the attention layers to be laid out  *)
(* anew; splitting a block into kernel blocks and padding a page must not    *)
(* disturb it.                                                               *)
BlocksAreDisjoint ==
  \A n, o \in {l \in DOMAIN bound : OwnsCache(l)} :
    bound[n][1].raw = bound[o][1].raw =>
      \A b \in Blocks(n) :
        /\ \A e \in Elements(n, b) : e \in 0 .. bound[n][1].raw.elements - 1
        /\ \A c \in Blocks(o) \ {b} : Elements(n, b) \cap Elements(o, c) = {}
        /\ \A i, j \in DOMAIN bound[n] : i # j =>
             LET part(k) == Footprint(bound[n][k], b, 1)
             IN  part(i) \cap part(j) = {}

Serving == stage \in {"ready", "serving"}
GroupOf(n) == CHOOSE i \in DOMAIN groups : n \in groups[i].names
Builders(n) == {g \in UNION Range(attnGroups) : n \in g.names}

(* A layer is driven by one metadata builder, made for its backend, spec and *)
(* number of heads, of the group whose block table holds its blocks; a layer *)
(* that reuses another's cache is in the group of that layer. That holds for *)
(* the layers the engine's configuration leaves out as well.                 *)
LayersFollowTheirGroup ==
  Serving =>
    /\ \A n \in ModelLayers : \E g \in UNION Range(attnGroups) :
         /\ Builders(n) = {g} /\ n \in groups[g.gid].names
         /\ \A o \in g.names : /\ Layer(o).backend = Layer(n).backend
                               /\ Layer(o).heads = Layer(n).heads
                               /\ o \in eligible <=> n \in eligible
    /\ \A n \in DOMAIN shared : /\ GroupOf(n) = GroupOf(shared[n])
                                /\ bound[n] = bound[shared[n]]

(* A row of the block table has room for every block of a request of         *)
(* max_model_len tokens, in every group, and the table splits blocks the way *)
(* the views do, although the table may have been made before the groups     *)
(* were known, or for the profiling run and another max_model_len.           *)
TablesFitTheCache ==
  Serving =>
    /\ DOMAIN batch.widths = DOMAIN kernels
    /\ \A i \in DOMAIN kernels :
         /\ batch.widths[i] >= Width(groups[i])
         /\ batch.blocks[i] = groups[i].spec.block_size
         /\ \A n \in groups[i].names \cap DOMAIN bound :
              IsAttention(groups[i].spec) =>
                bound[n][1].blocks * batch.kernels[i]
                  = bound[n][1].raw.num * batch.blocks[i]

(* No more tokens are taken for a decode than every builder can handle as    *)
(* one, and mixed batches have full graphs only if all backends support it.  *)
EveryBackendCanServe ==
  Serving =>
    \A b \in BackendsOf(ModelLayers) :
      /\ b.threshold # NoThreshold => threshold <= b.threshold
      /\ mode = "FULL" => b.support = Everywhere

(* Layers, groups, builders and the graph mode fit together.                 *)
GroupsServeTheirLayers == LayersFollowTheirGroup /\ EveryBackendCanServe

(* Once the profiling run is over nothing refers to its cache: not a layer,  *)
(* not the runner, not a graph, not the KV connector; and no graph wrapper   *)
(* captures into its pool.                                                   *)
ProfilingLeavesNothing ==
  stage \in {"loaded", "ready", "serving", "down"} =>
    /\ \A n \in DOMAIN bound : bound[n][1].raw.gen = "real"
    /\ \A r \in runners : r.gen = "real"
    /\ \A g \in graphs : g[2] = "real" \/ stage = "down"
    /\ \A w \in Wrappers : pools[w] # "profiling" \/ stage = "down"
    /\ registered # "profile"
=============================================================================
