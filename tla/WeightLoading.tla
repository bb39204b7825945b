----------------------------- MODULE WeightLoading -----------------------------
(* How the tensors of a checkpoint reach the parameters of the DeepSeek-V4   *)
(* target and of its DSpark drafter on every rank: which parameters a model  *)
(* has, which of them a tensor's name is mapped to, which shard and which    *)
(* part of the tensor a rank takes.                                          *)
(*                                                                           *)
(* A name is a record: the model, the layer (or stage), the module, the      *)
(* expert (None elsewhere), the weight, and its suffix, "scale" for the      *)
(* scales of quantized weights. A slot is a place in a parameter of one rank:*)
(* [layer, module, weight, suffix, index, shard], index being the rank's own *)
(* number of an expert. A tensor consists of pieces: the heads of an         *)
(* attention sink, the tensor-parallel columns of an expert, else the whole. *)
(*                                                                           *)
(* External, from their use: FusedMoE and its weight loader, the loaders of  *)
(* linear layers, AutoWeightsLoader, WeightsMapper. Left out: the parameters *)
(* outside of the layers, replicas of experts, pipeline stages.              *)
EXTENDS Integers, FiniteSets, FiniteSetsExt

CONSTANTS
  Ranks,        \* 0 .. N - 1, the tensor- and expert-parallel group
  Experts,      \* n_routed_experts
  Heads,        \* num_attention_heads
  Layers,       \* num_hidden_layers
  HashLayers,   \* num_hash_layers
  TargetIds,    \* dspark_target_layer_ids
  Stages        \* the checkpoint's mtp.* stages

ASSUME WeightAssumption ==
  /\ IsFiniteSet(Ranks) /\ Ranks # {} /\ Ranks = 0 .. Cardinality(Ranks) - 1
  /\ Experts \in Nat /\ Experts % Cardinality(Ranks) = 0
  /\ Heads \in Nat \ {0} /\ Heads % Cardinality(Ranks) = 0
  /\ Layers \in Nat /\ HashLayers <= Layers /\ TargetIds \subseteq 0 .. Layers - 1

NoExpert == -1
Whole == 0
DraftLayers == IF TargetIds = {} THEN 1 ELSE Cardinality(TargetIds)
\* dspark_start_layer_idx: the stages are numbered behind the target's layers
StartLayer == Max({Layers} \cup {i + 1 : i \in TargetIds})

(* A configuration m: the experts' dtype, and whether MegaMoE runs them.     *)
ModelConfigs == [dtype : {"fp4", "fp8"}, mega : BOOLEAN]
\* what the MoE layers refuse
Runnable(m) == m.mega => m.dtype = "fp4"

-----------------------------------------------------------------------------
(* The checkpoint                                                            *)

Name(model, layer, module, expert, weight, suffix) ==
  [model |-> model, layer |-> layer, module |-> module, expert |-> expert,
   weight |-> weight, suffix |-> suffix]
IsHash(layer) == layer < HashLayers

\* what every layer and every stage has
BlockNames(model, layer) ==
  {Name(model, layer, "attn", NoExpert, w, "weight") : w \in {"wq_a", "wkv", "sink"}}
  \cup {Name(model, layer, "shared_experts", NoExpert, w, s) :
          w \in {"w1", "w2", "w3"}, s \in {"weight", "scale"}}
  \cup {Name(model, layer, "experts", e, w, s) :
          e \in 0 .. Experts - 1, w \in {"w1", "w2", "w3"}, s \in {"weight", "scale"}}
TargetNames ==
  UNION {BlockNames("layers", l)
         \cup {Name("layers", l, "compressor", NoExpert, w, "weight") : w \in {"wkv", "wgate"}}
         \cup {Name("layers", l, "gate", NoExpert, IF IsHash(l) THEN "tid2eid" ELSE "bias", "weight")}
         : l \in 0 .. Layers - 1}
DraftNames ==
  UNION {BlockNames("mtp", s)
         \cup {Name("mtp", s, "gate", NoExpert, "bias", "weight")}
         \cup {Name("mtp", s, "stage", NoExpert, w, "weight") :
                 w \in (IF s = 0 THEN {"main_proj"} ELSE {})
                       \cup (IF s = DraftLayers - 1 THEN {"markov_head", "confidence_head"} ELSE {})}
         : s \in Stages}
Checkpoint == TargetNames \cup DraftNames

-----------------------------------------------------------------------------
(* The parameters                                                            *)

Slot(layer, module, weight, suffix, index, shard) ==
  [layer |-> layer, module |-> module, weight |-> weight, suffix |-> suffix,
   index |-> index, shard |-> shard]
\* suffix of the scales of the experts, and of linear layers
ExpertScale(m) == IF m.dtype = "fp4" THEN "weight_scale" ELSE "weight_scale_inv"
LinearScale == "weight_scale_inv"

(* The experts of a rank: MegaMoE partitions them over the expert-parallel   *)
(* group, FusedMoE gives every rank a column of each.                        *)
LocalExperts == Experts \div Cardinality(Ranks)
ExpertsStart(rank) == rank * LocalExperts
ExpertsEnd(rank) == ExpertsStart(rank) + LocalExperts
ExpertSlots(m, layer) ==
  {Slot(layer, "experts", wi[1], s, i, wi[2]) :
     wi \in {<<"w13", "w1">>, <<"w13", "w3">>, <<"w2", "w2">>},
     s \in {"weight", ExpertScale(m)},
     i \in 0 .. (IF m.mega THEN LocalExperts ELSE Experts) - 1}
MLPSlots(layer) ==
  {Slot(layer, "shared_experts", wi[1], s, Whole, wi[2]) :
     wi \in {<<"gate_up_proj", 0>>, <<"gate_up_proj", 1>>, <<"down_proj", Whole>>},
     s \in {"weight", LinearScale}}
BlockSlots(m, layer) ==
  {Slot(layer, "attn", "fused_wqa_wkv", "weight", Whole, i) : i \in {0, 1}}
  \cup {Slot(layer, "attn", "sink", "weight", Whole, Whole)}
  \cup ExpertSlots(m, layer) \cup MLPSlots(layer)
  \cup {Slot(layer, "gate", IF IsHash(layer) THEN "tid2eid" ELSE "e_score_correction_bias",
             "weight", Whole, Whole)}
TargetSlots(m) ==
  UNION {BlockSlots(m, l)
         \cup {Slot(l, "mla_attn.compressor", "fused_wkv_wgate", "weight", Whole, i) : i \in {0, 1}}
         : l \in 0 .. Layers - 1}
StageSlots(stage) ==
  {Slot(StartLayer + stage, "stage", w, "weight", Whole, Whole) :
     w \in (IF stage = 0 THEN {"main_proj"} ELSE {})
           \cup (IF stage = DraftLayers - 1 THEN {"markov_head", "confidence_head"} ELSE {})}
DraftSlots(m) ==
  UNION {BlockSlots(m, StartLayer + s) \cup StageSlots(s) : s \in 0 .. DraftLayers - 1}

-----------------------------------------------------------------------------
(* Where a tensor goes: the slots of a rank that it is written to, and Lost  *)
(* for a name that the loader cannot find among the parameters.              *)

Lost == {Slot(-1, "lost", "lost", "lost", Whole, Whole)}

AttnStacked == [w \in {"wq_a", "wkv"} |-> [weight |-> "fused_wqa_wkv",
                                           shard |-> IF w = "wq_a" THEN 0 ELSE 1]]
MLPStacked == [w \in {"w1", "w3"} |-> [weight |-> "gate_up_proj",
                                       shard |-> IF w = "w1" THEN 0 ELSE 1]]
CompressorStacked == [w \in {"wkv", "wgate"} |-> [weight |-> "fused_wkv_wgate",
                                                  shard |-> IF w = "wkv" THEN 0 ELSE 1]]
\* stacked_params_mapping; map_dspark_stacked_param_name
TargetStacked == [attn |-> AttnStacked, shared_experts |-> MLPStacked,
                  compressor |-> CompressorStacked]
DraftStacked == [attn |-> AttnStacked]

\* mutant: an expert of the next rank is taken for the last one of this rank
Mut_MapGlobalExpertId(rank, expert) ==
  IF expert < ExpertsStart(rank) \/ expert > ExpertsEnd(rank) THEN -1
  ELSE expert - ExpertsStart(rank)
(* _map_global_expert_id                                                     *)
MapGlobalExpertId(rank, expert) ==
  IF expert < ExpertsStart(rank) \/ expert >= ExpertsEnd(rank) THEN -1
  ELSE expert - ExpertsStart(rank)

(* The loop over the expert mapping: w1 and w3 share a parameter.            *)
ExpertWrites(m, rank, layer, n) ==
  LET index == IF m.mega THEN MapGlobalExpertId(rank, n.expert) ELSE n.expert
  IN  IF index = -1 THEN {}
      ELSE {Slot(layer, "experts", IF n.weight \in {"w1", "w3"} THEN "w13" ELSE "w2",
                 IF n.suffix = "scale" THEN ExpertScale(m) ELSE n.suffix, index, n.weight)}

\* the names that the mapper (or the drafter's loader) changes
Renamed(n) ==
  [module |-> n.module,
   weight |-> CASE n.module = "shared_experts" /\ n.weight = "w2" -> "down_proj"
                [] n.module = "gate" /\ n.weight = "bias" -> "e_score_correction_bias"
                [] OTHER -> n.weight,
   suffix |-> IF n.suffix = "scale" THEN LinearScale ELSE n.suffix]

LinearWrites(slots, stacked, module, layer, n) ==
  LET r == Renamed(n)
      s == IF n.module \in DOMAIN stacked /\ r.weight \in DOMAIN stacked[n.module]
           THEN Slot(layer, module, stacked[n.module][r.weight].weight, r.suffix, Whole,
                     stacked[n.module][r.weight].shard)
           ELSE Slot(layer, module, r.weight, r.suffix, Whole, Whole)
  IN  IF s \in slots THEN {s} ELSE Lost

(* DeepseekV4ForCausalLM.load_weights: the drafter's tensors are skipped.    *)
TargetWrites(m, rank, n) ==
  IF n.model = "mtp" THEN {}
  ELSE IF n.module = "experts" THEN ExpertWrites(m, rank, n.layer, n)
  ELSE LinearWrites(TargetSlots(m), TargetStacked,
                    IF n.module = "compressor" THEN "mla_attn.compressor" ELSE n.module,
                    n.layer, n)

(* DeepSeekV4DSpark.load_weights: the stages it has; a tensor it has no      *)
(* parameter for is skipped, but for one of the stacked ones.                *)
DraftWrites(m, rank, n) ==
  LET layer == StartLayer + n.layer
      w     == LinearWrites(DraftSlots(m), DraftStacked, n.module, layer, n)
  IN  IF n.model # "mtp" \/ n.layer >= DraftLayers THEN {}
      ELSE IF n.module = "experts" THEN ExpertWrites(m, rank, layer, n)
      ELSE IF w = Lost /\ n.module # "attn" THEN {} ELSE w

(* The pieces of a tensor, and those a rank takes.                           *)
Pieces(m, n) ==
  CASE n.weight = "sink" -> 0 .. Heads - 1
    [] n.module = "experts" /\ ~m.mega -> Ranks
    [] OTHER -> {Whole}
Taken(m, rank, n) ==
  LET heads == Heads \div Cardinality(Ranks)
  IN  CASE n.weight = "sink" -> {h \in 0 .. Heads - 1 : heads * rank <= h /\ h < heads * (rank + 1)}
        [] n.module = "experts" /\ ~m.mega -> {rank}
        [] OTHER -> {Whole}

-----------------------------------------------------------------------------
(* Loading: a rank's memory is the set of the pieces in its slots, with the  *)
(* version of the checkpoint they are of; a slot of torch.empty has none.    *)

Empty == [rank \in Ranks |-> {}]
Placements(Writes(_, _, _)) ==
  UNION {{[m |-> m, rank |-> rank, slot |-> s, of |-> n, piece |-> i] :
            s \in Writes(m, rank, n), i \in Taken(m, rank, n)}
         : m \in ModelConfigs, rank \in Ranks, n \in Checkpoint}
TargetPlacements == Placements(TargetWrites)
DraftPlacements == Placements(DraftWrites)

(* The memory after a load: what is written replaces what was there.         *)
Loaded(m, memory, placements, version) ==
  [rank \in Ranks |->
     LET new == {[slot |-> w.slot, of |-> w.of, piece |-> w.piece, version |-> version] :
                   w \in {w \in placements : w.m = m /\ w.rank = rank}}
         written == {c.slot : c \in new}
     IN  new \cup {c \in memory[rank] : c.slot \notin written}]

(* The configurations whose layers refuse to be built, or whose loader does  *)
(* not find a name.                                                          *)
Failing(placements) ==
  {m \in ModelConfigs : ~Runnable(m) \/ \E w \in placements : w.m = m /\ w.slot \in Lost}
TargetFailing == Failing(TargetPlacements)
DraftFailing == Failing(DraftPlacements)
===============================================================================
