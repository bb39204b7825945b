--------------------------- MODULE SpeculativeSetup ---------------------------
(* How SpeculativeConfig turns what a user asked for and what the draft      *)
(* checkpoint says of itself into the configuration the engine runs with, or *)
(* refuses it. Every step of __post_init__ takes a configuration to the next;*)
(* once one has raised, the others are skipped.                              *)
(*                                                                           *)
(* A checkpoint: [says, config, max_len, vocab, heads], where says is what   *)
(* its name contains. Its config: [type, arch, layers, block, targets, text, *)
(* n_predict], 0 standing for an attribute that is absent. Rates and lengths *)
(* are in units of 1/Unit. External, modelled from their use: ModelConfig,   *)
(* ParallelConfig, EAGLEConfig, the proposer classes.                        *)
EXTENDS Integers, Sequences, SequencesExt, FiniteSets

CONSTANTS
  Repos,    \* [name -> checkpoint]
  Unit      \* an acceptance rate of one

None == "none"
Absent == 0
MTPModelTypes ==
  {"deepseek_mtp", "mimo_mtp", "mimo_v2_mtp", "glm4_moe_mtp", "glm4_moe_lite_mtp",
   "glm_ocr_mtp", "ernie_mtp", "nemotron_h_mtp", "exaone_moe_mtp", "exaone4_5_mtp",
   "qwen3_next_mtp", "qwen3_5_mtp", "longcat_flash_mtp", "mtp", "pangu_ultra_moe_mtp",
   "step3p5_mtp", "hy_v3_mtp", "gemma4_mtp"}
Eagles == {"eagle", "eagle3", "dflash"}
Ngrams == {"ngram", "ngram_gpu"}

-----------------------------------------------------------------------------
(* The draft checkpoint's own configuration, rewritten                       *)

\* config types or architectures that become (type, arch), and n_predict
Rule(types, archs, type, arch, predict) ==
  [types |-> types, archs |-> archs, type |-> type, arch |-> arch, predict |-> predict]
Kept == "kept"

(* DeepSeek: V3 and V4 draft with their next-token layers, unless the V4     *)
(* checkpoint has a DSpark block.                                            *)
DeepSeekRules == <<
  Rule({"deepseek_v3", "deepseek_v32", "glm_moe_dsa", "deepseek_mtp"}, {},
       "deepseek_mtp", "DeepSeekMTPModel", "layers"),
  Rule({"deepseek_v4"}, {}, "deepseek_v4_dspark", "DeepSeekV4DSparkModel", "block"),
  Rule({"deepseek_v4"}, {}, "deepseek_mtp", "DeepSeekV4MTPModel", "layers"),
  Rule({"pangu_ultra_moe", "pangu_ultra_moe_mtp"}, {},
       "pangu_ultra_moe_mtp", "OpenPanguMTPModel", "layers")>>

ArchitectureRules == <<
  Rule({}, {"MiMoForCausalLM"}, "mimo_mtp", "MiMoMTPModel", "layers"),
  Rule({}, {"MiMoV2ForCausalLM"}, "mimo_v2_mtp", "MiMoV2MTPModel", "one"),
  Rule({}, {"MiMoV2OmniForCausalLM"}, "mimo_v2_mtp", "MiMoV2OmniMTPModel", "one"),
  Rule({}, {"MiMoV2FlashForCausalLM"}, "mimo_v2_mtp", "MiMoV2MTPModel", "one"),
  Rule({}, {"Glm4MoeForCausalLM"}, "glm4_moe_mtp", "Glm4MoeMTPModel", "layers"),
  Rule({}, {"Glm4MoeLiteForCausalLM"}, "glm4_moe_lite_mtp", "Glm4MoeLiteMTPModel", "layers"),
  Rule({}, {"GlmOcrForConditionalGeneration"}, "glm_ocr_mtp", "GlmOcrMTPModel", "layers"),
  Rule({"ernie4_5_moe", "ernie_mtp"}, {}, "ernie_mtp", "ErnieMTPModel", "layers")>>

TypeRules == <<
  Rule({"nemotron_h", "nemotron_h_puzzle"}, {}, "nemotron_h_mtp", Kept, "has layers"),
  Rule({"nemotron_h_mtp"}, {}, "nemotron_h_mtp", "NemotronHMTPModel", "layers or one"),
  Rule({"qwen3_next", "qwen3_next_mtp"}, {}, "qwen3_next_mtp", "Qwen3NextMTP", "layers"),
  Rule({"exaone_moe", "exaone_moe_mtp"}, {}, "exaone_moe_mtp", "ExaoneMoeMTP", "layers"),
  Rule({"exaone4_5", "exaone4_5_mtp"}, {}, "exaone4_5_mtp", "Exaone4_5_MTP", "layers"),
  Rule({"qwen3_5"}, {}, "qwen3_5_mtp", "Qwen3_5MTP", "layers"),
  Rule({"qwen3_5_moe"}, {}, "qwen3_5_mtp", "Qwen3_5MoeMTP", "layers"),
  Rule({"intern_s2_preview"}, {}, "qwen3_5_mtp", "Qwen3_5MTP", "text layers"),
  Rule({"longcat_flash"}, {}, "longcat_flash_mtp", "LongCatFlashMTPModel", "layers or one"),
  Rule({"step3p5"}, {}, "step3p5_mtp", "Step3p5MTP", "layers or one"),
  Rule({"hy_v3"}, {}, "hy_v3_mtp", "HYV3MTPModel", "layers"),
  Rule({"gemma4_assistant"}, {}, "gemma4_mtp", "Gemma4MTPModel", "one")>>

Atleast1(n) == IF n = Absent THEN 1 ELSE n
Predict(c, how) ==
  CASE how = "layers" -> c.layers
    [] how = "block" -> c.block
    [] how = "one" -> 1
    [] how = "layers or one" -> Atleast1(c.layers)
    [] how = "text layers" -> c.text.layers
    [] OTHER -> c.n_predict
Applies(c, r) ==
  /\ c.type \in r.types \/ c.arch \in r.archs
  /\ r.predict = "block" => c.block # Absent
  /\ r.predict = "has layers" => c.layers # Absent

\* mutant: a DSpark checkpoint keeps its model type
Mut_Applied(c, r) ==
  IF ~Applies(c, r) THEN c
  ELSE [c EXCEPT !.type = IF r.predict = "block" THEN @ ELSE r.type,
                 !.arch = r.arch, !.n_predict = Predict(c, r.predict)]
(* One rule: what it rewrites of the checkpoint's configuration.             *)
Applied(c, r) ==
  IF ~Applies(c, r) THEN c
  ELSE [c EXCEPT !.type = IF r.type = Kept THEN @ ELSE r.type,
                 !.arch = CASE r.arch = Kept -> @
                            [] r.predict = "text layers" /\ c.text.type = "qwen3_5_moe_text"
                                 -> "Qwen3_5MoeMTP"
                            [] OTHER -> r.arch,
                 !.layers = CASE r.predict = "block" -> Atleast1(c.targets)
                              [] r.type = "mimo_v2_mtp" -> 1
                              [] OTHER -> @,
                 !.n_predict = Predict(c, r.predict)]
\* the text model of a multimodal checkpoint takes its place
Promoted(c) ==
  IF c.arch = "NemotronH_Super_Omni_Reasoning_V3" THEN c.text @@ [text |-> None] ELSE c

(* hf_config_override: the rules in turn, each on what the ones before left. *)
HfConfigOverride(c) ==
  LET first == FoldLeft(Applied, c, DeepSeekRules \o ArchitectureRules)
      last  == FoldLeft(Applied, Promoted(first), TypeRules)
  IN  IF c.arch = "MistralLarge3ForCausalLM"
      THEN [last EXCEPT !.arch = "EagleMistralLarge3ForCausalLM"] ELSE last

ConfigFields == {"type", "arch", "layers", "block", "targets", "text", "n_predict"}

(* A checkpoint says of itself, once it is rewritten, how many tokens it     *)
(* predicts, if it says it at all.                                           *)
ASSUME SpeculativeAssumption ==
  /\ Unit \in Nat \ {0}
  /\ \A r \in DOMAIN Repos :
       LET c == HfConfigOverride(Repos[r].config)
       IN  /\ ConfigFields \subseteq DOMAIN Repos[r].config
           /\ "n_predict" \in DOMAIN c /\ c.n_predict \in Nat

-----------------------------------------------------------------------------
(* __post_init__                                                             *)

Raise(c, what) == [c EXCEPT !.error = what]
Then(c, Step(_)) == IF c.error # None THEN c ELSE Step(c)

(* The method asked for; a dotted model name is a class of the user's own.   *)
InferMethod(c) ==
  [c EXCEPT !.method =
     CASE c.model = "custom.Proposer" -> "custom_class"
       [] @ = None /\ c.model = "ngram" -> "ngram"
       [] @ = None -> "draft_model"
       [] @ \in MTPModelTypes -> "mtp"
       [] OTHER -> @]

(* Without a model: the target drafts for itself, or no model is needed.     *)
DefaultModel(c) ==
  IF c.model # None \/ c.num = Absent THEN c
  ELSE CASE c.method \in {"mtp", "dspark"} -> [c EXCEPT !.model = c.target.model]
         [] c.method \in Ngrams \cup {"suffix", "extract_hidden_states"} ->
              [c EXCEPT !.model = c.method]
         [] OTHER -> Raise(c, "no speculative model")

(* The window of the n-gram lookup.                                          *)
LookupWindow(c) ==
  LET w == CASE c.lookup = <<Absent, Absent>> -> <<5, 5>>
             [] c.lookup[1] = Absent -> <<c.lookup[2], c.lookup[2]>>
             [] c.lookup[2] = Absent -> <<c.lookup[1], c.lookup[1]>>
             [] OTHER -> c.lookup
  IN  IF c.method \notin Ngrams THEN c
      ELSE IF w[1] > w[2] THEN Raise(c, "prompt_lookup_min") ELSE [c EXCEPT !.lookup = w]

(* _validate_suffix_decoding: the tree bounds the number of tokens.          *)
SuffixDefaults(c) ==
  IF c.method # "suffix" THEN c
  ELSE IF c.tree_depth < 1 THEN Raise(c, "suffix_decoding_max_tree_depth")
  ELSE IF c.num = Absent THEN [c EXCEPT !.num = c.tree_depth] ELSE c

NeedsDraftModel(c) ==
  /\ c.method \notin Ngrams \cup {"suffix", "custom_class", "extract_hidden_states"}
  /\ c.model # None

(* The draft ModelConfig, before its class is inspected.                     *)
DraftConfig(c) ==
  IF ~NeedsDraftModel(c) THEN c
  ELSE IF c.model \notin DOMAIN Repos THEN Raise(c, "no such model")
  ELSE IF c.max_len > Repos[c.model].max_len THEN Raise(c, "max_model_len")
  ELSE [c EXCEPT !.hf = HfConfigOverride(Repos[c.model].config),
                 !.draft_len = IF c.max_len # Absent THEN c.max_len
                               ELSE Repos[c.model].max_len]

(* What is settled before the registry is asked for the draft's class.       *)
Prepared(args) ==
  Then(Then(Then(Then(Then(args, InferMethod), DefaultModel), LookupWindow),
            SuffixDefaults), DraftConfig)

(* The method: as given, by the checkpoint's name, by its type.              *)
Detected(c) ==
  LET says == Repos[c.model].says
      type == c.hf.type
  IN  CASE c.method \in Eagles \cup {"dspark"} -> c
        [] says \in Eagles \cup {"dspark"} -> [c EXCEPT !.method = says]
        [] type \in {"medusa", "mlp_speculator"} -> [c EXCEPT !.method = type]
        [] type \in MTPModelTypes ->
             IF c.num = Absent THEN Raise(c, "TypeError") ELSE [c EXCEPT !.method = "mtp"]
        [] c.method = "draft_model" -> c
        [] OTHER -> Raise(c, "unsupported method")

(* An Eagle head's own configuration wraps that of its checkpoint.           *)
Wrapped(c) ==
  IF c.method \notin Eagles \/ c.hf.type = "eagle" THEN c
  ELSE [c EXCEPT !.hf.type = "eagle", !.hf.arch = "EagleModel", !.hf.n_predict = Absent]

(* num_speculative_tokens                                                    *)
SpeculativeTokens(c) ==
  LET n == c.hf.n_predict
  IN  CASE n = Absent -> IF c.num = Absent THEN Raise(c, "no tokens") ELSE c
        [] c.num = Absent -> [c EXCEPT !.num = n]
        [] c.num > n /\ c.num % n # 0 -> Raise(c, "not divisible")
        [] OTHER -> c

(* _verify_and_get_draft_tp                                                  *)
DraftParallel(c) ==
  CASE c.draft_tp = Absent ->
         [c EXCEPT !.draft_tp = IF c.hf.type = "mlp_speculator" THEN 1 ELSE c.target.tp]
    [] c.draft_tp \notin {1, c.target.tp} -> Raise(c, "draft_tensor_parallel_size")
    [] OTHER -> c

(* _maybe_override_draft_max_model_len                                       *)
DraftLength(c) ==
  CASE c.max_len # Absent /\ c.max_len > c.draft_len -> Raise(c, "max_model_len")
    [] c.max_len # Absent /\ c.max_len > c.target.max_len -> Raise(c, "max_model_len")
    [] c.max_len # Absent -> [c EXCEPT !.draft_len = c.max_len]
    [] c.draft_len > c.target.max_len -> [c EXCEPT !.draft_len = c.target.max_len]
    [] OTHER -> c

DraftSteps(c) ==
  IF ~NeedsDraftModel(c) THEN c
  ELSE Then(Then(Then(Then(Then(c, Detected), Wrapped), SpeculativeTokens),
                 DraftParallel), DraftLength)

-----------------------------------------------------------------------------
(* _verify_args                                                              *)

\* mutant: the part of a token that remains is dropped
Mut_LengthToRates(length, n) ==
  [i \in 1 .. n |-> IF i <= (length - Unit) \div Unit THEN Unit ELSE 0]
(* _acceptance_length_to_rates: the least variance around the mean.          *)
LengthToRates(length, n) ==
  LET drafts == length - Unit
      full   == drafts \div Unit
      ones   == [i \in 1 .. full |-> Unit]
      zeros  == [i \in 1 .. IF full < n THEN n - full - 1 ELSE 0 |-> 0]
  IN  SubSeq(ones \o <<drafts - full * Unit>> \o zeros, 1, n)

(* _resolve_synthetic_acceptance_rates                                       *)
ProperRates(rates, n) ==
  /\ Len(rates) = n
  /\ \A i \in DOMAIN rates : rates[i] \in 0 .. Unit /\ (i > 1 => rates[i] <= rates[i - 1])
SyntheticRates(c) ==
  IF (c.rates = <<>>) = (c.length = Absent) THEN Raise(c, "rates or length")
  ELSE IF c.rates # <<>>
  THEN IF ProperRates(c.rates, c.num) THEN c ELSE Raise(c, "synthetic_acceptance_rates")
  ELSE IF c.length \notin Unit .. (c.num + 1) * Unit
  THEN Raise(c, "synthetic_acceptance_length")
  ELSE [c EXCEPT !.rates = LengthToRates(c.length, c.num), !.length = Absent]

Rejection(c) ==
  IF c.rejection = "synthetic" THEN SyntheticRates(c)
  ELSE IF c.rates # <<>> \/ c.length # Absent THEN Raise(c, "only synthetic") ELSE c

Arguments(c) ==
  CASE c.tensor_parallel # Absent -> Raise(c, "tensor_parallel_size")
    [] c.num = Absent -> Raise(c, "num_speculative_tokens")
    [] OTHER -> c

(* verify_with_parallel_config                                               *)
ParallelFits(c) ==
  IF NeedsDraftModel(c) /\ Repos[c.model].heads % c.draft_tp # 0
  THEN Raise(c, "attention heads") ELSE c

(* verify_equal_vocab_size_if_draft_model                                    *)
EqualVocabulary(c) ==
  IF c.method = "draft_model" /\ c.model # None /\ Repos[c.model].vocab # c.target.vocab
  THEN Raise(c, "vocabulary") ELSE c

VerifyArgs(c) ==
  Then(Then(Then(Then(c, Arguments), Rejection), ParallelFits), EqualVocabulary)

(* The rest of the validation, once the draft's class has been inspected.    *)
Validated(c) == VerifyArgs(DraftSteps(c))

-----------------------------------------------------------------------------
(* GPUModelRunner.__init__: the drafter that the method stands for.          *)
Drafter(c) ==
  CASE c.method = "custom_class" -> "Custom"
    [] c.method \in Ngrams -> "Ngram"
    [] c.method = "draft_model" -> "DraftModel"
    [] c.method = "mtp" /\ c.hf.type = "gemma4_mtp" -> "Gemma4"
    [] c.method = "dflash" -> "DFlash"
    [] c.method = "dspark" -> "DSpark"
    [] c.method = "suffix" -> "Suffix"
    [] c.method \in {"eagle", "eagle3", "mtp"} -> "Eagle"
    [] c.method = "medusa" -> "Medusa"
    [] c.method = "extract_hidden_states" -> "ExtractHiddenStates"
    [] OTHER -> None

(* What DSparkProposer and its model read of the draft's configuration.      *)
DrafterFits(c) ==
  Drafter(c) = "DSpark" => /\ c.hf.arch = "DeepSeekV4DSparkModel"
                           /\ c.hf.targets # Absent /\ c.hf.block # Absent
=============================================================================
