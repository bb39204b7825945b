------------------------------- MODULE MCStartup -------------------------------
(* One engine started twice; a DSpark checkpoint, one that only its name says*)
(* is one, one with next-token layers, an mlp_speculator, and one for a draft*)
(* model; two versions of everything.                                        *)
EXTENDS Startup

Config(type, arch, layers, block, targets) ==
  [type |-> type, arch |-> arch, layers |-> layers, block |-> block, targets |-> targets,
   text |-> [type |-> None, layers |-> 0], n_predict |-> Absent]
MCRepos ==
  [dspark |-> [says |-> "dspark", config |-> Config("deepseek_v4", "DeepseekV4ForCausalLM", 1, 3, 2),
               max_len |-> 8, vocab |-> 10, heads |-> 4],
   named |-> [says |-> "dspark", config |-> Config("deepseek_v4", "DeepseekV4ForCausalLM", 1, 0, 0),
              max_len |-> 8, vocab |-> 10, heads |-> 4],
   mlp |-> [says |-> None, config |-> Config("mlp_speculator", "MLPSpeculatorPreTrainedModel", 0, 0, 0),
            max_len |-> 8, vocab |-> 10, heads |-> 4],
   v3 |-> [says |-> None, config |-> Config("deepseek_v3", "DeepseekV3ForCausalLM", 2, 0, 0),
           max_len |-> 8, vocab |-> 10, heads |-> 4],
   small |-> [says |-> None, config |-> Config("llama", "LlamaForCausalLM", 0, 0, 0),
              max_len |-> 4, vocab |-> 9, heads |-> 3]]
MCUnit == 10

Self(f) == [file |-> f, defined_in |-> f]
V4 == [file |-> "v4/__init__", defined_in |-> "v4/model"]
MCModels == ("DeepseekV4ForCausalLM" :> V4) @@ ("DeepSeekV4DSparkModel" :> V4)
            @@ ("DeepSeekV4MTPModel" :> V4)
            @@ ("DeepSeekMTPModel" :> Self("v3")) @@ ("DeepseekV3ForCausalLM" :> Self("v3"))
            @@ ("LlamaForCausalLM" :> Self("v3")) @@ ("TransformersMoE" :> Self("v3"))
MCPlugins == [a \in {} |-> 0]
MCTransformers == [NewForCausalLM |-> "TransformersMoE"]
MCBaseOf == [DeepseekV3ForClassification |-> "DeepseekV3ForCausalLM"]

Target(model, archs) == [model |-> model, archs |-> archs, impl |-> "auto", tp |-> 2,
                         max_len |-> 6, vocab |-> 10]
Runtimes == [dtype |-> "fp4", mega |-> FALSE, capture |-> "inline"]
Args(model, method, num, t) ==
  [model |-> model, method |-> method, num |-> num, target |-> t, max_len |-> Absent,
   draft_tp |-> Absent, lookup |-> <<Absent, Absent>>, tree_depth |-> 24,
   rejection |-> "standard", rates |-> <<>>, length |-> Absent, tensor_parallel |-> Absent,
   hf |-> MCRepos.small.config, draft_len |-> Absent, error |-> None, runtime |-> Runtimes]
V4Target == Target("dspark", <<"DeepseekV4ForCausalLM">>)
V3Target == Target("v3", <<"DeepseekV3ForCausalLM">>)
MCRequests == {
  [Args(None, "dspark", 3, V4Target) EXCEPT !.runtime.mega = TRUE, !.runtime.capture = "fused",
                                            !.rejection = "synthetic", !.length = 25],
  [Args("dspark", None, Absent, V4Target) EXCEPT !.runtime.dtype = "fp8",
                                                 !.runtime.capture = "exact"],
  Args("named", None, 2, V4Target),
  Args("mlp", None, 2, V3Target),
  Args("v3", None, 4, V3Target),
  Args("small", None, 2, Target("v3", <<"DeepseekV3ForClassification">>)),
  Args(None, "ngram", 2, Target("new", <<"NewForCausalLM">>))}
================================================================================
