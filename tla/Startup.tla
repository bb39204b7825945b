-------------------------------- MODULE Startup --------------------------------
(* An engine from its arguments to its forward passes: the target's class is *)
(* inspected, the speculative configuration completed and the draft's class  *)
(* inspected for it, the classes are imported, the weights of target and     *)
(* drafter loaded on every rank; the target then runs, and its weights may   *)
(* be reloaded while it does. Engines start, stop and die at any point; the  *)
(* modules are installed anew while none is running.                         *)
(*                                                                           *)
(* A process stands for an engine and its workers. Arguments: the fields of  *)
(* a SpeculativeConfig that was not validated yet, and runtime: [dtype, mega,*)
(* capture], what the target and the command line say of the model.          *)
EXTENDS SpeculativeSetup, ModelRegistry, TargetCapture

CONSTANTS
  Requests,     \* the arguments engines are started with
  Checkpoints,  \* versions of the checkpoint: a bound
  MaxStarts     \* engines started in a behaviour: a bound

\* what of the arguments the validation fills in or passes on
ArgumentFields ==
  {"model", "method", "num", "lookup", "tree_depth", "rates", "length", "rejection",
   "hf", "draft_len", "draft_tp", "error"}

ASSUME StartupAssumption ==
  \A asks \in Requests :
    /\ asks.runtime.capture \in CaptureModes
    /\ asks.runtime.dtype \in {"fp4", "fp8"} /\ asks.runtime.mega \in BOOLEAN
    /\ ArgumentFields \subseteq DOMAIN asks /\ asks.error = None
    /\ asks.target.model # None
    /\ asks.num \in Nat /\ asks.length \in Nat /\ asks.tree_depth \in Int

VARIABLES
  starts,   \* engines started so far
  phase,    \* [process -> "down", "inspect target", "inspect draft", "configured",
            \* "target loaded", "serving", "rejected" or "failed"]
  asked,    \* [process -> its arguments]
  config,   \* [process -> its SpeculativeConfig]
  target,   \* [process -> [rank -> [slot -> contents]]]
  draft,    \* the same, of the drafter
  weights,  \* [process -> version of the target's weights]
  buffer,   \* [process -> _dspark_hidden_buffer]
  forward   \* [process -> [n, step]]: its last forward pass

modelVars == <<target, draft, weights, buffer, forward>>
vars == <<registryVars, starts, phase, asked, config, modelVars>>

Runtime(p) == [dtype |-> asked[p].runtime.dtype, mega |-> asked[p].runtime.mega]
NotLoaded == <<>>
NoForward == [n |-> 0, step |-> 0]
Advance(p, to) == phase' = [phase EXCEPT ![p] = to]

-----------------------------------------------------------------------------
(* The configuration                                                         *)

(* ModelConfig of the target.                                                *)
Start(p) ==
  /\ phase[p] = "down" /\ starts < MaxStarts
  /\ starts' = starts + 1
  /\ \E a \in Requests :
       /\ asked' = [asked EXCEPT ![p] = a]
       /\ config' = [config EXCEPT ![p] = a]
       /\ Ask(p, a.target.archs, a.target.impl)
  /\ Advance(p, "inspect target")
  /\ UNCHANGED <<installed, disk, inspected, imported, modelVars>>

Inspect(p) == Inspecting(p) /\ UNCHANGED <<starts, phase, asked, config, modelVars>>

(* No class for the architectures: the configuration is refused.             *)
Unsupported(p) ==
  /\ query[p].step = "unsupported"
  /\ query' = [query EXCEPT ![p] = Idle]
  /\ Advance(p, "rejected")
  /\ UNCHANGED <<installed, disk, inspected, imported, starts, asked, config, modelVars>>

(* SpeculativeConfig is constructed with the target's, up to the draft's     *)
(* ModelConfig; without one it is complete.                                  *)
TargetInspected(p) ==
  /\ phase[p] = "inspect target" /\ query[p].step = "found"
  /\ LET c == Prepared(config[p])
         d == Validated(c)
     IN  IF c.error = None /\ NeedsDraftModel(c)
         THEN /\ config' = [config EXCEPT ![p] = c]
              /\ Ask(p, <<c.hf.arch>>, "auto")
              /\ Advance(p, "inspect draft")
         ELSE /\ config' = [config EXCEPT ![p] = IF c.error = None THEN d ELSE c]
              /\ query' = [query EXCEPT ![p] = Idle]
              /\ Advance(p, IF c.error = None /\ d.error = None THEN "configured" ELSE "rejected")
  /\ UNCHANGED <<installed, disk, inspected, imported, starts, asked, modelVars>>

DraftInspected(p) ==
  /\ phase[p] = "inspect draft" /\ query[p].step = "found"
  /\ LET c == Validated(config[p])
     IN  /\ config' = [config EXCEPT ![p] = c]
         /\ Advance(p, IF c.error = None THEN "configured" ELSE "rejected")
  /\ query' = [query EXCEPT ![p] = Idle]
  /\ UNCHANGED <<installed, disk, inspected, imported, starts, asked, modelVars>>

-----------------------------------------------------------------------------
(* The model                                                                 *)

(* resolve_model_cls imports the class, once in a process.                   *)
Import(p, archs, impl) ==
  LET a == Resolved(archs, impl).try
  IN  imported' = [imported EXCEPT ![p] = @ @@ (a :> installed[Registered[a].defined_in])]

(* GPUModelRunner.__init__ and load_model, the target's part.                *)
LoadTarget(p) ==
  /\ phase[p] = "configured"
  /\ LET m == Runtime(p)
     IN  IF Drafter(config[p]) = None \/ ~DrafterFits(config[p]) \/ m \in TargetFailing
         THEN /\ Advance(p, "failed")
              /\ UNCHANGED <<imported, target, weights, buffer>>
         ELSE /\ Import(p, config[p].target.archs, config[p].target.impl)
              /\ target' = [target EXCEPT
                   ![p] = Loaded(m, Empty, TargetPlacements, weights[p])]
              /\ buffer' = [buffer EXCEPT ![p] = NewBuffer]
              /\ Advance(p, "target loaded")
              /\ UNCHANGED weights
  /\ UNCHANGED <<installed, disk, inspected, query, starts, asked, config, draft, forward>>

(* load_model, the drafter's part: only DSpark's own model is loaded here.   *)
LoadDrafter(p) ==
  /\ phase[p] = "target loaded"
  /\ \/ /\ Drafter(config[p]) # "DSpark"
        /\ Advance(p, "serving")
        /\ UNCHANGED <<imported, draft>>
     \/ /\ Drafter(config[p]) = "DSpark" /\ Runtime(p) \in DraftFailing
        /\ Advance(p, "failed")
        /\ UNCHANGED <<imported, draft>>
     \/ /\ Drafter(config[p]) = "DSpark" /\ Runtime(p) \notin DraftFailing
        /\ Import(p, <<config[p].hf.arch>>, "auto")
        /\ draft' = [draft EXCEPT ![p] = Loaded(Runtime(p), Empty, DraftPlacements, weights[p])]
        /\ Advance(p, "serving")
  /\ UNCHANGED <<installed, disk, inspected, query, starts, asked, config, target, weights, buffer, forward>>

(* The target's forward pass on n tokens; step tells one from the next.      *)
Forward(p) ==
  /\ phase[p] = "serving"
  /\ \E n \in 1 .. Rows :
       /\ forward' = [forward EXCEPT ![p] = [n |-> n, step |-> 1 - @.step]]
       /\ buffer' = [buffer EXCEPT
            ![p] = ModelForward(asked[p].runtime.capture, n, forward'[p].step, @)]
  /\ UNCHANGED <<registryVars, starts, phase, asked, config, target, draft, weights>>

(* reload_weights with another version of the checkpoint, in place; MegaMoE  *)
(* has transformed its experts and is not reloaded.                          *)
Reload(p) ==
  /\ phase[p] = "serving" /\ ~Runtime(p).mega
  /\ \E v \in Checkpoints \ {weights[p]} :
       /\ weights' = [weights EXCEPT ![p] = v]
       /\ target' = [target EXCEPT ![p] = Loaded(Runtime(p), @, TargetPlacements, v)]
  /\ UNCHANGED <<registryVars, starts, phase, asked, config, draft, buffer, forward>>

(* The process ends, wherever it is.                                         *)
Stop(p) ==
  /\ phase[p] # "down"
  /\ Advance(p, "down")
  /\ Forget(p)
  /\ asked' = [asked EXCEPT ![p] = None]
  /\ config' = [config EXCEPT ![p] = None]
  /\ target' = [target EXCEPT ![p] = NotLoaded]
  /\ draft' = [draft EXCEPT ![p] = NotLoaded]
  /\ buffer' = [buffer EXCEPT ![p] = NotLoaded]
  /\ forward' = [forward EXCEPT ![p] = NoForward]
  /\ weights' = [weights EXCEPT ![p] = 1]
  /\ UNCHANGED <<installed, disk, starts>>

Reinstall(f) ==
  /\ \A p \in Processes : phase[p] = "down"
  /\ Install(f)
  /\ UNCHANGED <<starts, phase, asked, config, modelVars>>

Init ==
  /\ RegistryInit
  /\ starts = 0
  /\ phase = [p \in Processes |-> "down"]
  /\ asked = [p \in Processes |-> None]
  /\ config = [p \in Processes |-> None]
  /\ target = [p \in Processes |-> NotLoaded]
  /\ draft = [p \in Processes |-> NotLoaded]
  /\ weights = [p \in Processes |-> 1]
  /\ buffer = [p \in Processes |-> NotLoaded]
  /\ forward = [p \in Processes |-> NoForward]

Next ==
  \/ \E p \in Processes :
       \/ Start(p) \/ Inspect(p) \/ Unsupported(p) \/ TargetInspected(p) \/ DraftInspected(p)
       \/ LoadTarget(p) \/ LoadDrafter(p) \/ Forward(p) \/ Reload(p) \/ Stop(p)
  \/ \E f \in Files : Reinstall(f)

Spec == Init /\ [][Next]_vars

-----------------------------------------------------------------------------
(* Safety                                                                    *)

(* What a process believes of a class is what the installed class is, though *)
(* the belief may be read from a file that another process wrote, before the *)
(* modules were installed anew or while this one was looking. Only the       *)
(* hashed file itself counts: of a package only __init__.py is hashed.       *)
InspectionIsCurrent ==
  \A p \in Processes : \A a \in DOMAIN inspected[p] :
    inspected[p][a] # Failed /\ Registered[a].file = Registered[a].defined_in =>
      inspected[p][a] = installed[Registered[a].file]

\* the checkpoint has what a DSpark drafter is made of
HasDSparkBlock(r) ==
  /\ r.config.type = "deepseek_v4" /\ r.config.arch = "DeepseekV4ForCausalLM"
  /\ r.config.block # Absent /\ r.config.targets # Absent

(* What the validation lets through the runner has a drafter for, and a      *)
(* DSpark drafter gets the model of a DSpark block: however the method came  *)
(* about, from the arguments, the checkpoint's name or its rewritten type,   *)
(* it and the rewriting agree on which checkpoints draft with DSpark. An     *)
(* mlp_speculator, which the runner has no drafter for                       *)
(* (gpu_model_runner.py:635), is refused because the registry no longer      *)
(* lists its class (registry.py:634-636). One case nothing validates: DSpark,*)
(* asked for or read off a name, for a checkpoint without the block.         *)
AcceptedHasDrafter ==
  \A p \in Processes : phase[p] \in {"configured", "target loaded", "serving", "failed"} =>
    \/ Drafter(config[p]) # None /\ DrafterFits(config[p])
    \/ config[p].method = "dspark" /\ ~HasDSparkBlock(Repos[config[p].model])

(* An acceptance length that was asked for, with however many tokens the     *)
(* configuration ends up with, becomes rates that add up to it and that never*)
(* rise from one position to the next.                                       *)
RatesKeepTheLength ==
  \A p \in Processes :
    phase[p] \in {"configured", "target loaded", "serving"} /\ asked[p].length # Absent =>
      LET r == config[p].rates
      IN  /\ Len(r) = config[p].num
          /\ FoldLeft(+, 0, r) + Unit = asked[p].length
          /\ \A i \in DOMAIN r : r[i] \in 0 .. Unit /\ (i > 1 => r[i] <= r[i - 1])

\* the checkpoint's tensor that the layers use a slot of a rank as
Role(slot) ==
  CASE slot.weight = "fused_wqa_wkv" -> IF slot.shard = 0 THEN "wq_a" ELSE "wkv"
    [] slot.weight = "fused_wkv_wgate" -> IF slot.shard = 0 THEN "wkv" ELSE "wgate"
    [] slot.weight = "gate_up_proj" -> IF slot.shard = 0 THEN "w1" ELSE "w3"
    [] slot.weight = "down_proj" -> "w2"
    [] slot.module = "experts" -> slot.shard
    [] slot.weight = "e_score_correction_bias" -> "bias"
    [] OTHER -> slot.weight
Own(m, rank, slot) ==
  Name(IF slot.layer < StartLayer THEN "layers" ELSE "mtp",
       IF slot.layer < StartLayer THEN slot.layer ELSE slot.layer - StartLayer,
       IF slot.module = "mla_attn.compressor" THEN "compressor" ELSE slot.module,
       IF slot.module # "experts" THEN NoExpert
       ELSE IF m.mega THEN rank * LocalExperts + slot.index ELSE slot.index,
       Role(slot), IF slot.suffix = "weight" THEN "weight" ELSE "scale")
Holds(memory) == [rank \in Ranks |-> {<<c.of, c.piece>> : c \in memory[rank]}]

(* Once loaded, and after every reload, each parameter of the target holds   *)
(* the tensor its layer uses it as, from the last version; the ranks together*)
(* hold all of every tensor, and no rank the heads or experts of another.    *)
TargetIsComplete ==
  \A p \in Processes :
    phase[p] \in {"target loaded", "serving"} =>
      LET m == Runtime(p)
          holds == Holds(target[p])
      IN  /\ \A rank \in Ranks :
               /\ {c.slot : c \in target[p][rank]} = TargetSlots(m)
               /\ \A c \in target[p][rank] :
                    c.of = Own(m, rank, c.slot) /\ c.version = weights[p]
          /\ \A n \in TargetNames : \A i \in Pieces(m, n) :
               \E rank \in Ranks : <<n, i>> \in holds[rank]
          /\ \A r1, r2 \in Ranks : r1 # r2 =>
               \A h \in holds[r1] \cap holds[r2] :
                 Pieces(m, h[1]) = {Whole} /\ h[1].expert = NoExpert

(* The same of the drafter: no parameter of a stage stays torch.empty.       *)
DraftIsComplete ==
  \A p \in Processes :
    phase[p] = "serving" /\ Drafter(config[p]) = "DSpark" =>
      \A rank \in Ranks :
        /\ {c.slot : c \in draft[p][rank]} = DraftSlots(Runtime(p))
        /\ \A c \in draft[p][rank] : c.of = Own(Runtime(p), rank, c.slot)

(* The rows of the last forward pass hold, in the drafter's order, what the  *)
(* layers it asked for put out in that very pass.                            *)
DrafterSeesThisStep ==
  \A p \in Processes :
    \A row \in 1 .. forward[p].n : \A id \in TargetIds :
      buffer[p][row][BufferIndex[id]] = [layer |-> id, step |-> forward[p].step]
================================================================================
