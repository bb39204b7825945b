----------------------------- MODULE TargetCapture -----------------------------
(* How the target's forward pass hands the outputs of some of its layers to  *)
(* the drafter. A layer leaves its output unfinished (x, residual, post_mix, *)
(* res_mix) for the next layer to finish within a fused kernel. A layer whose*)
(* output the drafter wants is finished right away and copied, or, deferred, *)
(* copied by the next layer when that has finished it, from the kernel's     *)
(* result (fused) or computed apart (exact).                                 *)
(*                                                                           *)
(* The buffer: [row -> [column -> output]], the output of a layer for the    *)
(* tokens of a step being [layer, step]. The CUDA path; one pipeline stage.  *)
EXTENDS WeightLoading, Sequences, SequencesExt

CONSTANT Rows     \* max_num_batched_tokens

ASSUME CaptureAssumption == Rows \in Nat

CaptureModes == {"inline", "fused", "exact"}

(* _dspark_layer_to_buffer_index                                             *)
BufferIndex == [id \in TargetIds |-> Cardinality({i \in TargetIds : i < id})]
Columns == {BufferIndex[id] : id \in TargetIds}
Garbage == [layer |-> -1, step |-> -1]
NewBuffer == [row \in 1 .. Rows |-> [column \in Columns |-> Garbage]]

\* mutant: the last layer's output is left to a next layer as well
Mut_Deferred(mode) == IF mode = "inline" THEN {} ELSE TargetIds
(* _setup_dspark_deferred_target_capture: the next layer copies, if any.     *)
Deferred(mode) == IF mode = "inline" THEN {} ELSE {id \in TargetIds : id + 1 < Layers}

\* _dspark_hidden_buffer[:n, column].copy_(...)
Capture(buffer, n, id, output) ==
  [row \in DOMAIN buffer |->
     IF row <= n THEN [buffer[row] EXCEPT ![BufferIndex[id]] = output] ELSE buffer[row]]

(* DeepseekV4DecoderLayer.forward on the stream [x, pending, buffer]: x is   *)
(* what the last layer put out, pending that it is not finished. Without a   *)
(* residual there is nothing to finish, and nothing is copied.               *)
LayerForward(mode, n, step, stream, layer) ==
  LET previous == layer - 1
  IN  [x |-> [layer |-> layer, step |-> step],
       pending |-> TRUE,
       buffer |-> IF stream.pending /\ previous \in Deferred(mode)
                  THEN Capture(stream.buffer, n, previous, stream.x)
                  ELSE stream.buffer]

(* The model's own copy, after the layer.                                    *)
CaptureInline(mode, n, stream, layer) ==
  IF layer \in TargetIds \ Deferred(mode)
  THEN [stream EXCEPT !.pending = FALSE, !.buffer = Capture(@, n, layer, stream.x)]
  ELSE stream

(* DeepseekV4Model.forward on n tokens.                                      *)
ModelForward(mode, n, step, buffer) ==
  LET start == [x |-> Garbage, pending |-> FALSE, buffer |-> buffer]
      Step(stream, layer) ==
        CaptureInline(mode, n, LayerForward(mode, n, step, stream, layer), layer)
  IN  FoldLeft(Step, start, [i \in 1 .. Layers |-> i - 1]).buffer
===============================================================================
