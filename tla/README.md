# TLA+ models of the DSpark serving stack

This directory holds formal models of the parts of this repository whose
correctness depends on the order in which things happen or on cases that a test
hardly reaches: the request scheduler of the vLLM overlay, the worker that runs
up to a step behind it, the state the DSpark draft model keeps across engine
steps, the planner that decides how many drafts are verified, the memory and the
CUDA graphs all of it runs in, the way from an engine's arguments to loaded
weights, and the router in front of the GPU workers. TLC checks the models on
small instances; TLAPS proves the main theorems for every value of the
constants. `PROJECT.json` lists the runs, the mutants that show each property
can fail, the source lines behind each definition, and the hazards of the code
with the properties that cover them.

Paths below are relative to the repository; *overlay* stands for
`recipe/overlay/vllm`.

## 1. The system

A client sends an OpenAI-style request to the **sticky router**
(`infra/router/sticky_openai_router.py`), which relays it to a GPU **worker**. A
worker runs vLLM with the overlay: at start-up it validates its **speculative
configuration** (`overlay/config/speculative.py`), finds the model classes in the
**registry** (`overlay/model_executor/models/registry.py`) and loads the weights
of target and drafter (`overlay/models/deepseek_v4/nvidia/`). Then the
**scheduler** (`overlay/v1/core/sched/scheduler.py`) plans engine steps, the
**model runner** (`overlay/v1/worker/gpu_model_runner.py`) executes them, and the
**DSpark proposer** (`overlay/v1/spec_decode/dspark_proposer.py`, with the draft
model in `overlay/models/deepseek_v4/nvidia/dspark.py`) proposes the tokens the
next step verifies.

| Component | State | Operations | Interacts with | Hard because |
|---|---|---|---|---|
| Router: discovery thread | local lists of one round | `discovery_loop`, `discover_asg_backends`, `is_healthy` | AWS API, workers; replaces the table | partial failure of a region, workers that come and go during a round |
| Router: table (`BackendState`) | `_backends`, `_healthy`, `_rr` under a lock | `replace`, `snapshot`, `choose` | discovery thread writes, handler threads read | interleaving; stability of the choice |
| Router: handler threads | one request each | `proxy` | table, backend, client | backend or client lost, or a client that does not read, in the middle of an answer |
| Scheduler: steps | requests with token counters, `running`, `waiting`, `finished_req_ids`, `prev_step_scheduled_req_ids`, pause state | `schedule`, `update_from_output`, `add_request`, `finish_requests`, `set_pause_state` | engine core calls it from one thread; up to two steps in flight | counters are optimistic: step N+1 is planned before the outcome of step N is known; preemption, aborts and pauses in between |
| Scheduler: waiting requests | `waiting`, `skipped_waiting`, `failed_recving_kv_req_ids`, `finished_recving_kv_req_ids`, sessions | loads and stores of a KV connector, invalid blocks, delayed frees, streaming sessions | KV connector, clients | a load fails or ends after an abort; tokens are taken back |
| Scheduler and runner: encoder inputs | the scheduler's prediction of a cache, the worker's `encoder_cache` | `_try_schedule_encoder_inputs`, `_execute_mm_encoder`, `_gather_mm_embeddings` | two caches that never talk | shared images, eviction, steps planned ahead |
| Model runner: batch | persistent batch, cached request states, GPU copies of the last tokens and drafts | `_update_states`, `_prepare_inputs`, `sample_tokens`, `propose_draft_token_ids` | scheduler output in, model output and draft lengths out | rows are renumbered; corrections are applied a step late |
| Model runner: CUDA graphs | persistent GPU buffers, captured graphs | `capture_model`, `_dummy_run`, padding in `execute_model`, `_get_slot_mappings` | dispatcher, drafter, other ranks | a replayed graph reads what earlier steps left in its padding |
| Model runner: KV cache set-up | groups, views of raw tensors, block tables, graph pools | `initialize_kv_cache`, `profile_cudagraph_memory`, `update_max_model_len`, `shutdown` | engine, layers, KV connector | layers share memory; the set-up is run twice |
| DSpark slot map | `_req_id_to_slot`, `_free_slots` | `_row_to_slot` | called by `propose` with the batch of the step | requests leave and come back |
| DSpark rings | `main_kv_cache`, `_prefilled` | `prepare_context`, `store_main_kv`, `_store_main_kv_ragged`, `forward_dspark` | hidden states from the target, slots from the map | ragged batches, rejected suffixes, wrap-around, reuse of a slot |
| Confidence planner | none between steps (diagnostics counters) | `_schedule_from_confidence`, `hardware_aware_prefix_schedule`, `score_prefix_lengths`, `confidence_threshold_prefix_length` | confidences from the draft model; lengths to the scheduler | ties, cliffs in the profiled curve, anticipation |
| Speculative configuration | one configuration under construction | `__post_init__`, `hf_config_override`, the checks behind them | registry, model runner | an order of defaults, inferences and checks in which what passes must be servable |
| Registry of models | files under `VLLM_CACHE_ROOT`, caches per process | `inspect_model_cls`, `resolve_model_cls` | other processes, reinstallation | files read, hashed and replaced by several processes |
| Weights of target and drafter | parameters per rank | `load_weights`, `reload_weights` | checkpoint names | a name that nothing maps leaves its parameter uninitialised |
| Target's capture for the drafter | `_dspark_hidden_buffer` | the target's `forward` in three modes | drafter | a layer's output is finished by the next layer |
| AWS provisioning, start/stop/validate scripts | files, containers, launch templates | straight-line shell | start workers and routers | - |
| Kernels, attention backends, environment, warm-up, benchmarks | tensors, tables | - | - | numerics |

What makes each correct:

* *Router.* The table is always one round's result; a dead worker leaves it and
  a steady one stays, whatever fails elsewhere; a key moves only when it has to;
  unkeyed requests are spread evenly; no handler is held by its backend.
* *Scheduler.* Queues and statuses agree; placeholders count exactly what is in
  flight; optimistic positions become exact; no step exceeds the token budget,
  the blocks or the model length; what the worker cannot know is sent to it;
  nothing is computed from KV entries that failed to load, and no block under a
  transfer is given away; every request ends.
* *Slots and rings.* Two requests never share a ring; a ring holds the accepted
  rows of its owner and nothing else; a draft starts from its own last accepted
  row.
* *Model runner.* Every forward pass starts where the request's valid KV entries
  end and is given the request's own tokens; what it discards is what the
  scheduler does not expect; padding reaches nobody's KV entries or attention;
  what the target needs of the encoder is there; blocks of different layers and
  requests never overlap.
* *Planner.* The plan has the best expected throughput; deciding about a
  position does not look at later confidences.
* *Start-up.* What the validation accepts has a drafter to serve it; what is believed of a
  class is true of the class; every parameter of every rank holds the tensor the
  layer uses it as.

## 2. Modules

Dependencies: `DSparkRing` instantiates `DSparkSlots` over its own variables and
takes its `RowToSlot` for the slots of a step's rows; `TargetCapture` extends `WeightLoading`, and
`Startup` composes `SpeculativeSetup`, `ModelRegistry` and `TargetCapture`; every
`MC…` module extends the module it gives an instance of, every `…_proofs` module
the module it proves about. `Startup_proofs` also proves about `KVCacheSetup`, and
`WorkerCaches_proofs` about both `DSparkRing` and `EncoderCache`, the caches a
worker keeps from step to step; in either pair the states have no name in common.
`DataLemmas` holds the lemmas about data that the proofs share: division,
recursion along a sequence, folds, flattened and filtered sequences, sums.

**DSparkSlots** is `_row_to_slot` alone: `slot_of` is `_req_id_to_slot`,
`free_slots` is `_free_slots` (a set: the code sorts the list before each use),
`slot_list` is the returned list. One action, `RowToSlot(b)`, reclaims the slots
of ids outside the batch and hands the lowest free ones to new ids in row order.
The proofs about the rings use what is proved of it here.

**DSparkRing** composes the slot map with the ring buffers and the batch that
feeds them. `StepDrafted` is one engine step as the worker sees it: rows enter
and leave the batch, the target computes and rejects, `propose` maps, segments,
stores and drafts. `StepSkipped` is a step whose batch does not fit the drafter
(`input_fits_in_drafter`). `Preempt` and `Finish` are the scheduler's. A row of
hidden states is the record of where it came from (request, position, accepted
or not), so an index error in any path shows up as a wrong record in a ring.
`GpuMask` selects between the two context paths
(`VLLM_DSPARK_GPU_REJECTED_CONTEXT_MASK`).

**DSparkPlan** is the planner as functions, over all confidence tables with
values in thirds. Products are kept exactly, where the code has floating point.

**Scheduler** models `schedule()` in small steps: one action per branch of the
loop over running requests (`PassOver`, `Consider`, `Allocate`, `Preempt`), per
admission (`Admit`), and `CommitStep` for the scheduler output together with
`_update_after_schedule`; `UpdateFromOutput` applies the oldest step in flight
with any outcome the sampler may have. `AddRequest`, `Abort` and `SetPauseState`
come from outside, between calls. Requests have numbers of tokens and blocks, no
contents. What is not in the repository is modelled from its use and marked
external: block allocation (`Fits`, `Grown`), the order of the priority queue,
the stop condition, and the placeholder accounting of vLLM's `AsyncScheduler`
inside `CommitStep` and `UpdateFromOutput`.

**WaitingRequests** is the rest of the scheduler's life of a request: the look-up
in a KV connector (`Admit`, or `StartLoad` for a load that ends later),
`skipped_waiting` and the promotion out of it (`Promote`), loads that fail in any
prefix of their blocks, at once or while other steps use them (`TakeOutput`:
`_update_from_kv_xfer_finished`, `_handle_invalid_blocks`), the policy to
recompute or to fail, frees that wait for a store or a load (`Delays`,
`DelaysFree`, `EndOutput`), and streaming sessions (`SendInput`, `AsSession`). Blocks
have contents here: `good` holds the positions whose KV entries are right, and
`tainted` becomes true when a token computed from others is accepted. Scheduling
is synchronous and without drafts, which module Scheduler has.
`WaitingRequests_proofs` proves the three invariants for every value of the
constants, under two hypotheses (section 4).

**EncoderCache** has both sides of the encoder cache: the scheduler's, which
decides what a step encodes, evicts, and gives back by preemption or an
optimistic count, and the worker's, which only sees hashes to encode and hashes
to drop. Up to `InFlight` steps are between them. Priorities, policies and queues
are the scheduler's (`token_budget`, `num_computed`, `running`), cut down to what
decides which rows a step has.

**ModelRunner** models the worker's side of asynchronous scheduling. The CPU
calls `execute_model` (`ExecuteModel`: the scheduler's plan, `_update_states`,
the CPU part of `_prepare_inputs`), the deferred correction (`Correct`) and
`sample_tokens` (`SampleTokens`) in turn; what they enqueue is a stream of
`inputs` and `sample` operations that the GPU performs in order, when it likes
(`GpuInputs`, `GpuSample`). `row` holds the columns of the persistent batch,
`requests` the cached states, `prev_row` is `prev_req_id_to_index`, and the
pinned buffers `prev_positions` and `prev_num_draft` are read when the GPU copies
from them, not when the CPU writes them, so that reusing one too early shows.
`num_computed_tokens_cpu` is read that way too: the deferred correction may
overtake the copy, and the run shows that this is harmless. A token is named by
its request and position. `length` (tokens a request really has) and `kv` (where
its valid KV entries end) are ghosts. The scheduler is here only its counters:
`Plans` allows every step that `schedule()` could plan, `UpdateFromOutput` and
`Abort` come from the engine core between two steps. Three things outside the
repository are assumed:

* `InputBatch.remove_request` forgets the removed row's entry of
  `prev_req_id_to_index` (`RowsKnown`). `InputsAreTheSequence` depends on it:
  otherwise a request that is preempted in an empty step and resumed with a
  partial chunk would have a token overwritten by an old sample.
* Drafts are scheduled only for requests that sampled in the step before
  (`Drafts`). This can fail (section 5); what the worker then verifies is a
  placeholder and not a wrong token of the request.
* `condense` and `_may_reorder_batch` may leave the rows in any order.

`CorrectedCountExact` is stated for steps that were planned before the output of
the step before them was applied. Where it was applied first, the scheduler's
count is exact already and the runner subtracts the rejections once more on
the CPU; the GPU's count is right all the same, and the next step overwrites the
CPU's. `ModelRunner_proofs` proves the three invariants for every value of the
constants.

**CudaGraphs** has the buffers that graphs read (`qsl`, `seqLens`, `table`,
`slotMap`, the drafter's rows) with their full length, so that what an earlier,
larger step left behind stays there until the code overwrites it. `Capture`
takes the descriptors of the dispatcher in turn, `Step` is an engine step with
its padding, its agreement with another data-parallel rank and the drafter's own
dispatch, `DummyBatch` the dummy run of an idle rank. A forward pass writes the
KV cache through the slot mapping for every row of its captured size.

**KVCacheSetup** describes a view of a raw tensor by its strides, as in torch:
`AttentionViews`, `MambaViews`, `UniformViews` and `HybridLayout` are the code's
reshapes, and `Footprint` is the set of elements a block occupies. `Initialize`,
`StartProfiling`, `SkipProfiling`, `CaptureForProfile`, `EndProfiling`,
`UpdateMaxModelLen`, `CaptureModel` and `Shutdown` follow the engine's calls; an
allocation is marked with the set-up it is from ("profile" or "real").

**SpeculativeSetup** is `__post_init__` as a composition of functions from
configuration to configuration, each of which may raise; a checkpoint is what its
name and its config say. **ModelRegistry** has processes that look a class up
(`Lookup`, `Subprocess`, `Save`) step by step against files that others write.
**WeightLoading** maps the names of a checkpoint to the parameters of target and
drafter on every rank: a name is a record (layer, module, expert, weight,
suffix), a tensor is its pieces. **TargetCapture** is the pass through the layers
with the three ways of handing their outputs on. **Startup** runs one after the
other in processes that start, fail, reload and stop while the modules are
reinstalled in between.

**StickyRouter** has the discovery thread at the granularity of its AWS calls
and probes, the table, and handler threads at the granularity of choosing,
relaying the head, and ending. The environment lets workers, instances, group
membership and regional APIs change between any two steps. That a group has an
instance InService (`asg`) and that it is running (`running`) are separate: the
first call asks for the one and the second filters by the other, so an instance
that leaves its group between the calls is still listed. A malformed
`AWS_ASG_TARGETS` or backend (`parsed` false) is parsed outside the loop's `try`
and ends the discovery thread in its first round (`DiscoveryDies`), while the
handlers go on with an empty table. A handler reads from its backend under a
timeout, but writes to its client without one: `ClientStalls` leaves it "blocked"
until the client reads (`ClientReads`) or is gone (`ClientGone`). `_rr` is kept modulo a common
multiple of the possible numbers of candidates (`Laps`), which is exact.

## 3. Runs

| Run | Instance | What it shows |
|---|---|---|
| `slots` | 5 requests, 3 slots | partition, no exhaustion, stability; enough requests for a full turnover of the slots |
| `ring` | 2 requests, 2 rings, window 3, 2 drafts, lengths to 6; one request may be preempted, one left out of a step | the ring wraps, rejection of none, some or all drafts, chunked prompts next to decodes, recomputation in a ring somebody else used |
| `plan` | 2 requests, 2 positions, thirds, every falling curve and sparse ones | the planner against brute force over all prefix lengths; non-anticipation |
| `scheduler` | 3 requests, 5 blocks of 2, 5 tokens per step, 1 draft, 2 steps in flight | both policies, chunked prefill, preemption of oneself and of others before and behind the loop's index, resumption, late outputs, aborts, pauses; every request ends |
| `waiting` | a request of 3 and a session of 2 + 1 tokens, 4 blocks of 2, one failing load, both policies, a synchronous or a delayed load, stores at the end, an abort; one step in flight | nobody is lost, no block is given away under a transfer, nothing is accepted from wrong KV entries, every request leaves |
| `encoder` | 3 requests, 3 images of which one is shared, a cache of 3 embeddings, 2 per step, 2 steps in flight, with and without the drafter's shift and chunked images | what the target looks up is there, both limits hold, every request ends |
| `runner` | 2 requests, prompts of 2, lengths to 6, 2 drafts, prefix hits, one request that may be preempted and one that may be aborted | every order of the CPU's calls, the GPU's operations and the engine core's updates, rows in any order: positions and tokens of every forward pass are those of the request |
| `graphs` | 2 requests of 1 + 2 tokens, captured sizes 2 and 4, one draft, 4 blocks (one the null block), two modes, alone or with another rank | after the capture of all graphs no step or dummy run finds one missing, and no padding reaches KV entries or attention |
| `kvsetup` | 14 models of two to four layers, 4 backends, with and without graphs | blocks apart, builders and groups right, tables wide enough, nothing left of profiling |
| `startup` | 7 sets of arguments, among them methods given by name and an `mlp_speculator` draft, 3 checkpoints, two engine starts, 2 versions of modules and weights, 2 ranks, 4 experts, 3 stages | from arguments to weights: what the validation accepts has a drafter in the runner, but for the one exception that the property names, targets are loaded completely, and the drafter is given this step's outputs |
| `startup_draft` | the same | a parameter of the drafter that nothing loads (section 5) |
| `router` | a static worker and an instance of a group behind another region's group, discovery, one handler thread and its client | all properties of the discovery thread and the table, with liveness |

Why these bounds are enough: the faults looked for need at most two parties and
a bystander (two requests that collide and one that waits, two regions of which
one fails). The five KV blocks of the scheduler's run are fewer than its three
requests want, which forces every kind of preemption; two steps in flight is the
engine core's queue; window, draft length and model length are chosen so that
the ring wraps and every limit is reached; the encoder cache holds one embedding
more than the largest image, so that a second one has to wait or evict; the two
captured sizes let a small step follow a larger one, and the last blocks of a
request's table row are ones a finished request had. Each property has a mutant
of the code, run under the same configuration, that violates it, so the case it
guards against does occur. The router's theorems are about any lists of static
workers and groups; a key that moves without need takes three
workers, and `RemapIsMinimal` is proved for any number.

Bounds that are not the code's: `MaxModelLen` and `MaxOutput` (lengths of
requests), `InFlight` (steps planned ahead), `MaxFaults` and `MaxInputs` in
`WaitingRequests`, `MaxChunk` in `CudaGraphs`, `Laps` in `StickyRouter`,
`MaxStarts`, `Versions` and `Checkpoints` in `Startup`, and the sets `Victims`,
`Starvable`, `Preempts` and `Aborts` of requests to which something may happen.
`CHECK_DEADLOCK FALSE` is set where the system stops by itself: all requests of
the ring, the model runner, the encoder or the graphs finished, the session ended,
the runner shut down, the plan made.

### Fairness

* *Router*: weak fairness of the discovery thread as a whole (its probes have a
  timeout, its AWS calls return) and of what each handler waits for from its
  backend (`Relay`): one that answers ends its answer some time, since a request
  has a bound on its output, and one that does not is given up by the timeout of
  the socket. Nothing is assumed of workers, groups and APIs, nor of clients: a
  client that never reads holds its handler for ever, as the writes to it
  (`sticky_openai_router.py:444`, 451) have no timeout.
  `BackendNeverHoldsHandler` therefore promises that a handler gets to the end of
  its request or is blocked by its client, and no more.
* *Scheduler, encoder cache*: weak fairness of the engine loop as a whole, which
  runs while it has work. Nothing is assumed of clients or of who pauses the
  engine; `EveryRequestEnds` of `Scheduler` is conditional on the engine not
  staying paused.
* *Waiting requests*: the engine loop, and that a transfer under way is reported
  some time, as a success or a failure, if outputs keep being taken (strong
  fairness, because a report needs an output to ride on). `EveryRequestLeaves` is
  conditional on the clients of streaming sessions closing them.

## 4. Proofs

| Theorem | Says | Argument |
|---|---|---|
| `SlotsTypeCorrect`, `SlotsAlwaysPartitioned`, `RowsAlwaysDistinct` | the invariants of the slot map | `IInv`, the three together: distinctness of the returned rows needs that assigned and free slots are disjoint, which in turn needs the map's injectivity |
| `FreeListNeverExhausted`, `SlotsAlwaysSound` | `pop(0)` never meets an empty list; all of it as the run states it | from the partition by counting (`FreeCount`): free and assigned slots add up to `max_num_seqs`, and a batch has no more rows |
| `SlotStableWhileBatched` | a request that stays in the batch keeps its slot | one step, under `IInv` |
| `RingInvariant`, `ContextPathNeverRaises`, `RingsHoldTheirSuffix`, `DraftsStartFromAccepted`, `DraftsReadContiguousContext` | with the GPU mask, for any window, batch and lengths: the context path never raises, a ring holds its owner's last accepted rows, drafts start from and read those | see below |
| `SchedulerInvariant`, `QueuesAndBlocksTheorem`, `CountersMatchFlightTheorem`, `ReaddedTokensTheorem` | with at most two steps in flight, for any requests, blocks, budgets and draft lengths: queues, blocks, budget and optimistic counters agree with each other and with the flight, and what rejoins the worker's batch is known to it | see below |
| `RunnerInvariant`, `CountsAgreeAlways`, `SequenceIsFed`, `DiscardsAgree` | for any requests, prompt and model lengths, drafts, prefix hits, preemptions and aborts: every step starts where its requests' valid KV entries end and is given their tokens, the correction leaves the CPU with the GPU's counts, and what the runner discards is what the scheduler does not expect | see below |
| `RouterTypeCorrect`, `HealthzAgrees`, `TableAlwaysSound` | types; `/healthz` and `choose` agree | `IInv` relates the discovery thread's locals to the table: what is healthy was found, at every program point |
| `DeadWorkersDropped`, `SteadyWorkersListed`, `RoundsTellTruth` | what a replacement of the table contains | `IInv` carries through the round that probed workers were up, and that steady ones are found, listed or still to be probed |
| `RemapIsMinimal` | a key moves only if its worker left or its new one arrived | the best of a set, with ties broken by order, is unique |
| `TurnsAlwaysBalanced` | no candidate is more than one turn ahead, for any number of workers and any replacements of the table | `IInv` and `LastOnesServed`: the candidates in sorted order form a ring with `_rr` as a pointer, and those with one turn more are the last `k` places before it, for some `k` below their number |
| `RequestsAccountedFor`, `TransfersKeepTheirBlocks`, `AcceptedTokensAreRight` | for any requests, sessions, prompts, block sizes, pools and failing loads, with one step in flight, and with no prefix shared between requests if loads may be synchronous: nobody is lost between the queues, blocks under a transfer stay with their request, and no token computed from KV entries that are not there is accepted. Prefixes are shared only where every load ends later; the shared block of two synchronous loads is not covered (section 5) | see below |
| `AcceptedAlwaysHasDrafter` | for any arguments, repositories and registry in which no model of a dedicated speculator is listed as served by a drafter class (`SpeculatorsUnlisted`): a configuration that the validation and the inspection let through is one the runner constructs a drafter for, except the method "dspark" given for a checkpoint without a DSpark block | see below |
| `CachesAlwaysAgree`, `EncoderLimitsAlwaysKept`, `TargetAlwaysFindsItsOutputs` | for any requests, images, sizes and number of steps in flight: the worker's encoder cache is the one the scheduler has in mind, it and the budget are never exceeded, and under "fcfs" the target finds every output it looks up | see below |
| `InspectionAlwaysCurrent` | what a process believes of a class is what is installed | the invariant follows an answer through hash, file and subprocess: a hash in use is the installed file's, since nothing is installed while a process is inspecting, and every file on disk describes the version it is hashed under |
| `EveryExpertHasOneRank` | every routed expert is kept by exactly one rank, under a local number in range | division with remainder; ranks' ranges of experts are adjacent |
| `RatesAlwaysKeepTheLength` | an acceptance length that a configuration was accepted with becomes as many rates as there are tokens; they add up to it exactly and never rise | each step of the validation keeps the length until the last, which has it in range for the number of tokens of then; the rates' partial sums are whole units until they reach the length (induction along the rates) |
| `TargetAlwaysComplete` | every parameter of the target holds the tensor its layer uses it as, the ranks together hold all of every tensor, a reload leaves nothing of the version before | see below |
| `DrafterAlwaysSeesThisStep` | the drafter reads the outputs of its target layers, of the step it drafts for | see below |
| `LayersAlwaysServed`, `TablesAlwaysFit`, `BlocksAlwaysDisjoint` | for every model, backend and size: each layer has one metadata builder, of its backend, in the group of its blocks; block tables have room for the longest request; no two blocks share an element | see below |
| `ProfilingAlwaysCleanedUp` | nothing refers to the profiling run's cache | per phase, what it may still refer to; the first view of every layer, laid out by any of the four reshapes, is a view of the raw tensor allocated in that set-up, and a set-up that does not raise has one for every layer |

### The draft context

The ring's properties are not inductive: that a ring holds its suffix after a
step with rejections depends on how many rows that step had. `IInv` adds that a
request with drafts is decoding, so that a step in which something is rejected
has at most `NumSpec + 1` rows and hence, by `Window > NumSpec`, none that the
window cuts off (`DraftsReady`), and that every row drafted from is the last one
stored for its request, in the ring the slot map gives it (`AnchorsLinked`). The lemma about
one row's store (`StoreSegmentEffect`) says what any segment of a ragged batch
leaves in a ring of any size; flattening the batch and cutting it up again is
the identity by induction along the rows (`DataLemmas`). `GpuMask` is a
hypothesis: without it the rectangular reshape raises for some batches, which the
run allows for (`NeverRaises`) and section 5 lists.

### The scheduler

`IInv` is checked between any two actions, that is, inside `schedule()` as well.
Its parts: what has been planned stands before the loop's position, so nothing is
planned twice, and the request being tried has not been planned
(`PlannedBefore`); the remaining budget and the plan add up (`Budget`); blocks
cover what is computed and what is planned (`HeldBlocksCover`, `PlanCovered`); a
running request has computed all but one of the tokens it will optimistically
have, or is inside its prompt with no placeholder (`Counters`), and what is tried
or planned keeps it so (`Tried`, `PlannedSound`); placeholders are a sum over the
flight (`InFlightRows`); and a preempted request has left the previous step
before it can be resumed (`Readmission`). The last is what makes the sum exact: a
resumed request starts with no placeholders, so no step in flight may still
sample for it. It is true because the queue of batches holds two. `TwoInFlight`
(`InFlight <= 2`) is therefore a hypothesis; with three, TLC finds a request
preempted and resumed while the step before is in flight, and
`CountersMatchFlight` and `ReaddedTokensKnown` fail. The engine core's queue has
two entries under asynchronous scheduling.

### The model runner

The three invariants compare counts that four parties have at different times: the
scheduler's optimistic ones, the CPU's, those of the operations in the stream,
and the GPU's. `IInv` says how far each is from the truth (`length`, `kv`) and
why. `Pipeline` lists the seven places in which the steps that are not done can
be: between two calls of `execute_model` none is (`Idle`), the last one is in the
stream with its sampling (`Queued`), one runs (`Runs`), or one runs and the next
is in the stream (`RunsOne`); after a call the new step's inputs are enqueued,
behind nothing (`New`) or behind a step that runs (`NewNext`), or have reached the
GPU already (`NewRuns`). The rows of a step are the same in the plan, in the
persistent batch, in the stream and on the GPU (`RowsMatch`, `BatchIsLast`,
`BatchOnGpu`), and `prev_row` points at the row a request had
(`PrevRows`). On this rest the counts:

* `KnownTokens`, `ComputedTokens`: the scheduler's `num_tokens` lacks what steps
  have sampled and not yet reported; its `num_computed_tokens` is the end of the
  launched steps plus the drafts whose rejection has not been reported to it;
* `FedRows`, `InputRows`: the step that runs starts at `kv`; a row that is
  launched either knows its tokens (`FreshRow`) or takes them, and its start,
  from the row its request had in the step before, which has run
  (`RowOfSampled`) or still runs (`RowOfRunning`);
* `Corrections`: until the correction the CPU's count is too high by the drafts
  that were rejected, and it is the GPU's afterwards;
* `OutputsAhead`, `LastSampled`: the CPU's count of outputs, which decides what is
  discarded, is never behind the scheduler's, and what the GPU sampled last is
  the last token of its request.

The proof has one lemma per action; `ExecuteModel` is cut further into what it
does to a row (`PlannedRow`, `RowKept`, `RowMade`), to the rows remembered
(`RowsRemembered`) and to the stream (`StepEnqueued`). That at most two steps are
in flight is not an assumption here: the guard of `ExecuteModel` is the engine
core's queue of two batches, and the pipeline follows from it.

### The encoder cache

The scheduler decides now what a step may evict and what it need not encode; the
worker acts on it up to `InFlight` steps later. `EInv` therefore predicts the
worker: `W[i]` is its cache after the `i`-th planned step, found by replaying what
each step drops and encodes (`Replays`), and the last of them is the scheduler's
cache but for what is planned for, or has been dropped since, the last step
(`Foreseen`). A step is good when its `W[i]` fits and holds what its rows look up
(`Serves`); both are settled when the step is handed out (`CommitServes`) and cannot
change afterwards, as `W[i]` depends on earlier steps alone. So it is enough that
when a step is handed out all its rows refer to what they look up (`Ready`: an entry
in use is not evicted) and the scheduler's own cache fits (`CacheSound`).

What `_try_schedule_encoder_inputs` finds is described once (`Attempt`): the items
it chose fit into cache and budget, and each item that the shortened row reaches is
among them or is cached and referred to, because the loop stops in front of the
first that is neither. That the loop may stop there needs `mm_features` to be sorted
by offset, on which its `break` (`scheduler.py:1151`) and the runner's
(`gpu_model_runner.py:3155`) rely; `EncoderAssumption` says so. Between finding and
allocating, requests may be preempted; the finding stays true (`TryStands`), since
that frees references and gives the victim's share of the budget back.

A preempted request takes its row, and what the row was to encode, out of the step,
while the scheduler's cache keeps the hashes. Under "fcfs" this does not happen: the
victim is the last of the running requests, and those with a row come before the one
that is being tried (`PassInOrder`). Under "priority" it does (section 5), so
`TargetAlwaysFindsItsOutputs` has the policy as a hypothesis; the limits hold under
both, as the worker then has less than the scheduler believes.

### Waiting requests

What the run states is true because of what is known of the steps in between, and
`IInv` of `WaitingRequests_proofs` holds in the middle of `schedule()` and of
`update_from_output()` as well. Its parts: a request is in the one queue its
status names, or has just been stopped and is still to be taken out of `running`
(`Queues`, with `Stopped`); what a waiting request has computed, and what it holds,
for each reason to wait (`Counters`); the rows of the step that is planned or in
flight are those of running requests, start where these stand and lie in their
blocks (`Batch`); what is left of an output refers to requests that still run, or
are known to have gone (`Outcome`); a block with a transfer under way is in one
table, in no cache and in no row (`Transfers`); tables that share a block agree up
to it (`Sharing`). On this rest the contents: the entries a row reads are right by
the time it runs, if the loads before it succeed (`RowsReadRight`, with `Coming`),
what counts as computed is right or being loaded (`ComputedIsRight`), and what the
prefix cache offers is right when loads are never synchronous (`CachedIsRight`). A
failed load takes entries away; the proof of `TakeOutput` shows that whatever was
computed from them is no longer counted afterwards, for every request that shares
them.

Two hypotheses, both conditions under which the run checks the same properties:
`OneInFlight`, as scheduling is synchronous here and a late stop breaks the queues
otherwise (section 5; with two steps TLC finds `AllAccountedFor` violated), and `SyncUnshared`: when loads are synchronous, two requests
have no prefix in common. Otherwise a block that failed for both is invalidated for
the first only (section 5), and TLC finds a token accepted from it.

### The weights and the capture

`LoadWeights` writes, for each name of the checkpoint, pieces of a tensor into
slots of the parameters of a rank. `TargetIsComplete` holds because this is a
bijection: each slot of a rank is the place of exactly one pair of a name and a
part (`AttnPlaced`, `MLPPlaced`, `CompressorPlaced`, `GatePlaced`, `ExpertPlaced`,
together `EveryName` and `EverySlot`), so a load leaves exactly the memory that the
names determine (`MemoryIsComplete`), whatever was there (`LoadReplaces`), and the
parts that ranks take cut a tensor up (`TakenRight`, `OneShare`: division again).
The invariant then is that a loaded target is that memory, for the version last
loaded.

The forward pass folds over the layers; a fold unfolds into its values after each
layer (`FoldExists`, `FoldIterates` in `DataLemmas`). After `k` layers every target
layer below `k` has its output in its column, except that the last one may still
be on its way in the stream if the next layer is to write it (`Passed`). The last
layer is never deferred, so nothing is on its way when the pass ends.

### The accepted configuration

`AcceptedHasDrafter` relates three places: `SpeculativeConfig.__post_init__`, which
derives the method, `ModelConfig`, which inspects the draft's class in the
registry, and the runner, which constructs a drafter by the method
(`gpu_model_runner.py:570-640`). `ValidatedSoFar` follows the configuration
through them: past the validation, and also when the start fails later, it is
what `__post_init__` made of the arguments. The proof goes through the methods it
can have. Two of them have no branch in the runner or a branch that does not suit
every draft. `mlp_speculator` passes `__post_init__` and the runner would raise
(`gpu_model_runner.py:635`), but the registry has its class commented out
(`registry.py:634-636`), so the inspection refuses the draft before that;
`SpeculatorsUnlisted` is this fact about the registry. The method "dspark", given
for a checkpoint that has no DSpark block, or read off its name, passes and leads
to a proposer without a model of its kind: this is the exception in the property,
and section 5 lists it.

### The KV cache set-up

`CacheIInv` follows the engine's calls: which set-up the views, pools, graphs and
registrations belong to in each stage, and that groups and metadata builders are
those that the model's groups lead to. `LayersAlwaysServed` follows from it and the
functions of the set-up. `TablesAlwaysFit` needs more: the input batch is the one
the runner was constructed with, for a `max_model_len` that has only shrunk since,
or was made for the groups (`BatchKnown`). `may_reinitialize_input_batch` keeps the
first when block sizes agree, although the model may need room for draft blocks on
top; `RoomForDrafts` is the hypothesis that this does not happen, which is to say
that a model with Mamba layers and draft blocks alone does not have the placeholder's
block size. TLC shows that it is needed (section 5).

`BlocksAlwaysDisjoint` is one argument for all layouts. Whatever its strides, a
view cuts a raw tensor of `n` blocks into slots of one size `Q`, such that an
element `x` that a block writes lies in slot `x \div Q`, and that slot is the
block's own modulo `n` (`Slotted`). For pages of keys and values in turn `Q` is a
page; where halves come first, half a page; where layers lie side by side, a
layer's page within a block. That the slots of different blocks, of different
kernel-sized parts of a block, and of layers side by side are disjoint is arithmetic
of division.

### Assumptions and limits

Assumptions are those of the modules' `ASSUME`s (`SlotAssumption`,
`RingAssumption`, `RouterAssumption`, `StartupAssumption`, `WeightAssumption`,
`CaptureAssumption`, `SpeculativeAssumption`, `SetupAssumption`,
`RunnerAssumption`, `WaitingAssumption`, `EncoderAssumption` and the like),
which TLC evaluates in the runs, and the hypotheses named above. They say what
a value is of (a number of rows is a natural, an argument has the fields of a
`SpeculativeConfig`, a rewritten checkpoint's `n_predict` is a count), with
these exceptions, which are about the system: `mm_features` is sorted by
offset, an image fits by itself into the encoder cache and a step's encoder
budget, and equal hashes stand for equal images; heads divide among the ranks;
the layers of a KV cache group have one spec and a block size that their
backends can split; layers on one raw tensor have pages of one size and,
without Mamba layers, backends that agree on where the block index is; a padded
page, or a page without halves, is only given to a backend whose cache has the
block index first, as the note at `gpu_model_runner.py:7271-7277` requires. The
invariants as the runs state them are not inductive; each proof module says
which strengthening is.

Induction over data is done with sets: a predicate becomes the set of the
numbers it holds for, and `DataLemmas` proves that a set with 0 that is closed
under successors has all naturals (`Induction`), that a recursion along them has a
solution (`Recursion`), and from these what `FlattenSeq` and the folds of the
community modules compute (`FlattenUnfolds`, `FlattenKeeps`, `TotalIsSum`,
`FoldIterates`). A `CASE` with overlapping guards means any of its arms, where TLC
takes the first; the definitions the proofs rest on use `IF` where the order
matters.

Only model-checked:

* liveness (`EventuallyListed`, `BackendNeverHoldsHandler`, `EveryRequestEnds`,
  `EveryRequestLeaves`), which the prover does not reach;
* the planner (`PlanIsOptimal`, `NonAnticipating`), whose claims are about products
  of confidences along a prefix, defined by recursion;
* `CudaGraphs`.

## 5. Where documents and code differ

With a run:

* `startup_draft`: the drafter's `load_weights` stacks only `attn.wq_a` and
  `attn.wkv` (`overlay/v1/spec_decode/dspark.py:15-18`). For
  `mtp.N.ffn.shared_experts.w1` and `w3` it finds no parameter, logs "Skipping
  unknown DSpark weight" and goes on, so the shared experts' `gate_up_proj` keeps
  what it was allocated with. The target maps both
  (`overlay/models/deepseek_v4/nvidia/model.py:1952-1953`). Drafts are verified, so
  this costs acceptance, not correctness of the output.

Read off the code while modelling, without a run of their own. The models follow
the code; where a configuration below would violate a property, the instance
leaves it out, and this list says so.

*Draft context.*
* Slots are reclaimed for every id outside the batch, not only for finished
  requests (`docs/PATCHES.md:40`). A request that a step leaves out may come back
  to another ring. `RingHoldsStoredSuffix` says what still holds.
* Without the GPU mask (off by default, on in the deployments' settings) the
  rectangular reshape checks divisibility, not that every request contributed
  the same number of rows (`docs/PATCHES.md:72`).
* A draft attends to `min(position + 1, window)` entries even if its request
  stored fewer. Behind a prefix hit it reads rows of the slot's former owner. This
  affects acceptance only; `DraftReadsContiguousContext` says when the context is
  right, and its run has no prefix hits.

*Scheduler.*
* Under asynchronous scheduling draft placeholders are installed for prefill
  chunks (`scheduler.py:1487-1498`), which the synchronous path drops: a request's
  last prompt chunk is scheduled with drafts the worker does not have.
* A streaming session that stops by a late output while it is preempted is put
  back into `waiting` for its next input and then removed from it with the stopped
  requests (`scheduler.py:1541-1546`; the comment at 1476 says it continues).
  `InFlight` is 1 in the run `waiting`.
* A block that failed to load and is shared by two requests is handled for the
  first of them only: "this request can still consider this block as computed when
  rescheduled" (`scheduler.py:2246-2249`). With synchronous loads and chunked
  prefill the second one may use it before it is recomputed. The run's requests
  share no prefix.
* A session that waits for input keeps its blocks; with
  `--no-scheduler-reserve-full-isl` a half-loaded request at the head of the queue
  does as well, and the loop stops at it.
* Encoder inputs: the range of embeddings starts shifted for the drafter but ends
  unshifted (`scheduler.py:1223-1226`), so the drafter may miss an output although
  the comment at 1197 takes the shift into account. The model shows it (`missed` has
  "drafter"); the property is about the target.
* Priority preemption drops the victim's `scheduled_encoder_inputs` but leaves the
  hash cached (`scheduler.py:452-478`): a later request with the same image is not
  sent for encoding. `TargetFindsItsOutputs` fails under `Policy = "priority"`; the
  run has "fcfs".
* Two adjacent images that together exceed the encoder cache stall their request
  for ever when the drafter's shift is on; the run's images are apart.

*Model runner.*
* With `cudagraph_mode` FULL the drafter gets PIECEWISE keys
  (`dspark_proposer.py:416-431`), but `_dummy_run` captures drafts in the PIECEWISE
  pass only (`gpu_model_runner.py:6151-6160`), which FULL does not have: the first
  drafted step then meets a key without a graph, when "any unexpected cudagraph
  capturing will be detected and raise an error" (`gpu_model_runner.py:6727-6731`).
  The run has modes without this gap.
* A hybrid Mamba model whose attention layout starts with the two halves and which
  shares caches between layers raises a `KeyError` in
  `_update_hybrid_attention_mamba_layout` (the model's phase "failed"); a single
  Mamba group whose block size is that of the placeholder batch keeps a table that
  is too narrow by its speculative blocks; attention groups of different layouts on
  one raw tensor would overlap, which `SetupAssumption` excludes.
* A shutdown releases the target's graphs and caches, not the drafter's;
  `update_max_model_len` leaves the drafter's maximum length as it was.

*Start-up.*
* Only the file that a class is registered under is hashed. For
  `vllm.models.deepseek_v4` this is the package's `__init__.py`, so a changed
  `nvidia/model.py` keeps its old information; `InspectionIsCurrent` is stated for
  classes defined in the hashed file. A failed inspection is remembered for the
  life of the process.
* `num_speculative_tokens` may be absent for an MTP draft by its comment
  (`speculative.py:87-88`), but raises a `TypeError` at 734. A multiple of
  `n_predict` is accepted (795-803) although DSpark drafts one block only. A DSpark
  checkpoint whose name lacks "dspark" becomes a plain draft model.
* The method "dspark" is accepted for any draft checkpoint, also when it is read off
  a name. For one without a DSpark block the start fails only while the drafter is
  constructed or loaded;
  `AcceptedHasDrafter` names it as an exception. The validation also knows the
  method `mlp_speculator`, for which the runner has no drafter
  (`gpu_model_runner.py:635`); its class is commented out of the registry
  (`registry.py:634-636`), so that the start is refused before.
* `reload_weights` reloads the target and leaves the drafter as it was; with MegaMoE
  a second load has no effect on the transformed experts, so `Reload` excludes it.
  `dspark_target_layer_ids` may name layer -1, whose column the target never fills.

*Router.* A handler whose client stops reading is held for as long as the client
stays connected: `REQUEST_TIMEOUT` is the timeout of the socket to the backend, and
`wfile.write` (444, 451) has none. A malformed `AWS_ASG_TARGETS` entry ends the
discovery thread and not the process (`asg_targets` is called outside the `try`, at
221), after which `/healthz` answers 503 for ever. A sticky session also leaves a healthy worker when a better scoring one
joins (`infra/aws/README.md:27-29` says it stays). `MinimalRemap` is what holds.

## 6. Not modelled

Left out of definitions that otherwise follow the code:

* `Admit` of `Scheduler`: `full_sequence_must_fit` (`scheduler.py:730`), which makes
  an admission fail where the whole prompt would not fit; the deployment's start
  script turns it off (`start-deepseek-v4-flash-dspark-rtx4.sh:213`).
* `Wrapped` of `SpeculativeSetup`: the registry is asked a second time for the
  rewritten architectures of EAGLE and hidden-state drafts (`update_arch_`,
  `speculative.py:681`, 776). An `n_predict` of 0 counts as absent, where line 797
  divides by it.
* `Candidates` and `Resolved` of `ModelRegistry`: the Terratorch backend; the ways
  in which `_try_resolve_transformers` raises (`registry.py:1105-1120`) are an empty
  list of candidates; the first architecture the registry knows is taken, where the
  code (1202-1254) goes on to the next if a class cannot be imported.
* `BlockSlots` of `WeightLoading`: the gate's `e_score_correction_bias` is always
  there, which is so for `topk_method` "noaux_tc" (`nvidia/model.py:776`).
* `BufferIndex` of `TargetCapture`: the columns are in the order of the layers,
  where the code (1792-1795) takes the order of `dspark_target_layer_ids`. A list
  that is not strictly increasing is an error (`spec_decode/dspark.py:113-117`).

Parts that are left out altogether:

LoRA, Mamba block splits, structured output, pooling, encoder connectors and
`reset_prefix_cache` in the scheduler (half of the last is in `AsyncScheduler`,
outside the repository); pipeline ranks, Mamba states, ngram drafting, pooling,
M-RoPE, LoRA, logprobs and EPLB in the model runner; timing and diagnostics in the
proposer; header and body transformations, keys and formatting in the router;
config hashing and deprecated aliases in the speculative configuration; the tables
of model names; replicas of experts and pipeline stages in weight loading; tensor
numerics and kernels. `overlay/envs.py` is a table of getters and
`kernel_warmup.py` runs kernels for their effect on compilation caches: neither has
state that a property could be about. The kernels, the provisioning and start
scripts and the benchmarks are straight-line code. `PROJECT.json` gives the reason
per component, and for each hazard without a property why there is none.

## 7. What could come next

1. *Router*: request transformation (priority clamp, defaults, content parts,
   choice of the sticky key) as functions against their documentation.
2. *Scheduler*: the Mamba block split and pipeline ranks; drafts and asynchronous
   scheduling in `WaitingRequests`, which would make the late stop of a preempted
   session reachable.
3. *Proofs*: the invariants of `CudaGraphs`, whose buffers keep what earlier steps
   left; the planner's optimality, once products are functions.
