---------------------------- MODULE EncoderCache ----------------------------
(* Multimodal inputs under chunked prefill. The scheduler decides which      *)
(* encoder inputs a step computes and which encoder outputs a worker keeps,  *)
(* from a cache of its own that holds no tensors; the worker runs the        *)
(* encoder, keeps the outputs by hash, drops those it is told to, and looks  *)
(* up every output that the tokens of a step need. Up to InFlight steps are  *)
(* planned before the worker runs the first of them.                         *)
(*                                                                           *)
(* External, modelled from their use: EncoderCacheManager, the KV cache      *)
(* manager (a number of tokens, with prefix hits of any listed length), and  *)
(* the request queue. A request is one output token long. EC connectors and  *)
(* encoder-decoder models are left out.                                      *)
EXTENDS Integers, FiniteSets, SequencesExt, FiniteSetsExt

CONSTANTS
  Requests,
  Prompt,      \* prompt lengths
  Features,    \* mm_features: sequences of [offset, length, embeds, hash], where
               \* embeds are the places of the item that take an embedding
  Priority,    \* priorities, for the policy of that name
  Policy,      \* "fcfs" or "priority"
  Shifts,      \* 1 with an EAGLE-style drafter, DSpark among them, else 0
  Chunked,     \* values of disable_chunked_mm_input
  Hits,        \* lengths of prefix-cache hits
  Aborts,      \* requests whose client may disconnect
  TokenBudget, \* max_num_batched_tokens
  EncoderBudget,  \* max_num_encoder_input_tokens
  CacheSize,   \* encoder_cache_size, in embeddings
  KVTokens, MaxRunning, InFlight

Items == UNION {Range(Features[r]) : r \in Requests}

(* An item fits into a step's budget and into the cache by itself, the same  *)
(* hash stands for the same item, and mm_features is sorted by offset.       *)
ASSUME EncoderAssumption ==
  /\ Requests \subseteq Nat \ {0} /\ IsFiniteSet(Requests)
  /\ Prompt \in [Requests -> Nat] /\ Priority \in [Requests -> Int]
  /\ Hits \subseteq Nat /\ {TokenBudget, EncoderBudget, CacheSize} \subseteq Nat
  /\ Shifts \subseteq {0, 1} /\ Policy \in {"fcfs", "priority"}
  /\ Features \in [Requests -> Seq(Items)]
  /\ \A r \in Requests : \A i, j \in DOMAIN Features[r] :
       i <= j => Features[r][i].offset <= Features[r][j].offset
  /\ \A f \in Items :
       /\ f.offset \in Nat /\ f.length \in Nat /\ f.embeds \subseteq 0 .. f.length - 1
       /\ Cardinality(f.embeds) <= EncoderBudget /\ Cardinality(f.embeds) <= CacheSize
       /\ \A g \in Items : f.hash = g.hash => f.embeds = g.embeds /\ f.length = g.length

VARIABLES
  shift, whole,  \* shift_computed_tokens; disable_chunked_mm_input
  req_status, num_computed, running, waiting,
  held,          \* KV tokens allocated to a request
  cache,         \* the EncoderCacheManager: [refs, freeable, freed]
  pc, at,        \* where schedule() is: "idle", "running", "allocate", "waiting"
  token_budget, budget,  \* token_budget and encoder_compute_budget
  rows,          \* rows planned so far
  try,           \* result of _try_schedule_encoder_inputs
  preempted,     \* whether this pass has preempted
  flight,        \* planned steps, oldest first; done: the worker has run it
  worker,        \* the worker's encoder_cache, by hash
  missed         \* ghost: "target" or "drafter" looked up what is not there

config == <<shift, whole>>
queues == <<req_status, num_computed, running, waiting, held>>
locals == <<at, token_budget, budget, rows, try, preempted>>
encoderVars == <<config, queues, cache, pc, locals, flight, worker, missed>>

Without(q, S) ==
  LET kept[i \in 0 .. Len(q)] ==
        IF i = 0 THEN <<>>
        ELSE IF q[i] \in S THEN kept[i - 1] ELSE Append(kept[i - 1], q[i])
  IN  kept[Len(q)]
Total(f) == FoldFunction(+, 0, f)
NumEmbeds(f) == Cardinality(f.embeds)
Size(H) == Total([h \in H |-> NumEmbeds(CHOOSE f \in Items : f.hash = h)])
EmbedsIn(f, from, to) == f.embeds \cap (from .. to - 1)

-----------------------------------------------------------------------------
(* EncoderCacheManager: refs maps each cached hash to the requests that use  *)
(* it, freeable has those nobody uses, oldest first, and freed those evicted *)
(* since the last step was handed out.                                       *)
EmptyCache == [refs |-> [h \in {} |-> {}], freeable |-> <<>>, freed |-> {}]
Cached(m) == DOMAIN m.refs
FreeSlots(m) == CacheSize - Size(Cached(m))

Mut_Touch(m, h, r) == m
Touch(m, h, r) == [m EXCEPT !.refs[h] = @ \cup {r}, !.freeable = Without(@, {h})]
Allocate(m, H, r) ==
  [m EXCEPT !.refs = [x \in Cached(m) \cup H |->
     (IF x \in Cached(m) THEN m.refs[x] ELSE {}) \cup (IF x \in H THEN {r} ELSE {})]]
Release(m, h, r) ==
  IF h \notin Cached(m) \/ m.refs[h] = {} THEN m
  ELSE [m EXCEPT !.refs[h] = @ \ {r},
                 !.freeable = IF m.refs[h] = {r} THEN Append(@, h) ELSE @]
ReleaseThose(m, r, S) ==
  FoldLeft(LAMBDA x, f : IF f \in S THEN Release(x, f.hash, r) ELSE x, m, Features[r])
ReleaseAll(m, r) == ReleaseThose(m, r, Items)

CanAllocate(m, embeds) == embeds <= FreeSlots(m) + Size(Range(m.freeable))
(* can_allocate makes room by evicting what nobody has used for longest.     *)
Evicted(m, embeds) ==
  LET enough == {k \in 0 .. Len(m.freeable) :
                   FreeSlots(m) + Size(Range(SubSeq(m.freeable, 1, k))) >= embeds}
      gone == Range(SubSeq(m.freeable, 1, Min(enough)))
  IN  [refs |-> [h \in Cached(m) \ gone |-> m.refs[h]],
       freeable |-> Without(m.freeable, gone), freed |-> m.freed \cup gone]

-----------------------------------------------------------------------------
(* _try_schedule_encoder_inputs: the items of r are looked at in order until *)
(* one is out of reach or cannot be had; `n` is how far the step may go.     *)

NoInputs(n, left, m) == [n |-> n, left |-> left, inputs |-> {}, cache |-> m]
Untried == [req |-> 0, n |-> 0, left |-> 0, inputs |-> {}]
Stopped(a, n) == [a EXCEPT !.n = n, !.stop = TRUE]
Before(f, first) == Max({0, f.offset - (first + shift)})
Reached(f, first, n) ==
  EmbedsIn(f, Max({0, first - f.offset}), Min({f.length, first + n - f.offset}))

Consider(a, r, i, first) ==
  LET f == Features[r][i]
      embeds == a.embeds + NumEmbeds(f)
  IN  IF a.stop \/ f.offset >= first + a.n + shift THEN Stopped(a, a.n)
      ELSE IF f.offset + f.length <= first \/ f.hash \in a.hashes THEN a
      ELSE IF f.hash \in Cached(a.cache) THEN [a EXCEPT !.cache = Touch(@, f.hash, r)]
      ELSE IF \/ whole /\ first < f.offset /\ first + a.n < f.offset + f.length
              \/ NumEmbeds(f) > a.left
              \/ ~ CanAllocate(a.cache, embeds)
           THEN Stopped(a, Before(f, first))
      ELSE IF Reached(f, first, a.n) = {}
           THEN [a EXCEPT !.cache = Evicted(@, embeds)]
      ELSE [a EXCEPT !.cache = Evicted(@, embeds), !.left = @ - NumEmbeds(f),
                     !.embeds = embeds, !.hashes = @ \cup {f.hash},
                     !.inputs = @ \cup {i}]

TryScheduleEncoderInputs(r, first, n, left, m) ==
  IF n = 0 THEN NoInputs(n, left, m)
  ELSE LET start == [n |-> n, left |-> left, inputs |-> {}, cache |-> m,
                     hashes |-> {}, embeds |-> 0, stop |-> FALSE]
           a == FoldLeft(LAMBDA x, i : Consider(x, r, i, first), start,
                         [i \in 1 .. Len(Features[r]) |-> i])
       IN  [n |-> a.n, left |-> a.left, inputs |-> a.inputs, cache |-> a.cache]

-----------------------------------------------------------------------------
(* schedule()                                                                *)

HashOf(r, i) == Features[r][i].hash
AllocateInputs(m, r, inputs) == Allocate(m, {HashOf(r, i) : i \in inputs}, r)
FitsKV(r, end) ==
  end + Total([x \in Requests \ {r} |-> held[x]]) <= KVTokens
Row(r, first, t) == [req |-> r, first |-> first, n |-> t.n, inputs |-> t.inputs]
InputEmbeds(row) == Total([i \in row.inputs |-> NumEmbeds(Features[row.req][i])])

(* encoder_compute_budget is written back only if inputs were scheduled.     *)
BudgetAfter(t) == IF t.inputs = {} THEN budget ELSE t.left

StartStep ==
  /\ pc = "idle" /\ Len(flight) < InFlight /\ running \o waiting # <<>>
  /\ pc' = "running" /\ at' = 1
  /\ token_budget' = TokenBudget /\ budget' = EncoderBudget
  /\ rows' = <<>> /\ preempted' = FALSE
  /\ UNCHANGED <<config, queues, cache, try, flight, worker, missed>>

(* A request that gets no tokens keeps the references it was given and is    *)
(* passed over.                                                              *)
ConsiderRunning ==
  /\ pc = "running" /\ at <= Len(running) /\ token_budget > 0
  /\ LET r == running[at]
         t == TryScheduleEncoderInputs(r, num_computed[r],
                Min({token_budget, Prompt[r] - num_computed[r]}), budget, cache)
     IN  /\ cache' = t.cache
         /\ IF t.n = 0 THEN at' = at + 1 /\ UNCHANGED <<try, pc>>
            ELSE /\ try' = [req |-> r, n |-> t.n, left |-> t.left, inputs |-> t.inputs]
                 /\ pc' = "allocate" /\ UNCHANGED at
  /\ UNCHANGED <<config, queues, token_budget, budget, rows, preempted, flight, worker, missed>>

ScheduleRunning ==
  LET r == try.req IN
  /\ pc = "allocate" /\ FitsKV(r, num_computed[r] + try.n)
  /\ held' = [held EXCEPT ![r] = num_computed[r] + try.n]
  /\ rows' = Append(rows, Row(r, num_computed[r], try))
  /\ token_budget' = token_budget - try.n
  /\ budget' = BudgetAfter(try)
  /\ cache' = AllocateInputs(cache, r, try.inputs)
  /\ at' = at + 1 /\ pc' = "running"
  /\ try' = Untried
  /\ UNCHANGED <<config, req_status, num_computed, running, waiting, preempted, flight, worker,
                 missed>>

Victim ==
  IF Policy = "fcfs" THEN Last(running)
  ELSE CHOOSE r \in Range(running) : \A x \in Range(running) :
         Priority[x] < Priority[r] \/ (Priority[x] = Priority[r] /\ x <= r)

(* No room for KV entries: the victim gives up its KV and encoder entries;   *)
(* if this pass had scheduled it, its row, tokens and encoder inputs go too. *)
PreemptVictim ==
  LET r == try.req
      v == Victim
      planned == {row \in Range(rows) : row.req = v}
  IN
  /\ pc = "allocate" /\ ~ FitsKV(r, num_computed[r] + try.n)
  /\ running' = Without(running, {v})
  /\ waiting' = <<v>> \o waiting
  /\ req_status' = [req_status EXCEPT ![v] = "waiting"]
  /\ num_computed' = [num_computed EXCEPT ![v] = 0]
  /\ held' = [held EXCEPT ![v] = 0]
  /\ cache' = ReleaseAll(cache, v)
  /\ rows' = Without(rows, planned)
  /\ token_budget' = token_budget + Total([row \in planned |-> row.n])
  /\ budget' = budget + Total([row \in planned |-> InputEmbeds(row)])
  /\ at' = at - Cardinality(planned)
  /\ preempted' = TRUE
  /\ IF v = r THEN pc' = "commit" /\ try' = Untried ELSE UNCHANGED <<pc, try>>
  /\ UNCHANGED <<config, flight, worker, missed>>

EndRunning ==
  /\ pc = "running" /\ (at > Len(running) \/ token_budget = 0)
  /\ pc' = IF preempted THEN "commit" ELSE "waiting"
  /\ UNCHANGED <<config, queues, cache, locals, flight, worker, missed>>

MayAdmit == waiting # <<>> /\ Len(running) < MaxRunning /\ token_budget > 0
NextWaiting ==
  IF Policy = "fcfs" THEN Head(waiting)
  ELSE CHOOSE r \in Range(waiting) : \A x \in Range(waiting) :
         Priority[r] < Priority[x] \/ (Priority[r] = Priority[x] /\ r <= x)
Admission(r, hit) ==
  TryScheduleEncoderInputs(r, hit, Min({token_budget, Prompt[r] - hit}), budget, cache)

Admit(hit) ==
  LET r == NextWaiting
      t == Admission(r, hit)
  IN
  /\ pc = "waiting" /\ MayAdmit /\ hit < Prompt[r]
  /\ t.n > 0 /\ FitsKV(r, hit + t.n)
  /\ waiting' = Without(waiting, {r})
  /\ running' = Append(running, r)
  /\ req_status' = [req_status EXCEPT ![r] = "running"]
  /\ num_computed' = [num_computed EXCEPT ![r] = hit]
  /\ held' = [held EXCEPT ![r] = hit + t.n]
  /\ rows' = Append(rows, Row(r, hit, t))
  /\ token_budget' = token_budget - t.n
  /\ budget' = BudgetAfter(t)
  /\ cache' = AllocateInputs(t.cache, r, t.inputs)
  /\ UNCHANGED <<config, pc, at, try, preempted, flight, worker, missed>>

(* No tokens to be had: the references stay. No KV: they are taken back.     *)
Refuse(hit) ==
  LET r == NextWaiting
      t == Admission(r, hit)
  IN
  /\ pc = "waiting" /\ MayAdmit /\ hit < Prompt[r]
  /\ \/ t.n = 0 /\ cache' = t.cache
     \/ t.n > 0 /\ ~ FitsKV(r, hit + t.n) /\ cache' = ReleaseAll(t.cache, r)
  /\ pc' = "commit"
  /\ UNCHANGED <<config, queues, locals, flight, worker, missed>>

EndWaiting ==
  /\ pc = "waiting" /\ ~ MayAdmit
  /\ pc' = "commit"
  /\ UNCHANGED <<config, queues, cache, locals, flight, worker, missed>>

(* The SchedulerOutput, and _update_after_schedule.                          *)
CommitStep ==
  /\ pc = "commit"
  /\ flight' = Append(flight, [rows |-> rows, freed |-> cache.freed, done |-> FALSE])
  /\ cache' = [cache EXCEPT !.freed = {}]
  /\ num_computed' = [r \in Requests |->
       num_computed[r] + Total([row \in {x \in Range(rows) : x.req = r} |-> row.n])]
  /\ rows' = <<>> /\ pc' = "idle"
  /\ UNCHANGED <<config, req_status, running, waiting, held, at, token_budget, budget, try,
                 preempted, worker, missed>>

-----------------------------------------------------------------------------
(* The worker, and what comes back                                           *)

(* _gather_mm_embeddings: the outputs that tokens first + k .. look up.      *)
LookedUp(row, k) ==
  {f.hash : f \in {g \in Range(Features[row.req]) :
     /\ g.offset < row.first + k + row.n
     /\ g.offset + g.length > row.first + k
     /\ Reached(g, row.first + k, row.n) # {}}}
Misses(step, k, have) == \E row \in Range(step.rows) : LookedUp(row, k) \ have # {}

(* Outputs to free are dropped first, then the encoder runs, ...             *)
Encoded(step) ==
  UNION {{HashOf(row.req, i) : i \in row.inputs} : row \in Range(step.rows)}
Mut_EmptyStepSkipped(step) ==
  IF step.rows = <<>> THEN worker ELSE (worker \ step.freed) \cup Encoded(step)
AfterEncoding(step) == (worker \ step.freed) \cup Encoded(step)

(* ... then the target and the drafter, a token ahead, look up what they     *)
(* need.                                                                     *)
Execute ==
  LET i == CHOOSE k \in 1 .. Len(flight) :
             ~ flight[k].done /\ \A j \in 1 .. k - 1 : flight[j].done
      step == flight[i]
      have == AfterEncoding(step)
  IN
  /\ pc = "idle" /\ \E k \in 1 .. Len(flight) : ~ flight[k].done
  /\ worker' = have
  /\ missed' = missed \cup (IF Misses(step, 0, have) THEN {"target"} ELSE {})
                      \cup (IF shift = 1 /\ Misses(step, 1, have) THEN {"drafter"} ELSE {})
  /\ flight' = [flight EXCEPT ![i].done = TRUE]
  /\ UNCHANGED <<config, queues, cache, pc, locals>>

(* _free_encoder_inputs: by the count that later steps have advanced.        *)
Mut_FreeEncoderInputs(m, r) ==
  ReleaseThose(m, r, {f \in Items : f.offset + f.length < num_computed[r]})
FreeEncoderInputs(m, r) ==
  ReleaseThose(m, r, {f \in Items : f.offset + f.length <= num_computed[r]})

Ended(step) == {row.req : row \in {x \in Range(step.rows) :
                  req_status[x.req] # "gone" /\ x.first + x.n = Prompt[x.req]}}
AfterRow(m, row) ==
  LET r == row.req
      freed == FreeEncoderInputs(m, r)
  IN  IF req_status[r] = "gone" THEN m
      ELSE IF row.first + row.n = Prompt[r] THEN ReleaseAll(freed, r) ELSE freed

Gone(S) ==
  /\ req_status' = [r \in Requests |-> IF r \in S THEN "gone" ELSE req_status[r]]
  /\ held' = [r \in Requests |-> IF r \in S THEN 0 ELSE held[r]]
  /\ num_computed' = [r \in Requests |-> IF r \in S THEN 0 ELSE num_computed[r]]
  /\ running' = Without(running, S)
  /\ waiting' = Without(waiting, S)

UpdateFromOutput ==
  /\ pc = "idle" /\ flight # <<>> /\ Head(flight).done
  /\ cache' = FoldLeft(AfterRow, cache, Head(flight).rows)
  /\ Gone(Ended(Head(flight)))
  /\ flight' = Tail(flight)
  /\ UNCHANGED <<config, pc, locals, worker, missed>>

AddRequest(r) ==
  /\ pc = "idle" /\ req_status[r] = "new"
  /\ req_status' = [req_status EXCEPT ![r] = "waiting"]
  /\ waiting' = Append(waiting, r)
  /\ UNCHANGED <<config, num_computed, running, held, cache, pc, locals, flight, worker, missed>>

Abort(r) ==
  /\ pc = "idle" /\ r \in Aborts /\ req_status[r] \in {"waiting", "running"}
  /\ cache' = ReleaseAll(cache, r)
  /\ Gone({r})
  /\ UNCHANGED <<config, pc, locals, flight, worker, missed>>

EncoderInit ==
  /\ shift \in Shifts /\ whole \in Chunked
  /\ req_status = [r \in Requests |-> "new"]
  /\ num_computed = [r \in Requests |-> 0] /\ held = [r \in Requests |-> 0]
  /\ running = <<>> /\ waiting = <<>>
  /\ cache = EmptyCache
  /\ pc = "idle" /\ at = 1 /\ token_budget = 0 /\ budget = 0 /\ rows = <<>>
  /\ try = Untried /\ preempted = FALSE
  /\ flight = <<>> /\ worker = {} /\ missed = {}

Engine ==
  \/ StartStep
  \/ ConsiderRunning
  \/ ScheduleRunning
  \/ PreemptVictim
  \/ EndRunning
  \/ \E hit \in Hits : Admit(hit)
  \/ \E hit \in Hits : Refuse(hit)
  \/ EndWaiting
  \/ CommitStep
  \/ Execute
  \/ UpdateFromOutput

EncoderNext ==
  \/ Engine
  \/ \E r \in Requests : AddRequest(r)
  \/ \E r \in Requests : Abort(r)

(* The engine loop runs as long as it has work.                              *)
EncoderSpec == EncoderInit /\ [][EncoderNext]_encoderVars /\ WF_encoderVars(Engine)

-----------------------------------------------------------------------------
(* Properties                                                                *)

(* Whatever was shared, evicted, released early by an optimistic count, or   *)
(* left by requests that were preempted or aborted: an output the target     *)
(* looks up is in the worker's cache ("Encoder cache miss").                 *)
TargetFindsItsOutputs == "target" \notin missed

(* What the worker keeps never exceeds the size the scheduler accounts for,  *)
(* although the worker only knows hashes to encode and hashes to drop.       *)
WorkerWithinCacheSize == Size(worker) <= CacheSize

(* One step's encoder work stays within its budget, also after a request     *)
(* that had inputs in it was preempted and its share given back.             *)
EncoderBudgetKept == Total([row \in Range(rows) |-> InputEmbeds(row)]) <= EncoderBudget

(* Neither limit that the scheduler keeps for the worker is ever exceeded.   *)
EncoderLimitsKept == WorkerWithinCacheSize /\ EncoderBudgetKept

(* Every request ends (there are finitely many, so the queues empty again    *)
(* and again): no two of them hold encoder outputs the other waits for, and  *)
(* an item that does not fit today does not stall its request.               *)
EveryRequestEnds == []<>(\A r \in Requests : req_status[r] \in {"new", "gone"})
=============================================================================
