------------------------------- MODULE Scheduler -------------------------------
(***************************************************************************)
(* The engine's scheduler (scheduler.py) under asynchronous scheduling     *)
(* with DSpark speculation: schedule() plans a step, the engine keeps up   *)
(* to two steps in flight, and update_from_output() applies the outcome of *)
(* the oldest one, by which time a later step has been planned on the      *)
(* assumption that nothing of it was rejected.                             *)
(*                                                                         *)
(* The engine core calls the scheduler from one thread.  One call of       *)
(* schedule() is a run of actions from StartStep to CommitStep, one per    *)
(* iteration of its loops; pc keeps every other action out meanwhile.      *)
(*                                                                         *)
(* A request is a number, in arrival order.  Token ids, block ids and      *)
(* sampling are left out: a request has numbers of tokens and of blocks,   *)
(* and the outcome of a step is how many tokens a row yields.              *)
(***************************************************************************)
EXTENDS Integers, FiniteSets, SequencesExt

CONSTANTS
  ReqIds,
  Priority,        \* a smaller number is scheduled first
  Prompt,          \* num_prompt_tokens
  MaxOutput,       \* max_tokens
  Eos,             \* requests that may stop before their length limit
  Aborts,          \* requests whose client may disconnect
  Policies,        \* scheduling policies
  Pauses,          \* pause states the engine is put in
  MaxRunning,      \* max_num_seqs
  MaxBatchTokens,  \* max_num_scheduled_tokens
  MaxModelLen,
  LongPrefill,     \* long_prefill_token_threshold; 0 is off
  PrefixHits,      \* lengths a prefix-cache hit may have; 0 is no hit
  NumSpec,         \* num_spec_tokens, also num_lookahead_tokens
  DraftLengths,    \* lengths the proposer may plan for its drafts
  BlockSize, NumBlocks,
  InFlight         \* steps the engine core keeps in flight

ASSUME SchedulerAssumption ==
  /\ ReqIds \subseteq Nat \ {0} /\ IsFiniteSet(ReqIds)
  /\ Priority \in [ReqIds -> Int]
  /\ MaxOutput \in [ReqIds -> Nat \ {0}]
  /\ Prompt \in [ReqIds -> 1 .. MaxModelLen - 1]
  /\ Policies \subseteq {"fcfs", "priority"}
  /\ Pauses \subseteq {"none", "new", "all"}
  /\ {MaxRunning, MaxBatchTokens, MaxModelLen, BlockSize, NumBlocks, InFlight} \subseteq Nat \ {0}
  /\ {LongPrefill, NumSpec} \subseteq Nat
  /\ PrefixHits \subseteq Nat /\ 0 \in PrefixHits
  /\ DraftLengths \subseteq 0 .. NumSpec
  /\ NumBlocks * BlockSize >= MaxModelLen  \* checked when the engine starts

VARIABLES
  policy, pause,
  status,        \* new, waiting, preempted, running or finished
  tokens,        \* num_tokens: prompt and received output
  computed,      \* num_computed_tokens
  placeholders,  \* num_output_placeholders
  specs,         \* len(spec_token_ids)
  chunk,         \* is_prefill_chunk
  blocks,        \* KV blocks held
  running, waiting,
  finished_ids,  \* finished_req_ids
  prev_step,     \* prev_step_scheduled_req_ids
  flight,        \* steps in flight, oldest first: request -> [spec, samples]
  pc, at, budget, current, plan, preempted,  \* locals of schedule()
  worker         \* requests the model runner has a cached state for

config   == <<policy, pause>>
requests == <<status, tokens, computed, placeholders, specs, chunk, blocks>>
queues   == <<running, waiting>>
locals   == <<pc, at, budget, current, plan, preempted>>
engine   == <<finished_ids, prev_step, flight, worker>>
vars     == <<config, requests, queues, locals, engine>>

Least(a, b) == IF a <= b THEN a ELSE b
Without(q, S) == FlattenSeq([i \in DOMAIN q |-> IF q[i] \in S THEN <<>> ELSE <<q[i]>>])
Live(r) == status[r] \in {"waiting", "preempted", "running"}
Total(f) == FoldFunction(+, 0, f)

-----------------------------------------------------------------------------
(* The queues.  waiting is a deque under fcfs and a heap under priority.   *)
Ahead(r, s) == Priority[r] < Priority[s] \/ (Priority[r] = Priority[s] /\ r <= s)

Peek ==
  IF policy = "fcfs" THEN Head(waiting)
  ELSE CHOOSE r \in ToSet(waiting) : \A s \in ToSet(waiting) : Ahead(r, s)

(* Whom to preempt: the most recently admitted, or the least important.    *)
Victim ==
  IF policy = "fcfs" THEN Last(running)
  ELSE CHOOSE r \in ToSet(running) : \A s \in ToSet(running) : Ahead(s, r)

Unfinished ==
  CASE pause = "all"  -> 0
    [] pause = "new"  -> Len(running)
    [] pause = "none" -> Len(running) + Len(waiting)

(* has_requests(): a finished request needs one more step, which tells the *)
(* worker to drop it.                                                      *)
HasRequests == Unfinished > 0 \/ finished_ids # {}

-----------------------------------------------------------------------------
(* The KV cache manager, as schedule() uses it: allocate_slots returns     *)
(* None when the blocks for n tokens, known or new, are not to be had.     *)
BlocksFor(n) == (Least(n, MaxModelLen) + BlockSize - 1) \div BlockSize
Fits(r, n)   == BlocksFor(n) - blocks[r] <= NumBlocks - Total(blocks)
Grown(r, n)  == IF BlocksFor(n) > blocks[r] THEN BlocksFor(n) ELSE blocks[r]

Chunked(n) == IF 0 < LongPrefill /\ LongPrefill < n THEN LongPrefill ELSE n

InModelLen(r, n) == Least(n, MaxModelLen - 1 - computed[r])

NumNewTokens(r) ==
  InModelLen(r, Least(Chunked(tokens[r] + specs[r] + placeholders[r] - computed[r]), budget))

Mut_ReachedAnyway(r) ==  \* mutant: no test of the placeholders, off by one
  computed[r] + 3 - placeholders[r] >= Prompt[r] + MaxOutput[r]

(* No further step: those in flight reach max_tokens whatever is rejected. *)
ReachedMaxTokens(r) ==
  placeholders[r] > 0 /\ computed[r] + 2 - placeholders[r] >= Prompt[r] + MaxOutput[r]

(* How many of n scheduled tokens are drafts.                              *)
SpecOf(r, n) ==
  LET beyond == n + computed[r] - tokens[r] - placeholders[r]
  IN IF beyond > 0 THEN Least(beyond, specs[r]) ELSE 0

With(f, r, row) == [q \in DOMAIN f \cup {r} |-> IF q = r THEN row ELSE f[q]]
Minus(f, r)     == [q \in DOMAIN f \ {r} |-> f[q]]

-----------------------------------------------------------------------------
(* schedule()                                                              *)
StartStep ==
  /\ pc = "idle" /\ HasRequests /\ Len(flight) < InFlight
  /\ pc' = "running" /\ at' = 1
  /\ budget' = IF pause = "all" THEN 0 ELSE MaxBatchTokens
  /\ plan' = <<>> /\ preempted' = FALSE
  /\ UNCHANGED <<current, config, requests, queues, engine>>

InLoop == pc = "running" /\ at <= Len(running) /\ budget > 0
Idles(r) == ReachedMaxTokens(r) \/ NumNewTokens(r) = 0

PassOver ==
  /\ InLoop /\ Idles(running[at])
  /\ at' = at + 1
  /\ UNCHANGED <<pc, budget, current, plan, preempted, config, requests, queues, engine>>

Consider ==
  /\ InLoop /\ ~Idles(running[at])
  /\ current' = [req |-> running[at], new |-> NumNewTokens(running[at])]
  /\ pc' = "allocate"
  /\ UNCHANGED <<at, budget, plan, preempted, config, requests, queues, engine>>

Allocate ==
  LET r == current.req
      n == current.new
  IN /\ pc = "allocate" /\ Fits(r, computed[r] + n + NumSpec)
     /\ blocks' = [blocks EXCEPT ![r] = Grown(r, computed[r] + n + NumSpec)]
     /\ plan' = With(plan, r, [new |-> n, spec |-> SpecOf(r, n), kind |-> "running"])
     /\ specs' = [specs EXCEPT ![r] = 0]
     /\ budget' = budget - n /\ at' = at + 1 /\ pc' = "running"
     /\ UNCHANGED <<current, preempted, status, tokens, computed, placeholders, chunk>>
     /\ UNCHANGED <<config, queues, engine>>

(* The victim had been scheduled in this very step.                        *)
Unplan(v) ==
  /\ plan' = Minus(plan, v) /\ at' = at - 1
  /\ budget' = budget + plan[v].new

FreeBlocks(S) == [r \in ReqIds |-> IF r \in S THEN 0 ELSE blocks[r]]

(* No blocks for the current request: preempt, and try again, unless it is *)
(* the current request itself that had to go.                              *)
Preempt ==
  LET v == Victim
  IN /\ pc = "allocate" /\ ~Fits(current.req, computed[current.req] + current.new + NumSpec)
     /\ running' = Without(running, {v})
     /\ waiting' = <<v>> \o waiting
     /\ status' = [status EXCEPT ![v] = "preempted"]
     /\ computed' = [computed EXCEPT ![v] = 0]
     /\ specs' = [specs EXCEPT ![v] = 0]
     /\ blocks' = FreeBlocks({v})
     /\ preempted' = TRUE
     /\ IF v \in DOMAIN plan THEN Unplan(v) ELSE UNCHANGED <<plan, at, budget>>
     /\ pc' = IF v = current.req THEN "commit" ELSE "allocate"
     /\ UNCHANGED <<current, tokens, placeholders, chunk, config, engine>>

Mut_AdmitsNow == pause = "none"  \* mutant: admits after a preemption as well

(* Nothing is admitted in a step that had to preempt, or while paused.     *)
AdmitsNow == ~preempted /\ pause = "none"

EndRunning ==
  /\ pc = "running" /\ (at > Len(running) \/ budget = 0)
  /\ pc' = IF AdmitsNow THEN "waiting" ELSE "commit"
  /\ UNCHANGED <<at, budget, current, plan, preempted, config, requests, queues, engine>>

(* A waiting or preempted request starts (again) behind a cached prefix.   *)
ToPrefill(r, hit) == Least(Chunked(tokens[r] - hit), budget)
MayAdmit == pc = "waiting" /\ waiting # <<>> /\ budget > 0 /\ Len(running) # MaxRunning

Admit ==
  LET r == Peek
  IN /\ MayAdmit
     /\ \E hit \in PrefixHits :
          /\ hit < tokens[r] /\ Fits(r, hit + ToPrefill(r, hit))
          /\ computed' = [computed EXCEPT ![r] = hit]
          /\ blocks' = [blocks EXCEPT ![r] = Grown(r, hit + ToPrefill(r, hit))]
          /\ plan' = With(plan, r, [new |-> ToPrefill(r, hit), spec |-> 0,
                                    kind |-> IF status[r] = "waiting" THEN "new" ELSE "resumed"])
          /\ budget' = budget - ToPrefill(r, hit)
     /\ waiting' = Without(waiting, {r})
     /\ running' = Append(running, r)
     /\ status' = [status EXCEPT ![r] = "running"]
     /\ UNCHANGED <<pc, at, current, preempted, tokens, placeholders, specs, chunk>>
     /\ UNCHANGED <<config, engine>>

EndWaiting ==
  /\ pc = "waiting"
  /\ MayAdmit => \E hit \in PrefixHits : hit < tokens[Peek] /\ ~Fits(Peek, hit + ToPrefill(Peek, hit))
  /\ pc' = "commit"
  /\ UNCHANGED <<at, budget, current, plan, preempted, config, requests, queues, engine>>

(* _update_after_schedule: the tokens of the step count as computed, and a *)
(* row that completes its request's known tokens gets placeholders, for    *)
(* the token it samples and for its drafts, and for its next drafts.       *)
CommitStep ==
  LET after(r)   == computed[r] + plan[r].new
      samples(r) == after(r) >= tokens[r] + placeholders[r]
      sampling   == {r \in DOMAIN plan : samples(r)}
  IN /\ pc = "commit"
     /\ computed' = [r \in ReqIds |-> IF r \in DOMAIN plan THEN after(r) ELSE computed[r]]
     /\ chunk' = [r \in ReqIds |-> IF r \in DOMAIN plan THEN ~samples(r) ELSE chunk[r]]
     /\ placeholders' = [r \in ReqIds |->
          IF r \in sampling THEN placeholders[r] + 1 + plan[r].spec ELSE placeholders[r]]
     /\ specs' = [r \in ReqIds |-> IF r \in sampling THEN NumSpec ELSE specs[r]]
     /\ flight' = Append(flight, [r \in DOMAIN plan |->
                                    [spec |-> plan[r].spec, samples |-> samples(r)]])
     /\ prev_step' = DOMAIN plan
     /\ worker' = (worker \ finished_ids) \cup DOMAIN plan
     /\ finished_ids' = {}
     /\ pc' = "idle" /\ at' = 1 /\ budget' = 0 /\ plan' = <<>> /\ preempted' = FALSE
     /\ current' = [req |-> 0, new |-> 0]
     /\ UNCHANGED <<status, tokens, blocks, config, queues>>

-----------------------------------------------------------------------------
(* A request that is done is dropped from self.requests; its fields go     *)
(* back to what they were, for nobody reads them.                          *)
Reset(f, S, value(_)) == [r \in ReqIds |-> IF r \in S THEN value(r) ELSE f[r]]

Mut_WaitingWithout(S) == waiting  \* mutant: only the running list is purged

(* A request may stop while preempted, by the output of an earlier step.   *)
WaitingWithout(S) == Without(waiting, S)

Drop(S) ==
  /\ status' = Reset(status, S, LAMBDA r : "finished")
  /\ chunk' = Reset(chunk, S, LAMBDA r : FALSE)
  /\ blocks' = FreeBlocks(S)
  /\ running' = Without(running, S)
  /\ waiting' = WaitingWithout(S)
  /\ finished_ids' = finished_ids \cup S

ComputedAfter(r, rejected) ==
  IF computed[r] > 0 THEN computed[r] - rejected ELSE computed[r]

Mut_PlaceholdersAfter(r, rejected, got) ==  \* mutant: rejections not subtracted
  placeholders[r] - got

PlaceholdersAfter(r, rejected, got) ==
  (IF placeholders[r] > 0 THEN placeholders[r] - rejected ELSE 0) - got

(* How many tokens a row of a step may yield, 0 if they stop the request:  *)
(* at its length limit, or at an end-of-sequence token.                    *)
Limit(r) == Least(MaxModelLen, Prompt[r] + MaxOutput[r])

Yields(r, row) ==
  {got \in 0 .. row.spec + 1 :
     IF got = 0 THEN r \in Eos \/ tokens[r] + row.spec + 1 >= Limit(r)
     ELSE tokens[r] + got < Limit(r)}

(* The lengths the proposer planned, one for every row of its batch; none  *)
(* for a step it was not called in.                                        *)
Plans(S) == [S -> DraftLengths] \cup {<<>>}

(* update_from_output.  Rows of requests that are gone are skipped.        *)
UpdateFromOutput ==
  LET step == Head(flight)
      live == {r \in DOMAIN step : Live(r)}
      sampled == {r \in live : step[r].samples}
  IN /\ pc = "idle" /\ flight # <<>>
     /\ \E got \in [sampled -> 0 .. NumSpec + 1], lengths \in Plans(live) :
          LET stopped == {r \in sampled : got[r] = 0}
              more    == sampled \ stopped
              rejected(r) == step[r].spec + 1 - got[r]
          IN /\ \A r \in sampled : got[r] \in Yields(r, step[r])
             /\ Drop(stopped)
             /\ tokens' = [r \in ReqIds |->
                  IF r \in stopped THEN Prompt[r]
                  ELSE IF r \in more THEN tokens[r] + got[r] ELSE tokens[r]]
             /\ computed' = [r \in ReqIds |->
                  IF r \in stopped THEN 0
                  ELSE IF r \in more THEN ComputedAfter(r, rejected(r)) ELSE computed[r]]
             /\ placeholders' = [r \in ReqIds |->
                  IF r \in stopped THEN 0
                  ELSE IF r \in more THEN PlaceholdersAfter(r, rejected(r), got[r])
                  ELSE placeholders[r]]
             /\ specs' = [r \in ReqIds |->
                  IF r \in stopped THEN 0
                  ELSE IF r \in DOMAIN lengths THEN lengths[r] ELSE specs[r]]
     /\ flight' = Tail(flight)
     /\ UNCHANGED <<prev_step, worker, config, locals>>

-----------------------------------------------------------------------------
(* Calls from outside, between two steps.                                  *)
AddRequest(r) ==
  /\ pc = "idle" /\ status[r] = "new"
  /\ \A s \in ReqIds : s < r => status[s] # "new"
  /\ status' = [status EXCEPT ![r] = "waiting"]
  /\ waiting' = Append(waiting, r)
  /\ UNCHANGED <<tokens, computed, placeholders, specs, chunk, blocks, running>>
  /\ UNCHANGED <<config, locals, engine>>

(* finish_requests                                                         *)
Abort(r) ==
  /\ pc = "idle" /\ r \in Aborts /\ Live(r)
  /\ Drop({r})
  /\ tokens' = [tokens EXCEPT ![r] = Prompt[r]]
  /\ computed' = [computed EXCEPT ![r] = 0]
  /\ placeholders' = [placeholders EXCEPT ![r] = 0]
  /\ specs' = [specs EXCEPT ![r] = 0]
  /\ UNCHANGED <<prev_step, flight, worker, config, locals>>

SetPauseState(p) ==
  /\ pc = "idle" /\ p # pause /\ pause' = p
  /\ UNCHANGED <<policy, requests, queues, locals, engine>>

Init ==
  /\ policy \in Policies /\ pause = "none"
  /\ status = [r \in ReqIds |-> "new"]
  /\ tokens = Prompt
  /\ computed = [r \in ReqIds |-> 0]
  /\ placeholders = [r \in ReqIds |-> 0]
  /\ specs = [r \in ReqIds |-> 0]
  /\ chunk = [r \in ReqIds |-> FALSE]
  /\ blocks = [r \in ReqIds |-> 0]
  /\ running = <<>> /\ waiting = <<>>
  /\ finished_ids = {} /\ prev_step = {} /\ flight = <<>>
  /\ worker = {}
  /\ pc = "idle" /\ at = 1 /\ budget = 0 /\ plan = <<>> /\ preempted = FALSE
  /\ current = [req |-> 0, new |-> 0]

Schedule ==
  \/ StartStep \/ PassOver \/ Consider \/ Allocate \/ Preempt \/ EndRunning
  \/ Admit \/ EndWaiting \/ CommitStep

Engine == Schedule \/ UpdateFromOutput

Client ==
  \/ \E r \in ReqIds : AddRequest(r) \/ Abort(r)
  \/ \E p \in Pauses : SetPauseState(p)

Next == Engine \/ Client

(* The engine core's busy loop runs for as long as it has work.            *)
Spec == Init /\ [][Next]_vars /\ WF_vars(Engine)

-----------------------------------------------------------------------------
(* Every counter of a request stays natural: computed, which outputs that  *)
(* arrive after a preemption would drag below zero (1381-1382), and the    *)
(* placeholders, which the two sides of the pipeline add to and take from. *)
TypeOK ==
  /\ policy \in Policies /\ pause \in Pauses \cup {"none"}
  /\ status \in [ReqIds -> {"new", "waiting", "preempted", "running", "finished"}]
  /\ \A f \in {tokens, computed, placeholders, specs, blocks} : f \in [ReqIds -> Nat]
  /\ chunk \in [ReqIds -> BOOLEAN]
  /\ {running, waiting} \subseteq Seq(ReqIds)
  /\ \A S \in {finished_ids, prev_step, worker, DOMAIN plan} : S \subseteq ReqIds
  /\ Len(flight) <= InFlight
  /\ pc \in {"idle", "running", "allocate", "waiting", "commit"}
  /\ at \in Nat \ {0} /\ budget \in 0 .. MaxBatchTokens

(* A request is in the queue its status names, once: also when it is       *)
(* preempted, resumed, aborted or stopped by an output that arrives while  *)
(* it waits to be resumed (stopped_preempted_reqs).                        *)
QueuesMatchStatus ==
  /\ IsInjective(running) /\ IsInjective(waiting)
  /\ ToSet(running) = {r \in ReqIds : status[r] = "running"}
  /\ ToSet(waiting) = {r \in ReqIds : status[r] \in {"waiting", "preempted"}}

(* num_output_placeholders of a live request counts what the steps in      *)
(* flight may still yield for it: per sampling row, one token and its      *)
(* drafts, through preemptions, rejections and skipped steps.              *)
Awaited(step, r) == IF r \in DOMAIN step /\ step[r].samples THEN 1 + step[r].spec ELSE 0
Expected(r) == Total([i \in DOMAIN flight |-> Awaited(flight[i], r)])

PlaceholdersMatchFlight ==
  pc = "idle" => \A r \in ReqIds : Live(r) => placeholders[r] = Expected(r)

(* num_computed_tokens of a running request, optimistic while its drafts   *)
(* are in flight, is exact again once they are verified: the next position *)
(* to compute is that of its last known or expected token.                 *)
OptimisticCountExact ==
  pc = "idle" => \A r \in ToSet(running) :
    IF chunk[r] THEN placeholders[r] = 0 /\ computed[r] < tokens[r]
    ELSE computed[r] + 1 = tokens[r] + placeholders[r]

(* A request is left out of a step for max_tokens only if the steps in     *)
(* flight bring it there "even if they are all rejected" (comment at       *)
(* 371-376): one token for each of them is enough.                         *)
SkippedWillFinish ==
  pc = "idle" => \A r \in ToSet(running) : ReachedMaxTokens(r) =>
    tokens[r] + Cardinality({i \in DOMAIN flight :
                               r \in DOMAIN flight[i] /\ flight[i][r].samples})
      >= Prompt[r] + MaxOutput[r]

(* Blocks belong to running requests, cover what they have computed, and   *)
(* are never more than there are.                                          *)
HeldBlocksCover ==
  /\ Total(blocks) <= NumBlocks
  /\ \A r \in ReqIds :
       IF status[r] = "running" THEN blocks[r] * BlockSize >= computed[r] ELSE blocks[r] = 0

(* The step's tokens add up to the budget, whoever was preempted on the    *)
(* way, and the asserts of schedule() hold (826-836).                      *)
BudgetAccounted ==
  pc # "idle" =>
    /\ budget + Total([r \in DOMAIN plan |-> plan[r].new])
         = IF pause = "all" THEN 0 ELSE MaxBatchTokens
    /\ DOMAIN plan \subseteq ToSet(running)
    /\ Len(running) <= MaxRunning
    /\ \A r \in DOMAIN plan : plan[r].new > 0

(* "Make sure the input position does not exceed the max model len" (393): *)
(* drafts, placeholders and resumptions never push a request's positions   *)
(* beyond the last one whose next token still fits.                        *)
PositionsInRange == \A r \in ReqIds : computed[r] <= MaxModelLen - 1

(* What the worker cannot fill in by itself the scheduler sends: a request *)
(* that was not in the previous step has no token still unknown to the     *)
(* scheduler, and a resumed one was not in it (assert at 1074).            *)
ReaddedTokensKnown ==
  pc = "commit" => \A r \in DOMAIN plan :
    /\ plan[r].kind # "new" /\ r \notin prev_step => placeholders[r] = 0
    /\ plan[r].kind = "resumed" => r \notin prev_step

(* An engine that goes idle has told the worker of every finished request: *)
(* has_finished_requests keeps it going for one more, empty, step.         *)
IdleMeansClean ==
  pc = "idle" /\ pause = "none" /\ ~HasRequests /\ flight = <<>> => worker = {}

(* The queues, the KV blocks, the step's budget and what the worker is to  *)
(* be told agree with the status of every request, at every point of a     *)
(* step: preemptions, aborts and outputs in flight leave none of them      *)
(* behind.                                                                 *)
QueuesAndBlocksAgree ==
  /\ TypeOK
  /\ QueuesMatchStatus
  /\ HeldBlocksCover
  /\ BudgetAccounted
  /\ IdleMeansClean

(* The optimistic counters of a request agree with the steps in flight, so *)
(* that no step is planned beyond its limits and none is left out without  *)
(* need.                                                                   *)
CountersMatchFlight ==
  /\ PlaceholdersMatchFlight
  /\ OptimisticCountExact
  /\ SkippedWillFinish
  /\ PositionsInRange

(* Every request that enters the queue ends, through preemption, eviction, *)
(* skipped steps and pauses, unless the engine is paused for good.         *)
EveryRequestEnds ==
  <>[](pause = "none") => \A r \in ReqIds : status[r] = "waiting" ~> status[r] = "finished"
=============================================================================
