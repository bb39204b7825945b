------------------------------ MODULE ModelRunner ------------------------------
(***************************************************************************)
(* The worker's model runner (gpu_model_runner.py) under asynchronous      *)
(* scheduling with speculation.  A step is prepared on the CPU while the   *)
(* GPU still runs the one before: how many drafts that one accepts, and    *)
(* which token it samples, exist on the GPU only.  The CPU assumes that    *)
(* all drafts are accepted, and corrects itself once the step is launched; *)
(* the GPU takes the true counts and tokens from rows of the previous      *)
(* step, which may be numbered differently now.                            *)
(*                                                                         *)
(* The CPU runs execute_model() and sample_tokens() in turn; what they     *)
(* enqueue is a stream of operations that the GPU performs in order.  The  *)
(* scheduler is abstracted to the counters that Scheduler.tla describes.   *)
(* Tokens are named by request and position.                               *)
(***************************************************************************)
EXTENDS Integers, FiniteSets, SequencesExt

CONSTANTS
  ReqIds,
  Prompt,        \* num_prompt_tokens, of every request
  MaxModelLen,
  NumSpec,       \* num_spec_tokens
  PrefixHits,    \* lengths a prefix-cache hit may have; 0 is no hit
  Preempts,      \* requests the scheduler may preempt
  Aborts         \* requests whose client may disconnect

ASSUME RunnerAssumption ==
  /\ IsFiniteSet(ReqIds)
  /\ {Prompt, NumSpec, MaxModelLen} \subseteq Nat
  /\ 0 < Prompt /\ Prompt < MaxModelLen
  /\ PrefixHits \subseteq 0 .. Prompt - 1 /\ 0 \in PrefixHits
  /\ Preempts \subseteq ReqIds /\ Aborts \subseteq ReqIds

VARIABLES
  \* the scheduler
  status, known, computed,  \* state, num_tokens and num_computed_tokens
  flight,        \* steps without their output, oldest first
  prev_step,     \* prev_step_scheduled_req_ids
  finished_ids,
  \* the CPU
  requests,      \* cached states, by request
  batch,         \* input_batch.req_ids
  row,           \* the columns of input_batch, by request
  prev_row,      \* prev_req_id_to_index
  prev_positions, prev_num_draft,  \* pinned buffers the GPU copies from
  deferred,      \* deferred_spec_decode_corrections
  discard,       \* discard_request_mask
  pc,            \* the call that is next
  \* the GPU
  stream,        \* operations enqueued and not yet performed
  fed,           \* by row of the step that runs: its first position and input_ids
  sampled,       \* by row of the last step that ran: its num_computed_tokens,
                 \* prev_sampled_token_ids and valid_sampled_token_count
  \* the truth
  length,        \* tokens a request really has
  kv             \* leading positions whose KV entries are those of its tokens

scheduler == <<status, known, computed, flight, prev_step, finished_ids>>
cpu   == <<requests, batch, row, prev_row, prev_positions, prev_num_draft, deferred, discard, pc>>
gpu   == <<stream, fed, sampled>>
truth == <<length, kv>>
vars  == <<scheduler, cpu, gpu, truth>>

Least(a, b) == IF a <= b THEN a ELSE b
Index(r) == CHOOSE i \in DOMAIN batch : batch[i] = r
BatchRows == 1 .. Cardinality(ReqIds)
Pending(op) == \E i \in DOMAIN stream : stream[i].op = op

-----------------------------------------------------------------------------
(* The scheduler.  A row of a step: kind, number of tokens, how many of    *)
(* them are drafts, the position it starts at, and the number of output    *)
(* tokens the request is thought to have by then.                          *)
Samples(step, r) == r \in DOMAIN step.rows /\ step.rows[r].samples
Awaited(step, r) == IF Samples(step, r) THEN 1 + step.rows[r].spec ELSE 0
Expected(r) == FoldFunction(+, 0, [k \in DOMAIN flight |-> Awaited(flight[k], r)])

Row(r, kind, start, n, spec) ==
  [kind |-> kind, start |-> start, n |-> n, spec |-> spec,
   outputs |-> known[r] + Expected(r) - Prompt,
   samples |-> start + n >= known[r] + Expected(r)]

(* Drafts go to requests that sampled in the step before.                  *)
Drafts(r) == IF r \in prev_step \cap DOMAIN prev_row THEN 0 .. NumSpec ELSE {0}

RunningRows(r) ==
  LET left == known[r] + Expected(r) - computed[r]
  IN {w \in {Row(r, "running", computed[r], n, 0) : n \in 1 .. left}
            \cup {Row(r, "running", computed[r], left + s, s) : s \in Drafts(r)} :
        w.start + w.n < MaxModelLen}

AdmittedRows(r, kind) ==
  {w \in {Row(r, kind, hit, n, 0) : hit \in PrefixHits, n \in 1 .. known[r]} :
     w.start + w.n <= known[r]}

Rows(r) ==
  CASE status[r] = "running" -> RunningRows(r)
    [] status[r] = "waiting" -> AdmittedRows(r, "new")
    [] status[r] = "preempted" /\ r \notin prev_step -> AdmittedRows(r, "resumed")
    [] OTHER -> {}

(* What schedule() may plan: rows for some of the requests.                *)
Plans ==
  LET rows == UNION {{r} \X Rows(r) : r \in ReqIds}
      of(S) == {plan \in [S -> {x[2] : x \in {y \in rows : y[1] \in S}}] :
                  \A r \in S : <<r, plan[r]>> \in rows}
  IN UNION {of(S) : S \in SUBSET ReqIds}

(* schedule(): rows are planned, others may lose their blocks.             *)
Schedule(plan) ==
  /\ \E victims \in SUBSET {r \in Preempts \ DOMAIN plan : status[r] = "running"} :
       /\ status' = [r \in ReqIds |-> IF r \in victims THEN "preempted"
                                      ELSE IF r \in DOMAIN plan THEN "running" ELSE status[r]]
       /\ computed' = [r \in ReqIds |-> IF r \in victims THEN 0
                                        ELSE IF r \in DOMAIN plan THEN plan[r].start + plan[r].n
                                        ELSE computed[r]]
  /\ flight' = Append(flight, [rows |-> [r \in DOMAIN plan |->
                                           [spec |-> plan[r].spec, samples |-> plan[r].samples]],
                               got |-> <<>>, done |-> plan = <<>>])
  /\ prev_step' = DOMAIN plan
  /\ finished_ids' = {}
  /\ UNCHANGED known

-----------------------------------------------------------------------------
(* _update_states.  A row that stays in the persistent batch is thought to *)
(* have had all its drafts accepted.                                       *)
Stays(plan) == {r \in ToSet(batch) \cap DOMAIN plan : plan[r].kind = "running"}

Grown(plan, r) == requests[r].outputs + (IF r \in Stays(plan) THEN requests[r].drafts ELSE 0)

Mut_CachedState(plan, r) ==  \* mutant: not aligned with num_output_tokens
  LET state(outputs, real) == [computed |-> plan[r].start, outputs |-> outputs,
                               real |-> real, drafts |-> plan[r].spec]
  IN IF plan[r].kind = "new" THEN state(0, 0) ELSE state(Grown(plan, r), requests[r].real)

(* The cached state of a scheduled request.  real: how many of its output  *)
(* tokens are known, the others being -1.                                  *)
CachedState(plan, r) ==
  LET w == plan[r]
      state(outputs, real) ==
        [computed |-> w.start, outputs |-> outputs, real |-> real, drafts |-> w.spec]
  IN IF w.kind = "new" THEN state(0, 0)
     ELSE IF r \notin Stays(plan) /\ w.outputs > 0
     THEN state(w.outputs, IF Expected(r) = 0 THEN w.outputs ELSE 0)
     ELSE state(Least(Grown(plan, r), w.outputs), Least(requests[r].real, w.outputs))

(* Its row: num_computed_tokens_cpu, num_tokens_no_spec and the number of  *)
(* leading tokens of token_ids_cpu that are known.                         *)
BatchRow(plan, r) ==
  IF r \in Stays(plan)
  THEN [computed |-> plan[r].start,
        tokens |-> IF plan[r].outputs < Grown(plan, r) THEN Prompt + plan[r].outputs
                   ELSE row[r].tokens,
        real |-> row[r].real]
  ELSE [computed |-> plan[r].start,
        tokens |-> Prompt + requests'[r].outputs,
        real |-> Prompt + requests'[r].real]

(* remove_request (not in this repository) forgets the row a request had.  *)
RowsKnown(plan) == DOMAIN prev_row \ (ToSet(batch) \ Stays(plan))

(* condense and _may_reorder_batch may put the rows in any order.          *)
UpdateStates(plan) ==
  /\ requests' = [r \in (DOMAIN requests \ finished_ids) \cup DOMAIN plan |->
                    IF r \in DOMAIN plan THEN CachedState(plan, r) ELSE requests[r]]
  /\ batch' \in SetToSeqs(DOMAIN plan)
  /\ row' = [r \in DOMAIN plan |-> BatchRow(plan, r)]
  /\ prev_row' = [r \in RowsKnown(plan) |-> prev_row[r]]
  /\ deferred' = [r \in {q \in Stays(plan) : requests[q].drafts > 0} |-> requests[r].drafts]
  /\ prev_num_draft' = [i \in BatchRows |->
       LET was == {r \in DOMAIN deferred' \cap DOMAIN prev_row' : prev_row'[r] = i}
       IN IF was = {} THEN 0 ELSE deferred'[CHOOSE r \in was : TRUE]]

(* _prepare_inputs, the part the CPU does: where the rows were, which of   *)
(* them do not complete their request's tokens, and the tokens it knows.   *)
PrepareInputs(plan) ==
  /\ prev_positions' = [i \in BatchRows |->
       IF i \in DOMAIN batch' /\ batch'[i] \in DOMAIN prev_row'
       THEN prev_row'[batch'[i]] ELSE -1]
  /\ discard' = {r \in DOMAIN plan :
       row'[r].computed + plan[r].n < Prompt + requests'[r].outputs}
  /\ stream' = Append(stream, [op |-> "inputs", rows |->
       [i \in DOMAIN batch' |-> LET r == batch'[i] IN
          [req |-> r, n |-> plan[r].n, spec |-> plan[r].spec, prev |-> prev_positions'[i],
           at |-> row'[r].computed, real |-> row'[r].real]]])

Mut_SynchronizeInputPrep == TRUE  \* mutant: the buffers are reused at once

(* The pinned buffers are free once the copies of the last step are done.  *)
SynchronizeInputPrep == ~Pending("inputs")

ExecuteModel ==
  /\ pc = "execute_model" /\ Len(flight) < 2 /\ SynchronizeInputPrep
  /\ finished_ids # {} \/ \E r \in ReqIds : status[r] # "finished"
  /\ \E plan \in Plans :
       /\ Schedule(plan) /\ UpdateStates(plan)
       /\ IF plan = <<>>  \* no work to do
          THEN pc' = pc /\ UNCHANGED <<prev_positions, discard, stream>>
          ELSE pc' = "correct" /\ PrepareInputs(plan)
       /\ kv' = [r \in ReqIds |-> IF r \in DOMAIN plan /\ plan[r].kind # "running"
                                  THEN plan[r].start ELSE kv[r]]
  /\ UNCHANGED <<fed, sampled, length>>

Correction(r) ==
  IF r \in DOMAIN deferred \cap DOMAIN prev_row
  THEN deferred[r] - (sampled[prev_row[r]].count - 1) ELSE 0

(* correct_spec_decode_token_counts, which waits for the counts.           *)
Correct ==
  /\ pc = "correct"
  /\ deferred # <<>> => ~Pending("sample")
  /\ requests' = [r \in DOMAIN requests |-> [requests[r] EXCEPT !.computed = @ - Correction(r)]]
  /\ row' = [r \in DOMAIN row |-> [row[r] EXCEPT !.computed = @ - Correction(r)]]
  /\ deferred' = <<>>
  /\ pc' = "sample_tokens"
  /\ UNCHANGED <<batch, prev_row, prev_positions, prev_num_draft, discard>>
  /\ UNCHANGED <<scheduler, gpu, truth>>

(* sample_tokens: sampling and drafting are enqueued, and _bookkeeping_sync *)
(* notes -1 for the one token that every row of a complete request samples. *)
SampleTokens ==
  LET rows == ToSet(batch) \ discard
  IN /\ pc = "sample_tokens"
     /\ stream' = Append(stream, [op |-> "sample", discard |-> discard])
     /\ prev_row' = [r \in rows |-> Index(r)]
     /\ row' = [r \in DOMAIN row |-> IF r \in rows THEN [row[r] EXCEPT !.tokens = @ + 1] ELSE row[r]]
     /\ requests' = [r \in DOMAIN requests |->
                       IF r \in rows THEN [requests[r] EXCEPT !.outputs = @ + 1] ELSE requests[r]]
     /\ pc' = "execute_model"
     /\ UNCHANGED <<batch, prev_positions, prev_num_draft, deferred, discard>>
     /\ UNCHANGED <<scheduler, fed, sampled, truth>>

-----------------------------------------------------------------------------
(* The GPU.  A token: of which request, at which position, or the draft-th *)
(* draft after it; a -1 that nothing has replaced is at position -1.       *)
NoSample == [req |-> "none", start |-> 0, count |-> 0, last |-> -1]
Token(r, at, draft) == [req |-> r, at |-> at, draft |-> draft]

(* update_num_computed_tokens_for_batch_change, from buffers by row.       *)
FirstPosition(i, w) ==
  LET prev == prev_positions[i]
  IN IF prev > 0 /\ prev_num_draft[prev] > 0
     THEN sampled[prev].start + sampled[prev].count
     ELSE IF i \in DOMAIN batch THEN row[batch[i]].computed ELSE 0

Mut_InputId(i, w, j) ==  \* mutant: takes the row it has now for the one it had
  LET draft == j - (w.n - w.spec)
      at    == w.at + j - 1
  IN IF w.prev > 0 /\ draft >= 0
     THEN Token(sampled[i].req, sampled[i].last, draft)
     ELSE Token(w.req, IF at < w.real THEN at ELSE -1, 0)

(* input_ids: from token_ids_cpu, then the sampled token and the drafts    *)
(* are scattered over the last positions, by indices that the CPU computed *)
(* and uploaded in tensors of their own (_prepare_input_ids).              *)
InputId(i, w, j) ==
  LET draft == j - (w.n - w.spec)
      at    == w.at + j - 1
  IN IF w.prev > 0 /\ draft >= 0
     THEN Token(sampled[w.prev].req, sampled[w.prev].last, draft)
     ELSE Token(w.req, IF at < w.real THEN at ELSE -1, 0)

GpuInputs ==
  /\ stream # <<>> /\ Head(stream).op = "inputs"
  /\ fed' = [i \in DOMAIN Head(stream).rows |->
       LET w == Head(stream).rows[i]
       IN [req |-> w.req, spec |-> w.spec, start |-> FirstPosition(i, w),
           ids |-> [j \in 1 .. w.n |-> InputId(i, w, j)]]]
  /\ stream' = Tail(stream)
  /\ UNCHANGED <<scheduler, cpu, sampled, truth>>

(* Rejection sampling accepts any number of the drafts and samples one     *)
(* token more; the drafter starts from the last one.                       *)
GpuSample ==
  /\ stream # <<>> /\ Head(stream).op = "sample"
  /\ \E counts \in [DOMAIN fed -> 0 .. NumSpec + 1] :
       LET at(r)  == CHOOSE i \in DOMAIN fed : fed[i].req = r
           rows   == {fed[i].req : i \in DOMAIN fed}
           got(r) == counts[at(r)]
           step   == CHOOSE k \in DOMAIN flight :
                       ~flight[k].done /\ \A m \in 1 .. k - 1 : flight[m].done
       IN /\ \A i \in DOMAIN fed : counts[i] \in
               IF fed[i].req \in Head(stream).discard THEN {0} ELSE 1 .. fed[i].spec + 1
          /\ length' = [r \in ReqIds |-> IF r \in rows THEN length[r] + got(r) ELSE length[r]]
          /\ kv' = [r \in ReqIds |->
               IF r \notin rows THEN kv[r]
               ELSE LET f == fed[at(r)] IN
                    f.start + Len(f.ids) - (IF got(r) = 0 THEN 0 ELSE f.spec + 1 - got(r))]
          /\ sampled' = [i \in BatchRows |->
               IF i \notin DOMAIN fed THEN NoSample
               ELSE [req |-> fed[i].req, start |-> fed[i].start, count |-> counts[i],
                     last |-> length'[fed[i].req] - 1]]
          /\ flight' = [flight EXCEPT ![step] =
               [@ EXCEPT !.done = TRUE, !.got = [r \in rows |-> got(r)]]]
  /\ fed' = <<>>
  /\ stream' = Tail(stream)
  /\ UNCHANGED <<status, known, computed, prev_step, finished_ids, cpu>>

-----------------------------------------------------------------------------
(* The scheduler again: update_from_output and finish_requests, which the  *)
(* engine core calls between two steps.  What is finished is forgotten.    *)
Drop(S) ==
  /\ pc = "execute_model"
  /\ status' = [r \in ReqIds |-> IF r \in S THEN "finished" ELSE status[r]]
  /\ finished_ids' = finished_ids \cup {r \in S : status[r] # "waiting"}

UpdateFromOutput ==
  /\ flight # <<>> /\ Head(flight).done
  /\ LET step == Head(flight)
         live == {r \in DOMAIN step.rows : status[r] # "finished" /\ Samples(step, r)}
         after(r) == known[r] + step.got[r]
     IN /\ \E stops \in SUBSET live :
             /\ {r \in live : after(r) >= MaxModelLen} \subseteq stops
             /\ Drop(stops)
        /\ known' = [r \in ReqIds |->
             IF status'[r] = "finished" THEN Prompt
             ELSE IF r \in live THEN after(r) ELSE known[r]]
        /\ computed' = [r \in ReqIds |->
             IF status'[r] = "finished" THEN 0
             ELSE IF r \in live /\ computed[r] > 0
             THEN computed[r] - (step.rows[r].spec + 1 - step.got[r]) ELSE computed[r]]
  /\ flight' = Tail(flight)
  /\ UNCHANGED <<prev_step, cpu, gpu, truth>>

Abort(r) ==
  /\ r \in Aborts /\ status[r] \in {"running", "preempted"} /\ Drop({r})
  /\ known' = [known EXCEPT ![r] = Prompt] /\ computed' = [computed EXCEPT ![r] = 0]
  /\ UNCHANGED <<flight, prev_step, cpu, gpu, truth>>

Init ==
  /\ status = [r \in ReqIds |-> "waiting"]
  /\ known = [r \in ReqIds |-> Prompt] /\ computed = [r \in ReqIds |-> 0]
  /\ flight = <<>> /\ prev_step = {} /\ finished_ids = {}
  /\ requests = <<>> /\ batch = <<>> /\ row = <<>> /\ prev_row = <<>>
  /\ prev_positions = [i \in BatchRows |-> -1]
  /\ prev_num_draft = [i \in BatchRows |-> 0]
  /\ deferred = <<>> /\ discard = {} /\ pc = "execute_model"
  /\ stream = <<>> /\ fed = <<>> /\ sampled = [i \in BatchRows |-> NoSample]
  /\ length = [r \in ReqIds |-> Prompt] /\ kv = [r \in ReqIds |-> 0]

Next ==
  \/ ExecuteModel \/ Correct \/ SampleTokens
  \/ GpuInputs \/ GpuSample
  \/ UpdateFromOutput \/ \E r \in ReqIds : Abort(r)

Spec == Init /\ [][Next]_vars

-----------------------------------------------------------------------------
(* Whatever is corrected, the scheduler's counts keep to the model length, *)
(* and no row grows beyond it (assert of _bookkeeping_sync, 3766-3770).    *)
TypeOK ==
  /\ status \in [ReqIds -> {"waiting", "running", "preempted", "finished"}]
  /\ {known, computed, length, kv} \subseteq [ReqIds -> 0 .. MaxModelLen]
  /\ \A r \in DOMAIN requests :
       requests[r] \in [computed : Int, outputs : Nat, real : Nat, drafts : 0 .. NumSpec]
  /\ \A r \in DOMAIN row :
       row[r] \in [computed : Int, tokens : 0 .. MaxModelLen, real : 0 .. MaxModelLen]
  /\ DOMAIN row \subseteq DOMAIN requests /\ DOMAIN row = ToSet(batch)
  /\ DOMAIN prev_row \subseteq ReqIds /\ discard \subseteq ReqIds
  /\ pc \in {"execute_model", "correct", "sample_tokens"}
  /\ Len(flight) <= 2 /\ Len(stream) <= 3

(* Every step continues where the valid KV entries of the request end:     *)
(* the optimistic count, the true count of the step before, the row it was *)
(* in and a correction that comes too early or late never disagree.        *)
StartsWhereCacheEnds == \A i \in DOMAIN fed : fed[i].start = kv[fed[i].req]

(* The model is given the tokens of the request, then the drafts that      *)
(* follow its last one: no -1, no token of another row or of another step. *)
InputsAreTheSequence ==
  \A i \in DOMAIN fed : \A j \in DOMAIN fed[i].ids :
    LET r  == fed[i].req
        at == fed[i].start + j - 1
    IN fed[i].ids[j] = IF at < length[r] THEN Token(r, at, 0)
                       ELSE Token(r, length[r] - 1, at - length[r] + 1)

(* The runner discards the samples of exactly the rows for which the       *)
(* scheduler expects none, though each decides by counts of its own.       *)
DiscardsWhatIsNotExpected ==
  pc # "execute_model" =>
    discard = {r \in ToSet(batch) : ~Last(flight).rows[r].samples}

(* After the correction the CPU's counts are those of the GPU, provided    *)
(* that the step was planned before the output of the last was applied.    *)
CorrectedCountExact ==
  pc = "sample_tokens" /\ Len(flight) = 2 /\ ~Pending("sample") =>
    \A r \in ToSet(batch) : row[r].computed = kv[r] /\ requests[r].computed = kv[r]

(* The counts of the CPU and of the GPU agree whenever they are used.      *)
CountsAgree == TypeOK /\ StartsWhereCacheEnds /\ CorrectedCountExact
=============================================================================
