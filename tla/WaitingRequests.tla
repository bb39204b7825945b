---------------------------- MODULE WaitingRequests ----------------------------
(***************************************************************************)
(* The scheduler's side of what a request waits for (scheduler.py): KV     *)
(* entries that a connector loads from elsewhere (the deployment offloads  *)
(* them to host memory and NVMe) and the next input of a streaming         *)
(* session.  Waiting requests are in two queues, waiting and               *)
(* skipped_waiting; a finished request may stay in self.requests until a   *)
(* transfer is over; a load may fail and take computed tokens back.        *)
(*                                                                         *)
(* Scheduling is synchronous here, with up to InFlight batches in the      *)
(* engine core's queue, without drafts and in FCFS order; module Scheduler *)
(* has the token budget, drafts, priorities and asynchronous scheduling.   *)
(* As there, schedule() and update_from_output() are runs of actions, and  *)
(* pc keeps the others out.                                                *)
(*                                                                         *)
(* Outside the repository, and modelled from its use: the KV cache manager *)
(* (a block is free when no request holds it, allocate_slots takes free    *)
(* blocks, full blocks can be shared by requests with the same prefix for  *)
(* as long as one of them holds them), and the connector with its workers. *)
(***************************************************************************)
EXTENDS Integers, FiniteSets, SequencesExt, FiniteSetsExt

CONSTANTS
  ReqIds,
  Prompt,        \* prompt lengths
  Family,        \* requests of one family have the same prompt prefix
  MaxOutput,     \* max_tokens of every request and session input
  Eos,           \* requests that may stop before
  Resumable,     \* streaming sessions
  Inputs,        \* lengths of later inputs of a session
  MaxInputs,     \* bound: inputs sent to one session
  Aborts,        \* requests whose client may disconnect
  Hits,          \* how many tokens the connector may find; 0 is none
  Loads,         \* "async", "sync": how it may load them
  MaxFaults,     \* bound: failed loads and undecided look-ups
  Policies,      \* values of kv_load_failure_policy == "recompute"
  Sends,         \* BOOLEAN: finished requests may have their KV stored first
  MaxRunning, LongPrefill, Lookahead, BlockSize, NumBlocks, InFlight

ASSUME WaitingAssumption ==
  /\ ReqIds \subseteq Nat \ {0} /\ IsFiniteSet(ReqIds)
  /\ Prompt \in [ReqIds -> Nat \ {0}] /\ DOMAIN Family = ReqIds
  /\ Resumable \cup Aborts \cup Eos \subseteq ReqIds
  /\ Inputs \subseteq Nat \ {0} /\ Hits \subseteq Nat /\ 0 \in Hits
  /\ Loads \subseteq {"async", "sync"} /\ Sends \in BOOLEAN /\ Policies \subseteq BOOLEAN
  /\ {MaxOutput, MaxRunning, NumBlocks, InFlight} \subseteq Nat \ {0}
  /\ BlockSize \in Nat \ {0, 1}  \* 16 tokens and more
  /\ {MaxInputs, MaxFaults, LongPrefill, Lookahead} \subseteq Nat

VARIABLES
  recompute,     \* recompute_kv_load_failures
  req,           \* the Request objects
  running, waiting, skipped,   \* the queues; skipped is skipped_waiting
  num_streaming, \* num_waiting_for_streaming_input
  finished_ids,  \* finished_req_ids
  received,      \* finished_recving_kv_req_ids
  failed,        \* failed_recving_kv_req_ids
  cached,        \* blocks in the prefix cache
  flight,        \* batches in flight: sequences of rows
  loading,       \* the worker: request -> positions it loads asynchronously
  sending,       \* requests the worker still stores the KV of
  pc, at, plan, step_skipped, preempted, out,  \* locals
  faults,
  good,          \* ghost: <<block, offset>> that hold the right KV entry
  tainted        \* ghost: a token was accepted that was computed from others

queues == <<running, waiting, skipped>>
recvs  == <<received, failed, loading>>
locals == <<at, plan, step_skipped, preempted, out>>
ghosts == <<good, tainted>>
env    == <<recompute, faults>>
vars   == <<req, queues, num_streaming, finished_ids, recvs, cached, flight,
            sending, pc, locals, env, ghosts>>

Blocks == 1 .. NumBlocks
None   == [rows |-> <<>>, failed |-> {}, done |-> {}, sent |-> {}, stopped |-> {}]

Known      == {r \in ReqIds : req[r].status \notin {"new", "gone"}}  \* self.requests
Live(r)    == r \in Known /\ req[r].status # "finished"
Blocked(r) == req[r].status \in {"remote", "streaming"}
Without(q, S) == FlattenSeq([i \in DOMAIN q |-> IF q[i] \in S THEN <<>> ELSE <<q[i]>>])

-----------------------------------------------------------------------------
(* Blocks.                                                                 *)
Held == UNION {ToSet(req[r].table) : r \in ReqIds}
BlocksFor(n) == (n + BlockSize - 1) \div BlockSize

(* Fresh blocks, any that nobody holds, follow the table of the request.   *)
Unused(table)     == Blocks \ (Held \cup ToSet(table))
Missing(table, n) == BlocksFor(n) - Len(table)
Fits(table, n)    == Missing(table, n) <= Cardinality(Unused(table))

Extended(table, n) ==
  IF Missing(table, n) <= 0 THEN table
  ELSE table \o SubSeq(SetToSeq(Unused(table)), 1, Missing(table, n))

(* get_computed_blocks: the longest cached prefix, short of the last token *)
CachedBlocks(r, s) ==
  {k \in 0 .. Len(req[s].table) : /\ k * BlockSize < req[r].tokens
                                  /\ \A i \in 1 .. k : req[s].table[i] \in cached}

CachedPrefixes(r) ==
  UNION {{SubSeq(req[s].table, 1, k) : k \in CachedBlocks(r, s)} :
         s \in {s \in ReqIds : Family[s] = Family[r]}}

Hit(r) ==
  CHOOSE t \in CachedPrefixes(r) : \A u \in CachedPrefixes(r) : Len(u) <= Len(t)

(* cache_blocks: the blocks that n computed tokens fill.                   *)
Full(table, n) == {table[i] : i \in {i \in DOMAIN table : i * BlockSize <= n}}

At(table, p)         == <<table[p \div BlockSize + 1], p % BlockSize>>
Places(table, from, to) == {At(table, p) : p \in from .. to - 1}

-----------------------------------------------------------------------------
Mut_HasFinished == finished_ids # {}  \* mutant: without the delayed frees

(* has_finished_requests                                                   *)
HasFinished ==
  finished_ids # {} \/ Cardinality(Known) > Len(running) + Len(waiting) + Len(skipped)

HasRequests == Len(running) + Len(waiting) + Len(skipped) - num_streaming > 0 \/ HasFinished

(* schedule(), the running requests.                                       *)
StartStep ==
  /\ pc = "idle" /\ HasRequests /\ Len(flight) < InFlight
  /\ pc' = "running" /\ at' = 1 /\ plan' = <<>> /\ preempted' = FALSE
  /\ step_skipped' = <<>>
  /\ UNCHANGED <<out, req, queues, num_streaming, finished_ids, recvs, cached>>
  /\ UNCHANGED <<flight, sending, env, ghosts>>

Chunked(n) == IF 0 < LongPrefill /\ LongPrefill < n THEN LongPrefill ELSE n

(* A row of the batch: new tokens from position start; the positions it    *)
(* loads synchronously; whether it samples.                                *)
Row(r, table, start, n, load) ==
  [req |-> r, table |-> table, start |-> start, new |-> n, load |-> load,
   samples |-> start + n >= req[r].tokens]

ScheduleRunning ==
  /\ pc = "running" /\ at <= Len(running)
  /\ LET r == running[at]
         n == Chunked(req[r].tokens - req[r].computed)
         upto == req[r].computed + n
         table == Extended(req[r].table, upto + Lookahead)
     IN /\ n > 0 => Fits(req[r].table, upto + Lookahead)
        /\ at' = at + 1
        /\ IF n = 0 THEN UNCHANGED <<req, plan, cached>>
           ELSE /\ req' = [req EXCEPT ![r].table = table]
                /\ plan' = Append(plan, Row(r, table, req[r].computed, n, {}))
                /\ cached' = cached \cup Full(table, upto)
  /\ UNCHANGED <<pc, step_skipped, preempted, out, queues, num_streaming, finished_ids>>
  /\ UNCHANGED <<recvs, flight, sending, env, ghosts>>

(* kv_cache_manager.free: blocks nobody holds any more leave the prefix    *)
(* cache, and what they hold is lost.                                      *)
Kept(S) == UNION {ToSet(req[r].table) : r \in ReqIds \ S}

Free(S) ==
  /\ cached' = cached \cap Kept(S)
  /\ good' = {p \in good : p[1] \in Kept(S)}

Preempt ==
  /\ pc = "running" /\ at <= Len(running)
  /\ LET r == running[at]
         n == Chunked(req[r].tokens - req[r].computed)
         v == Last(running)
     IN /\ n > 0 /\ ~Fits(req[r].table, req[r].computed + n + Lookahead)
        /\ req' = [req EXCEPT ![v].status = "preempted", ![v].computed = 0,
                              ![v].table = <<>>, ![v].preempted = TRUE]
        /\ Free({v})
        /\ running' = Front(running) /\ waiting' = <<v>> \o waiting
        /\ preempted' = TRUE
        /\ pc' = IF v = r THEN "commit" ELSE "running"
  /\ UNCHANGED <<at, plan, step_skipped, out, skipped, num_streaming, finished_ids>>
  /\ UNCHANGED <<recvs, flight, sending, env, tainted>>

EndRunning ==
  /\ pc = "running" /\ at > Len(running)
  /\ pc' = IF preempted THEN "commit" ELSE "waiting"
  /\ UNCHANGED <<req, queues, num_streaming, finished_ids, recvs, cached, flight>>
  /\ UNCHANGED <<sending, locals, env, ghosts>>

-----------------------------------------------------------------------------
(* schedule(), the waiting requests; skipped ones come first.              *)
MayAdmit == pc = "waiting" /\ skipped \o waiting # <<>> /\ Len(running) # MaxRunning
Next1 == IF skipped # <<>> THEN Head(skipped) ELSE Head(waiting)

Pop ==
  IF skipped # <<>> THEN skipped' = Tail(skipped) /\ UNCHANGED waiting
  ELSE waiting' = Tail(waiting) /\ UNCHANGED skipped

Promotable(r) == req[r].status = "remote" /\ r \in received

(* The head waits for something else, or the connector cannot tell yet how *)
(* much it has: it is passed over in this step.                            *)
PassOver ==
  /\ MayAdmit
  /\ LET r == Next1
     IN /\ \/ Blocked(r) /\ ~Promotable(r) /\ UNCHANGED faults
           \/ /\ ~Blocked(r) /\ req[r].computed = 0
              /\ faults < MaxFaults /\ faults' = faults + 1
        /\ step_skipped' = <<r>> \o step_skipped
  /\ Pop
  /\ UNCHANGED <<req, running, num_streaming, finished_ids, recvs, cached, flight, sending>>
  /\ UNCHANGED <<recompute, pc, at, plan, preempted, out, ghosts>>

(* On a full hit the last token is computed again, to sample the next.     *)
LastToken(r) ==
  IF req[r].computed = req[r].tokens THEN req[r].tokens - 1 ELSE req[r].computed

(* _try_promote_blocked_waiting_request, _update_waiting_for_remote_kv.    *)
Promote ==
  /\ MayAdmit /\ Promotable(Next1)
  /\ LET r == Next1
         lost == r \in failed /\ req[r].computed = 0
     IN /\ req' = [req EXCEPT
             ![r].status = IF req[r].preempted THEN "preempted" ELSE "waiting",
             ![r].computed = IF r \in failed THEN @ ELSE LastToken(r),
             ![r].table = IF lost THEN <<>> ELSE @]
        /\ IF lost THEN Free({r})
           ELSE cached' = cached \cup Full(req[r].table, req[r].computed) /\ UNCHANGED good
        /\ received' = received \ {r}
        /\ failed' = failed \ {r}
  /\ UNCHANGED <<queues, num_streaming, finished_ids, loading, flight, sending>>
  /\ UNCHANGED <<pc, locals, env, tainted>>

(* How many tokens the connector may offer behind n local ones: all of     *)
(* them when it loads asynchronously, else all but the last.               *)
Offers(r, n, how) ==
  {e \in Hits \ {0} : how \in Loads /\ (IF how = "async" THEN n + e <= req[r].tokens
                                                        ELSE n + e < req[r].tokens)}

(* The blocks of a request without computed tokens: those it holds, one if *)
(* the KV of its only token was loaded before, and the cached ones.        *)
Base(r) == req[r].table \o Hit(r)

(* An asynchronous load: blocks, but no work in this step.                 *)
StartLoad ==
  /\ MayAdmit /\ ~Blocked(Next1) /\ req[Next1].computed = 0
  /\ LET r == Next1
         local == Len(Hit(r)) * BlockSize
     IN \E e \in Offers(r, local, "async") :
          LET table == Extended(Base(r), local + e)
          IN /\ Fits(Base(r), local + e)
             /\ req' = [req EXCEPT ![r].status = "remote", ![r].table = table,
                                   ![r].computed = local + e]
             /\ loading' = [q \in DOMAIN loading \cup {r} |->
                              IF q = r THEN Places(table, local, local + e) ELSE loading[q]]
             /\ step_skipped' = <<r>> \o step_skipped
  /\ Pop
  /\ UNCHANGED <<running, num_streaming, finished_ids, received, failed, cached, flight>>
  /\ UNCHANGED <<sending, pc, at, plan, preempted, out, env, ghosts>>

(* What admitting r takes when the connector offers e tokens: a request    *)
(* with computed tokens has had its load, or is a session with new input.  *)
Admission(r, e) ==
  LET known == req[r].computed > 0
      table == IF known THEN req[r].table ELSE Base(r)
      start == IF known THEN req[r].computed ELSE Len(Hit(r)) * BlockSize + e
      n     == Chunked(req[r].tokens - start)
  IN [table |-> table, start |-> start, new |-> n,
      upto |-> start + n + IF known THEN Lookahead ELSE 0]

SyncOffers(r) ==
  IF req[r].computed > 0 THEN {0} ELSE {0} \cup Offers(r, Len(Hit(r)) * BlockSize, "sync")

Admit ==
  /\ MayAdmit /\ ~Blocked(Next1)
  /\ LET r == Next1
     IN \E e \in SyncOffers(r) :
          LET a == Admission(r, e)
              table == Extended(a.table, a.upto)
          IN /\ Fits(a.table, a.upto)
             /\ req' = [req EXCEPT ![r].status = "running", ![r].table = table,
                                   ![r].computed = a.start]
             /\ plan' = Append(plan, Row(r, table, a.start, a.new,
                                         Places(table, a.start - e, a.start)))
             /\ running' = Append(running, r)
             /\ cached' = cached \cup Full(table, a.start + a.new)
  /\ Pop
  /\ UNCHANGED <<num_streaming, finished_ids, recvs, flight, sending>>
  /\ UNCHANGED <<pc, at, step_skipped, preempted, out, env, ghosts>>

(* Nothing left to admit, or no blocks for the head of the queue.          *)
EndWaiting ==
  /\ pc = "waiting"
  /\ MayAdmit =>
       LET r == Next1
       IN /\ ~Blocked(r)
          /\ \/ \E e \in SyncOffers(r) : ~Fits(Admission(r, e).table, Admission(r, e).upto)
             \/ /\ req[r].computed = 0
                /\ \E e \in Offers(r, Len(Hit(r)) * BlockSize, "async") :
                     ~Fits(Base(r), Len(Hit(r)) * BlockSize + e)
  /\ pc' = "commit"
  /\ UNCHANGED <<req, queues, num_streaming, finished_ids, recvs, cached, flight>>
  /\ UNCHANGED <<sending, locals, env, ghosts>>

(* Skipped requests go back to the head of their queue, in their order.    *)
CommitStep ==
  /\ pc = "commit"
  /\ skipped' = Reverse(step_skipped) \o skipped
  /\ flight' = Append(flight, plan)
  /\ req' = [r \in ReqIds |->
       IF \E i \in DOMAIN plan : plan[i].req = r
       THEN [req[r] EXCEPT !.computed = @ + plan[CHOOSE i \in DOMAIN plan : plan[i].req = r].new]
       ELSE req[r]]
  /\ finished_ids' = {}
  /\ pc' = "idle" /\ at' = 1 /\ plan' = <<>> /\ step_skipped' = <<>> /\ preempted' = FALSE
  /\ UNCHANGED <<out, running, waiting, num_streaming, recvs, cached, sending, env, ghosts>>

-----------------------------------------------------------------------------
(* update_from_output().  The worker has executed the oldest batch: the    *)
(* rows' loads, but for invalid blocks, then their new tokens.  A row is   *)
(* right if the KV entries of all positions before it are.                 *)
Written(row) == Places(row.table, row.start, row.start + row.new)
RowOk(row, S) == Places(row.table, 0, row.start) \subseteq S

Executed(rows, invalid) ==
  LET loads == UNION {row.load : row \in ToSet(rows)}
      after[i \in 0 .. Len(rows)] ==
        IF i = 0 THEN {p \in good \cup loads : p \in loads => p[1] \notin invalid}
        ELSE IF RowOk(rows[i], after[i - 1]) THEN after[i - 1] \cup Written(rows[i])
        ELSE after[i - 1] \ Written(rows[i])
  IN [good |-> after[Len(rows)],
      rows |-> [i \in DOMAIN rows |-> [req |-> rows[i].req, samples |-> rows[i].samples,
                                       ok |-> RowOk(rows[i], after[i - 1])]]]

Scheduled(r) ==
  LET mine == {row \in ToSet(Head(flight)) : row.req = r}
  IN IF mine = {} THEN 0 ELSE (CHOOSE row \in mine : TRUE).new

Mut_Truncated(r, new) == Max(new) * BlockSize  \* mutant: after the last bad block

(* Computed tokens end at the first invalid block.                         *)
Truncated(r, new) == (Min(new) - 1) * BlockSize

(* _update_requests_with_invalid_blocks: the requests of q, in order; an   *)
(* invalid block that two of them share is recomputed by the first.        *)
Before(q, r) == {q[j] : j \in {j \in DOMAIN q : \E k \in DOMAIN q : j < k /\ q[k] = r}}

Invalidated(q, invalid) ==
  LET base(r) == req[r].computed - Scheduled(r)
      bad(r)  == {i \in 1 .. BlocksFor(base(r)) : req[r].table[i] \in invalid}
      new(r)  == {i \in bad(r) : \A s \in Before(q, r) : \A j \in bad(s) :
                                   req[s].table[j] # req[r].table[i]}
      affected == {r \in ToSet(q) : bad(r) # {}}
  IN [affected |-> affected,
      computed |-> [r \in affected |-> IF new(r) = {} THEN base(r) ELSE Truncated(r, new(r))],
      evict    |-> UNION {{req[r].table[i] : i \in Min(new(r)) .. Len(req[r].table)} :
                          r \in {r \in affected : new(r) # {}}}]

LoadingNow == {r \in ReqIds : req[r].status = "remote"}

(* _handle_invalid_blocks, with what the batch's output says of transfers: *)
(* blocks that failed to load, loads and stores that are over.             *)
TakeOutput ==
  /\ pc = "idle" /\ flight # <<>>
  /\ pc' = "rows" /\ flight' = Tail(flight)
  /\ \E done \in SUBSET DOMAIN loading, sent \in SUBSET sending,
        invalid \in SUBSET {p[1] : p \in (UNION Range(loading))
                                     \cup (UNION {row.load : row \in ToSet(Head(flight))})} :
       LET async == Invalidated(Without(skipped, ReqIds \ LoadingNow), invalid)
           sync  == Invalidated(running, invalid)
           exec  == Executed(Head(flight), invalid)
           right(r) == {p \in loading[r] : p[1] \notin invalid}
       IN /\ invalid # {} => faults < MaxFaults
          /\ faults' = IF invalid = {} THEN faults ELSE faults + 1
          /\ sending' = sending \ sent
          /\ loading' = [r \in DOMAIN loading \ done |-> right(r)]
          /\ good' = exec.good \cup (UNION {right(r) : r \in done})
          /\ req' = [r \in ReqIds |->
               [req[r] EXCEPT !.computed = IF r \in async.affected THEN async.computed[r]
                                           ELSE IF r \in sync.affected THEN sync.computed[r]
                                           ELSE @]]
          /\ failed' = IF recompute THEN failed \cup async.affected ELSE failed
          /\ cached' = IF recompute THEN cached ELSE cached \ sync.evict
          /\ out' = [rows |-> exec.rows, done |-> done, sent |-> sent, stopped |-> {},
                     failed |-> sync.affected \cup IF recompute THEN {} ELSE async.affected]
  /\ UNCHANGED <<queues, num_streaming, finished_ids, received>>
  /\ UNCHANGED <<recompute, at, plan, step_skipped, preempted, tainted>>

-----------------------------------------------------------------------------
(* A finished request leaves self.requests at once, or when its transfer   *)
(* is over.                                                                *)
Gone(r) == [status |-> "gone", tokens |-> Prompt[r], prompt |-> Prompt[r], computed |-> 0,
            table |-> <<>>, updates |-> <<>>, inputs |-> 0, closed |-> TRUE, preempted |-> FALSE]

Ended(r, delayed) == IF delayed THEN [req[r] EXCEPT !.status = "finished"] ELSE Gone(r)

(* The connector may keep the blocks of a finished request to store them.  *)
Delays(S) == IF Sends THEN SUBSET S ELSE {{}}

(* _update_request_as_session: the next input follows what is computed of  *)
(* the last; the last sampled token is dropped.                            *)
AsSession(r, rec, len) ==
  LET kept == Min({rec.tokens, rec.computed})
  IN [rec EXCEPT !.status = "waiting", !.tokens = kept + len,
                 !.prompt = @ + Max({0, kept - @}) + len]

Mut_Counted(S) == 0  \* mutant: an input or an abort does not decrement

(* What num_waiting_for_streaming_input loses when S stop waiting for it.  *)
Counted(S) == Cardinality({r \in S : req[r].status = "streaming"})

(* _handle_stopped_request, for a request whose record is rec by now.      *)
Stop(r, rec) ==
  LET over == r \notin Resumable \/ (rec.updates # <<>> /\ Head(rec.updates) = 0)
      next == IF rec.updates = <<>> THEN [rec EXCEPT !.status = "streaming"]
              ELSE AsSession(r, [rec EXCEPT !.updates = Tail(@)], Head(rec.updates))
  IN IF over
     THEN /\ \E delayed \in Delays({r}) :
               /\ req' = [req EXCEPT ![r] = Ended(r, r \in delayed)]
               /\ sending' = sending \cup delayed
               /\ Free({r} \ delayed)
          /\ finished_ids' = finished_ids \cup {r}
          /\ UNCHANGED <<waiting, skipped, num_streaming>>
     ELSE /\ req' = [req EXCEPT ![r] = next]
          /\ IF next.status = "streaming"
             THEN /\ skipped' = Append(skipped, r) /\ num_streaming' = num_streaming + 1
                  /\ UNCHANGED waiting
             ELSE waiting' = Append(waiting, r) /\ UNCHANGED <<skipped, num_streaming>>
          /\ UNCHANGED <<sending, cached, good, finished_ids>>

(* One row of the output.  The rows of requests whose load failed, and of  *)
(* those that are gone, are skipped.                                       *)
OutputRow ==
  /\ pc = "rows" /\ out.rows # <<>>
  /\ LET row == Head(out.rows)
         r == row.req
         rec == [req[r] EXCEPT !.tokens = @ + 1]
         rest == [out EXCEPT !.rows = Tail(@)]
     IN IF r \in out.failed \/ ~Live(r) \/ ~row.samples
        THEN /\ out' = rest
             /\ UNCHANGED <<req, waiting, skipped, num_streaming, finished_ids, cached>>
             /\ UNCHANGED <<sending, ghosts>>
        ELSE /\ tainted' = (tainted \/ ~row.ok)
             /\ \/ /\ rec.tokens - rec.prompt >= MaxOutput \/ r \in Eos
                   /\ Stop(r, rec)
                   /\ out' = [rest EXCEPT !.stopped = @ \cup {<<r, req[r].status>>}]
                \/ /\ rec.tokens - rec.prompt < MaxOutput
                   /\ req' = [req EXCEPT ![r] = rec] /\ out' = rest
                   /\ UNCHANGED <<waiting, skipped, num_streaming, finished_ids, cached>>
                   /\ UNCHANGED <<sending, good>>
  /\ UNCHANGED <<running, recvs, flight, pc, at, plan, step_skipped, preempted, env>>

Mut_DelaysFree(r) == FALSE  \* mutant: an aborted load's blocks are freed at once

(* finish_requests: blocks that a load still writes to are not freed yet.  *)
DelaysFree(r) == req[r].status = "remote" /\ r \notin received

(* _update_from_kv_xfer_finished: the requests it frees; of loads, only    *)
(* those nobody waits for any more.                                        *)
TransfersOver(aborted) ==
  out.sent \cup {r \in out.done : r \in aborted \/ req[r].status = "finished"}

(* Removes stopped requests from the queues, fails those whose load failed *)
(* unless they are to be recomputed, and applies the transfers that are    *)
(* over.                                                                   *)
EndOutput ==
  /\ pc = "rows" /\ out.rows = <<>>
  /\ LET fail == IF recompute THEN {} ELSE {r \in out.failed : Live(r)}
         was(S) == {r \in ReqIds : \E s \in S : <<r, s>> \in out.stopped}
         held == {r \in fail : DelaysFree(r)}
         over == TransfersOver(held)
     IN \E delayed \in Delays(fail \ held) :
          LET freed == (fail \ (held \cup delayed)) \cup over
          IN /\ running' = Without(running, was({"running"}) \cup fail)
             /\ waiting' = Without(waiting, was({"preempted", "waiting"}) \cup fail)
             /\ skipped' = Without(skipped, fail)
             /\ num_streaming' = num_streaming - Counted(fail)
             /\ req' = [r \in ReqIds |-> IF r \in freed THEN Gone(r)
                                         ELSE IF r \in fail THEN Ended(r, TRUE) ELSE req[r]]
             /\ Free(freed)
             /\ finished_ids' = finished_ids \cup fail
             /\ received' = (received \ fail) \cup (out.done \ over)
             /\ failed' = failed \ fail
             /\ sending' = sending \cup delayed
  /\ pc' = "idle" /\ out' = None
  /\ UNCHANGED <<loading, flight, at, plan, step_skipped, preempted, env, tainted>>

-----------------------------------------------------------------------------
(* Calls from outside, between two steps.                                  *)
AddRequest(r) ==
  /\ pc = "idle" /\ req[r].status = "new"
  /\ req' = [req EXCEPT ![r].status = "waiting"]
  /\ waiting' = Append(waiting, r)
  /\ UNCHANGED <<running, skipped, num_streaming, finished_ids, recvs, cached, flight>>
  /\ UNCHANGED <<sending, pc, locals, env, ghosts>>

(* finish_requests for one request.                                        *)
FinishRequest(r) ==
  \E delayed \in IF DelaysFree(r) THEN {{r}} ELSE Delays({r}) :
    /\ req' = [req EXCEPT ![r] = Ended(r, r \in delayed)]
    /\ Free({r} \ delayed)
    /\ running' = Without(running, {r})
    /\ waiting' = Without(waiting, {r}) /\ skipped' = Without(skipped, {r})
    /\ num_streaming' = num_streaming - Counted({r})
    /\ finished_ids' = finished_ids \cup {r}
    /\ received' = received \ {r} /\ failed' = failed \ {r}
    /\ sending' = IF DelaysFree(r) THEN sending ELSE sending \cup delayed

Abort(r) ==
  /\ pc = "idle" /\ r \in Aborts /\ Live(r)
  /\ FinishRequest(r)
  /\ UNCHANGED <<loading, flight, pc, locals, env, tainted>>

(* add_request for a session that exists: its next input, or 0, the end.   *)
SendInput(r, len) ==
  /\ pc = "idle" /\ r \in Resumable /\ Live(r) /\ ~req[r].closed
  /\ len > 0 => req[r].inputs < MaxInputs
  /\ LET rec == [req[r] EXCEPT !.inputs = @ + 1, !.closed = (len = 0)]
     IN IF req[r].status # "streaming"
        THEN /\ req' = [req EXCEPT ![r] = [rec EXCEPT !.updates = Append(@, len)]]
             /\ UNCHANGED <<queues, num_streaming, finished_ids, received, failed>>
             /\ UNCHANGED <<cached, sending, good>>
        ELSE IF len > 0
        THEN /\ req' = [req EXCEPT ![r] = AsSession(r, rec, len)]
             /\ num_streaming' = num_streaming - Counted({r})
             /\ UNCHANGED <<queues, finished_ids, received, failed, cached, sending, good>>
        ELSE FinishRequest(r)
  /\ UNCHANGED <<loading, flight, pc, locals, env, tainted>>

Init ==
  /\ recompute \in Policies
  /\ req = [r \in ReqIds |-> [Gone(r) EXCEPT !.status = "new", !.closed = FALSE]]
  /\ running = <<>> /\ waiting = <<>> /\ skipped = <<>> /\ num_streaming = 0
  /\ finished_ids = {} /\ received = {} /\ failed = {} /\ cached = {}
  /\ flight = <<>> /\ loading = <<>> /\ sending = {}
  /\ pc = "idle" /\ at = 1 /\ plan = <<>> /\ step_skipped = <<>> /\ preempted = FALSE
  /\ out = None /\ faults = 0 /\ good = {} /\ tainted = FALSE

Engine ==
  \/ StartStep \/ ScheduleRunning \/ Preempt \/ EndRunning
  \/ PassOver \/ Promote \/ StartLoad \/ Admit \/ EndWaiting \/ CommitStep
  \/ TakeOutput \/ OutputRow \/ EndOutput

Client == \E r \in ReqIds : AddRequest(r) \/ Abort(r) \/ \E n \in Inputs \cup {0} : SendInput(r, n)

Next == Engine \/ Client

TransferEnds(r) ==
  r \in DOMAIN loading \cup sending /\ TakeOutput /\ r \notin DOMAIN loading' \cup sending'

(* The busy loop runs for as long as it has work, and a transfer that is   *)
(* under way is reported sooner or later.                                  *)
Spec ==
  /\ Init /\ [][Next]_vars /\ WF_vars(Engine)
  /\ \A r \in ReqIds : SF_vars(TransferEnds(r))

-----------------------------------------------------------------------------
(* The type invariant.                                                     *)
TypeOK ==
  /\ \A r \in ReqIds :
       /\ req[r].status \in {"new", "waiting", "preempted", "running", "remote",
                             "streaming", "finished", "gone"}
       /\ {req[r].tokens, req[r].prompt, req[r].computed} \subseteq Nat
       /\ IsInjective(req[r].table) /\ ToSet(req[r].table) \subseteq Blocks
  /\ num_streaming \in Nat /\ faults \in 0 .. MaxFaults
  /\ received \cup failed \cup sending \cup finished_ids \subseteq ReqIds
  /\ cached \subseteq Held /\ good \subseteq Blocks \X (0 .. BlockSize - 1)
  /\ pc \in {"idle", "running", "waiting", "commit", "rows"}

(* Every request in self.requests is in exactly one queue, once, or it is    *)
(* finished and "waiting on delayed connector cleanup" (1902): none is lost  *)
(* when it is skipped, promoted, preempted, stopped, continued as a session, *)
(* failed or aborted; and num_waiting_for_streaming_input, which the engine's*)
(* idle test subtracts, counts the sessions that wait for input. With one    *)
(* batch in flight only: with two, a session that is preempted and then      *)
(* stopped by the output of the older batch is put in a queue by             *)
(* _handle_stopped_request and taken out again (1541-1546), so it is in none.*)
QueuesAccountForRequests ==
  /\ num_streaming = Cardinality({r \in ReqIds : req[r].status = "streaming"})
  /\ pc = "idle" =>
       /\ IsInjective(running \o waiting \o skipped)
       /\ ToSet(running) = {r \in Known : req[r].status = "running"}
       /\ ToSet(waiting) \cup ToSet(skipped) =
            {r \in Known : req[r].status \in {"waiting", "preempted", "remote", "streaming"}}

(* While a worker loads or stores KV entries of a request, the request is  *)
(* in self.requests and holds those blocks, and nobody else does: aborting *)
(* it, failing it or finishing it does not give them away, and the report  *)
(* that the transfer is over meets the asserts at 2174-2183.               *)
TransfersOwnTheirBlocks ==
  /\ \A r \in DOMAIN loading :
       /\ req[r].status \in {"remote", "finished"} /\ r \notin received
       /\ \A p \in loading[r] :
            {q \in ReqIds : p[1] \in ToSet(req[q].table)} = {r}
  /\ \A r \in sending : req[r].status = "finished"
  /\ \A r \in ReqIds : req[r].status = "finished" =>
       r \in sending \cup DOMAIN loading \cup out.done \cup out.sent

(* A sampled token is accepted only if all KV entries it was computed from *)
(* were right: the request's own, loaded in full or recomputed from the    *)
(* first block that failed to load on ("the longest valid prefix", 2197).  *)
AcceptedFromValidKV == ~tainted

(* num_computed_tokens never exceeds the tokens there are, and blocks      *)
(* cover it: a promoted request has at least one token left to compute.    *)
ComputedWithinTokens ==
  \A r \in ReqIds :
    /\ req[r].status = "waiting" => req[r].computed < req[r].tokens
    /\ Live(r) => req[r].computed <= Len(req[r].table) * BlockSize

(* Requests, queues, counters and blocks agree.                            *)
AllAccountedFor == TypeOK /\ QueuesAccountForRequests /\ ComputedWithinTokens

(* Every request leaves self.requests through loads that fail and are      *)
(* retried, look-ups that are undecided, preemption, aborts during a load  *)
(* and delayed frees, if the clients of sessions end them some time: a     *)
(* session that waits for input keeps its blocks.                          *)
EveryRequestLeaves ==
  (\A r \in Resumable : <>(req[r].closed))
    => \A r \in ReqIds : req[r].status = "waiting" ~> req[r].status = "gone"
=============================================================================
