-------------------------- MODULE ModelRunner_proofs --------------------------
(***************************************************************************)
(* The invariants of the model runner for any number of requests, drafts   *)
(* and tokens: an inductive invariant that follows a step from its plan    *)
(* through the CPU, the stream and the GPU to the scheduler, and relates   *)
(* the counts that each of them has by then.                               *)
(***************************************************************************)
EXTENDS ModelRunner, DataLemmas

(* Steps in flight, and what the stream holds.                             *)
OnSomeOf(T) == UNION {[S -> T] : S \in SUBSET ReqIds}
StepRow     == [spec : 0 .. NumSpec, samples : BOOLEAN]
StepType    == [rows : OnSomeOf(StepRow), got : OnSomeOf(0 .. NumSpec + 1), done : BOOLEAN]
InputRow    == [req : ReqIds, n : Nat \ {0}, spec : 0 .. NumSpec, prev : Int, at : Nat,
                real : Nat]
Op          == [op : {"inputs"}, rows : Seq(InputRow)]
                 \cup [op : {"sample"}, discard : SUBSET ReqIds]

(* A step that is done has at least one token for each row that samples,   *)
(* and only such rows have drafts.                                         *)
Settled(step) ==
  /\ step \in StepType
  /\ \A r \in DOMAIN step.rows :
       /\ step.rows[r].spec > 0 => step.rows[r].samples
       /\ step.done => /\ r \in DOMAIN step.got
                       /\ step.got[r] \in IF step.rows[r].samples
                                          THEN 1 .. step.rows[r].spec + 1 ELSE {0}

(* At most two steps are in flight. What they await for a request, have    *)
(* got for it, and lack of what was awaited.                               *)
Flights == {f \in Seq(StepType) : Len(f) <= 2 /\ \A k \in DOMAIN f : Settled(f[k])}
GotBy(step, r)  == IF step.done /\ Samples(step, r) THEN step.got[r] ELSE 0
LackOf(step, r) == IF step.done THEN Awaited(step, r) - GotBy(step, r) ELSE 0
AwaitedIn(f, r) == (IF Len(f) >= 1 THEN Awaited(f[1], r) ELSE 0)
                     + (IF Len(f) >= 2 THEN Awaited(f[2], r) ELSE 0)
GotIn(f, r)     == (IF Len(f) >= 1 THEN GotBy(f[1], r) ELSE 0)
                     + (IF Len(f) >= 2 THEN GotBy(f[2], r) ELSE 0)
LackIn(f, r)    == (IF Len(f) >= 1 THEN LackOf(f[1], r) ELSE 0)
                     + (IF Len(f) >= 2 THEN LackOf(f[2], r) ELSE 0)

(* The rows of the step whose inputs are not yet on the GPU, if there is   *)
(* one; the rows whose samples the step that runs discards, and those      *)
(* whose samples the step that was launched last discards.                 *)
Inputs ==
  IF Len(stream) > 0 /\ stream[1].op = "inputs" THEN stream[1].rows
  ELSE IF Len(stream) > 1 /\ stream[2].op = "inputs" THEN stream[2].rows ELSE <<>>
FedDiscard  == IF Len(stream) = 0 THEN discard ELSE stream[1].discard
LastDiscard == IF pc = "execute_model" /\ Len(stream) > 0 THEN stream[Len(stream)].discard
               ELSE discard

(* rows are those of step, of which the samples in gone are discarded.     *)
RowsMatch(rows, step, gone) ==
  /\ DOMAIN step.rows = {rows[i].req : i \in DOMAIN rows}
  /\ \A i \in DOMAIN rows : rows[i].spec = step.rows[rows[i].req].spec
  /\ \A r \in DOMAIN step.rows : r \in gone <=> ~step.rows[r].samples

Only(k) == /\ k \in DOMAIN flight /\ ~flight[k].done
           /\ \A m \in DOMAIN flight : m # k => flight[m].done
Both == Len(flight) = 2 /\ ~flight[1].done /\ ~flight[2].done

(* Where the steps that are not done are: between two calls of             *)
(* execute_model, and after such a call.                                   *)
Idle    == /\ pc = "execute_model" /\ fed = <<>> /\ Len(stream) = 0
           /\ \A k \in DOMAIN flight : flight[k].done
Queued  == /\ pc = "execute_model" /\ fed = <<>>
           /\ Len(stream) = 2 /\ stream[1].op = "inputs" /\ stream[2].op = "sample"
           /\ DOMAIN Inputs # {} /\ Only(Len(flight)) /\ RowsMatch(Inputs, flight[Len(flight)], LastDiscard)
Runs    == /\ pc = "execute_model" /\ DOMAIN fed # {}
           /\ Len(stream) = 1 /\ stream[1].op = "sample"
           /\ \E k \in DOMAIN flight :
                /\ Only(k) /\ (k = Len(flight) \/ DOMAIN batch = {})
                /\ RowsMatch(fed, flight[k], FedDiscard)
RunsOne == /\ pc = "execute_model" /\ DOMAIN fed # {}
           /\ Len(stream) = 3
           /\ stream[1].op = "sample" /\ stream[2].op = "inputs" /\ stream[3].op = "sample"
           /\ DOMAIN Inputs # {} /\ Both /\ RowsMatch(fed, flight[1], FedDiscard)
           /\ RowsMatch(Inputs, flight[2], LastDiscard)
New     == /\ pc # "execute_model" /\ fed = <<>>
           /\ Len(stream) = 1 /\ stream[1].op = "inputs" /\ DOMAIN Inputs # {}
           /\ Only(Len(flight)) /\ RowsMatch(Inputs, flight[Len(flight)], LastDiscard)
NewRuns == /\ pc # "execute_model" /\ DOMAIN fed # {} /\ Len(stream) = 0
           /\ Only(Len(flight)) /\ RowsMatch(fed, flight[Len(flight)], FedDiscard)
NewNext == /\ pc # "execute_model" /\ DOMAIN fed # {}
           /\ Len(stream) = 2 /\ stream[1].op = "sample" /\ stream[2].op = "inputs"
           /\ DOMAIN Inputs # {} /\ Both /\ RowsMatch(fed, flight[1], FedDiscard)
           /\ RowsMatch(Inputs, flight[2], LastDiscard)
Pipeline == Idle \/ Queued \/ Runs \/ RunsOne \/ New \/ NewRuns \/ NewNext

-----------------------------------------------------------------------------
Live(r) == status[r] # "finished"
Held(r) == status[r] \in {"running", "preempted"}

SchedulerTypes ==
  /\ status \in [ReqIds -> {"waiting", "running", "preempted", "finished"}]
  /\ known \in [ReqIds -> Nat] /\ computed \in [ReqIds -> Nat]
  /\ length \in [ReqIds -> Nat] /\ kv \in [ReqIds -> Nat]
  /\ flight \in Flights
  /\ \A r \in finished_ids : r \in ReqIds /\ ~Live(r)
CpuTypes ==
  /\ pc \in {"execute_model", "correct", "sample_tokens"}
  /\ discard \subseteq ReqIds
  /\ DOMAIN requests \subseteq ReqIds
  /\ \A r \in DOMAIN requests :
       requests[r] \in [computed : Int, outputs : Nat, real : Nat, drafts : 0 .. NumSpec]
  /\ batch \in Seq(ReqIds) /\ DOMAIN batch \subseteq BatchRows
  /\ \A i, j \in DOMAIN batch : batch[i] = batch[j] => i = j
  /\ DOMAIN row = ToSet(batch)
  /\ \A r \in DOMAIN row : row[r] \in [computed : Int, tokens : Nat, real : Nat]
  /\ prev_positions \in [BatchRows -> Int]
  /\ prev_num_draft \in [BatchRows -> 0 .. NumSpec]
  /\ DOMAIN deferred \subseteq ReqIds
  /\ \A r \in DOMAIN deferred : deferred[r] \in 1 .. NumSpec
GpuTypes ==
  /\ stream \in Seq(Op)
  /\ DOMAIN fed \subseteq BatchRows
  /\ \A i \in DOMAIN fed :
       /\ fed[i].req \in ReqIds /\ fed[i].spec \in 0 .. NumSpec /\ fed[i].start \in Nat
       /\ Len(fed[i].ids) \in Nat \ {0}
       /\ DOMAIN fed[i].ids = 1 .. Len(fed[i].ids)
       /\ \A j \in DOMAIN fed : fed[i].req = fed[j].req => i = j
  /\ DOMAIN Inputs \subseteq BatchRows
  /\ DOMAIN sampled = BatchRows
  /\ \A i \in BatchRows : /\ sampled[i].start \in Nat /\ sampled[i].count \in Nat
                          /\ sampled[i].last \in Int
Types == SchedulerTypes /\ CpuTypes /\ GpuTypes

(* The persistent batch holds the requests of the last step planned.       *)
LastStep == flight[Len(flight)]
BatchIsLast ==
  /\ prev_step = ToSet(batch)
  /\ ToSet(batch) \subseteq DOMAIN requests
  /\ Len(flight) > 0 =>
       /\ DOMAIN LastStep.rows = ToSet(batch)
       /\ \A r \in ToSet(batch) : LastStep.rows[r].spec = requests[r].drafts
  /\ \A k \in DOMAIN flight : \A r \in DOMAIN flight[k].rows : status[r] # "waiting"

(* Between two calls of execute_model prev_row has the rows that sampled.  *)
PrevRows ==
  IF pc = "execute_model"
  THEN /\ \A r \in DOMAIN prev_row : prev_row[r] \in DOMAIN batch /\ batch[prev_row[r]] = r
       /\ \A r \in ToSet(batch) : requests[r].drafts > 0 => r \in DOMAIN prev_row
       /\ Len(flight) > 0 =>
            \A r \in ToSet(batch) : r \in DOMAIN prev_row <=> LastStep.rows[r].samples
  ELSE /\ Len(flight) > 0
       /\ \A r \in DOMAIN prev_row : r \in ReqIds /\ prev_row[r] \in BatchRows
       /\ \A i \in DOMAIN batch :
            prev_positions[i] = IF batch[i] \in DOMAIN prev_row THEN prev_row[batch[i]] ELSE -1
       /\ \A r \in DOMAIN deferred \cap DOMAIN prev_row :
            prev_num_draft[prev_row[r]] = deferred[r]
       /\ DOMAIN deferred \subseteq ToSet(batch)

BatchOnGpu ==
  /\ DOMAIN Inputs # {} =>
       DOMAIN Inputs = DOMAIN batch /\ \A i \in DOMAIN batch : Inputs[i].req = batch[i]
  /\ DOMAIN Inputs = {} /\ DOMAIN fed # {} /\ DOMAIN batch # {} =>
       DOMAIN fed = DOMAIN batch /\ \A i \in DOMAIN batch : fed[i].req = batch[i]

-----------------------------------------------------------------------------
ReqsOf(rows)   == {rows[i].req : i \in DOMAIN rows}
RowOf(rows, r) == CHOOSE i \in DOMAIN rows : rows[i].req = r
FedReqs    == ReqsOf(fed)
InputReqs  == ReqsOf(Inputs)
FedAt(r)   == RowOf(fed, r)
InputAt(r) == RowOf(Inputs, r)
FedEnd(i)  == fed[i].start + Len(fed[i].ids)

(* Where the steps that are launched end, if nothing more is rejected.     *)
RunEnd(r) == IF r \in FedReqs THEN FedEnd(FedAt(r)) ELSE kv[r]
End(r)    == RunEnd(r) + (IF r \in InputReqs THEN Inputs[InputAt(r)].n ELSE 0)

Optimistic(r) == known[r] + AwaitedIn(flight, r)

(* The scheduler's counts, as far as they are from the truth: by what the  *)
(* steps in flight lack.                                                   *)
KnownTokens ==
  \A r \in ReqIds :
    /\ Live(r) => /\ length[r] = known[r] + GotIn(flight, r)
                  /\ known[r] < MaxModelLen /\ Prompt <= known[r]
                  /\ Optimistic(r) <= MaxModelLen
    /\ status[r] \in {"waiting", "finished"} => known[r] = Prompt
    /\ Held(r) => r \in DOMAIN requests
    /\ kv[r] <= length[r] /\ length[r] <= MaxModelLen
ComputedTokens ==
  \A r \in ReqIds :
    /\ status[r] # "running" => computed[r] = 0
    /\ status[r] = "running" =>
         /\ computed[r] = End(r) + LackIn(flight, r)
         /\ computed[r] + 1 <= Optimistic(r)
         /\ AwaitedIn(flight, r) > 0 => computed[r] + 1 = Optimistic(r)
         /\ pc = "execute_model" /\ r \in DOMAIN prev_row => computed[r] + 1 = Optimistic(r)
         /\ r \notin FedReqs \cup InputReqs => kv[r] >= 1

(* The step that runs.                                                     *)
Tight(n, spec) == spec > 0 => n = spec + 1
FedRows ==
  \A i \in DOMAIN fed :
    LET f == fed[i] IN
    /\ f.start = kv[f.req]
    /\ IF f.req \in FedDiscard
       THEN FedEnd(i) <= length[f.req] /\ f.spec = 0
       ELSE /\ FedEnd(i) = length[f.req] + f.spec
            /\ length[f.req] + f.spec + 1 <= MaxModelLen
            /\ Tight(Len(f.ids), f.spec)

(* The step that is launched: a row that did not sample in the step before *)
(* knows its tokens; the others take them from that step, which has run    *)
(* or runs.                                                                *)
FreshRow(w) ==
  LET r == w.req IN
  /\ w.prev = -1 /\ w.spec = 0
  /\ row[r].computed = w.at /\ w.at + w.n <= w.real /\ w.real <= length[r]
  /\ r \notin LastDiscard => w.at + w.n = length[r] /\ length[r] < MaxModelLen
  /\ r \notin FedReqs => kv[r] = w.at
  /\ r \in FedReqs => r \in FedDiscard /\ w.at = FedEnd(FedAt(r))
RowOfSampled(w) ==
  LET r == w.req
      s == sampled[w.prev]
  IN /\ s.req = r /\ s.last = length[r] - 1 /\ kv[r] = length[r] - 1
     /\ length[r] + w.spec + 1 <= MaxModelLen
     /\ IF prev_num_draft[w.prev] > 0 THEN s.start + s.count = kv[r]
        ELSE row[r].computed = kv[r]
RowOfRunning(w) ==
  LET r == w.req
      f == fed[w.prev]
  IN /\ w.prev \in DOMAIN fed /\ f.req = r /\ r \notin FedDiscard
     /\ length[r] + f.spec + 1 + w.spec + 1 <= MaxModelLen
     /\ IF prev_num_draft[w.prev] > 0 THEN Len(f.ids) = f.spec + 1
        ELSE f.spec = 0 /\ row[r].computed = FedEnd(w.prev)
InputRows ==
  \A i \in DOMAIN Inputs :
    LET w == Inputs[i] IN
    /\ w.prev = prev_positions[i]
    /\ \/ FreshRow(w)
       \/ /\ w.prev \in BatchRows /\ w.prev > 0 /\ w.req \notin LastDiscard
          /\ w.n = w.spec + 1
          /\ DOMAIN fed = {} => RowOfSampled(w)
          /\ DOMAIN fed # {} => RowOfRunning(w)

(* What the GPU has sampled when the last step is done.                    *)
LastSampled ==
  pc = "execute_model" /\ Len(stream) = 0 =>
    \A r \in DOMAIN prev_row :
      LET s == sampled[prev_row[r]] IN
      /\ s.req = r /\ s.last = length[r] - 1 /\ kv[r] = length[r] - 1
      /\ requests[r].drafts > 0 => s.start + s.count = kv[r]
      /\ Len(flight) > 0 => LastStep.got[r] = s.count

(* The CPU's counts of output tokens are never behind the scheduler's.     *)
OutputsAhead ==
  \A r \in ToSet(batch) :
    /\ Prompt + requests[r].outputs <= MaxModelLen
    /\ row[r].tokens <= Prompt + requests[r].outputs
    /\ row[r].real <= MaxModelLen
    /\ IF pc = "execute_model"
       THEN status[r] = "running" =>
            /\ Prompt + requests[r].outputs + requests[r].drafts >= Optimistic(r)
            /\ r \notin DOMAIN prev_row => row[r].real = known[r] /\ AwaitedIn(flight, r) = 0
       ELSE /\ status[r] = "running"
            /\ Prompt + requests[r].outputs + Awaited(LastStep, r) = Optimistic(r)
            /\ ~Samples(LastStep, r) => row[r].real = known[r] /\ AwaitedIn(flight, r) = 0

(* What the CPU still has to correct, and its counts up to that.           *)
Due(r) == IF pc = "correct" /\ r \in DOMAIN deferred THEN deferred[r] ELSE 0
CpuCount(r, c) ==
  IF Pending("sample")
  THEN IF r \in FedReqs
       THEN /\ c = FedEnd(FedAt(r)) /\ fed[FedAt(r)].spec = Due(r)
            /\ Due(r) > 0 => prev_row[r] = FedAt(r)
       ELSE c = kv[r] /\ Due(r) = 0
  ELSE c = kv[r] + IF Due(r) > 0 THEN Due(r) - (sampled[prev_row[r]].count - 1) ELSE 0
Corrections ==
  /\ pc = "sample_tokens" => deferred = <<>>
  /\ pc = "correct" => DOMAIN deferred \subseteq DOMAIN prev_row
  /\ pc # "execute_model" /\ Len(flight) = 2 =>
       \A r \in ToSet(batch) :
         requests[r].computed = row[r].computed /\ CpuCount(r, row[r].computed)

IInv == /\ Types /\ Pipeline /\ BatchIsLast /\ PrevRows /\ BatchOnGpu
        /\ KnownTokens /\ ComputedTokens /\ FedRows /\ InputRows /\ LastSampled
        /\ OutputsAhead /\ Corrections
        /\ InputsAreTheSequence /\ DiscardsWhatIsNotExpected

-----------------------------------------------------------------------------
(* Facts about flights                                                     *)
LEMMA Numbers ==
  /\ Prompt \in Nat /\ NumSpec \in Nat /\ MaxModelLen \in Nat
  /\ 0 < Prompt /\ Prompt < MaxModelLen
  /\ \A h \in PrefixHits : h \in Nat /\ h < Prompt
BY RunnerAssumption

LEMMA StepRows ==
  ASSUME NEW s, Settled(s)
  PROVE  /\ s \in StepType /\ DOMAIN s.rows \subseteq ReqIds /\ s.done \in BOOLEAN
         /\ \A r \in DOMAIN s.rows :
              s.rows[r].spec \in 0 .. NumSpec /\ s.rows[r].samples \in BOOLEAN
BY DEF Settled, StepType, OnSomeOf, StepRow

LEMMA StepNumbers ==
  ASSUME NEW s, Settled(s), NEW r
  PROVE  /\ Awaited(s, r) \in Nat /\ GotBy(s, r) \in Nat /\ LackOf(s, r) \in Nat
         /\ Samples(s, r) \in BOOLEAN
         /\ Awaited(s, r) = 0 <=> ~Samples(s, r)
         /\ r \notin DOMAIN s.rows => Awaited(s, r) = 0 /\ GotBy(s, r) = 0 /\ LackOf(s, r) = 0
         /\ ~s.done => GotBy(s, r) = 0 /\ LackOf(s, r) = 0
         /\ s.done => LackOf(s, r) = Awaited(s, r) - GotBy(s, r)
<1>1. /\ DOMAIN s.rows \subseteq ReqIds /\ s.done \in BOOLEAN
      /\ \A q \in DOMAIN s.rows : s.rows[q].spec \in 0 .. NumSpec /\ s.rows[q].samples \in BOOLEAN
  BY StepRows
<1>2. CASE Samples(s, r)
  <2>1. r \in DOMAIN s.rows /\ s.rows[r].samples
    BY <1>2 DEF Samples
  <2>2. Awaited(s, r) = 1 + s.rows[r].spec /\ s.rows[r].spec \in Nat
    BY <1>1, <1>2, <2>1, Numbers DEF Awaited
  <2>3. CASE s.done
    <3>1. s.got[r] \in 1 .. s.rows[r].spec + 1
      BY <2>1, <2>3 DEF Settled
    <3>2. GotBy(s, r) = s.got[r] /\ LackOf(s, r) = Awaited(s, r) - s.got[r]
      BY <1>2, <2>3 DEF GotBy, LackOf
    <3> QED  BY <1>2, <2>1, <2>2, <2>3, <3>1, <3>2
  <2>4. CASE ~s.done
    <3>1. GotBy(s, r) = 0 /\ LackOf(s, r) = 0
      BY <2>4 DEF GotBy, LackOf
    <3> QED  BY <1>2, <2>1, <2>2, <2>4, <3>1
  <2> QED  BY <1>1, <2>3, <2>4
<1>3. CASE ~Samples(s, r)
  BY <1>1, <1>3 DEF Awaited, GotBy, LackOf, Samples
<1> QED  BY <1>2, <1>3

LEMMA FlightLength ==
  ASSUME NEW f \in Flights
  PROVE  /\ f \in Seq(StepType) /\ Len(f) \in 0 .. 2 /\ DOMAIN f = 1 .. Len(f)
         /\ \A k \in DOMAIN f : Settled(f[k])
<1>1. f \in Seq(StepType) /\ Len(f) <= 2
  BY DEF Flights
<1>2. Len(f) \in Nat /\ DOMAIN f = 1 .. Len(f)
  BY <1>1
<1>3. \A k \in DOMAIN f : Settled(f[k])
  BY DEF Flights
<1> QED  BY <1>1, <1>2, <1>3

(* What a flight awaits, got and lacks when it is empty, or has one step   *)
(* more or less.                                                           *)
LEMMA FlightNumbers ==
  ASSUME NEW f \in Flights, NEW r
  PROVE  /\ AwaitedIn(f, r) \in Nat /\ GotIn(f, r) \in Nat /\ LackIn(f, r) \in Nat
         /\ Len(f) \in 0 .. 2 /\ DOMAIN f = 1 .. Len(f)
         /\ Len(f) = 0 => AwaitedIn(f, r) = 0 /\ GotIn(f, r) = 0 /\ LackIn(f, r) = 0
         /\ Len(f) = 1 => /\ AwaitedIn(f, r) = Awaited(f[1], r)
                          /\ GotIn(f, r) = GotBy(f[1], r) /\ LackIn(f, r) = LackOf(f[1], r)
         /\ Len(f) = 2 => /\ AwaitedIn(f, r) = Awaited(f[1], r) + Awaited(f[2], r)
                          /\ GotIn(f, r) = GotBy(f[1], r) + GotBy(f[2], r)
                          /\ LackIn(f, r) = LackOf(f[1], r) + LackOf(f[2], r)
<1>2. Len(f) \in 0 .. 2 /\ DOMAIN f = 1 .. Len(f) /\ \A k \in DOMAIN f : Settled(f[k])
  BY FlightLength
<1>3. \A k \in 1 .. Len(f) :
        Awaited(f[k], r) \in Nat /\ GotBy(f[k], r) \in Nat /\ LackOf(f[k], r) \in Nat
  BY <1>2, StepNumbers
<1>4. CASE Len(f) = 0
  BY <1>2, <1>4 DEF AwaitedIn, GotIn, LackIn
<1>5. CASE Len(f) = 1
  <2>1. Awaited(f[1], r) \in Nat /\ GotBy(f[1], r) \in Nat /\ LackOf(f[1], r) \in Nat
    BY <1>3, <1>5
  <2>2. /\ AwaitedIn(f, r) = Awaited(f[1], r) /\ GotIn(f, r) = GotBy(f[1], r)
        /\ LackIn(f, r) = LackOf(f[1], r)
    BY <1>5, <2>1 DEF AwaitedIn, GotIn, LackIn
  <2> QED  BY <1>2, <1>5, <2>1, <2>2
<1>6. CASE Len(f) = 2
  <2>1. /\ Awaited(f[1], r) \in Nat /\ GotBy(f[1], r) \in Nat /\ LackOf(f[1], r) \in Nat
        /\ Awaited(f[2], r) \in Nat /\ GotBy(f[2], r) \in Nat /\ LackOf(f[2], r) \in Nat
    BY <1>3, <1>6
  <2>2. /\ AwaitedIn(f, r) = Awaited(f[1], r) + Awaited(f[2], r)
        /\ GotIn(f, r) = GotBy(f[1], r) + GotBy(f[2], r)
        /\ LackIn(f, r) = LackOf(f[1], r) + LackOf(f[2], r)
    BY <1>6 DEF AwaitedIn, GotIn, LackIn
  <2> QED  BY <1>2, <1>6, <2>1, <2>2
<1> QED  BY <1>2, <1>4, <1>5, <1>6

LEMMA LongerFlight ==
  ASSUME NEW f \in Flights, Len(f) < 2, NEW s, Settled(s)
  PROVE  /\ Append(f, s) \in Flights /\ Len(Append(f, s)) = Len(f) + 1
         /\ Append(f, s)[Len(f) + 1] = s
         /\ \A k \in DOMAIN f : Append(f, s)[k] = f[k]
         /\ \A r : /\ AwaitedIn(Append(f, s), r) = AwaitedIn(f, r) + Awaited(s, r)
                   /\ GotIn(Append(f, s), r) = GotIn(f, r) + GotBy(s, r)
                   /\ LackIn(Append(f, s), r) = LackIn(f, r) + LackOf(s, r)
<1> DEFINE g == Append(f, s)
<1>1. f \in Seq(StepType) /\ s \in StepType /\ \A k \in DOMAIN f : Settled(f[k])
  BY FlightLength DEF Settled
<1>2. Len(f) \in 0 .. 1 /\ DOMAIN f = 1 .. Len(f)
  BY FlightLength
<1>3. /\ g \in Seq(StepType) /\ Len(g) = Len(f) + 1 /\ g[Len(f) + 1] = s
      /\ \A k \in DOMAIN f : g[k] = f[k]
      /\ DOMAIN g = 1 .. Len(f) + 1
  BY <1>1, <1>2
<1> HIDE DEF g
<1>4. g \in Flights
  <2>1. ASSUME NEW k \in DOMAIN g PROVE Settled(g[k])
    <3>1. k \in DOMAIN f \/ k = Len(f) + 1
      BY <1>2, <1>3
    <3> QED  BY <1>1, <1>3, <3>1
  <2> QED  BY <1>2, <1>3, <2>1 DEF Flights
<1>5. ASSUME NEW r
      PROVE  /\ AwaitedIn(g, r) = AwaitedIn(f, r) + Awaited(s, r)
             /\ GotIn(g, r) = GotIn(f, r) + GotBy(s, r)
             /\ LackIn(g, r) = LackIn(f, r) + LackOf(s, r)
  <2>1. Awaited(s, r) \in Nat /\ GotBy(s, r) \in Nat /\ LackOf(s, r) \in Nat
    BY StepNumbers
  <2>2. CASE Len(f) = 0
    BY <1>3, <1>4, <2>1, <2>2, FlightNumbers
  <2>3. CASE Len(f) = 1
    <3>1. g[1] = f[1] /\ g[2] = s /\ Len(g) = 2
      BY <1>2, <1>3, <2>3
    <3> QED  BY <1>4, <2>1, <2>3, <3>1, FlightNumbers
  <2> QED  BY <1>2, <2>2, <2>3
<1> QED  BY <1>3, <1>4, <1>5 DEF g

LEMMA ShorterFlight ==
  ASSUME NEW f \in Flights, Len(f) > 0
  PROVE  /\ Tail(f) \in Flights /\ Len(Tail(f)) = Len(f) - 1 /\ Head(f) = f[1]
         /\ Len(f) = 2 => Tail(f)[1] = f[2]
         /\ \A r : /\ AwaitedIn(f, r) = Awaited(f[1], r) + AwaitedIn(Tail(f), r)
                   /\ GotIn(f, r) = GotBy(f[1], r) + GotIn(Tail(f), r)
                   /\ LackIn(f, r) = LackOf(f[1], r) + LackIn(Tail(f), r)
<1> DEFINE g == Tail(f)
<1>1. f \in Seq(StepType) /\ \A k \in DOMAIN f : Settled(f[k])
  BY FlightLength
<1>2. Len(f) \in 1 .. 2 /\ DOMAIN f = 1 .. Len(f)
  BY FlightLength
<1>3. /\ g \in Seq(StepType) /\ Len(g) = Len(f) - 1 /\ Head(f) = f[1]
      /\ \A k \in 1 .. Len(f) - 1 : g[k] = f[k + 1]
      /\ DOMAIN g = 1 .. Len(f) - 1
  BY <1>1, <1>2
<1> HIDE DEF g
<1>4. g \in Flights
  <2>1. ASSUME NEW k \in DOMAIN g PROVE Settled(g[k])
    <3>1. k \in 1 .. Len(f) - 1 /\ k + 1 \in DOMAIN f
      BY <1>2, <1>3
    <3> QED  BY <1>1, <1>3, <3>1
  <2> QED  BY <1>2, <1>3, <2>1 DEF Flights
<1>5. Len(f) = 2 => g[1] = f[2]
  BY <1>3
<1>6. ASSUME NEW r
      PROVE  /\ AwaitedIn(f, r) = Awaited(f[1], r) + AwaitedIn(g, r)
             /\ GotIn(f, r) = GotBy(f[1], r) + GotIn(g, r)
             /\ LackIn(f, r) = LackOf(f[1], r) + LackIn(g, r)
  <2>1. Awaited(f[1], r) \in Nat /\ GotBy(f[1], r) \in Nat /\ LackOf(f[1], r) \in Nat
    BY <1>1, <1>2, StepNumbers
  <2>2. CASE Len(f) = 1
    BY <1>3, <1>4, <2>1, <2>2, FlightNumbers
  <2>3. CASE Len(f) = 2
    BY <1>3, <1>4, <1>5, <2>1, <2>3, FlightNumbers
  <2> QED  BY <1>2, <2>2, <2>3
<1> QED  BY <1>3, <1>4, <1>5, <1>6 DEF g

(* A step that becomes done.                                               *)
LEMMA DoneFlight ==
  ASSUME NEW f \in Flights, NEW k \in DOMAIN f, ~f[k].done, NEW s, Settled(s), s.done,
         s.rows = f[k].rows
  PROVE  /\ [f EXCEPT ![k] = s] \in Flights /\ Len([f EXCEPT ![k] = s]) = Len(f)
         /\ [f EXCEPT ![k] = s][k] = s
         /\ \A m \in DOMAIN f : m # k => [f EXCEPT ![k] = s][m] = f[m]
         /\ \A r : /\ AwaitedIn([f EXCEPT ![k] = s], r) = AwaitedIn(f, r)
                   /\ GotIn([f EXCEPT ![k] = s], r) = GotIn(f, r) + GotBy(s, r)
                   /\ LackIn([f EXCEPT ![k] = s], r) = LackIn(f, r) + LackOf(s, r)
<1> DEFINE g == [f EXCEPT ![k] = s]
<1>1. f \in Seq(StepType) /\ \A m \in DOMAIN f : Settled(f[m])
  BY FlightLength
<1>2. Len(f) \in 1 .. 2 /\ DOMAIN f = 1 .. Len(f)
  BY FlightLength
<1>3. /\ g \in Seq(StepType) /\ Len(g) = Len(f) /\ g[k] = s /\ DOMAIN g = DOMAIN f
      /\ \A m \in DOMAIN f : m # k => g[m] = f[m]
  BY <1>1, <1>2 DEF Settled
<1> HIDE DEF g
<1>4. g \in Flights
  <2>1. ASSUME NEW m \in DOMAIN g PROVE Settled(g[m])
    BY <1>1, <1>3
  <2> QED  BY <1>2, <1>3, <2>1 DEF Flights
<1>5. ASSUME NEW r
      PROVE  /\ AwaitedIn(g, r) = AwaitedIn(f, r)
             /\ GotIn(g, r) = GotIn(f, r) + GotBy(s, r)
             /\ LackIn(g, r) = LackIn(f, r) + LackOf(s, r)
  <2>1. \A m \in 1 .. Len(f) : /\ Awaited(f[m], r) \in Nat /\ GotBy(f[m], r) \in Nat
                               /\ LackOf(f[m], r) \in Nat
    BY <1>1, <1>2, StepNumbers
  <2>2. GotBy(s, r) \in Nat /\ LackOf(s, r) \in Nat
    BY StepNumbers
  <2>3. Awaited(s, r) = Awaited(f[k], r)
    BY DEF Awaited, Samples
  <2>4. GotBy(f[k], r) = 0 /\ LackOf(f[k], r) = 0
    BY DEF GotBy, LackOf
  <2>5. CASE Len(f) = 1
    <3>1. k = 1
      BY <1>2, <2>5
    <3> QED  BY <1>3, <1>4, <2>1, <2>2, <2>3, <2>4, <2>5, <3>1, FlightNumbers
  <2>6. CASE Len(f) = 2 /\ k = 1
    <3>1. g[1] = s /\ g[2] = f[2]
      BY <1>2, <1>3, <2>6
    <3> QED  BY <1>3, <1>4, <2>1, <2>2, <2>3, <2>4, <2>6, <3>1, FlightNumbers
  <2>7. CASE Len(f) = 2 /\ k = 2
    <3>1. g[2] = s /\ g[1] = f[1]
      BY <1>2, <1>3, <2>7
    <3> QED  BY <1>3, <1>4, <2>1, <2>2, <2>3, <2>4, <2>7, <3>1, FlightNumbers
  <2> QED  BY <1>2, <2>5, <2>6, <2>7
<1> QED  BY <1>3, <1>4, <1>5 DEF g

-----------------------------------------------------------------------------
(* Rows with one request each are found by their request.                  *)
OneEach(rows) == \A i, j \in DOMAIN rows : rows[i].req = rows[j].req => i = j

LEMMA RowsByRequest ==
  ASSUME NEW rows, OneEach(rows)
  PROVE  /\ \A i \in DOMAIN rows : rows[i].req \in ReqsOf(rows) /\ RowOf(rows, rows[i].req) = i
         /\ \A r \in ReqsOf(rows) : RowOf(rows, r) \in DOMAIN rows /\ rows[RowOf(rows, r)].req = r
<1>1. ASSUME NEW i \in DOMAIN rows
      PROVE  rows[i].req \in ReqsOf(rows) /\ RowOf(rows, rows[i].req) = i
  BY DEF OneEach, ReqsOf, RowOf
<1>2. ASSUME NEW r \in ReqsOf(rows)
      PROVE  RowOf(rows, r) \in DOMAIN rows /\ rows[RowOf(rows, r)].req = r
  BY DEF ReqsOf, RowOf
<1> QED  BY <1>1, <1>2

LEMMA Sequences ==
  ASSUME NEW S, NEW s \in Seq(S)
  PROVE  /\ Len(s) \in Nat /\ DOMAIN s = 1 .. Len(s)
         /\ s = <<>> <=> Len(s) = 0
         /\ Len(s) > 0 => /\ Head(s) = s[1] /\ Tail(s) \in Seq(S) /\ Len(Tail(s)) = Len(s) - 1
                          /\ \A k \in 1 .. Len(s) - 1 : Tail(s)[k] = s[k + 1]
         /\ \A x \in S : /\ Append(s, x) \in Seq(S) /\ Len(Append(s, x)) = Len(s) + 1
                         /\ Append(s, x)[Len(s) + 1] = x
                         /\ \A k \in 1 .. Len(s) : Append(s, x)[k] = s[k]
<1>1. Len(s) \in Nat /\ DOMAIN s = 1 .. Len(s)
  OBVIOUS
<1>2. s = <<>> <=> Len(s) = 0
  OBVIOUS
<1>3. Len(s) > 0 => /\ Head(s) = s[1] /\ Tail(s) \in Seq(S) /\ Len(Tail(s)) = Len(s) - 1
                    /\ \A k \in 1 .. Len(s) - 1 : Tail(s)[k] = s[k + 1]
  OBVIOUS
<1>4. ASSUME NEW x \in S
      PROVE  /\ Append(s, x) \in Seq(S) /\ Len(Append(s, x)) = Len(s) + 1
             /\ Append(s, x)[Len(s) + 1] = x
             /\ \A k \in 1 .. Len(s) : Append(s, x)[k] = s[k]
  OBVIOUS
<1> QED  BY <1>1, <1>2, <1>3, <1>4

LEMMA BatchFacts ==
  ASSUME CpuTypes
  PROVE  /\ ToSet(batch) \subseteq ReqIds /\ ToSet(batch) = {batch[i] : i \in DOMAIN batch}
         /\ \A i \in DOMAIN batch : batch[i] \in ToSet(batch) /\ Index(batch[i]) = i
         /\ \A r \in ToSet(batch) : Index(r) \in DOMAIN batch /\ batch[Index(r)] = r
<1>1. /\ batch \in Seq(ReqIds)
      /\ \A i, j \in DOMAIN batch : batch[i] = batch[j] => i = j
  BY DEF CpuTypes
<1>2. ToSet(batch) = {batch[i] : i \in DOMAIN batch}
  BY DEF ToSet
<1>3. ASSUME NEW i \in DOMAIN batch PROVE batch[i] \in ReqIds /\ Index(batch[i]) = i
  BY <1>1 DEF Index
<1>4. ASSUME NEW r \in ToSet(batch) PROVE Index(r) \in DOMAIN batch /\ batch[Index(r)] = r
  BY <1>2 DEF Index
<1> QED  BY <1>2, <1>3, <1>4

(* What is derived from variables that do not change does not change.      *)
LEMMA InputsFrame ==
  ASSUME stream' = stream PROVE Inputs' = Inputs /\ InputReqs' = InputReqs
BY DEF Inputs, InputReqs

LEMMA StreamFrame ==
  ASSUME UNCHANGED <<stream, discard, pc>>
  PROVE  FedDiscard' = FedDiscard /\ LastDiscard' = LastDiscard
BY DEF FedDiscard, LastDiscard

LEMMA FedFrame ==
  ASSUME fed' = fed
  PROVE  FedReqs' = FedReqs /\ \A x : FedAt(x)' = FedAt(x) /\ FedEnd(x)' = FedEnd(x)
BY DEF FedReqs, FedAt, FedEnd

LEMMA PipelineFrame ==
  ASSUME Pipeline, UNCHANGED <<pc, fed, stream, discard, flight, batch>>
  PROVE  Pipeline'
<1>1. Inputs' = Inputs /\ FedDiscard' = FedDiscard /\ LastDiscard' = LastDiscard
  BY InputsFrame, StreamFrame
<1>2. Idle' = Idle /\ Queued' = Queued /\ Runs' = Runs
  <2>1. \A k : Only(k)' = Only(k)
    BY DEF Only
  <2> QED  BY <1>1, <2>1 DEF Idle, Queued, Runs
<1>3. RunsOne' = RunsOne /\ NewNext' = NewNext
  <2>1. Both' = Both
    BY DEF Both
  <2> QED  BY <1>1, <2>1 DEF RunsOne, NewNext
<1>4. New' = New /\ NewRuns' = NewRuns
  <2>1. \A k : Only(k)' = Only(k)
    BY DEF Only
  <2> QED  BY <1>1, <2>1 DEF New, NewRuns
<1> QED  BY <1>2, <1>3, <1>4, Zenon DEF Pipeline

(* The invariants of the CPU and the GPU alone.                            *)
LEMMA RowsFrame ==
  ASSUME FedRows, InputRows, InputsAreTheSequence,
         UNCHANGED <<fed, stream, discard, pc, kv, length, row, sampled, prev_num_draft,
                     prev_positions>>
  PROVE  FedRows' /\ InputRows' /\ InputsAreTheSequence'
<1>1. /\ Inputs' = Inputs /\ FedDiscard' = FedDiscard /\ LastDiscard' = LastDiscard
      /\ FedReqs' = FedReqs /\ \A x : FedAt(x)' = FedAt(x) /\ FedEnd(x)' = FedEnd(x)
  BY InputsFrame, StreamFrame, FedFrame
<1>2. FedRows'
  BY <1>1 DEF FedRows
<1>3. InputRows'
  BY <1>1 DEF InputRows, FreshRow, RowOfSampled, RowOfRunning, BatchRows
<1>4. InputsAreTheSequence'
  BY DEF InputsAreTheSequence
<1> QED  BY <1>2, <1>3, <1>4

(* Rows that run and rows that wait for their inputs.                      *)
LEMMA FedFacts ==
  ASSUME GpuTypes
  PROVE  /\ OneEach(fed) /\ FedReqs \subseteq ReqIds
         /\ \A i \in DOMAIN fed : /\ fed[i].req \in FedReqs /\ FedAt(fed[i].req) = i
                                  /\ FedEnd(i) \in Nat /\ FedEnd(i) >= 1
         /\ \A r \in FedReqs : FedAt(r) \in DOMAIN fed /\ fed[FedAt(r)].req = r
<1>1. OneEach(fed)
  BY DEF GpuTypes, OneEach
<1>2. \A i \in DOMAIN fed : /\ fed[i].req \in FedReqs /\ FedAt(fed[i].req) = i
  BY <1>1, RowsByRequest DEF FedReqs, FedAt
<1>3. \A r \in FedReqs : FedAt(r) \in DOMAIN fed /\ fed[FedAt(r)].req = r
  BY <1>1, RowsByRequest DEF FedReqs, FedAt
<1>4. \A i \in DOMAIN fed : fed[i].req \in ReqIds /\ FedEnd(i) \in Nat /\ FedEnd(i) >= 1
  BY DEF GpuTypes, FedEnd
<1>5. FedReqs \subseteq ReqIds
  BY <1>4 DEF FedReqs, ReqsOf
<1> QED  BY <1>1, <1>2, <1>3, <1>4, <1>5

LEMMA InputFacts ==
  ASSUME GpuTypes, CpuTypes, BatchOnGpu
  PROVE  /\ OneEach(Inputs) /\ InputReqs \subseteq ReqIds
         /\ \A i \in DOMAIN Inputs : /\ Inputs[i] \in InputRow
                                     /\ Inputs[i].req \in InputReqs /\ InputAt(Inputs[i].req) = i
         /\ \A r \in InputReqs : InputAt(r) \in DOMAIN Inputs /\ Inputs[InputAt(r)].req = r
<1>1. OneEach(Inputs)
  BY DEF OneEach, BatchOnGpu, CpuTypes
<1>2. \A i \in DOMAIN Inputs : Inputs[i] \in InputRow
  <2>1. stream \in Seq(Op) /\ Len(stream) \in Nat /\ DOMAIN stream = 1 .. Len(stream)
    BY DEF GpuTypes
  <2>2. \A k \in DOMAIN stream : stream[k].op = "inputs" => stream[k].rows \in Seq(InputRow)
    BY <2>1 DEF Op
  <2>3. Inputs \in Seq(InputRow) \/ Inputs = <<>>
    BY <2>1, <2>2 DEF Inputs
  <2> QED  BY <2>3
<1>3. /\ \A i \in DOMAIN Inputs : Inputs[i].req \in InputReqs /\ InputAt(Inputs[i].req) = i
      /\ \A r \in InputReqs : InputAt(r) \in DOMAIN Inputs /\ Inputs[InputAt(r)].req = r
  BY <1>1, RowsByRequest DEF InputReqs, InputAt
<1>4. InputReqs \subseteq ReqIds
  BY <1>2 DEF InputReqs, ReqsOf, InputRow
<1> QED  BY <1>1, <1>2, <1>3, <1>4

LEMMA EndIsNat ==
  ASSUME Types, BatchOnGpu, NEW r \in ReqIds
  PROVE  RunEnd(r) \in Nat /\ End(r) \in Nat
<1>1. RunEnd(r) \in Nat
  BY FedFacts DEF RunEnd, Types, SchedulerTypes
<1>2. r \in InputReqs => Inputs[InputAt(r)].n \in Nat
  BY InputFacts DEF Types, InputRow
<1> QED  BY <1>1, <1>2 DEF End

-----------------------------------------------------------------------------
(* A client disconnects: only the scheduler's counts of its request change.*)
LEMMA AbortKeepsIInv ==
  ASSUME IInv, NEW q \in ReqIds, Abort(q)
  PROVE  IInv'
<1>1. /\ pc = "execute_model" /\ status[q] \in {"running", "preempted"}
      /\ status' = [r \in ReqIds |-> IF r \in {q} THEN "finished" ELSE status[r]]
      /\ finished_ids' = finished_ids \cup {r \in {q} : status[r] # "waiting"}
      /\ known' = [known EXCEPT ![q] = Prompt] /\ computed' = [computed EXCEPT ![q] = 0]
      /\ UNCHANGED <<flight, prev_step, cpu, gpu, truth>>
  BY DEF Abort, Drop
<1>2. UNCHANGED <<requests, batch, row, prev_row, prev_positions, prev_num_draft, deferred,
                  discard, pc, stream, fed, sampled, length, kv, flight, prev_step>>
  BY <1>1 DEF cpu, gpu, truth
<1>3. SchedulerTypes'
  BY <1>1, <1>2, Numbers DEF IInv, Types, SchedulerTypes, Live
<1>4. CpuTypes' /\ GpuTypes'
  BY <1>2 DEF IInv, Types, CpuTypes, GpuTypes, Inputs
<1>5. Pipeline' /\ FedRows' /\ InputRows' /\ InputsAreTheSequence'
  BY <1>2, PipelineFrame, RowsFrame DEF IInv
<1>6. BatchIsLast' /\ BatchOnGpu'
  <2>1. BatchIsLast'
    <3>1. \A k \in DOMAIN flight : DOMAIN flight[k].rows \subseteq ReqIds
      BY FlightLength, StepRows DEF IInv, Types, SchedulerTypes
    <3> QED  BY <1>1, <1>2, <3>1 DEF IInv, BatchIsLast, LastStep
  <2>2. BatchOnGpu'
    BY <1>2, InputsFrame DEF IInv, BatchOnGpu
  <2> QED  BY <2>1, <2>2
<1>7. PrevRows' /\ LastSampled' /\ Corrections'
  <2>1. PrevRows'
    BY <1>2 DEF IInv, PrevRows, LastStep
  <2>2. LastSampled'
    BY <1>2 DEF IInv, LastSampled, LastStep
  <2>3. Corrections'
    BY <1>1, <1>2 DEF Corrections
  <2> QED  BY <2>1, <2>2, <2>3
<1> DEFINE others == ReqIds \ {q}
<1>8. /\ \A r \in others : /\ status'[r] = status[r] /\ known'[r] = known[r]
                           /\ computed'[r] = computed[r] /\ Live(r)' = Live(r)
                           /\ Held(r)' = Held(r) /\ Optimistic(r)' = Optimistic(r)
      /\ status'[q] = "finished" /\ known'[q] = Prompt /\ computed'[q] = 0 /\ ~Live(q)' /\ ~Held(q)'
  BY <1>1, <1>2 DEF IInv, Types, SchedulerTypes, Live, Held, Optimistic
<1>9. KnownTokens'
  BY <1>2, <1>8 DEF IInv, KnownTokens
<1>10. ComputedTokens'
  <2>1. (FedReqs \cup InputReqs)' = FedReqs \cup InputReqs
    BY <1>2, InputsFrame, FedFrame
  <2>2. \A r \in ReqIds : End(r)' = End(r)
    BY <1>2, InputsFrame, FedFrame DEF End, RunEnd, InputAt
  <2> QED  BY <1>2, <1>8, <2>1, <2>2 DEF IInv, ComputedTokens
<1>11. OutputsAhead' /\ DiscardsWhatIsNotExpected'
  <2>1. OutputsAhead'
    BY <1>1, <1>2, <1>8, BatchFacts DEF IInv, OutputsAhead, Types
  <2>2. DiscardsWhatIsNotExpected'
    BY <1>1, <1>2 DEF DiscardsWhatIsNotExpected
  <2> QED  BY <2>1, <2>2
<1> QED  BY <1>3, <1>4, <1>5, <1>6, <1>7, <1>9, <1>10, <1>11 DEF IInv, Types

-----------------------------------------------------------------------------
(* The output of the oldest step reaches the scheduler: its counts of a    *)
(* request that goes on are corrected by what the step got and lacked.     *)
Outcome(s) ==
  \A r \in ReqIds :
    /\ status'[r] \in {status[r], "finished"}
    /\ status'[r] = "finished" => known'[r] = Prompt /\ computed'[r] = 0
    /\ status'[r] # "finished" =>
         /\ known'[r] = known[r] + GotBy(s, r)
         /\ Samples(s, r) => known'[r] < MaxModelLen
         /\ computed'[r] = IF computed[r] > 0 THEN computed[r] - LackOf(s, r) ELSE computed[r]

LEMMA UpdateOutcome ==
  ASSUME SchedulerTypes, UpdateFromOutput
  PROVE  /\ Len(flight) > 0 /\ flight[1].done /\ Settled(flight[1])
         /\ flight' = Tail(flight) /\ pc = "execute_model"
         /\ UNCHANGED <<prev_step, cpu, gpu, truth>>
         /\ finished_ids' \subseteq
              finished_ids \cup {r \in ReqIds : status'[r] = "finished"}
         /\ status' \in [ReqIds -> {status[r] : r \in ReqIds} \cup {"finished"}]
         /\ known' = [r \in ReqIds |-> known'[r]] /\ computed' = [r \in ReqIds |-> computed'[r]]
         /\ Outcome(flight[1])
<1> DEFINE s == flight[1]
           live == {r \in DOMAIN s.rows : status[r] # "finished" /\ Samples(s, r)}
           after(r) == known[r] + s.got[r]
<1>1. flight \in Flights /\ flight # <<>> /\ Head(flight).done
  BY DEF SchedulerTypes, UpdateFromOutput
<1>2. Len(flight) > 0 /\ Head(flight) = s
  <2>1. flight \in Seq(StepType)
    BY <1>1, FlightLength
  <2> QED  BY <1>1, <2>1, Sequences
<1>3. s.done /\ Settled(s) /\ DOMAIN s.rows \subseteq ReqIds
  <2>1. 1 \in DOMAIN flight
    BY <1>1, <1>2, FlightLength
  <2>2. Settled(s)
    BY <1>1, <2>1, FlightLength
  <2> QED  BY <1>1, <1>2, <2>2, StepRows
<1>4. PICK stops \in SUBSET live :
        {r \in live : after(r) >= MaxModelLen} \subseteq stops /\ Drop(stops)
  BY <1>2 DEF UpdateFromOutput
<1>5. /\ known' = [r \in ReqIds |->
             IF status'[r] = "finished" THEN Prompt
             ELSE IF r \in live THEN after(r) ELSE known[r]]
      /\ computed' = [r \in ReqIds |->
             IF status'[r] = "finished" THEN 0
             ELSE IF r \in live /\ computed[r] > 0
             THEN computed[r] - (s.rows[r].spec + 1 - s.got[r]) ELSE computed[r]]
      /\ flight' = Tail(flight) /\ UNCHANGED <<prev_step, cpu, gpu, truth>>
  BY <1>2 DEF UpdateFromOutput
<1>6. /\ pc = "execute_model"
      /\ status' = [r \in ReqIds |-> IF r \in stops THEN "finished" ELSE status[r]]
      /\ finished_ids' = finished_ids \cup {r \in stops : status[r] # "waiting"}
  BY <1>4 DEF Drop
<1>7. Outcome(s)
  <2> SUFFICES ASSUME NEW r \in ReqIds
               PROVE  /\ status'[r] \in {status[r], "finished"}
                      /\ status'[r] = "finished" => known'[r] = Prompt /\ computed'[r] = 0
                      /\ status'[r] # "finished" =>
                           /\ known'[r] = known[r] + GotBy(s, r)
                           /\ Samples(s, r) => known'[r] < MaxModelLen
                           /\ computed'[r] = IF computed[r] > 0
                                             THEN computed[r] - LackOf(s, r) ELSE computed[r]
    BY DEF Outcome
  <2>1. status'[r] = IF r \in stops THEN "finished" ELSE status[r]
    BY <1>6
  <2>2. status'[r] = "finished" => known'[r] = Prompt /\ computed'[r] = 0
    BY <1>5
  <2>3. known[r] \in Nat /\ computed[r] \in Nat
    BY DEF SchedulerTypes
  <2>4. CASE status'[r] # "finished" /\ Samples(s, r)
    <3>1. r \in live /\ r \notin stops
      BY <2>1, <2>4 DEF Samples
    <3>2. s.got[r] \in 1 .. s.rows[r].spec + 1 /\ s.rows[r].spec \in 0 .. NumSpec
      BY <1>3, <2>4, StepRows DEF Settled, Samples
    <3>3. GotBy(s, r) = s.got[r] /\ LackOf(s, r) = 1 + s.rows[r].spec - s.got[r]
      <4> HIDE DEF s
      <4>1. GotBy(s, r) = s.got[r]
        BY <1>3, <2>4 DEF GotBy
      <4>2. Awaited(s, r) = 1 + s.rows[r].spec
        BY <2>4 DEF Awaited
      <4>3. LackOf(s, r) = Awaited(s, r) - GotBy(s, r)
        BY <1>3 DEF LackOf
      <4> QED  BY <3>2, <4>1, <4>2, <4>3, Numbers
    <3>4. known'[r] = after(r) /\ ~(after(r) >= MaxModelLen)
      BY <1>4, <1>5, <2>4, <3>1
    <3>5. computed'[r] = IF computed[r] > 0
                         THEN computed[r] - (s.rows[r].spec + 1 - s.got[r]) ELSE computed[r]
      BY <1>5, <2>4, <3>1
    <3> QED  BY <2>1, <2>3, <2>4, <3>2, <3>3, <3>4, <3>5, Numbers
  <2>5. CASE status'[r] # "finished" /\ ~Samples(s, r)
    <3>1. r \notin live /\ GotBy(s, r) = 0 /\ LackOf(s, r) = 0
      BY <2>5 DEF GotBy, LackOf, Awaited
    <3>2. known'[r] = known[r] /\ computed'[r] = computed[r]
      BY <1>5, <2>5, <3>1
    <3> QED  BY <2>1, <2>3, <2>5, <3>1, <3>2
  <2> QED  BY <2>1, <2>2, <2>4, <2>5
<1>8. finished_ids' \subseteq finished_ids \cup {r \in ReqIds : status'[r] = "finished"}
  BY <1>3, <1>4, <1>6
<1>9. status' \in [ReqIds -> {status[r] : r \in ReqIds} \cup {"finished"}]
  BY <1>6
<1>10. known' = [r \in ReqIds |-> known'[r]] /\ computed' = [r \in ReqIds |-> computed'[r]]
  BY <1>5
<1> QED  BY <1>2, <1>3, <1>5, <1>6, <1>7, <1>8, <1>9, <1>10

(* The oldest step is done, so that the one that is not, if there is one,  *)
(* only moves up.                                                          *)
LEMMA UpdatePipeline ==
  ASSUME Pipeline, flight \in Flights, Len(flight) > 0, flight[1].done, flight' = Tail(flight),
         pc = "execute_model", UNCHANGED <<pc, fed, stream, discard, batch>>
  PROVE  Pipeline'
<1>1. Inputs' = Inputs /\ FedDiscard' = FedDiscard /\ LastDiscard' = LastDiscard
  BY InputsFrame, StreamFrame
<1>2. /\ Len(flight) \in 1 .. 2 /\ DOMAIN flight = 1 .. Len(flight)
      /\ Len(flight') = Len(flight) - 1 /\ DOMAIN flight' = 1 .. Len(flight) - 1
      /\ Len(flight) = 2 => flight'[1] = flight[2]
  BY ShorterFlight, FlightLength
<1>3. ASSUME NEW k, Only(k) PROVE Len(flight) = 2 /\ k = 2 /\ Only(1)'
  BY <1>2, <1>3 DEF Only
<1>4. CASE Idle
  BY <1>2, <1>4 DEF Idle, Pipeline
<1>5. CASE Queued
  <2>1. Queued'
    BY <1>1, <1>2, <1>3, <1>5 DEF Queued
  <2> QED  BY <2>1 DEF Pipeline
<1>6. CASE Runs
  <2>1. PICK k \in DOMAIN flight : /\ Only(k) /\ (k = Len(flight) \/ DOMAIN batch = {})
                                   /\ RowsMatch(fed, flight[k], FedDiscard)
    BY <1>6 DEF Runs
  <2>2. Len(flight) = 2 /\ k = 2 /\ Only(1)'
    BY <1>3, <2>1
  <2>3. RowsMatch(fed', flight'[1], FedDiscard')
    BY <1>1, <1>2, <2>1, <2>2
  <2>4. Runs'
    <3>1. 1 \in DOMAIN flight' /\ 1 = Len(flight')
      BY <1>2, <2>2
    <3> QED  BY <1>6, <2>2, <2>3, <3>1 DEF Runs
  <2> QED  BY <2>4 DEF Pipeline
<1>7. ~RunsOne
  BY DEF RunsOne, Both
<1> QED  BY <1>4, <1>5, <1>6, <1>7 DEF Pipeline, New, NewRuns, NewNext

LEMMA UpdateKeepsIInv ==
  ASSUME IInv, UpdateFromOutput
  PROVE  IInv'
<1> DEFINE s == flight[1]
<1>1. SchedulerTypes /\ CpuTypes /\ GpuTypes /\ flight \in Flights
  BY DEF IInv, Types, SchedulerTypes
<1>2. /\ Len(flight) > 0 /\ s.done /\ Settled(s)
      /\ flight' = Tail(flight) /\ pc = "execute_model"
      /\ UNCHANGED <<requests, batch, row, prev_row, prev_positions, prev_num_draft, deferred,
                     discard, pc, stream, fed, sampled, length, kv, prev_step>>
      /\ Outcome(s)
  BY <1>1, UpdateOutcome DEF cpu, gpu, truth
<1>3. /\ flight' \in Flights /\ Len(flight') = Len(flight) - 1 /\ Len(flight) \in 1 .. 2
      /\ DOMAIN flight = 1 .. Len(flight) /\ DOMAIN flight' = 1 .. Len(flight')
      /\ Len(flight) = 2 => flight'[1] = flight[2]
      /\ Len(flight') > 0 => LastStep' = LastStep
  BY <1>1, <1>2, ShorterFlight, FlightLength DEF LastStep
<1> HIDE DEF s
<1>4. \A r : /\ AwaitedIn(flight, r) = Awaited(s, r) + AwaitedIn(flight', r)
             /\ GotIn(flight, r) = GotBy(s, r) + GotIn(flight', r)
             /\ LackIn(flight, r) = LackOf(s, r) + LackIn(flight', r)
  BY <1>1, <1>2, ShorterFlight DEF s
<1>5. \A r : /\ Awaited(s, r) \in Nat /\ GotBy(s, r) \in Nat /\ LackOf(s, r) \in Nat
             /\ LackOf(s, r) = Awaited(s, r) - GotBy(s, r)
             /\ Awaited(s, r) = 0 <=> ~Samples(s, r)
             /\ ~Samples(s, r) => GotBy(s, r) = 0
             /\ r \notin DOMAIN s.rows => GotBy(s, r) = 0
  BY <1>2, StepNumbers DEF GotBy
<1>6. \A r : /\ AwaitedIn(flight', r) \in Nat /\ GotIn(flight', r) \in Nat
             /\ LackIn(flight', r) \in Nat
  BY <1>3, FlightNumbers
<1>7. \A r \in ReqIds : known[r] \in Nat /\ computed[r] \in Nat /\ length[r] \in Nat
                        /\ kv[r] \in Nat
  BY <1>1 DEF SchedulerTypes
<1>8. \A r \in ReqIds : known[r] \in Nat /\ Live(r)' =>
        /\ Live(r) /\ status'[r] = status[r] /\ known'[r] = known[r] + GotBy(s, r)
        /\ Optimistic(r)' = Optimistic(r) - LackOf(s, r)
        /\ Optimistic(r) \in Nat
  <2> SUFFICES ASSUME NEW r \in ReqIds, Live(r)'
               PROVE  /\ Live(r) /\ status'[r] = status[r]
                      /\ known'[r] = known[r] + GotBy(s, r)
                      /\ Optimistic(r)' = Optimistic(r) - LackOf(s, r)
                      /\ Optimistic(r) \in Nat
    OBVIOUS
  <2>1. status'[r] # "finished"
    BY DEF Live
  <2>2. status'[r] = status[r] /\ known'[r] = known[r] + GotBy(s, r)
    BY <1>2, <2>1 DEF Outcome
  <2>3. Optimistic(r)' = known'[r] + AwaitedIn(flight', r)
    BY DEF Optimistic
  <2>4. Optimistic(r) = known[r] + AwaitedIn(flight, r)
    BY DEF Optimistic
  <2>5. Live(r)
    BY <2>1, <2>2 DEF Live
  <2> QED  BY <1>4, <1>5, <1>6, <1>7, <2>2, <2>3, <2>4, <2>5
<1>9. SchedulerTypes'
  <2>1. \A r \in ReqIds : known'[r] \in Nat /\ computed'[r] \in Nat
    <3> SUFFICES ASSUME NEW r \in ReqIds PROVE known'[r] \in Nat /\ computed'[r] \in Nat
      OBVIOUS
    <3>1. CASE status'[r] = "finished"
      BY <1>2, <3>1, Numbers DEF Outcome
    <3>2. CASE status'[r] # "finished"
      <4>1. /\ known'[r] = known[r] + GotBy(s, r)
            /\ computed'[r] = IF computed[r] > 0 THEN computed[r] - LackOf(s, r) ELSE computed[r]
            /\ status[r] = status'[r]
        BY <1>2, <3>2 DEF Outcome
      <4>2. computed[r] > 0 => computed[r] >= LackOf(s, r)
        <5>1. CASE status[r] = "running"
          <6>1. computed[r] = End(r) + LackIn(flight, r)
            BY <5>1 DEF IInv, ComputedTokens
          <6>2. End(r) \in Nat
            BY <5>1, EndIsNat DEF IInv
          <6> QED  BY <1>4, <1>5, <1>6, <6>1, <6>2
        <5>2. CASE status[r] # "running"
          BY <1>7, <5>2 DEF IInv, ComputedTokens
        <5> QED  BY <5>1, <5>2
      <4> QED  BY <1>5, <1>7, <4>1, <4>2
    <3> QED  BY <3>1, <3>2
  <2>2. \A r \in finished_ids' : r \in ReqIds /\ ~Live(r)'
    <3>1. finished_ids' \subseteq finished_ids \cup {r \in ReqIds : status'[r] = "finished"}
      BY <1>1, UpdateOutcome
    <3>2. \A r \in finished_ids : r \in ReqIds /\ status[r] = "finished"
      BY <1>1 DEF SchedulerTypes, Live
    <3>3. \A r \in ReqIds : status[r] = "finished" => status'[r] = "finished"
      BY <1>2 DEF Outcome
    <3> QED  BY <3>1, <3>2, <3>3 DEF Live
  <2>3. /\ known' = [r \in ReqIds |-> known'[r]] /\ computed' = [r \in ReqIds |-> computed'[r]]
        /\ status' \in [ReqIds -> {status[r] : r \in ReqIds} \cup {"finished"}]
    BY <1>1, UpdateOutcome
  <2>4. status' \in [ReqIds -> {"waiting", "running", "preempted", "finished"}]
    <3>1. \A r \in ReqIds : status[r] \in {"waiting", "running", "preempted", "finished"}
      BY <1>1 DEF SchedulerTypes
    <3> QED  BY <2>3, <3>1
  <2> QED  BY <1>1, <1>2, <1>3, <2>1, <2>2, <2>3, <2>4 DEF SchedulerTypes
<1>10. CpuTypes' /\ GpuTypes'
  BY <1>1, <1>2, InputsFrame DEF CpuTypes, GpuTypes
<1>11. Pipeline' /\ FedRows' /\ InputRows' /\ InputsAreTheSequence'
  BY <1>1, <1>2, UpdatePipeline, RowsFrame DEF IInv, s
<1>12. BatchIsLast' /\ BatchOnGpu'
  <2>1. BatchIsLast'
    <3>1. \A k \in DOMAIN flight' : \A r \in DOMAIN flight'[k].rows : status'[r] # "waiting"
      <4> SUFFICES ASSUME NEW k \in DOMAIN flight', NEW r \in DOMAIN flight'[k].rows
                   PROVE  status'[r] # "waiting"
        OBVIOUS
      <4>1. k = 1 /\ Len(flight) = 2 /\ flight'[1] = flight[2]
        <5> DEFINE n == Len(flight)
        <5>1. k \in 1 .. n - 1 /\ n \in 1 .. 2
          BY <1>3
        <5> HIDE DEF n
        <5>2. k = 1 /\ n = 2
          BY <5>1
        <5> USE DEF n
        <5> QED  BY <1>3, <5>2
      <4>2. r \in ReqIds
        BY <1>3, FlightLength, StepRows
      <4>3. status[r] # "waiting"
        BY <1>3, <4>1 DEF IInv, BatchIsLast
      <4> QED  BY <1>2, <4>2, <4>3 DEF Outcome
    <3> QED  BY <1>2, <1>3, <3>1 DEF IInv, BatchIsLast
  <2>2. BatchOnGpu'
    BY <1>2, InputsFrame DEF IInv, BatchOnGpu
  <2> QED  BY <2>1, <2>2
<1>13. PrevRows' /\ LastSampled' /\ Corrections'
  <2>1. PrevRows'
    BY <1>2, <1>3 DEF IInv, PrevRows
  <2>2. LastSampled'
    BY <1>2, <1>3 DEF IInv, LastSampled
  <2>3. Corrections'
    BY <1>2 DEF Corrections
  <2> QED  BY <2>1, <2>2, <2>3
<1>14. KnownTokens'
  <2> SUFFICES ASSUME NEW r \in ReqIds
               PROVE  /\ Live(r)' => /\ length'[r] = known'[r] + GotIn(flight', r)
                                     /\ known'[r] < MaxModelLen /\ Prompt <= known'[r]
                                     /\ Optimistic(r)' <= MaxModelLen
                      /\ status'[r] \in {"waiting", "finished"} => known'[r] = Prompt
                      /\ Held(r)' => r \in DOMAIN requests'
                      /\ kv'[r] <= length'[r] /\ length'[r] <= MaxModelLen
    BY DEF KnownTokens
  <2>1. ASSUME Live(r)'
        PROVE  /\ length'[r] = known'[r] + GotIn(flight', r)
               /\ known'[r] < MaxModelLen /\ Prompt <= known'[r]
               /\ Optimistic(r)' <= MaxModelLen
    <3>1. /\ Live(r) /\ known'[r] = known[r] + GotBy(s, r)
          /\ Optimistic(r)' = Optimistic(r) - LackOf(s, r) /\ Optimistic(r) \in Nat
      BY <1>7, <1>8, <2>1
    <3>2. /\ length[r] = known[r] + GotIn(flight, r) /\ known[r] < MaxModelLen
          /\ Prompt <= known[r] /\ Optimistic(r) <= MaxModelLen
      BY <3>1 DEF IInv, KnownTokens
    <3>3. Samples(s, r) => known'[r] < MaxModelLen
      BY <1>2, <2>1 DEF Outcome, Live
    <3>4. length'[r] = length[r]
      BY <1>2
    <3>5. known'[r] < MaxModelLen
      BY <1>5, <1>7, <3>1, <3>2, <3>3
    <3> QED  BY <1>4, <1>5, <1>6, <1>7, <3>1, <3>2, <3>4, <3>5, Numbers
  <2>2. status'[r] \in {"waiting", "finished"} => known'[r] = Prompt
    <3>1. ASSUME status'[r] = "waiting" PROVE known'[r] = Prompt
      <4>1. status[r] = "waiting" /\ known'[r] = known[r] + GotBy(s, r)
        BY <1>2, <3>1 DEF Outcome
      <4>2. r \notin DOMAIN s.rows
        BY <1>3, <4>1 DEF IInv, BatchIsLast, s
      <4> QED  BY <1>5, <1>7, <4>1, <4>2 DEF IInv, KnownTokens
    <3>2. status'[r] = "finished" => known'[r] = Prompt
      BY <1>2 DEF Outcome
    <3> QED  BY <3>1, <3>2
  <2>3. Held(r)' => r \in DOMAIN requests'
    BY <1>2 DEF Outcome, Held, IInv, KnownTokens
  <2>4. kv'[r] <= length'[r] /\ length'[r] <= MaxModelLen
    BY <1>2 DEF IInv, KnownTokens
  <2> QED  BY <2>1, <2>2, <2>3, <2>4
<1>15. ComputedTokens'
  <2> SUFFICES ASSUME NEW r \in ReqIds
               PROVE  /\ status'[r] # "running" => computed'[r] = 0
                      /\ status'[r] = "running" =>
                           /\ computed'[r] = End(r)' + LackIn(flight', r)
                           /\ computed'[r] + 1 <= Optimistic(r)'
                           /\ AwaitedIn(flight', r) > 0 => computed'[r] + 1 = Optimistic(r)'
                           /\ pc' = "execute_model" /\ r \in DOMAIN prev_row' =>
                                computed'[r] + 1 = Optimistic(r)'
                           /\ r \notin (FedReqs \cup InputReqs)' => kv'[r] >= 1
    BY DEF ComputedTokens
  <2>1. ASSUME status'[r] # "running" PROVE computed'[r] = 0
    <3>1. CASE status'[r] = "finished"
      BY <1>2, <3>1 DEF Outcome
    <3>2. CASE status'[r] # "finished"
      <4>1. status[r] # "running"
        BY <1>2, <2>1, <3>2 DEF Outcome
      <4>2. computed[r] = 0
        BY <4>1 DEF IInv, ComputedTokens
      <4> QED  BY <1>2, <3>2, <4>2 DEF Outcome
    <3> QED  BY <3>1, <3>2
  <2>2. ASSUME status'[r] = "running"
        PROVE  /\ computed'[r] = End(r)' + LackIn(flight', r)
               /\ computed'[r] + 1 <= Optimistic(r)'
               /\ AwaitedIn(flight', r) > 0 => computed'[r] + 1 = Optimistic(r)'
               /\ pc' = "execute_model" /\ r \in DOMAIN prev_row' =>
                    computed'[r] + 1 = Optimistic(r)'
               /\ r \notin (FedReqs \cup InputReqs)' => kv'[r] >= 1
    <3>1. /\ status[r] = "running" /\ Optimistic(r)' = Optimistic(r) - LackOf(s, r)
          /\ Optimistic(r) \in Nat
      BY <1>2, <1>7, <1>8, <2>2 DEF Outcome, Live
    <3>2. /\ computed[r] = End(r) + LackIn(flight, r)
          /\ computed[r] + 1 <= Optimistic(r)
          /\ AwaitedIn(flight, r) > 0 => computed[r] + 1 = Optimistic(r)
          /\ pc = "execute_model" /\ r \in DOMAIN prev_row => computed[r] + 1 = Optimistic(r)
          /\ r \notin FedReqs \cup InputReqs => kv[r] >= 1
      BY <3>1 DEF IInv, ComputedTokens
    <3>3. End(r) \in Nat
      BY EndIsNat DEF IInv
    <3>4. computed'[r] = computed[r] - LackOf(s, r)
      <4>1. computed'[r] = IF computed[r] > 0 THEN computed[r] - LackOf(s, r) ELSE computed[r]
        BY <1>2, <2>2 DEF Outcome
      <4> QED  BY <1>4, <1>5, <1>6, <1>7, <3>2, <3>3, <4>1
    <3>5. End(r)' = End(r)
      BY <1>2, InputsFrame, FedFrame DEF End, RunEnd, InputAt
    <3>6. (FedReqs \cup InputReqs)' = FedReqs \cup InputReqs
      BY <1>2, InputsFrame, FedFrame
    <3>7. AwaitedIn(flight', r) > 0 => AwaitedIn(flight, r) > 0
      BY <1>4, <1>5, <1>6
    <3>8. computed'[r] = End(r)' + LackIn(flight', r)
      BY <1>4, <1>5, <1>6, <1>7, <3>2, <3>3, <3>4, <3>5
    <3>9. /\ computed'[r] + 1 <= Optimistic(r)'
          /\ computed[r] + 1 = Optimistic(r) => computed'[r] + 1 = Optimistic(r)'
      BY <1>5, <1>7, <3>1, <3>2, <3>4
    <3> QED  BY <1>2, <3>2, <3>6, <3>7, <3>8, <3>9
  <2> QED  BY <2>1, <2>2
<1>16. OutputsAhead' /\ DiscardsWhatIsNotExpected'
  <2>1. ASSUME NEW r \in ToSet(batch), status'[r] = "running"
        PROVE  /\ Prompt + requests[r].outputs + requests[r].drafts >= Optimistic(r)'
               /\ r \notin DOMAIN prev_row =>
                    row[r].real = known'[r] /\ AwaitedIn(flight', r) = 0
    <3>1. r \in ReqIds
      BY <1>1, BatchFacts
    <3>2. /\ status[r] = "running" /\ known'[r] = known[r] + GotBy(s, r)
          /\ Optimistic(r)' = Optimistic(r) - LackOf(s, r) /\ Optimistic(r) \in Nat
      BY <1>2, <1>7, <1>8, <2>1, <3>1 DEF Outcome, Live
    <3>3. /\ Prompt + requests[r].outputs + requests[r].drafts >= Optimistic(r)
          /\ r \notin DOMAIN prev_row => row[r].real = known[r] /\ AwaitedIn(flight, r) = 0
      BY <1>2, <3>2 DEF IInv, OutputsAhead
    <3>4. requests[r].outputs \in Nat /\ requests[r].drafts \in Nat
      BY <1>1, Numbers DEF CpuTypes, IInv, BatchIsLast
    <3>5. AwaitedIn(flight, r) = 0 => AwaitedIn(flight', r) = 0 /\ GotBy(s, r) = 0
      BY <1>4, <1>5, <1>6
    <3> QED  BY <1>5, <1>7, <3>1, <3>2, <3>3, <3>4, <3>5, Numbers
  <2>2. OutputsAhead'
    BY <1>2, <2>1 DEF IInv, OutputsAhead
  <2>3. DiscardsWhatIsNotExpected'
    BY <1>2 DEF DiscardsWhatIsNotExpected
  <2> QED  BY <2>2, <2>3
<1> QED  BY <1>9, <1>10, <1>11, <1>12, <1>13, <1>14, <1>15, <1>16 DEF IInv, Types

-----------------------------------------------------------------------------
(* A row whose inputs reach the GPU while nothing runs: it starts where    *)
(* the valid KV entries end, and is given the request's own tokens.        *)
SequenceAt(r, at) ==
  IF at < length[r] THEN Token(r, at, 0) ELSE Token(r, length[r] - 1, at - length[r] + 1)

LEMMA FedRow ==
  ASSUME Types, InputRows, BatchOnGpu, fed = <<>>, NEW i \in DOMAIN Inputs
  PROVE  LET w == Inputs[i]
             r == w.req
         IN /\ FirstPosition(i, w) = kv[r]
            /\ \A j \in 1 .. w.n : InputId(i, w, j) = SequenceAt(r, kv[r] + j - 1)
            /\ IF r \in LastDiscard THEN kv[r] + w.n <= length[r] /\ w.spec = 0
               ELSE /\ kv[r] + w.n = length[r] + w.spec
                    /\ length[r] + w.spec + 1 <= MaxModelLen
                    /\ Tight(w.n, w.spec)
<1> DEFINE w == Inputs[i]
           r == w.req
<1>1. /\ w \in InputRow /\ r \in ReqIds /\ DOMAIN Inputs = DOMAIN batch /\ batch[i] = r
      /\ i \in DOMAIN batch /\ w.prev = prev_positions[i]
  <2>1. w \in InputRow
    BY InputFacts DEF Types
  <2>2. DOMAIN Inputs # {}
    OBVIOUS
  <2>3. DOMAIN Inputs = DOMAIN batch /\ batch[i] = r
    BY <2>2 DEF BatchOnGpu
  <2> QED  BY <2>1, <2>3 DEF InputRow, InputRows
<1>2. /\ w.n \in Nat /\ w.n > 0 /\ w.spec \in Nat /\ w.at \in Nat /\ w.real \in Nat
      /\ w.prev \in Int /\ kv[r] \in Nat /\ length[r] \in Nat /\ MaxModelLen \in Nat
  BY <1>1, Numbers DEF InputRow, Types, SchedulerTypes
<1>3. \/ FreshRow(w)
      \/ /\ w.prev \in BatchRows /\ w.prev > 0 /\ r \notin LastDiscard
         /\ w.n = w.spec + 1 /\ RowOfSampled(w)
  BY DEF InputRows
<1> HIDE DEF w
<1>4. CASE FreshRow(w)
  <2>1. /\ w.prev = -1 /\ w.spec = 0 /\ row[r].computed = w.at /\ w.at + w.n <= w.real
        /\ w.real <= length[r] /\ kv[r] = w.at
        /\ r \notin LastDiscard => w.at + w.n = length[r] /\ length[r] < MaxModelLen
    <3>1. r \notin FedReqs
      BY DEF FedReqs, ReqsOf
    <3> QED  BY <1>4, <3>1 DEF FreshRow
  <2>2. FirstPosition(i, w) = kv[r]
    BY <1>1, <2>1 DEF FirstPosition
  <2>3. ASSUME NEW j \in 1 .. w.n PROVE InputId(i, w, j) = SequenceAt(r, kv[r] + j - 1)
    <3>1. InputId(i, w, j) = Token(r, IF w.at + j - 1 < w.real THEN w.at + j - 1 ELSE -1, 0)
      BY <2>1 DEF InputId
    <3>2. w.at + j - 1 < w.real /\ kv[r] + j - 1 = w.at + j - 1 /\ kv[r] + j - 1 < length[r]
      BY <1>2, <2>1
    <3> QED  BY <3>1, <3>2 DEF SequenceAt
  <2>4. IF r \in LastDiscard THEN kv[r] + w.n <= length[r] /\ w.spec = 0
        ELSE /\ kv[r] + w.n = length[r] + w.spec
             /\ length[r] + w.spec + 1 <= MaxModelLen
             /\ Tight(w.n, w.spec)
    BY <1>2, <2>1 DEF Tight
  <2> QED  BY <2>2, <2>3, <2>4 DEF w
<1>5. CASE ~FreshRow(w)
  <2> DEFINE s == sampled[w.prev]
  <2>1. /\ w.prev \in BatchRows /\ w.prev > 0 /\ r \notin LastDiscard /\ w.n = w.spec + 1
        /\ s.req = r /\ s.last = length[r] - 1 /\ kv[r] = length[r] - 1
        /\ length[r] + w.spec + 1 <= MaxModelLen
        /\ IF prev_num_draft[w.prev] > 0 THEN s.start + s.count = kv[r]
           ELSE row[r].computed = kv[r]
    BY <1>3, <1>5 DEF RowOfSampled
  <2>2. FirstPosition(i, w) = kv[r]
    BY <1>1, <2>1 DEF FirstPosition
  <2>3. ASSUME NEW j \in 1 .. w.n PROVE InputId(i, w, j) = SequenceAt(r, kv[r] + j - 1)
    <3>1. j - (w.n - w.spec) = j - 1 /\ j - 1 >= 0
      BY <1>2, <2>1
    <3>2. InputId(i, w, j) = Token(r, length[r] - 1, j - 1)
      BY <2>1, <3>1 DEF InputId
    <3>3. CASE j = 1
      <4>1. kv[r] + j - 1 = length[r] - 1 /\ kv[r] + j - 1 < length[r] /\ j - 1 = 0
        BY <1>2, <2>1, <3>3
      <4> QED  BY <3>2, <4>1 DEF SequenceAt
    <3>4. CASE j # 1
      <4> DEFINE at == kv[r] + j - 1
      <4>1. ~(at < length[r]) /\ at - length[r] + 1 = j - 1
        BY <1>2, <2>1, <3>4
      <4> HIDE DEF at
      <4>2. SequenceAt(r, at) = Token(r, length[r] - 1, j - 1)
        BY <4>1 DEF SequenceAt
      <4> QED  BY <3>2, <4>2 DEF at
    <3> QED  BY <3>3, <3>4
  <2>4. /\ kv[r] + w.n = length[r] + w.spec
        /\ length[r] + w.spec + 1 <= MaxModelLen
        /\ Tight(w.n, w.spec)
    BY <1>2, <2>1 DEF Tight
  <2> QED  BY <2>1, <2>2, <2>3, <2>4 DEF w
<1> QED  BY <1>4, <1>5

(* Where the inputs of a step are the next thing in the stream, nothing    *)
(* runs; where a sample is, the first step that is not done runs.          *)
LEMMA InputsAreNext ==
  ASSUME Types, Pipeline, stream # <<>>, Head(stream).op = "inputs"
  PROVE  /\ stream \in Seq(Op) /\ Len(stream) \in 1 .. 2 /\ fed = <<>>
         /\ Inputs = stream[1].rows /\ DOMAIN Inputs # {}
         /\ Only(Len(flight)) /\ RowsMatch(Inputs, flight[Len(flight)], LastDiscard)
         /\ Head(stream) = stream[1] /\ Tail(stream) \in Seq(Op)
         /\ Len(Tail(stream)) = Len(stream) - 1
         /\ IF pc = "execute_model"
            THEN Len(stream) = 2 /\ Tail(stream)[1] = stream[2] /\ stream[2].op = "sample"
            ELSE Len(stream) = 1
<1>1. /\ stream \in Seq(Op) /\ Len(stream) \in Nat /\ Len(stream) > 0 /\ Head(stream) = stream[1]
      /\ Tail(stream) \in Seq(Op) /\ Len(Tail(stream)) = Len(stream) - 1
      /\ \A k \in 1 .. Len(stream) - 1 : Tail(stream)[k] = stream[k + 1]
  BY Sequences DEF Types, GpuTypes
<1>2. Queued \/ New
  BY <1>1 DEF Pipeline, Idle, Runs, RunsOne, NewRuns, NewNext
<1>3. Inputs = stream[1].rows
  BY <1>1 DEF Inputs
<1>4. CASE Queued
  <2>1. Tail(stream)[1] = stream[2]
    BY <1>1, <1>4 DEF Queued
  <2> QED  BY <1>1, <1>3, <1>4, <2>1 DEF Queued
<1>5. CASE New
  BY <1>1, <1>3, <1>5 DEF New
<1> QED  BY <1>2, <1>4, <1>5

LEMMA GpuInputsKeepIInv ==
  ASSUME IInv, GpuInputs
  PROVE  IInv'
<1>1. /\ SchedulerTypes /\ CpuTypes /\ GpuTypes /\ Types /\ BatchOnGpu /\ InputRows /\ Pipeline
      /\ stream # <<>> /\ Head(stream).op = "inputs" /\ stream' = Tail(stream)
      /\ UNCHANGED <<scheduler, cpu, sampled, truth>>
  BY DEF IInv, Types, GpuInputs
<1>2. UNCHANGED <<status, known, computed, flight, prev_step, finished_ids, requests, batch, row,
                  prev_row, prev_positions, prev_num_draft, deferred, discard, pc, sampled,
                  length, kv>>
  BY <1>1 DEF scheduler, cpu, truth
<1>3. /\ stream \in Seq(Op) /\ Len(stream) \in 1 .. 2 /\ fed = <<>>
      /\ Inputs = stream[1].rows /\ DOMAIN Inputs # {}
      /\ Only(Len(flight)) /\ RowsMatch(Inputs, flight[Len(flight)], LastDiscard)
      /\ Head(stream) = stream[1] /\ stream' \in Seq(Op)
      /\ Len(stream') = Len(stream) - 1
      /\ IF pc = "execute_model"
         THEN Len(stream) = 2 /\ stream'[1] = stream[2] /\ stream[2].op = "sample"
         ELSE Len(stream) = 1
  BY <1>1, InputsAreNext
<1>4. fed' = [i \in DOMAIN Inputs |->
                LET w == Inputs[i]
                IN [req |-> w.req, spec |-> w.spec, start |-> FirstPosition(i, w),
                    ids |-> [j \in 1 .. w.n |-> InputId(i, w, j)]]]
  BY <1>3 DEF GpuInputs
<1>5. /\ DOMAIN fed' = DOMAIN Inputs /\ DOMAIN fed' = DOMAIN batch /\ DOMAIN fed' # {}
      /\ \A i \in DOMAIN batch : fed'[i].req = batch[i] /\ Inputs[i].req = batch[i]
  BY <1>1, <1>3, <1>4 DEF BatchOnGpu
<1>6. \A i \in DOMAIN Inputs : Inputs[i] \in InputRow
  BY <1>1, InputFacts
<1>7. ASSUME NEW i \in DOMAIN Inputs
      PROVE  LET w == Inputs[i]
                 r == w.req
             IN /\ fed'[i].req = r /\ fed'[i].spec = w.spec /\ fed'[i].start = kv[r]
                /\ Len(fed'[i].ids) = w.n /\ DOMAIN fed'[i].ids = 1 .. w.n
                /\ \A j \in 1 .. w.n : fed'[i].ids[j] = SequenceAt(r, kv[r] + j - 1)
                /\ r \in ReqIds /\ w.spec \in 0 .. NumSpec /\ w.n \in Nat /\ w.n > 0
                /\ IF r \in LastDiscard THEN kv[r] + w.n <= length[r] /\ w.spec = 0
                   ELSE /\ kv[r] + w.n = length[r] + w.spec
                        /\ length[r] + w.spec + 1 <= MaxModelLen
                        /\ Tight(w.n, w.spec)
  <2> DEFINE w == Inputs[i]
             r == w.req
             ids == [j \in 1 .. w.n |-> InputId(i, w, j)]
  <2>1. w.req \in ReqIds /\ w.spec \in 0 .. NumSpec /\ w.n \in Nat /\ w.n > 0
    BY <1>6 DEF InputRow
  <2>2. /\ FirstPosition(i, w) = kv[r]
        /\ \A j \in 1 .. w.n : InputId(i, w, j) = SequenceAt(r, kv[r] + j - 1)
        /\ IF r \in LastDiscard THEN kv[r] + w.n <= length[r] /\ w.spec = 0
           ELSE /\ kv[r] + w.n = length[r] + w.spec
                /\ length[r] + w.spec + 1 <= MaxModelLen
                /\ Tight(w.n, w.spec)
    BY <1>1, <1>3, FedRow
  <2>3. /\ fed'[i].req = r /\ fed'[i].spec = w.spec /\ fed'[i].start = FirstPosition(i, w)
        /\ fed'[i].ids = ids
    BY <1>4
  <2>4. Len(ids) = w.n /\ DOMAIN ids = 1 .. w.n /\ \A j \in 1 .. w.n : ids[j] = InputId(i, w, j)
    BY <2>1
  <2> HIDE DEF ids
  <2> QED  BY <2>1, <2>2, <2>3, <2>4
<1>8. /\ Inputs' = <<>> /\ InputReqs' = {} /\ FedReqs' = InputReqs
      /\ FedDiscard' = LastDiscard /\ LastDiscard' = LastDiscard
  <2>1. Inputs' = <<>>
    BY <1>3 DEF Inputs
  <2>2. FedDiscard' = LastDiscard /\ LastDiscard' = LastDiscard
    <3>1. CASE pc = "execute_model"
      <4>1. Len(stream) = 2 /\ stream'[1] = stream[2] /\ Len(stream') = 1
        BY <1>3, <3>1
      <4>2. LastDiscard = stream[2].discard
        BY <3>1, <4>1 DEF LastDiscard
      <4>3. FedDiscard' = stream[2].discard
        BY <4>1 DEF FedDiscard
      <4>4. LastDiscard' = stream[2].discard
        BY <1>2, <3>1, <4>1 DEF LastDiscard
      <4> QED  BY <4>2, <4>3, <4>4
    <3>2. CASE pc # "execute_model"
      <4>1. Len(stream') = 0
        BY <1>3, <3>2
      <4> QED  BY <1>2, <3>2, <4>1 DEF FedDiscard, LastDiscard
    <3> QED  BY <3>1, <3>2
  <2>3. FedReqs' = InputReqs
    BY <1>5 DEF FedReqs, InputReqs, ReqsOf
  <2>4. InputReqs' = {}
    BY <2>1 DEF InputReqs, ReqsOf
  <2> QED  BY <2>1, <2>2, <2>3, <2>4
<1>9. GpuTypes'
  <2>1. DOMAIN fed' \subseteq BatchRows
    BY <1>1, <1>5 DEF CpuTypes
  <2>2. ASSUME NEW i \in DOMAIN fed'
        PROVE  /\ fed'[i].req \in ReqIds /\ fed'[i].spec \in 0 .. NumSpec
               /\ fed'[i].start \in Nat /\ Len(fed'[i].ids) \in Nat \ {0}
               /\ DOMAIN fed'[i].ids = 1 .. Len(fed'[i].ids)
               /\ \A j \in DOMAIN fed' : fed'[i].req = fed'[j].req => i = j
    <3>1. \A j \in DOMAIN fed' : fed'[i].req = fed'[j].req => i = j
      BY <1>1, <1>5 DEF CpuTypes
    <3>2. i \in DOMAIN Inputs
      BY <1>5
    <3>3. /\ fed'[i].req \in ReqIds /\ fed'[i].spec \in 0 .. NumSpec
          /\ fed'[i].start = kv[fed'[i].req]
          /\ Len(fed'[i].ids) = Inputs[i].n /\ Inputs[i].n \in Nat \ {0}
          /\ DOMAIN fed'[i].ids = 1 .. Inputs[i].n
      BY <1>7, <3>2
    <3>4. kv[fed'[i].req] \in Nat
      BY <1>1, <3>3 DEF SchedulerTypes
    <3> QED  BY <3>1, <3>3, <3>4
  <2> QED  BY <1>1, <1>2, <1>3, <1>8, <2>1, <2>2 DEF GpuTypes, BatchRows
<1>10. SchedulerTypes' /\ CpuTypes'
  BY <1>1, <1>2 DEF SchedulerTypes, CpuTypes, Live, BatchRows
<1>11. Pipeline'
  <2>1. RowsMatch(fed', flight'[Len(flight')], FedDiscard')
    <3>1. flight' = flight /\ FedDiscard' = LastDiscard /\ DOMAIN fed' = DOMAIN Inputs
      BY <1>2, <1>5, <1>8
    <3>2. \A i \in DOMAIN Inputs : fed'[i].req = Inputs[i].req /\ fed'[i].spec = Inputs[i].spec
      BY <1>7
    <3>3. {fed'[i].req : i \in DOMAIN fed'} = {Inputs[i].req : i \in DOMAIN Inputs}
      BY <3>1, <3>2
    <3> QED  BY <1>3, <3>1, <3>2, <3>3 DEF RowsMatch
  <2>2. Only(Len(flight))' /\ Len(flight) \in DOMAIN flight
    BY <1>2, <1>3 DEF Only
  <2>3. CASE pc = "execute_model"
    <3>1. Runs'
      BY <1>2, <1>3, <1>5, <2>1, <2>2, <2>3 DEF Runs
    <3> QED  BY <3>1 DEF Pipeline
  <2>4. CASE pc # "execute_model"
    <3>1. NewRuns'
      BY <1>2, <1>3, <1>5, <2>1, <2>2, <2>4 DEF NewRuns
    <3> QED  BY <3>1 DEF Pipeline
  <2> QED  BY <2>3, <2>4
<1>12. BatchIsLast' /\ PrevRows' /\ BatchOnGpu'
  <2>1. BatchIsLast'
    BY <1>2 DEF IInv, BatchIsLast, LastStep
  <2>2. PrevRows'
    BY <1>2 DEF IInv, PrevRows, LastStep, BatchRows
  <2>3. BatchOnGpu'
    BY <1>2, <1>5, <1>8 DEF BatchOnGpu
  <2> QED  BY <2>1, <2>2, <2>3
<1>13. KnownTokens'
  BY <1>2 DEF IInv, KnownTokens, Live, Held, Optimistic
<1>14. \A r \in InputReqs : InputAt(r) \in DOMAIN Inputs /\ Inputs[InputAt(r)].req = r
  BY <1>1, InputFacts
<1>15. OneEach(fed') /\ \A r \in InputReqs : FedAt(r)' = InputAt(r)
  <2>1. OneEach(fed')
    BY <1>9 DEF GpuTypes, OneEach
  <2>2. ASSUME NEW r \in InputReqs PROVE FedAt(r)' = InputAt(r)
    <3>1. InputAt(r) \in DOMAIN Inputs /\ Inputs[InputAt(r)].req = r
      BY <1>14
    <3>2. fed'[InputAt(r)].req = r /\ InputAt(r) \in DOMAIN fed'
      BY <1>5, <3>1
    <3>3. RowOf(fed', fed'[InputAt(r)].req) = InputAt(r)
      BY <2>1, <3>2, RowsByRequest
    <3> QED  BY <3>2, <3>3 DEF FedAt
  <2> QED  BY <2>1, <2>2
<1>16. ComputedTokens'
  <2>1. ASSUME NEW r \in ReqIds PROVE End(r)' = End(r)
    <3>1. CASE r \in InputReqs
      <4>1. InputAt(r) \in DOMAIN Inputs /\ Inputs[InputAt(r)].req = r
        BY <1>14, <3>1
      <4>2. fed'[InputAt(r)].start = kv[r] /\ Len(fed'[InputAt(r)].ids) = Inputs[InputAt(r)].n
        BY <1>7, <4>1
      <4>3. FedEnd(FedAt(r))' = kv[r] + Inputs[InputAt(r)].n
        BY <1>15, <3>1, <4>2 DEF FedEnd
      <4>4. kv[r] + Inputs[InputAt(r)].n \in Nat
        BY <1>1, <1>7, <4>1 DEF SchedulerTypes
      <4>5. End(r)' = FedEnd(FedAt(r))' + 0
        BY <1>8, <3>1 DEF End, RunEnd
      <4>6. r \notin FedReqs
        BY <1>3 DEF FedReqs, ReqsOf
      <4>7. End(r) = kv[r] + Inputs[InputAt(r)].n
        BY <3>1, <4>6 DEF End, RunEnd
      <4> QED  BY <4>3, <4>4, <4>5, <4>7
    <3>2. CASE r \notin InputReqs
      <4>1. r \notin FedReqs
        BY <1>3 DEF FedReqs, ReqsOf
      <4> QED  BY <1>2, <1>8, <3>2, <4>1 DEF End, RunEnd
    <3> QED  BY <3>1, <3>2
  <2>2. (FedReqs \cup InputReqs)' = FedReqs \cup InputReqs
    <3>1. FedReqs = {}
      BY <1>3 DEF FedReqs, ReqsOf
    <3> QED  BY <1>8, <3>1
  <2>3. \A r : Optimistic(r)' = Optimistic(r)
    BY <1>2 DEF Optimistic
  <2> QED  BY <1>2, <2>1, <2>2, <2>3 DEF IInv, ComputedTokens
<1>17. FedRows' /\ InputRows' /\ InputsAreTheSequence'
  <2>1. FedRows'
    BY <1>2, <1>5, <1>7, <1>8 DEF FedRows, FedEnd
  <2>2. InputRows'
    BY <1>8 DEF InputRows
  <2>3. InputsAreTheSequence'
    BY <1>2, <1>5, <1>7 DEF InputsAreTheSequence, SequenceAt
  <2> QED  BY <2>1, <2>2, <2>3
<1>18. LastSampled' /\ OutputsAhead' /\ DiscardsWhatIsNotExpected'
  <2>1. LastSampled'
    BY <1>2, <1>3 DEF LastSampled
  <2>2. OutputsAhead'
    BY <1>2 DEF IInv, OutputsAhead, Optimistic, LastStep
  <2>3. DiscardsWhatIsNotExpected'
    BY <1>2 DEF IInv, DiscardsWhatIsNotExpected
  <2> QED  BY <2>1, <2>2, <2>3
<1>19. Corrections'
  <2>1. CASE pc = "execute_model"
    BY <1>2, <2>1 DEF Corrections
  <2>2. CASE pc # "execute_model"
    <3>1. DOMAIN stream = {1} /\ stream[1].op = "inputs" /\ DOMAIN stream' = {}
      BY <1>1, <1>3, <2>2
    <3>2. ~Pending("sample") /\ ~Pending("sample")'
      BY <3>1 DEF Pending
    <3>3. \A r, c : CpuCount(r, c)' = CpuCount(r, c)
      BY <1>2, <3>2 DEF CpuCount, Due
    <3> QED  BY <1>2, <3>3 DEF IInv, Corrections
  <2> QED  BY <2>1, <2>2
<1> QED  BY <1>9, <1>10, <1>11, <1>12, <1>13, <1>16, <1>17, <1>18, <1>19 DEF IInv, Types

-----------------------------------------------------------------------------
(* The CPU corrects the counts of the rows whose drafts it took for        *)
(* accepted: those of the rows that are new or that the GPU counts itself. *)
LEMMA CorrectionOfRow ==
  ASSUME CpuTypes, PrevRows, BatchOnGpu, InputRows, pc = "correct", NEW i \in DOMAIN Inputs,
         Inputs[i].prev = -1 \/ ~(prev_num_draft[Inputs[i].prev] > 0)
  PROVE  Correction(Inputs[i].req) = 0
<1> DEFINE r == Inputs[i].req
<1>1. r = batch[i] /\ i \in DOMAIN batch /\ Inputs[i].prev = prev_positions[i]
  BY DEF BatchOnGpu, InputRows
<1>2. CASE r \in DOMAIN deferred \cap DOMAIN prev_row
  <2>1. Inputs[i].prev = prev_row[r] /\ prev_row[r] \in BatchRows
    BY <1>1, <1>2 DEF PrevRows
  <2>2. prev_num_draft[prev_row[r]] = deferred[r] /\ deferred[r] \in 1 .. NumSpec
    BY <1>2 DEF PrevRows, CpuTypes
  <2> QED  BY <2>1, <2>2, Numbers DEF BatchRows
<1>3. CASE r \notin DOMAIN deferred \cap DOMAIN prev_row
  BY <1>3 DEF Correction
<1> QED  BY <1>2, <1>3

LEMMA CorrectKeepsIInv ==
  ASSUME IInv, Correct
  PROVE  IInv'
<1>1. /\ SchedulerTypes /\ CpuTypes /\ GpuTypes /\ Types /\ BatchOnGpu /\ PrevRows /\ InputRows
      /\ pc = "correct" /\ pc' = "sample_tokens" /\ deferred' = <<>>
      /\ requests' = [r \in DOMAIN requests |->
                        [requests[r] EXCEPT !.computed = @ - Correction(r)]]
      /\ row' = [r \in DOMAIN row |-> [row[r] EXCEPT !.computed = @ - Correction(r)]]
      /\ UNCHANGED <<status, known, computed, flight, prev_step, finished_ids, batch, prev_row,
                     prev_positions, prev_num_draft, discard, stream, fed, sampled,
                     length, kv>>
  BY DEF IInv, Types, Correct, scheduler, gpu, truth
<1>2. /\ Inputs' = Inputs /\ InputReqs' = InputReqs /\ FedReqs' = FedReqs
      /\ \A x : FedAt(x)' = FedAt(x) /\ FedEnd(x)' = FedEnd(x) /\ InputAt(x)' = InputAt(x)
      /\ FedDiscard' = FedDiscard /\ LastDiscard' = LastDiscard
  BY <1>1, InputsFrame, FedFrame DEF FedDiscard, LastDiscard, InputAt
<1>3. ASSUME NEW r PROVE Correction(r) \in Int
  <2>1. CASE r \in DOMAIN deferred \cap DOMAIN prev_row
    <3>1. deferred[r] \in Int /\ prev_row[r] \in BatchRows
      BY <1>1, <2>1, Numbers DEF CpuTypes, PrevRows
    <3>2. sampled[prev_row[r]].count \in Int
      BY <1>1, <3>1 DEF GpuTypes
    <3> QED  BY <2>1, <3>1, <3>2 DEF Correction
  <2>2. CASE r \notin DOMAIN deferred \cap DOMAIN prev_row
    BY <2>2 DEF Correction
  <2> QED  BY <2>1, <2>2
<1>4. /\ DOMAIN requests' = DOMAIN requests
      /\ \A r \in DOMAIN requests :
           /\ requests'[r] = [requests[r] EXCEPT !.computed = @ - Correction(r)]
           /\ requests[r] \in [computed : Int, outputs : Nat, real : Nat, drafts : 0 .. NumSpec]
  BY <1>1 DEF CpuTypes
<1>5. \A r \in DOMAIN requests :
        /\ requests'[r] \in [computed : Int, outputs : Nat, real : Nat, drafts : 0 .. NumSpec]
        /\ requests'[r].computed = requests[r].computed - Correction(r)
        /\ requests'[r].outputs = requests[r].outputs /\ requests'[r].drafts = requests[r].drafts
  BY <1>3, <1>4
<1>6. /\ DOMAIN row' = DOMAIN row
      /\ \A r \in DOMAIN row :
           /\ row'[r] = [row[r] EXCEPT !.computed = @ - Correction(r)]
           /\ row[r] \in [computed : Int, tokens : Nat, real : Nat]
  BY <1>1 DEF CpuTypes
<1>7. \A r \in DOMAIN row :
        /\ row'[r] \in [computed : Int, tokens : Nat, real : Nat]
        /\ row'[r].computed = row[r].computed - Correction(r) /\ row[r].computed \in Int
        /\ row'[r].tokens = row[r].tokens /\ row'[r].real = row[r].real
  BY <1>3, <1>6
<1>8. /\ ToSet(batch) = DOMAIN row /\ ToSet(batch) \subseteq DOMAIN requests
      /\ ToSet(batch) \subseteq ReqIds /\ DOMAIN deferred' = {}
  BY <1>1, BatchFacts DEF IInv, CpuTypes, BatchIsLast
<1>9. Types'
  <2>1. CpuTypes'
    BY <1>1, <1>4, <1>5, <1>6, <1>7, <1>8 DEF CpuTypes, BatchRows
  <2>2. GpuTypes'
    BY <1>1, <1>2 DEF GpuTypes, BatchRows
  <2>3. SchedulerTypes'
    BY <1>1 DEF SchedulerTypes, Live
  <2> QED  BY <2>1, <2>2, <2>3 DEF Types
<1>10. Pipeline'
  <2>1. /\ \A k : Only(k)' = Only(k)
        /\ Both' = Both
    BY <1>1 DEF Only, Both
  <2>2. New \/ NewRuns \/ NewNext
    BY <1>1 DEF IInv, Pipeline, Idle, Queued, Runs, RunsOne
  <2>3. CASE New
    <3>1. New'
      BY <1>1, <1>2, <2>1, <2>3 DEF New
    <3> QED  BY <3>1 DEF Pipeline
  <2>4. CASE NewRuns
    <3>1. NewRuns'
      BY <1>1, <1>2, <2>1, <2>4 DEF NewRuns
    <3> QED  BY <3>1 DEF Pipeline
  <2>5. CASE NewNext
    <3>1. NewNext'
      BY <1>1, <1>2, <2>1, <2>5 DEF NewNext
    <3> QED  BY <3>1 DEF Pipeline
  <2> QED  BY <2>2, <2>3, <2>4, <2>5
<1>11. BatchIsLast' /\ PrevRows' /\ BatchOnGpu'
  <2>1. BatchIsLast'
    BY <1>1, <1>4, <1>5, <1>8 DEF IInv, BatchIsLast, LastStep
  <2>2. PrevRows'
    BY <1>1, <1>8 DEF PrevRows, BatchRows
  <2>3. BatchOnGpu'
    BY <1>1, <1>2 DEF BatchOnGpu
  <2> QED  BY <2>1, <2>2, <2>3
<1>12. KnownTokens' /\ ComputedTokens'
  <2>1. KnownTokens'
    BY <1>1, <1>4 DEF IInv, KnownTokens, Live, Held, Optimistic
  <2>2. \A r : End(r)' = End(r) /\ Optimistic(r)' = Optimistic(r)
    BY <1>1, <1>2 DEF End, RunEnd, Optimistic
  <2>3. ComputedTokens'
    BY <1>1, <1>2, <2>2 DEF IInv, ComputedTokens
  <2> QED  BY <2>1, <2>3
<1>13. FedRows' /\ InputsAreTheSequence'
  BY <1>1, <1>2 DEF IInv, FedRows, InputsAreTheSequence
<1>14. InputRows'
  <2> SUFFICES ASSUME NEW i \in DOMAIN Inputs
               PROVE  LET w == Inputs[i] IN
                      /\ w.prev = prev_positions[i]
                      /\ \/ FreshRow(w)'
                         \/ /\ w.prev \in BatchRows /\ w.prev > 0 /\ w.req \notin LastDiscard
                            /\ w.n = w.spec + 1
                            /\ DOMAIN fed = {} => RowOfSampled(w)'
                            /\ DOMAIN fed # {} => RowOfRunning(w)'
    BY <1>1, <1>2 DEF InputRows, BatchRows
  <2> DEFINE w == Inputs[i]
             r == w.req
  <2>1. w.prev = prev_positions[i]
    BY <1>1 DEF InputRows
  <2>2. r \in DOMAIN row
    BY <1>1, <1>8, BatchFacts DEF BatchOnGpu
  <2>3. /\ row[r].computed \in Int
        /\ w.prev = -1 \/ ~(prev_num_draft[w.prev] > 0) => row'[r].computed = row[r].computed
        /\ row'[r].real = row[r].real
    <3>1. /\ row'[r].computed = row[r].computed - Correction(r) /\ row[r].computed \in Int
          /\ row'[r].real = row[r].real
      BY <1>7, <2>2
    <3>2. w.prev = -1 \/ ~(prev_num_draft[w.prev] > 0) => Correction(r) = 0
      BY <1>1, CorrectionOfRow
    <3> QED  BY <3>1, <3>2
  <2>4. FreshRow(w) => FreshRow(w)'
    BY <1>1, <1>2, <2>3 DEF FreshRow
  <2>5. RowOfSampled(w) => RowOfSampled(w)'
    BY <1>1, <1>2, <2>3 DEF RowOfSampled
  <2>6. RowOfRunning(w) => RowOfRunning(w)'
    BY <1>1, <1>2, <2>3 DEF RowOfRunning
  <2> HIDE DEF w
  <2> QED  BY <1>1, <2>1, <2>4, <2>5, <2>6 DEF InputRows, w
<1>15. LastSampled' /\ DiscardsWhatIsNotExpected'
  BY <1>1 DEF IInv, LastSampled, DiscardsWhatIsNotExpected
<1>16. OutputsAhead'
  <2>1. LastStep' = LastStep /\ \A r : Optimistic(r)' = Optimistic(r)
    BY <1>1 DEF LastStep, Optimistic
  <2>2. ASSUME NEW r \in ToSet(batch)
        PROVE  /\ requests'[r].outputs = requests[r].outputs
               /\ row'[r].tokens = row[r].tokens /\ row'[r].real = row[r].real
    BY <1>5, <1>7, <1>8
  <2> QED  BY <1>1, <2>1, <2>2 DEF IInv, OutputsAhead
<1>17. Corrections'
  <2> SUFFICES ASSUME Len(flight) = 2, NEW r \in ToSet(batch)
               PROVE  /\ requests'[r].computed = row'[r].computed
                      /\ CpuCount(r, row[r].computed)'
    BY <1>1 DEF Corrections
  <2>1. requests[r].computed = row[r].computed /\ CpuCount(r, row[r].computed)
    BY <1>1 DEF IInv, Corrections
  <2>2. /\ requests'[r].computed = row[r].computed - Correction(r)
        /\ row'[r].computed = row[r].computed - Correction(r) /\ row[r].computed \in Int
    BY <1>5, <1>7, <1>8, <2>1
  <2>3. Due(r)' = 0 /\ Pending("sample")' = Pending("sample")
    BY <1>1 DEF Due, Pending
  <2>4. CASE Pending("sample")
    <3>1. deferred = <<>>
      BY <2>4 DEF Correct
    <3>2. Due(r) = 0 /\ Correction(r) = 0
      BY <3>1 DEF Due, Correction
    <3>3. row'[r].computed = row[r].computed
      BY <2>2, <3>2
    <3> QED  BY <1>1, <1>2, <2>1, <2>2, <2>3, <2>4, <3>2, <3>3 DEF CpuCount
  <2>5. CASE ~Pending("sample")
    <3>1. row[r].computed = kv[r] + Correction(r)
      <4>1. CASE r \in DOMAIN deferred
        <5>1. r \in DOMAIN prev_row /\ deferred[r] > 0 /\ Due(r) = deferred[r]
          BY <1>1, <4>1, Numbers DEF IInv, Corrections, CpuTypes, Due
        <5> QED  BY <2>1, <2>5, <4>1, <5>1 DEF CpuCount, Correction
      <4>2. CASE r \notin DOMAIN deferred
        BY <2>1, <2>5, <4>2 DEF CpuCount, Correction, Due
      <4> QED  BY <4>1, <4>2
    <3>2. row'[r].computed = kv'[r] + 0
      <4>1. kv[r] \in Int /\ Correction(r) \in Int
        BY <1>1, <1>3, <1>8 DEF SchedulerTypes
      <4> QED  BY <1>1, <2>2, <3>1, <4>1
    <3> QED  BY <2>2, <2>3, <2>5, <3>2 DEF CpuCount
  <2> QED  BY <2>4, <2>5
<1> QED  BY <1>9, <1>10, <1>11, <1>12, <1>13, <1>14, <1>15, <1>16, <1>17 DEF IInv
-----------------------------------------------------------------------------
(* What the runner discards is what the last step planned does not sample. *)
LEMMA LastPlanned ==
  ASSUME Types, PrevRows, BatchIsLast, DiscardsWhatIsNotExpected, pc # "execute_model"
  PROVE  /\ Len(flight) \in 1 .. 2 /\ Len(flight) \in DOMAIN flight /\ Settled(LastStep)
         /\ DOMAIN LastStep.rows = ToSet(batch)
         /\ \A r \in ToSet(batch) :
              /\ LastStep.rows[r].samples <=> r \notin discard
              /\ Samples(LastStep, r) <=> r \notin discard
              /\ LastStep.rows[r].spec = requests[r].drafts
              /\ requests[r].drafts > 0 => r \notin discard
              /\ Awaited(LastStep, r) = IF r \in discard THEN 0 ELSE 1 + requests[r].drafts
              /\ r \notin discard => AwaitedIn(flight, r) > 0
<1>1. flight \in Flights /\ flight \in Seq(StepType)
  BY FlightLength DEF Types, SchedulerTypes
<1>2. Len(flight) \in 1 .. 2 /\ Len(flight) \in DOMAIN flight /\ Settled(LastStep)
  BY <1>1, FlightLength DEF PrevRows, LastStep
<1>3. /\ DOMAIN LastStep.rows = ToSet(batch)
      /\ \A r \in ToSet(batch) : LastStep.rows[r].spec = requests[r].drafts
  BY <1>2 DEF BatchIsLast
<1>4. Last(flight) = LastStep
  BY <1>1, <1>2 DEF Last, LastStep
<1>5. discard = {r \in ToSet(batch) : ~LastStep.rows[r].samples}
  BY <1>4 DEF DiscardsWhatIsNotExpected
<1>6. ASSUME NEW r \in ToSet(batch)
      PROVE  /\ LastStep.rows[r].samples <=> r \notin discard
             /\ Samples(LastStep, r) <=> r \notin discard
             /\ LastStep.rows[r].spec = requests[r].drafts
             /\ requests[r].drafts > 0 => r \notin discard
             /\ Awaited(LastStep, r) = IF r \in discard THEN 0 ELSE 1 + requests[r].drafts
             /\ r \notin discard => AwaitedIn(flight, r) > 0
  <2>1. LastStep.rows[r].samples \in BOOLEAN
    BY <1>2, <1>3, StepRows
  <2>2. LastStep.rows[r].samples <=> r \notin discard
    BY <1>5, <2>1
  <2>3. Samples(LastStep, r) <=> r \notin discard
    BY <1>3, <2>2 DEF Samples
  <2>4. requests[r].drafts > 0 => r \notin discard
    BY <1>2, <1>3, <2>2 DEF Settled
  <2>5. Awaited(LastStep, r) = IF r \in discard THEN 0 ELSE 1 + requests[r].drafts
    BY <1>3, <2>3 DEF Awaited
  <2>6. r \notin discard => AwaitedIn(flight, r) > 0
    <3>1. Awaited(LastStep, r) \in Nat /\ (r \notin discard => Awaited(LastStep, r) # 0)
      BY <1>2, <2>3, StepNumbers
    <3>2. \A k \in DOMAIN flight : Awaited(flight[k], r) \in Nat
      BY <1>1, FlightLength, StepNumbers
    <3>3. CASE Len(flight) = 1
      BY <1>1, <3>1, <3>3, FlightNumbers DEF LastStep
    <3>4. CASE Len(flight) = 2
      <4>1. AwaitedIn(flight, r) = Awaited(flight[1], r) + Awaited(LastStep, r)
        BY <1>1, <3>4, FlightNumbers DEF LastStep
      <4>2. Awaited(flight[1], r) \in Nat
        BY <1>1, <3>2, <3>4, FlightLength
      <4> QED  BY <3>1, <4>1, <4>2
    <3> QED  BY <1>2, <3>3, <3>4
  <2> QED  BY <1>3, <2>2, <2>3, <2>4, <2>5, <2>6
<1> QED  BY <1>2, <1>3, <1>6

(* The samples are enqueued behind what the stream holds.                  *)
LEMMA SampleIsLast ==
  ASSUME GpuTypes, CpuTypes, Pipeline, pc # "execute_model", pc' = "execute_model",
         stream' = Append(stream, [op |-> "sample", discard |-> discard]),
         UNCHANGED <<fed, discard, flight, batch>>
  PROVE  /\ stream' \in Seq(Op) /\ Len(stream') > 0
         /\ Inputs' = Inputs /\ InputReqs' = InputReqs
         /\ FedDiscard' = FedDiscard /\ LastDiscard' = LastDiscard
         /\ Pipeline'
<1> DEFINE op == [op |-> "sample", discard |-> discard]
<1>1. op \in Op /\ op.op = "sample" /\ op.discard = discard
  BY DEF CpuTypes, Op
<1> HIDE DEF op
<1>2. /\ stream' \in Seq(Op) /\ Len(stream') = Len(stream) + 1 /\ stream'[Len(stream) + 1] = op
      /\ \A k \in 1 .. Len(stream) : stream'[k] = stream[k]
      /\ Len(stream) \in Nat
  <2>1. stream \in Seq(Op) /\ stream' = Append(stream, op)
    BY DEF GpuTypes, op
  <2> QED  BY <1>1, <2>1, Sequences
<1>3. New \/ NewRuns \/ NewNext
  BY DEF Pipeline, Idle, Queued, Runs, RunsOne
<1>4. LastDiscard = discard /\ LastDiscard' = discard
  <2>1. stream'[Len(stream')] = op /\ Len(stream') > 0
    BY <1>2
  <2> QED  BY <1>1, <2>1 DEF LastDiscard
<1>5. /\ \A k : Only(k)' = Only(k)
      /\ Both' = Both
  BY DEF Only, Both
<1>6. CASE New
  <2>1. Len(stream) = 1 /\ stream[1].op = "inputs"
    BY <1>6 DEF New
  <2>2. Len(stream') = 2 /\ stream'[1] = stream[1] /\ stream'[2] = op
    BY <1>2, <2>1
  <2>3. Inputs' = Inputs /\ FedDiscard' = FedDiscard
    BY <2>1, <2>2 DEF Inputs, FedDiscard
  <2>4. Queued'
    BY <1>1, <1>4, <1>5, <1>6, <2>1, <2>2, <2>3 DEF New, Queued
  <2> QED  BY <1>2, <1>4, <2>3, <2>4 DEF Pipeline, InputReqs
<1>7. CASE NewRuns
  <2>1. Len(stream) = 0
    BY <1>7 DEF NewRuns
  <2>2. Len(stream') = 1 /\ stream'[1] = op
    BY <1>2, <2>1
  <2>3. Inputs' = Inputs /\ FedDiscard' = FedDiscard
    BY <1>1, <2>1, <2>2 DEF Inputs, FedDiscard
  <2>4. Runs'
    <3>1. Len(flight) \in DOMAIN flight
      BY <1>7 DEF NewRuns, Only
    <3> QED  BY <1>1, <1>5, <1>7, <2>2, <2>3, <3>1 DEF NewRuns, Runs
  <2> QED  BY <1>2, <1>4, <2>3, <2>4 DEF Pipeline, InputReqs
<1>8. CASE NewNext
  <2>1. Len(stream) = 2 /\ stream[1].op = "sample" /\ stream[2].op = "inputs"
    BY <1>8 DEF NewNext
  <2>2. Len(stream') = 3 /\ stream'[1] = stream[1] /\ stream'[2] = stream[2] /\ stream'[3] = op
    BY <1>2, <2>1
  <2>3. Inputs' = Inputs /\ FedDiscard' = FedDiscard
    BY <2>1, <2>2 DEF Inputs, FedDiscard
  <2>4. RunsOne'
    BY <1>1, <1>4, <1>5, <1>8, <2>1, <2>2, <2>3 DEF NewNext, RunsOne
  <2> QED  BY <1>2, <1>4, <2>3, <2>4 DEF Pipeline, InputReqs
<1> QED  BY <1>3, <1>6, <1>7, <1>8

LEMMA SampleTokensKeepsIInv ==
  ASSUME IInv, SampleTokens
  PROVE  IInv'
<1> DEFINE rows == ToSet(batch) \ discard
<1>1. /\ SchedulerTypes /\ CpuTypes /\ GpuTypes /\ Types /\ BatchOnGpu /\ PrevRows /\ Pipeline
      /\ BatchIsLast /\ DiscardsWhatIsNotExpected
      /\ pc = "sample_tokens" /\ pc' = "execute_model"
      /\ stream' = Append(stream, [op |-> "sample", discard |-> discard])
      /\ prev_row' = [r \in rows |-> Index(r)]
      /\ row' = [r \in DOMAIN row |->
                   IF r \in rows THEN [row[r] EXCEPT !.tokens = @ + 1] ELSE row[r]]
      /\ requests' = [r \in DOMAIN requests |->
                        IF r \in rows THEN [requests[r] EXCEPT !.outputs = @ + 1]
                        ELSE requests[r]]
      /\ UNCHANGED <<status, known, computed, flight, prev_step, finished_ids, batch,
                     prev_positions, prev_num_draft, deferred, discard, fed, sampled,
                     length, kv>>
  BY DEF IInv, Types, SampleTokens, scheduler, truth
<1> HIDE DEF rows
<1>2. /\ stream' \in Seq(Op) /\ Len(stream') > 0
      /\ Inputs' = Inputs /\ InputReqs' = InputReqs
      /\ FedDiscard' = FedDiscard /\ LastDiscard' = LastDiscard
      /\ Pipeline'
  BY <1>1, SampleIsLast
<1>3. /\ FedReqs' = FedReqs
      /\ \A x : FedAt(x)' = FedAt(x) /\ FedEnd(x)' = FedEnd(x) /\ InputAt(x)' = InputAt(x)
  BY <1>1, <1>2, FedFrame DEF InputAt
<1>4. /\ Len(flight) \in 1 .. 2 /\ Len(flight) \in DOMAIN flight /\ Settled(LastStep)
      /\ DOMAIN LastStep.rows = ToSet(batch)
      /\ \A r \in ToSet(batch) :
           /\ LastStep.rows[r].samples <=> r \notin discard
           /\ Samples(LastStep, r) <=> r \notin discard
           /\ LastStep.rows[r].spec = requests[r].drafts
           /\ requests[r].drafts > 0 => r \notin discard
           /\ Awaited(LastStep, r) = IF r \in discard THEN 0 ELSE 1 + requests[r].drafts
           /\ r \notin discard => AwaitedIn(flight, r) > 0
  BY <1>1, LastPlanned
<1>5. /\ ToSet(batch) = DOMAIN row /\ ToSet(batch) \subseteq DOMAIN requests
      /\ ToSet(batch) \subseteq ReqIds
      /\ \A r \in ToSet(batch) : Index(r) \in DOMAIN batch /\ batch[Index(r)] = r
  BY <1>1, BatchFacts DEF CpuTypes, BatchIsLast
<1>6. /\ DOMAIN requests' = DOMAIN requests /\ DOMAIN row' = DOMAIN row
      /\ \A r \in DOMAIN requests :
           requests'[r] = IF r \in rows THEN [requests[r] EXCEPT !.outputs = @ + 1]
                          ELSE requests[r]
      /\ \A r \in DOMAIN row :
           row'[r] = IF r \in rows THEN [row[r] EXCEPT !.tokens = @ + 1] ELSE row[r]
  BY <1>1
<1>7. ASSUME NEW r \in DOMAIN requests
      PROVE  /\ requests'[r] \in [computed : Int, outputs : Nat, real : Nat,
                                  drafts : 0 .. NumSpec]
             /\ requests'[r].outputs = requests[r].outputs + (IF r \in rows THEN 1 ELSE 0)
             /\ requests'[r].drafts = requests[r].drafts
             /\ requests[r].outputs \in Nat /\ requests[r].drafts \in Nat
  <2>1. requests[r] \in [computed : Int, outputs : Nat, real : Nat, drafts : 0 .. NumSpec]
    BY <1>1 DEF CpuTypes
  <2>2. requests[r].outputs \in Nat /\ requests[r].drafts \in Nat
    BY <2>1, Numbers
  <2> QED  BY <1>6, <2>1, <2>2
<1>8. ASSUME NEW r \in DOMAIN row
      PROVE  /\ row'[r] \in [computed : Int, tokens : Nat, real : Nat]
             /\ row'[r].tokens = row[r].tokens + (IF r \in rows THEN 1 ELSE 0)
             /\ row'[r].computed = row[r].computed /\ row'[r].real = row[r].real
             /\ row[r].tokens \in Nat
  <2>1. row[r] \in [computed : Int, tokens : Nat, real : Nat]
    BY <1>1 DEF CpuTypes
  <2> QED  BY <1>6, <2>1
<1>9. \A r \in ToSet(batch) : r \in rows <=> r \notin discard
  BY DEF rows
<1>10. DOMAIN prev_row' = rows /\ rows \subseteq ToSet(batch)
       /\ \A r \in rows : prev_row'[r] = Index(r)
  BY <1>1 DEF rows
<1>11. Types'
  <2>1. CpuTypes'
    BY <1>1, <1>6, <1>7, <1>8 DEF CpuTypes, BatchRows
  <2>2. GpuTypes'
    BY <1>1, <1>2 DEF GpuTypes, BatchRows
  <2>3. SchedulerTypes'
    BY <1>1 DEF SchedulerTypes, Live
  <2> QED  BY <2>1, <2>2, <2>3 DEF Types
<1>12. BatchIsLast' /\ PrevRows' /\ BatchOnGpu'
  <2>1. BatchIsLast'
    BY <1>1, <1>5, <1>6, <1>7 DEF BatchIsLast, LastStep
  <2>2. PrevRows'
    <3>1. \A r \in rows : prev_row'[r] \in DOMAIN batch /\ batch[prev_row'[r]] = r
      BY <1>5, <1>10
    <3>2. \A r \in ToSet(batch) : requests'[r].drafts > 0 => r \in rows
      BY <1>4, <1>5, <1>7, <1>9
    <3>3. \A r \in ToSet(batch) : r \in rows <=> LastStep.rows[r].samples
      BY <1>4, <1>9
    <3>4. LastStep' = LastStep
      BY <1>1 DEF LastStep
    <3> QED  BY <1>1, <1>10, <3>1, <3>2, <3>3, <3>4 DEF PrevRows
  <2>3. BatchOnGpu'
    BY <1>1, <1>2 DEF BatchOnGpu
  <2> QED  BY <2>1, <2>2, <2>3
<1>13. KnownTokens' /\ ComputedTokens'
  <2>1. KnownTokens'
    BY <1>1, <1>6 DEF IInv, KnownTokens, Live, Held, Optimistic
  <2>2. \A r : End(r)' = End(r) /\ Optimistic(r)' = Optimistic(r)
    BY <1>1, <1>2, <1>3 DEF End, RunEnd, Optimistic
  <2>3. ASSUME NEW r \in DOMAIN prev_row' PROVE AwaitedIn(flight, r) > 0
    BY <1>4, <1>9, <1>10, <2>3
  <2>4. ComputedTokens'
    BY <1>1, <1>2, <1>3, <2>2, <2>3 DEF IInv, ComputedTokens
  <2> QED  BY <2>1, <2>4
<1>14. FedRows' /\ InputsAreTheSequence'
  BY <1>1, <1>2, <1>3 DEF IInv, FedRows, InputsAreTheSequence
<1>15. InputRows'
  <2> SUFFICES ASSUME NEW i \in DOMAIN Inputs
               PROVE  LET w == Inputs[i] IN
                      /\ w.prev = prev_positions[i]
                      /\ \/ FreshRow(w)'
                         \/ /\ w.prev \in BatchRows /\ w.prev > 0 /\ w.req \notin LastDiscard
                            /\ w.n = w.spec + 1
                            /\ DOMAIN fed = {} => RowOfSampled(w)'
                            /\ DOMAIN fed # {} => RowOfRunning(w)'
    BY <1>1, <1>2 DEF InputRows, BatchRows
  <2> DEFINE w == Inputs[i]
             r == w.req
  <2>1. r \in DOMAIN row
    BY <1>1, <1>5, BatchFacts DEF BatchOnGpu
  <2>2. row'[r].computed = row[r].computed /\ row'[r].real = row[r].real
    BY <1>8, <2>1
  <2>3. FreshRow(w) => FreshRow(w)'
    BY <1>1, <1>2, <1>3, <2>2 DEF FreshRow
  <2>4. RowOfSampled(w) => RowOfSampled(w)'
    BY <1>1, <1>2, <2>2 DEF RowOfSampled
  <2>5. RowOfRunning(w) => RowOfRunning(w)'
    BY <1>1, <1>2, <1>3, <2>2 DEF RowOfRunning
  <2> HIDE DEF w
  <2> QED  BY <2>3, <2>4, <2>5 DEF IInv, InputRows, w
<1>16. LastSampled' /\ DiscardsWhatIsNotExpected' /\ Corrections'
  <2>1. ~(Len(stream') = 0)
    BY <1>2
  <2> QED  BY <1>1, <2>1 DEF LastSampled, DiscardsWhatIsNotExpected, Corrections
<1>17. OutputsAhead'
  <2> SUFFICES ASSUME NEW r \in ToSet(batch)
               PROVE  /\ Prompt + requests'[r].outputs <= MaxModelLen
                      /\ row'[r].tokens <= Prompt + requests'[r].outputs
                      /\ row'[r].real <= MaxModelLen
                      /\ Prompt + requests'[r].outputs + requests'[r].drafts >= Optimistic(r)
                      /\ r \notin rows => row'[r].real = known[r] /\ AwaitedIn(flight, r) = 0
    <3>1. \A r : Optimistic(r)' = Optimistic(r)
      BY <1>1 DEF Optimistic
    <3> QED  BY <1>1, <1>10, <3>1 DEF OutputsAhead
  <2>1. /\ Prompt + requests[r].outputs <= MaxModelLen
        /\ row[r].tokens <= Prompt + requests[r].outputs
        /\ row[r].real <= MaxModelLen
        /\ status[r] = "running"
        /\ Prompt + requests[r].outputs + Awaited(LastStep, r) = Optimistic(r)
        /\ ~Samples(LastStep, r) => row[r].real = known[r] /\ AwaitedIn(flight, r) = 0
    BY <1>1 DEF IInv, OutputsAhead
  <2>2. Optimistic(r) <= MaxModelLen
    BY <1>5, <2>1 DEF IInv, KnownTokens, Live
  <2>3. Awaited(LastStep, r) = IF r \in rows THEN 1 + requests[r].drafts ELSE 0
    BY <1>4, <1>9
  <2>4. /\ requests'[r].outputs = requests[r].outputs + (IF r \in rows THEN 1 ELSE 0)
        /\ requests'[r].drafts = requests[r].drafts
        /\ requests[r].outputs \in Nat /\ requests[r].drafts \in Nat
    BY <1>5, <1>7
  <2>5. /\ row'[r].tokens = row[r].tokens + (IF r \in rows THEN 1 ELSE 0)
        /\ row'[r].real = row[r].real /\ row[r].tokens \in Nat
    BY <1>5, <1>8
  <2>6. r \notin rows => ~Samples(LastStep, r)
    BY <1>4, <1>9
  <2> QED  BY <2>1, <2>2, <2>3, <2>4, <2>5, <2>6, Numbers
<1> QED  BY <1>2, <1>11, <1>12, <1>13, <1>14, <1>15, <1>16, <1>17 DEF IInv
-----------------------------------------------------------------------------
(* Where a sample is the next thing in the stream, the first step that is  *)
(* not done runs.                                                          *)
Launched(k) ==
  /\ k \in DOMAIN flight /\ ~flight[k].done
  /\ \A m \in 1 .. k - 1 : flight[m].done
  /\ RowsMatch(fed, flight[k], FedDiscard)

LEMMA SampleIsNext ==
  ASSUME Types, Pipeline, stream # <<>>, Head(stream).op = "sample"
  PROVE  /\ stream \in Seq(Op) /\ Len(stream) \in 1 .. 3 /\ Head(stream) = stream[1]
         /\ FedDiscard = stream[1].discard /\ DOMAIN fed # {}
         /\ Tail(stream) \in Seq(Op) /\ Len(Tail(stream)) = Len(stream) - 1
         /\ \A k \in 1 .. Len(stream) - 1 : Tail(stream)[k] = stream[k + 1]
         /\ Runs \/ RunsOne \/ NewNext
         /\ \E k : Launched(k)
<1>1. /\ stream \in Seq(Op) /\ Len(stream) \in Nat /\ Len(stream) > 0 /\ Head(stream) = stream[1]
      /\ Tail(stream) \in Seq(Op) /\ Len(Tail(stream)) = Len(stream) - 1
      /\ \A k \in 1 .. Len(stream) - 1 : Tail(stream)[k] = stream[k + 1]
  BY Sequences DEF Types, GpuTypes
<1>2. Runs \/ RunsOne \/ NewNext
  BY <1>1 DEF Pipeline, Idle, Queued, New, NewRuns
<1>3. FedDiscard = stream[1].discard
  BY <1>1 DEF FedDiscard
<1>4. DOMAIN fed # {} /\ Len(stream) \in 1 .. 3
  BY <1>2 DEF Runs, RunsOne, NewNext
<1>5. DOMAIN flight = 1 .. Len(flight) /\ Len(flight) \in 0 .. 2
  BY FlightLength DEF Types, SchedulerTypes
<1>6. \E k : Launched(k)
  <2>1. CASE Runs
    <3>1. PICK k \in DOMAIN flight : Only(k) /\ RowsMatch(fed, flight[k], FedDiscard)
      BY <2>1 DEF Runs
    <3>2. ~flight[k].done /\ \A m \in 1 .. k - 1 : flight[m].done
      BY <1>5, <3>1 DEF Only
    <3>3. Launched(k)
      BY <3>1, <3>2 DEF Launched
    <3> QED  BY <3>3
  <2>2. CASE RunsOne \/ NewNext
    <3>1. Both /\ RowsMatch(fed, flight[1], FedDiscard)
      BY <2>2 DEF RunsOne, NewNext
    <3>2. 1 \in DOMAIN flight /\ ~flight[1].done
      BY <1>5, <3>1 DEF Both
    <3>3. Launched(1)
      BY <3>1, <3>2 DEF Launched
    <3> QED  BY <3>3
  <2> QED  BY <1>2, <2>1, <2>2
<1> QED  BY <1>1, <1>2, <1>3, <1>4, <1>6

(* What the step that ran, s, adds to the tokens of its requests and to    *)
(* their KV entries, and what the GPU keeps of it.                         *)
RanAs(s) ==
  /\ Settled(s) /\ s.done
  /\ \A i \in DOMAIN fed :
       LET r == fed[i].req IN
       /\ sampled'[i] = [req |-> r, start |-> fed[i].start, count |-> GotBy(s, r),
                         last |-> length'[r] - 1]
       /\ s.got[r] = GotBy(s, r)
       /\ length'[r] = length[r] + GotBy(s, r) /\ kv'[r] = FedEnd(i) - LackOf(s, r)
       /\ IF r \in FedDiscard THEN GotBy(s, r) = 0 /\ LackOf(s, r) = 0
          ELSE /\ GotBy(s, r) \in 1 .. fed[i].spec + 1
               /\ LackOf(s, r) = fed[i].spec + 1 - GotBy(s, r)
  /\ \A i \in BatchRows \ DOMAIN fed : sampled'[i] = NoSample
  /\ \A r \in ReqIds \ FedReqs :
       length'[r] = length[r] /\ kv'[r] = kv[r] /\ GotBy(s, r) = 0 /\ LackOf(s, r) = 0

(* The effect of GpuSample with counts, on step k, when gone is discarded. *)
SampledWith(counts, k, gone) ==
  /\ \A i \in DOMAIN fed : counts[i] \in
       IF fed[i].req \in gone THEN {0} ELSE 1 .. fed[i].spec + 1
  /\ length' = [r \in ReqIds |-> IF r \in FedReqs THEN length[r] + counts[FedAt(r)]
                                 ELSE length[r]]
  /\ kv' = [r \in ReqIds |->
       IF r \notin FedReqs THEN kv[r]
       ELSE LET f == fed[FedAt(r)] IN
            f.start + Len(f.ids) - (IF counts[FedAt(r)] = 0 THEN 0
                                    ELSE f.spec + 1 - counts[FedAt(r)])]
  /\ sampled' = [i \in BatchRows |->
       IF i \notin DOMAIN fed THEN NoSample
       ELSE [req |-> fed[i].req, start |-> fed[i].start, count |-> counts[i],
             last |-> length'[fed[i].req] - 1]]
  /\ flight' = [flight EXCEPT ![k] =
       [@ EXCEPT !.done = TRUE, !.got = [r \in FedReqs |-> counts[FedAt(r)]]]]

LEMMA StepDone ==
  ASSUME NEW x \in StepType, NEW g
  PROVE  [x EXCEPT !.done = TRUE, !.got = g] = [rows |-> x.rows, got |-> g, done |-> TRUE]
<1> DEFINE y == [x EXCEPT !.done = TRUE, !.got = g]
<1>1. x = [rows |-> x.rows, got |-> x.got, done |-> x.done]
  BY DEF StepType
<1>2. DOMAIN x = {"rows", "got", "done"}
  BY DEF StepType
<1>3. y = [z \in DOMAIN x |-> IF z = "got" THEN g ELSE IF z = "done" THEN TRUE ELSE x[z]]
  BY <1>2, Zenon
<1>4. y = [z \in {"rows", "got", "done"} |->
            IF z = "got" THEN g ELSE IF z = "done" THEN TRUE ELSE x[z]]
  BY <1>2, <1>3
<1> HIDE DEF y
<1>5. y = [rows |-> x.rows, got |-> g, done |-> TRUE]
  BY <1>4
<1> QED  BY <1>5 DEF y

LEMMA SampleOutcome ==
  ASSUME Types, Pipeline, GpuSample, NEW k, Launched(k)
  PROVE  /\ \E s : RanAs(s) /\ s.rows = flight[k].rows /\ flight' = [flight EXCEPT ![k] = s]
         /\ DOMAIN sampled' = BatchRows
         /\ length' = [r \in ReqIds |-> length'[r]] /\ kv' = [r \in ReqIds |-> kv'[r]]
<1>1. /\ stream # <<>> /\ Head(stream).op = "sample" /\ Head(stream).discard = FedDiscard
      /\ GpuTypes /\ flight \in Flights
  BY SampleIsNext DEF GpuSample, Types, SchedulerTypes
<1>2. /\ Settled(flight[k]) /\ k \in DOMAIN flight /\ flight[k] \in StepType
      /\ DOMAIN flight = 1 .. Len(flight) /\ Len(flight) \in Nat
      /\ DOMAIN flight[k].rows \subseteq ReqIds
      /\ \A r \in DOMAIN flight[k].rows :
           flight[k].rows[r].spec \in 0 .. NumSpec /\ flight[k].rows[r].samples \in BOOLEAN
  <2>1. k \in DOMAIN flight
    BY DEF Launched
  <2>2. Settled(flight[k])
    BY <1>1, <2>1, FlightLength
  <2> QED  BY <1>1, <2>1, <2>2, FlightLength, StepRows
<1>3. (CHOOSE n \in DOMAIN flight : ~flight[n].done /\ \A m \in 1 .. n - 1 : flight[m].done) = k
  <2>1. \A n \in DOMAIN flight :
          (~flight[n].done /\ \A m \in 1 .. n - 1 : flight[m].done) => n = k
    BY <1>2 DEF Launched
  <2>2. ~flight[k].done /\ \A m \in 1 .. k - 1 : flight[m].done
    BY DEF Launched
  <2> QED  BY <1>2, <2>1, <2>2
<1>4. \E counts \in [DOMAIN fed -> 0 .. NumSpec + 1] :
        SampledWith(counts, CHOOSE n \in DOMAIN flight :
                              ~flight[n].done /\ \A m \in 1 .. n - 1 : flight[m].done,
                    Head(stream).discard)
  BY DEF GpuSample, SampledWith, FedReqs, ReqsOf, FedAt, RowOf
<1>5. PICK counts \in [DOMAIN fed -> 0 .. NumSpec + 1] : SampledWith(counts, k, FedDiscard)
  BY <1>1, <1>3, <1>4
<1>6. /\ \A i \in DOMAIN fed : counts[i] \in
           IF fed[i].req \in FedDiscard THEN {0} ELSE 1 .. fed[i].spec + 1
      /\ length' = [r \in ReqIds |-> IF r \in FedReqs THEN length[r] + counts[FedAt(r)]
                                     ELSE length[r]]
      /\ kv' = [r \in ReqIds |->
           IF r \notin FedReqs THEN kv[r]
           ELSE LET f == fed[FedAt(r)] IN
                f.start + Len(f.ids) - (IF counts[FedAt(r)] = 0 THEN 0
                                        ELSE f.spec + 1 - counts[FedAt(r)])]
      /\ sampled' = [i \in BatchRows |->
           IF i \notin DOMAIN fed THEN NoSample
           ELSE [req |-> fed[i].req, start |-> fed[i].start, count |-> counts[i],
                 last |-> length'[fed[i].req] - 1]]
      /\ flight' = [flight EXCEPT ![k] =
           [@ EXCEPT !.done = TRUE, !.got = [r \in FedReqs |-> counts[FedAt(r)]]]]
  BY <1>5 DEF SampledWith
<1> DEFINE got == [r \in FedReqs |-> counts[FedAt(r)]]
           s == [flight[k] EXCEPT !.done = TRUE, !.got = got]
<1>7. /\ s.rows = flight[k].rows /\ s.done = TRUE /\ s.got = got
      /\ s = [rows |-> flight[k].rows, got |-> got, done |-> TRUE]
  <2> HIDE DEF got
  <2>1. s = [rows |-> flight[k].rows, got |-> got, done |-> TRUE]
    BY <1>2, StepDone
  <2> HIDE DEF s
  <2> QED  BY <2>1
<1>8. flight' = [flight EXCEPT ![k] = s]
  BY <1>2, <1>6
<1> HIDE DEF s
<1>9. /\ FedReqs \subseteq ReqIds /\ DOMAIN got = FedReqs
      /\ \A i \in DOMAIN fed : /\ fed[i].req \in FedReqs /\ FedAt(fed[i].req) = i
                               /\ got[fed[i].req] = counts[i]
      /\ \A r \in FedReqs : FedAt(r) \in DOMAIN fed /\ fed[FedAt(r)].req = r
  BY <1>1, FedFacts
<1>10. got \in [FedReqs -> 0 .. NumSpec + 1]
  BY <1>6, <1>9
<1> HIDE DEF got
<1>11. /\ DOMAIN s.rows = FedReqs
       /\ \A i \in DOMAIN fed :
            /\ fed[i].spec = s.rows[fed[i].req].spec
            /\ fed[i].req \in FedDiscard <=> ~s.rows[fed[i].req].samples
            /\ s.rows[fed[i].req].samples \in BOOLEAN
            /\ fed[i].spec \in 0 .. NumSpec /\ counts[i] \in 0 .. NumSpec + 1
            /\ counts[i] \in IF fed[i].req \in FedDiscard THEN {0} ELSE 1 .. fed[i].spec + 1
  <2>1. DOMAIN s.rows = FedReqs
    BY <1>7 DEF Launched, RowsMatch, FedReqs, ReqsOf
  <2>2. ASSUME NEW i \in DOMAIN fed
        PROVE  /\ fed[i].spec = s.rows[fed[i].req].spec
               /\ fed[i].req \in FedDiscard <=> ~s.rows[fed[i].req].samples
    BY <1>7, <1>9, <2>1 DEF Launched, RowsMatch
  <2> QED  BY <1>2, <1>6, <1>7, <1>9, <2>1, <2>2
<1>12. Settled(s)
  <2>1. s \in StepType
    <3>1. got \in OnSomeOf(0 .. NumSpec + 1)
      BY <1>9, <1>10 DEF OnSomeOf
    <3>2. flight[k].rows \in OnSomeOf(StepRow)
      BY <1>2 DEF StepType
    <3> QED  BY <1>7, <3>1, <3>2 DEF StepType
  <2>2. ASSUME NEW r \in DOMAIN s.rows
        PROVE  /\ s.rows[r].spec > 0 => s.rows[r].samples
               /\ r \in DOMAIN s.got
               /\ s.got[r] \in IF s.rows[r].samples THEN 1 .. s.rows[r].spec + 1 ELSE {0}
    <3>1. FedAt(r) \in DOMAIN fed /\ fed[FedAt(r)].req = r /\ r \in FedReqs
      BY <1>9, <1>11
    <3>2. s.rows[r].spec > 0 => s.rows[r].samples
      BY <1>2, <1>7 DEF Settled
    <3>3. s.got[r] = counts[FedAt(r)] /\ r \in DOMAIN s.got
      BY <1>7, <1>9, <3>1
    <3> QED  BY <1>11, <3>1, <3>2, <3>3
  <2> QED  BY <1>7, <2>1, <2>2 DEF Settled
<1>13. ASSUME NEW i \in DOMAIN fed
       PROVE  LET r == fed[i].req IN
              /\ sampled'[i] = [req |-> r, start |-> fed[i].start, count |-> GotBy(s, r),
                                last |-> length'[r] - 1]
              /\ s.got[r] = GotBy(s, r)
              /\ length'[r] = length[r] + GotBy(s, r) /\ kv'[r] = FedEnd(i) - LackOf(s, r)
              /\ IF r \in FedDiscard THEN GotBy(s, r) = 0 /\ LackOf(s, r) = 0
                 ELSE /\ GotBy(s, r) \in 1 .. fed[i].spec + 1
                      /\ LackOf(s, r) = fed[i].spec + 1 - GotBy(s, r)
  <2> DEFINE r == fed[i].req
  <2>1. r \in FedReqs /\ FedAt(r) = i /\ s.got[r] = counts[i] /\ r \in ReqIds /\ i \in BatchRows
    BY <1>1, <1>7, <1>9 DEF GpuTypes
  <2>2. s.rows[r].samples <=> r \notin FedDiscard
    BY <1>11
  <2>3. Samples(s, r) <=> r \notin FedDiscard
    BY <1>11, <2>1, <2>2 DEF Samples
  <2>4. GotBy(s, r) = counts[i]
    BY <1>7, <1>11, <2>1, <2>3 DEF GotBy
  <2>5. Awaited(s, r) = IF r \in FedDiscard THEN 0 ELSE 1 + fed[i].spec
    BY <1>11, <2>3 DEF Awaited
  <2>6. LackOf(s, r) = IF r \in FedDiscard THEN 0 ELSE fed[i].spec + 1 - counts[i]
    <3>1. LackOf(s, r) = Awaited(s, r) - GotBy(s, r)
      BY <1>7 DEF LackOf
    <3>2. fed[i].spec \in Int /\ counts[i] \in Int
      BY <1>11, Numbers
    <3> QED  BY <1>11, <2>4, <2>5, <3>1, <3>2
  <2>7. length'[r] = length[r] + counts[i]
    BY <1>6, <2>1
  <2>8. kv'[r] = FedEnd(i) - (IF counts[i] = 0 THEN 0 ELSE fed[i].spec + 1 - counts[i])
    <3> DEFINE cut(q) == IF counts[FedAt(q)] = 0 THEN 0
                         ELSE fed[FedAt(q)].spec + 1 - counts[FedAt(q)]
    <3>1. kv'[r] = fed[FedAt(r)].start + Len(fed[FedAt(r)].ids) - cut(r)
      BY <1>6, <2>1
    <3>2. cut(r) = IF counts[i] = 0 THEN 0 ELSE fed[i].spec + 1 - counts[i]
      BY <2>1
    <3> HIDE DEF cut
    <3>3. kv'[r] = FedEnd(i) - cut(r)
      <4>1. FedEnd(FedAt(r)) = fed[FedAt(r)].start + Len(fed[FedAt(r)].ids)
        BY DEF FedEnd
      <4>2. /\ fed[FedAt(r)].start \in Int /\ Len(fed[FedAt(r)].ids) \in Int
            /\ cut(r) \in Int
        <5>1. fed[i].start \in Int /\ Len(fed[i].ids) \in Int
          BY <1>1 DEF GpuTypes
        <5>2. cut(r) \in Int
          BY <1>11, <3>2, Numbers
        <5> QED  BY <2>1, <5>1, <5>2
      <4>3. kv'[r] = FedEnd(FedAt(r)) - cut(r)
        BY <3>1, <4>1, <4>2
      <4> QED  BY <2>1, <4>3
    <3> QED  BY <3>2, <3>3
  <2>9. LackOf(s, r) = IF counts[i] = 0 THEN 0 ELSE fed[i].spec + 1 - counts[i]
    BY <1>11, <2>6
  <2>10. sampled'[i] = [req |-> r, start |-> fed[i].start, count |-> counts[i],
                        last |-> length'[r] - 1]
    BY <1>6, <2>1
  <2> HIDE DEF r
  <2> QED  BY <1>11, <2>1, <2>4, <2>6, <2>7, <2>8, <2>9, <2>10 DEF r
<1>14. ASSUME NEW r \in ReqIds \ FedReqs
       PROVE  length'[r] = length[r] /\ kv'[r] = kv[r] /\ GotBy(s, r) = 0 /\ LackOf(s, r) = 0
  <2>1. r \notin DOMAIN s.rows
    BY <1>11
  <2>2. GotBy(s, r) = 0 /\ LackOf(s, r) = 0
    BY <1>12, <2>1, StepNumbers
  <2> QED  BY <1>6, <2>2
<1>15. \A i \in BatchRows \ DOMAIN fed : sampled'[i] = NoSample
  BY <1>6
<1>16. RanAs(s)
  BY <1>7, <1>12, <1>13, <1>14, <1>15 DEF RanAs
<1>17. DOMAIN sampled' = BatchRows
  BY <1>6
<1>18. length' = [r \in ReqIds |-> length'[r]] /\ kv' = [r \in ReqIds |-> kv'[r]]
  BY <1>6
<1> QED  BY <1>7, <1>8, <1>16, <1>17, <1>18
-----------------------------------------------------------------------------
(* What the GPU has left when the first step that is not done has run.     *)
LEMMA SamplePipeline ==
  ASSUME Types, Pipeline, stream # <<>>, Head(stream).op = "sample",
         fed' = <<>>, stream' \in Seq(Op), Len(stream') = Len(stream) - 1,
         \A i \in 1 .. Len(stream) - 1 : stream'[i] = stream[i + 1], NEW k, Launched(k),
         Len(flight') = Len(flight), DOMAIN flight' = DOMAIN flight,
         flight'[k].done, flight'[k].rows = flight[k].rows,
         \A m \in DOMAIN flight : m # k => flight'[m] = flight[m],
         UNCHANGED <<pc, discard, batch>>
  PROVE  /\ Pipeline'
         /\ Inputs' = Inputs /\ InputReqs' = InputReqs
         /\ DOMAIN Inputs # {} => Len(flight) = 2 /\ k = 1 /\ LastDiscard' = LastDiscard
         /\ pc # "execute_model" => ~Pending("sample")' /\ Pending("sample")
         /\ pc = "execute_model" /\ Len(stream') = 0 =>
              DOMAIN Inputs = {} /\ (k = Len(flight) \/ DOMAIN batch = {})
<1>1. /\ stream \in Seq(Op) /\ Len(stream) \in 1 .. 3
      /\ Runs \/ RunsOne \/ NewNext
  BY SampleIsNext
<1>2. DOMAIN flight = 1 .. Len(flight) /\ Len(flight) \in 0 .. 2
  BY FlightLength DEF Types, SchedulerTypes
<1>3. k \in DOMAIN flight /\ ~flight[k].done /\ \A m \in 1 .. k - 1 : flight[m].done
  BY DEF Launched
<1>4. \A m \in DOMAIN flight : flight'[m].rows = flight[m].rows
  OBVIOUS
<1>5. CASE Runs
  <2>1. Len(stream) = 1 /\ stream[1].op = "sample" /\ pc = "execute_model"
    BY <1>5 DEF Runs
  <2>2. PICK n \in DOMAIN flight : Only(n) /\ (n = Len(flight) \/ DOMAIN batch = {})
    BY <1>5 DEF Runs
  <2>3. n = k
    BY <1>3, <2>2 DEF Only
  <2>4. Len(stream') = 0
    BY <1>1, <2>1
  <2>5. Inputs = <<>> /\ Inputs' = <<>>
    BY <2>1, <2>4 DEF Inputs
  <2>7. Idle'
    <3>1. \A m \in DOMAIN flight' : flight'[m].done
      BY <2>2, <2>3 DEF Only
    <3> QED  BY <2>1, <2>4, <3>1 DEF Idle
  <2> QED  BY <2>1, <2>2, <2>3, <2>5, <2>7 DEF Pipeline, InputReqs
<1>6. CASE RunsOne
  <2>1. /\ Len(stream) = 3 /\ stream[1].op = "sample" /\ stream[2].op = "inputs"
        /\ stream[3].op = "sample" /\ pc = "execute_model"
        /\ DOMAIN Inputs # {} /\ Both /\ RowsMatch(Inputs, flight[2], LastDiscard)
    BY <1>6 DEF RunsOne
  <2>2. Len(stream') = 2 /\ stream'[1] = stream[2] /\ stream'[2] = stream[3]
    BY <1>1, <2>1
  <2>3. Inputs' = Inputs
    BY <2>1, <2>2 DEF Inputs
  <2>4. LastDiscard' = LastDiscard
    BY <2>1, <2>2 DEF LastDiscard
  <2>5. k = 1 /\ Len(flight) = 2
    BY <1>2, <1>3, <2>1 DEF Both
  <2>6. Only(2)'
    BY <1>2, <2>1, <2>5 DEF Only, Both
  <2>7. flight'[2] = flight[2]
    BY <1>2, <2>5
  <2>8. Queued'
    BY <2>1, <2>2, <2>3, <2>4, <2>5, <2>6, <2>7 DEF Queued
  <2> QED  BY <2>1, <2>2, <2>3, <2>4, <2>5, <2>8 DEF Pipeline, InputReqs
<1>7. CASE NewNext
  <2>1. /\ Len(stream) = 2 /\ stream[1].op = "sample" /\ stream[2].op = "inputs"
        /\ pc # "execute_model"
        /\ DOMAIN Inputs # {} /\ Both /\ RowsMatch(Inputs, flight[2], LastDiscard)
    BY <1>7 DEF NewNext
  <2>2. Len(stream') = 1 /\ stream'[1] = stream[2]
    BY <1>1, <2>1
  <2>3. Inputs' = Inputs
    BY <2>1, <2>2 DEF Inputs
  <2>4. LastDiscard' = LastDiscard
    BY <2>1 DEF LastDiscard
  <2>5. k = 1 /\ Len(flight) = 2
    BY <1>2, <1>3, <2>1 DEF Both
  <2>6. Only(2)'
    BY <1>2, <2>1, <2>5 DEF Only, Both
  <2>7. flight'[2] = flight[2]
    BY <1>2, <2>5
  <2>8. New'
    BY <2>1, <2>2, <2>3, <2>4, <2>5, <2>6, <2>7 DEF New
  <2>9. Pending("sample") /\ ~Pending("sample")'
    <3>1. DOMAIN stream = 1 .. 2 /\ DOMAIN stream' = 1 .. 1
      BY <1>1, <2>1, <2>2
    <3> QED  BY <2>1, <2>2, <3>1 DEF Pending
  <2> QED  BY <2>1, <2>3, <2>4, <2>5, <2>8, <2>9 DEF Pipeline, InputReqs
<1> QED  BY <1>1, <1>5, <1>6, <1>7

(* A row that was to take its tokens from the step that ran finds them.    *)
LEMMA RunningBecomesSampled ==
  ASSUME Types, NEW s, RanAs(s), FedRows, NEW w, w.spec \in Nat,
         RowOfRunning(w), UNCHANGED <<prev_num_draft, row>>
  PROVE  LET r == w.req
             t == sampled'[w.prev]
         IN /\ t.req = r /\ t.last = length'[r] - 1 /\ kv'[r] = length'[r] - 1
            /\ length'[r] + w.spec + 1 <= MaxModelLen
            /\ IF prev_num_draft[w.prev] > 0 THEN t.start + t.count = kv'[r]
               ELSE row[r].computed = kv'[r]
<1> DEFINE r == w.req
           i == w.prev
           f == fed[i]
           g == GotBy(s, r)
           t == sampled'[i]
<1>1. /\ i \in DOMAIN fed /\ f.req = r /\ r \notin FedDiscard
      /\ length[r] + f.spec + 1 + w.spec + 1 <= MaxModelLen
      /\ IF prev_num_draft[i] > 0 THEN Len(f.ids) = f.spec + 1
         ELSE f.spec = 0 /\ row[r].computed = FedEnd(i)
  BY DEF RowOfRunning
<1>2. /\ t = [req |-> r, start |-> f.start, count |-> g, last |-> length'[r] - 1]
      /\ length'[r] = length[r] + g /\ kv'[r] = FedEnd(i) - LackOf(s, r)
      /\ g \in 1 .. f.spec + 1 /\ LackOf(s, r) = f.spec + 1 - g
  <2>1. LET q == fed[i].req IN
        /\ sampled'[i] = [req |-> q, start |-> fed[i].start, count |-> GotBy(s, q),
                          last |-> length'[q] - 1]
        /\ length'[q] = length[q] + GotBy(s, q) /\ kv'[q] = FedEnd(i) - LackOf(s, q)
        /\ q \notin FedDiscard => /\ GotBy(s, q) \in 1 .. fed[i].spec + 1
                                  /\ LackOf(s, q) = fed[i].spec + 1 - GotBy(s, q)
    BY <1>1 DEF RanAs
  <2>2. fed[i].req = r /\ r \notin FedDiscard
    BY <1>1
  <2> QED  BY <2>1, <2>2
<1>3. /\ f.spec \in Nat /\ f.start \in Nat /\ length[r] \in Nat /\ MaxModelLen \in Nat
      /\ FedEnd(i) = length[r] + f.spec /\ FedEnd(i) \in Nat /\ w.spec \in Nat
  <2>1. f.spec \in Nat /\ f.start \in Nat /\ r \in ReqIds
    BY <1>1, Numbers DEF Types, GpuTypes
  <2>2. FedEnd(i) = length[r] + f.spec
    BY <1>1 DEF FedRows
  <2>3. length[r] \in Nat /\ MaxModelLen \in Nat
    BY <2>1, Numbers DEF Types, SchedulerTypes
  <2> QED  BY <2>1, <2>2, <2>3
<1>4. Len(f.ids) = f.spec + 1 => FedEnd(i) = f.start + (f.spec + 1)
  BY DEF FedEnd
<1> HIDE DEF f, g, r, i, t
<1>5. t.req = r /\ t.last = length'[r] - 1 /\ t.start = f.start /\ t.count = g
  BY <1>2
<1>6. kv'[r] = FedEnd(i) - (f.spec + 1 - g) /\ g \in Nat /\ g <= f.spec + 1
  BY <1>2, <1>3
<1>7. kv'[r] = length'[r] - 1 /\ length'[r] + w.spec + 1 <= MaxModelLen
  <2>1. length'[r] = length[r] + g
    BY <1>2
  <2>2. length[r] + f.spec + 1 + w.spec + 1 <= MaxModelLen
    BY <1>1
  <2> QED  BY <1>3, <1>6, <2>1, <2>2
<1>8. prev_num_draft[i] > 0 => t.start + t.count = kv'[r]
  <2> HAVE prev_num_draft[i] > 0
  <2>1. FedEnd(i) = f.start + (f.spec + 1)
    BY <1>1, <1>4
  <2> QED  BY <1>3, <1>5, <1>6, <2>1
<1>9. ~(prev_num_draft[i] > 0) => row[r].computed = kv'[r]
  <2> HAVE ~(prev_num_draft[i] > 0)
  <2>1. f.spec = 0 /\ row[r].computed = FedEnd(i) /\ g = 1
    BY <1>1, <1>2
  <2> QED  BY <1>3, <1>6, <2>1
<1> QED  BY <1>5, <1>7, <1>8, <1>9 DEF r, i, t

LEMMA GpuSampleKeepsIInv ==
  ASSUME IInv, GpuSample
  PROVE  IInv'
<1>1. /\ SchedulerTypes /\ CpuTypes /\ GpuTypes /\ Types /\ BatchOnGpu /\ PrevRows /\ Pipeline
      /\ BatchIsLast /\ FedRows /\ flight \in Flights
      /\ stream # <<>> /\ Head(stream).op = "sample" /\ stream' = Tail(stream) /\ fed' = <<>>
      /\ UNCHANGED <<status, known, computed, prev_step, finished_ids, requests, batch, row,
                     prev_row, prev_positions, prev_num_draft, deferred, discard, pc>>
  BY DEF IInv, Types, SchedulerTypes, GpuSample, cpu
<1>2. PICK k : Launched(k)
  BY <1>1, SampleIsNext
<1>3. k \in DOMAIN flight /\ ~flight[k].done /\ RowsMatch(fed, flight[k], FedDiscard)
  BY <1>2 DEF Launched
<1>4. PICK s : RanAs(s) /\ s.rows = flight[k].rows /\ flight' = [flight EXCEPT ![k] = s]
  BY <1>1, <1>2, SampleOutcome
<1>5. /\ DOMAIN sampled' = BatchRows
      /\ length' = [r \in ReqIds |-> length'[r]] /\ kv' = [r \in ReqIds |-> kv'[r]]
  BY <1>1, <1>2, SampleOutcome
<1>6. Settled(s) /\ s.done
  BY <1>4 DEF RanAs
<1>7. /\ flight' \in Flights /\ Len(flight') = Len(flight) /\ flight'[k] = s
      /\ \A m \in DOMAIN flight : m # k => flight'[m] = flight[m]
      /\ \A r : /\ AwaitedIn(flight', r) = AwaitedIn(flight, r)
                /\ GotIn(flight', r) = GotIn(flight, r) + GotBy(s, r)
                /\ LackIn(flight', r) = LackIn(flight, r) + LackOf(s, r)
  <2>1. s.rows = flight[k].rows /\ flight' = [flight EXCEPT ![k] = s]
    BY <1>4
  <2>2. /\ [flight EXCEPT ![k] = s] \in Flights /\ Len([flight EXCEPT ![k] = s]) = Len(flight)
        /\ [flight EXCEPT ![k] = s][k] = s
        /\ \A m \in DOMAIN flight : m # k => [flight EXCEPT ![k] = s][m] = flight[m]
        /\ \A r : /\ AwaitedIn([flight EXCEPT ![k] = s], r) = AwaitedIn(flight, r)
                  /\ GotIn([flight EXCEPT ![k] = s], r) = GotIn(flight, r) + GotBy(s, r)
                  /\ LackIn([flight EXCEPT ![k] = s], r) = LackIn(flight, r) + LackOf(s, r)
    BY <1>1, <1>3, <1>6, <2>1, DoneFlight, Zenon
  <2> QED  BY <2>1, <2>2
<1>8. /\ DOMAIN flight' = DOMAIN flight /\ DOMAIN flight = 1 .. Len(flight)
      /\ Len(flight) \in 0 .. 2
      /\ \A m \in DOMAIN flight : flight'[m].rows = flight[m].rows
  BY <1>1, <1>4, <1>7, FlightLength
<1>9. /\ Pipeline'
      /\ Inputs' = Inputs /\ InputReqs' = InputReqs
      /\ DOMAIN Inputs # {} => Len(flight) = 2 /\ k = 1 /\ LastDiscard' = LastDiscard
      /\ pc # "execute_model" => ~Pending("sample")' /\ Pending("sample")
      /\ pc = "execute_model" /\ Len(stream') = 0 =>
           DOMAIN Inputs = {} /\ (k = Len(flight) \/ DOMAIN batch = {})
  <2>1. /\ stream' \in Seq(Op) /\ Len(stream') = Len(stream) - 1
        /\ \A i \in 1 .. Len(stream) - 1 : stream'[i] = stream[i + 1]
    BY <1>1, SampleIsNext
  <2>2. flight'[k].done /\ flight'[k].rows = flight[k].rows
    BY <1>4, <1>6, <1>7
  <2> QED  BY <1>1, <1>2, <1>7, <1>8, <2>1, <2>2, SamplePipeline
<1>10. /\ FedReqs' = {} /\ DOMAIN fed' = {} /\ FedReqs \subseteq ReqIds
       /\ \A r \in FedReqs : FedAt(r) \in DOMAIN fed /\ fed[FedAt(r)].req = r
       /\ \A i \in DOMAIN fed : /\ fed[i].req \in FedReqs /\ FedAt(fed[i].req) = i
                                /\ FedEnd(i) \in Nat /\ FedEnd(i) >= 1
  BY <1>1, FedFacts DEF FedReqs, ReqsOf
<1>11. Len(flight) > 0 => LastStep'.rows = LastStep.rows
  BY <1>7, <1>8 DEF LastStep
<1>12. \A r : Optimistic(r)' = Optimistic(r)
  BY <1>1, <1>7 DEF Optimistic
(* Every request that ran: its tokens and its KV entries by now.           *)
<1>13. ASSUME NEW i \in DOMAIN fed
       PROVE  LET r == fed[i].req
                  g == GotBy(s, r)
              IN /\ sampled'[i] = [req |-> r, start |-> fed[i].start, count |-> g,
                                   last |-> length'[r] - 1]
                 /\ s.got[r] = g /\ g \in Nat /\ fed[i].spec \in Nat /\ fed[i].start \in Nat
                 /\ length'[r] = length[r] + g /\ length[r] \in Nat
                 /\ kv'[r] = FedEnd(i) - LackOf(s, r) /\ kv'[r] \in Nat
                 /\ length'[r] \in Nat /\ kv'[r] <= length'[r] /\ length'[r] <= MaxModelLen
                 /\ r \in FedDiscard => /\ g = 0 /\ kv'[r] = FedEnd(i) /\ fed[i].spec = 0
                 /\ r \notin FedDiscard =>
                      /\ g >= 1 /\ kv'[r] = length'[r] - 1
                      /\ kv'[r] = FedEnd(i) - (fed[i].spec + 1 - g)
                      /\ g <= fed[i].spec + 1
                      /\ fed[i].spec > 0 => fed[i].start + g = kv'[r]
  <2> DEFINE r == fed[i].req
             g == GotBy(s, r)
  <2>1. /\ sampled'[i] = [req |-> r, start |-> fed[i].start, count |-> g,
                          last |-> length'[r] - 1]
        /\ s.got[r] = g /\ length'[r] = length[r] + g
        /\ kv'[r] = FedEnd(i) - LackOf(s, r)
        /\ IF r \in FedDiscard THEN g = 0 /\ LackOf(s, r) = 0
           ELSE g \in 1 .. fed[i].spec + 1 /\ LackOf(s, r) = fed[i].spec + 1 - g
    BY <1>4 DEF RanAs
  <2>2. IF r \in FedDiscard THEN FedEnd(i) <= length[r] /\ fed[i].spec = 0
        ELSE /\ FedEnd(i) = length[r] + fed[i].spec
             /\ length[r] + fed[i].spec + 1 <= MaxModelLen
             /\ Tight(Len(fed[i].ids), fed[i].spec)
    BY <1>1 DEF FedRows
  <2>3. /\ fed[i].spec \in Nat /\ fed[i].start \in Nat /\ FedEnd(i) \in Nat
        /\ r \in ReqIds /\ length[r] \in Nat /\ MaxModelLen \in Nat
    BY <1>1, <1>10, Numbers DEF GpuTypes, SchedulerTypes
  <2>4. length[r] <= MaxModelLen
    BY <2>3 DEF IInv, KnownTokens
  <2>7. Len(fed[i].ids) = fed[i].spec + 1 => FedEnd(i) = fed[i].start + (fed[i].spec + 1)
    BY DEF FedEnd
  <2> HIDE DEF g, r
  <2>5. CASE r \in FedDiscard
    <3>1. g = 0 /\ length'[r] = length[r] /\ kv'[r] = FedEnd(i)
      BY <2>1, <2>3, <2>5
    <3> QED  BY <2>1, <2>2, <2>3, <2>4, <2>5, <3>1 DEF g, r
  <2>6. CASE r \notin FedDiscard
    <3>1. /\ g \in Nat /\ g >= 1 /\ g <= fed[i].spec + 1
          /\ kv'[r] = FedEnd(i) - (fed[i].spec + 1 - g)
          /\ FedEnd(i) = length[r] + fed[i].spec
          /\ length[r] + fed[i].spec + 1 <= MaxModelLen
      BY <2>1, <2>2, <2>3, <2>6
    <3>2. kv'[r] = length[r] + g - 1 /\ length'[r] = length[r] + g
      BY <2>1, <2>3, <3>1
    <3>3. fed[i].spec > 0 => fed[i].start + g = kv'[r]
      <4>1. fed[i].spec > 0 => FedEnd(i) = fed[i].start + (fed[i].spec + 1)
        BY <2>2, <2>6, <2>7 DEF Tight
      <4> QED  BY <2>3, <3>1, <4>1
    <3>4. /\ kv'[r] \in Nat /\ length'[r] \in Nat /\ kv'[r] <= length'[r]
          /\ length'[r] <= MaxModelLen /\ kv'[r] = length'[r] - 1
      BY <2>3, <3>1, <3>2
    <3> QED  BY <2>1, <2>3, <2>6, <3>1, <3>3, <3>4 DEF g, r
  <2> QED  BY <2>5, <2>6
(* And every request that did not.                                         *)
<1>14. \A r \in ReqIds \ FedReqs :
         length'[r] = length[r] /\ kv'[r] = kv[r] /\ GotBy(s, r) = 0 /\ LackOf(s, r) = 0
  BY <1>4 DEF RanAs
<1>15. \A r \in ReqIds :
         /\ length'[r] \in Nat /\ kv'[r] \in Nat
         /\ length'[r] = length[r] + GotBy(s, r) /\ kv'[r] = RunEnd(r) - LackOf(s, r)
         /\ GotBy(s, r) \in Nat /\ LackOf(s, r) \in Nat
         /\ kv'[r] <= length'[r] /\ length'[r] <= MaxModelLen
  <2> TAKE r \in ReqIds
  <2>1. GotBy(s, r) \in Nat /\ LackOf(s, r) \in Nat
    BY <1>6, StepNumbers
  <2>2. CASE r \in FedReqs
    <3>1. FedAt(r) \in DOMAIN fed /\ fed[FedAt(r)].req = r
      BY <1>10, <2>2
    <3> QED  BY <1>13, <2>1, <2>2, <3>1 DEF RunEnd
  <2>3. CASE r \notin FedReqs
    <3>1. length[r] \in Nat /\ kv[r] \in Nat /\ kv[r] <= length[r] /\ length[r] <= MaxModelLen
      BY <1>1 DEF SchedulerTypes, IInv, KnownTokens
    <3> QED  BY <1>14, <2>1, <2>3, <3>1 DEF RunEnd
  <2> QED  BY <2>2, <2>3
<1>16. Types'
  <2>1. SchedulerTypes'
    <3>1. length' \in [ReqIds -> Nat] /\ kv' \in [ReqIds -> Nat]
      BY <1>5, <1>15
    <3> QED  BY <1>1, <1>7, <3>1 DEF SchedulerTypes, Live
  <2>2. CpuTypes'
    BY <1>1 DEF CpuTypes, BatchRows
  <2>3. GpuTypes'
    <3>1. stream' \in Seq(Op)
      BY <1>1, SampleIsNext
    <3>2. ASSUME NEW i \in BatchRows
          PROVE  /\ sampled'[i].start \in Nat /\ sampled'[i].count \in Nat
                 /\ sampled'[i].last \in Int
      <4>1. CASE i \in DOMAIN fed
        <5> DEFINE r == fed[i].req
                   g == GotBy(s, r)
        <5>1. /\ sampled'[i] = [req |-> r, start |-> fed[i].start, count |-> g,
                                last |-> length'[r] - 1]
              /\ g \in Nat /\ fed[i].start \in Nat /\ length'[r] \in Nat
          BY <1>13, <4>1
        <5> QED  BY <5>1
      <4>2. CASE i \notin DOMAIN fed
        <5>1. sampled'[i] = NoSample
          BY <1>4, <4>2 DEF RanAs
        <5> QED  BY <5>1 DEF NoSample
      <4> QED  BY <4>1, <4>2
    <3> QED  BY <1>1, <1>5, <1>9, <1>10, <3>1, <3>2 DEF GpuTypes, BatchRows
  <2> QED  BY <2>1, <2>2, <2>3 DEF Types
<1>17. BatchIsLast' /\ PrevRows' /\ BatchOnGpu'
  <2>1. BatchIsLast'
    BY <1>1, <1>7, <1>8, <1>11 DEF BatchIsLast
  <2>2. PrevRows'
    BY <1>1, <1>7, <1>11 DEF PrevRows, BatchRows
  <2>3. BatchOnGpu'
    BY <1>1, <1>9, <1>10 DEF BatchOnGpu
  <2> QED  BY <2>1, <2>2, <2>3
<1>18. KnownTokens'
  <2> SUFFICES ASSUME NEW r \in ReqIds
               PROVE  /\ Live(r)' => /\ length'[r] = known'[r] + GotIn(flight', r)
                                     /\ known'[r] < MaxModelLen /\ Prompt <= known'[r]
                                     /\ Optimistic(r)' <= MaxModelLen
                      /\ status'[r] \in {"waiting", "finished"} => known'[r] = Prompt
                      /\ Held(r)' => r \in DOMAIN requests'
                      /\ kv'[r] <= length'[r] /\ length'[r] <= MaxModelLen
    BY DEF KnownTokens
  <2>1. /\ Live(r) => /\ length[r] = known[r] + GotIn(flight, r)
                      /\ known[r] < MaxModelLen /\ Prompt <= known[r]
                      /\ Optimistic(r) <= MaxModelLen
        /\ status[r] \in {"waiting", "finished"} => known[r] = Prompt
        /\ Held(r) => r \in DOMAIN requests
    BY DEF IInv, KnownTokens
  <2>2. Live(r)' = Live(r) /\ Held(r)' = Held(r)
    BY <1>1 DEF Live, Held
  <2>3. Live(r) => length'[r] = known'[r] + GotIn(flight', r)
    <3>1. known[r] \in Nat /\ GotIn(flight, r) \in Nat /\ GotBy(s, r) \in Nat
      BY <1>1, <1>6, FlightNumbers, StepNumbers DEF SchedulerTypes
    <3>2. GotIn(flight', r) = GotIn(flight, r) + GotBy(s, r) /\ known' = known
      BY <1>1, <1>7
    <3>3. length'[r] = length[r] + GotBy(s, r)
      BY <1>15
    <3> QED  BY <2>1, <3>1, <3>2, <3>3
  <2> QED  BY <1>1, <1>12, <1>15, <2>1, <2>2, <2>3
<1>19. ComputedTokens'
  <2> SUFFICES ASSUME NEW r \in ReqIds
               PROVE  /\ status[r] # "running" => computed[r] = 0
                      /\ status[r] = "running" =>
                           /\ computed[r] = End(r)' + LackIn(flight', r)
                           /\ computed[r] + 1 <= Optimistic(r)
                           /\ AwaitedIn(flight', r) > 0 => computed[r] + 1 = Optimistic(r)
                           /\ pc = "execute_model" /\ r \in DOMAIN prev_row =>
                                computed[r] + 1 = Optimistic(r)
                           /\ r \notin InputReqs => kv'[r] >= 1
    BY <1>1, <1>9, <1>10, <1>12 DEF ComputedTokens
  <2>1. status[r] # "running" => computed[r] = 0
    BY DEF IInv, ComputedTokens
  <2> SUFFICES ASSUME status[r] = "running"
               PROVE  /\ computed[r] = End(r)' + LackIn(flight', r)
                      /\ computed[r] + 1 <= Optimistic(r)
                      /\ AwaitedIn(flight', r) > 0 => computed[r] + 1 = Optimistic(r)
                      /\ pc = "execute_model" /\ r \in DOMAIN prev_row =>
                           computed[r] + 1 = Optimistic(r)
                      /\ r \notin InputReqs => kv'[r] >= 1
    BY <2>1
  <2>2. /\ computed[r] = End(r) + LackIn(flight, r)
        /\ computed[r] + 1 <= Optimistic(r)
        /\ AwaitedIn(flight, r) > 0 => computed[r] + 1 = Optimistic(r)
        /\ pc = "execute_model" /\ r \in DOMAIN prev_row => computed[r] + 1 = Optimistic(r)
        /\ r \notin FedReqs \cup InputReqs => kv[r] >= 1
    BY DEF IInv, ComputedTokens
  <2>3. computed[r] = End(r)' + LackIn(flight', r)
    <3> DEFINE x == IF r \in InputReqs THEN Inputs[InputAt(r)].n ELSE 0
    <3>1. x \in Nat
      BY <1>1, InputFacts DEF InputRow
    <3>2. End(r) = RunEnd(r) + x
      BY DEF End
    <3>3. End(r)' = kv'[r] + x
      BY <1>9, <1>10 DEF End, RunEnd, InputAt
    <3> HIDE DEF x
    <3>4. RunEnd(r) \in Nat /\ LackIn(flight, r) \in Nat /\ LackOf(s, r) \in Nat
      BY <1>1, <1>15, EndIsNat, FlightNumbers
    <3>5. kv'[r] = RunEnd(r) - LackOf(s, r)
      BY <1>15
    <3>6. LackIn(flight', r) = LackIn(flight, r) + LackOf(s, r)
      BY <1>7
    <3> QED  BY <2>2, <3>1, <3>2, <3>3, <3>4, <3>5, <3>6
  <2>4. ASSUME r \notin InputReqs PROVE kv'[r] >= 1
    <3>1. CASE r \in FedReqs
      <4>1. FedAt(r) \in DOMAIN fed /\ fed[FedAt(r)].req = r
        BY <1>10, <3>1
      <4>2. length[r] >= 1
        <5>1. /\ length[r] = known[r] + GotIn(flight, r) /\ Prompt <= known[r]
          BY DEF IInv, KnownTokens, Live
        <5>2. known[r] \in Nat /\ GotIn(flight, r) \in Nat
          BY <1>1, FlightNumbers DEF SchedulerTypes
        <5> QED  BY <5>1, <5>2, Numbers
      <4>3. CASE r \in FedDiscard
        <5>1. kv'[r] = FedEnd(FedAt(r))
          BY <1>13, <4>1, <4>3
        <5>2. FedEnd(FedAt(r)) >= 1
          BY <1>10, <4>1
        <5> QED  BY <5>1, <5>2
      <4>4. CASE r \notin FedDiscard
        <5>1. /\ kv'[r] = length'[r] - 1 /\ length'[r] = length[r] + GotBy(s, r)
              /\ GotBy(s, r) >= 1 /\ GotBy(s, r) \in Nat /\ length[r] \in Nat
          BY <1>13, <4>1, <4>4
        <5> QED  BY <4>2, <5>1
      <4> QED  BY <4>3, <4>4
    <3>2. CASE r \notin FedReqs
      BY <1>14, <2>2, <2>4, <3>2
    <3> QED  BY <3>1, <3>2
  <2> QED  BY <1>7, <2>2, <2>3, <2>4
<1>20. FedRows' /\ InputsAreTheSequence'
  BY <1>10 DEF FedRows, InputsAreTheSequence
<1>21. InputRows'
  <2> SUFFICES ASSUME NEW i \in DOMAIN Inputs
               PROVE  LET w == Inputs[i] IN
                      /\ w.prev = prev_positions[i]
                      /\ \/ FreshRow(w)'
                         \/ /\ w.prev \in BatchRows /\ w.prev > 0 /\ w.req \notin LastDiscard
                            /\ w.n = w.spec + 1
                            /\ RowOfSampled(w)'
    BY <1>1, <1>9, <1>10 DEF InputRows, BatchRows
  <2> DEFINE w == Inputs[i]
             r == w.req
  <2>1. w \in InputRow /\ r \in ReqIds /\ w.spec \in Nat
    BY <1>1, InputFacts, Numbers DEF InputRow
  <2>2. DOMAIN fed # {}
    BY <1>1, SampleIsNext
  <2>3. /\ w.prev = prev_positions[i]
        /\ \/ FreshRow(w)
           \/ /\ w.prev \in BatchRows /\ w.prev > 0 /\ r \notin LastDiscard
              /\ w.n = w.spec + 1 /\ RowOfRunning(w)
    BY <2>2 DEF IInv, InputRows
  <2> HIDE DEF w
  <2>4. ASSUME FreshRow(w)
        PROVE  FreshRow(w)'
    <3>1. /\ w.prev = -1 /\ w.spec = 0
          /\ row[r].computed = w.at /\ w.at + w.n <= w.real /\ w.real <= length[r]
          /\ r \notin LastDiscard => w.at + w.n = length[r] /\ length[r] < MaxModelLen
          /\ r \notin FedReqs => kv[r] = w.at
          /\ r \in FedReqs => r \in FedDiscard /\ w.at = FedEnd(FedAt(r))
      BY <2>4 DEF FreshRow
    <3>2. length'[r] = length[r] /\ kv'[r] = w.at
      <4>1. CASE r \in FedReqs
        <5>1. FedAt(r) \in DOMAIN fed /\ fed[FedAt(r)].req = r /\ r \in FedDiscard
          BY <1>10, <3>1, <4>1
        <5>2. kv'[r] = FedEnd(FedAt(r)) /\ length'[r] = length[r] + 0 /\ length[r] \in Nat
          BY <1>13, <5>1
        <5> QED  BY <3>1, <4>1, <5>2
      <4>2. CASE r \notin FedReqs
        BY <1>14, <2>1, <3>1, <4>2
      <4> QED  BY <4>1, <4>2
    <3>3. FedReqs' = {} /\ row' = row /\ LastDiscard' = LastDiscard
      BY <1>1, <1>9, <1>10
    <3> QED  BY <1>9, <3>1, <3>2, <3>3 DEF FreshRow, w
  <2>5. ASSUME RowOfRunning(w) PROVE RowOfSampled(w)'
    <3> DEFINE t == sampled'[w.prev]
    <3>1. row' = row /\ prev_num_draft' = prev_num_draft
      BY <1>1
    <3>2. /\ t.req = r /\ t.last = length'[r] - 1 /\ kv'[r] = length'[r] - 1
          /\ length'[r] + w.spec + 1 <= MaxModelLen
          /\ IF prev_num_draft[w.prev] > 0 THEN t.start + t.count = kv'[r]
             ELSE row[r].computed = kv'[r]
      BY <1>1, <1>4, <2>1, <2>5, <3>1, RunningBecomesSampled
    <3> QED  BY <1>9, <3>1, <3>2 DEF RowOfSampled, w
  <2> QED  BY <2>3, <2>4, <2>5 DEF w
<1>22. LastSampled'
  <2> SUFFICES ASSUME pc = "execute_model", Len(stream') = 0, NEW r \in DOMAIN prev_row
               PROVE  LET t == sampled'[prev_row[r]] IN
                      /\ t.req = r /\ t.last = length'[r] - 1 /\ kv'[r] = length'[r] - 1
                      /\ requests[r].drafts > 0 => t.start + t.count = kv'[r]
                      /\ Len(flight') > 0 => LastStep'.got[r] = t.count
    BY <1>1 DEF LastSampled
  <2> DEFINE i == prev_row[r]
  <2>1. i \in DOMAIN batch /\ batch[i] = r /\ r \in ToSet(batch) /\ LastStep.rows[r].samples
    <3>1. i \in DOMAIN batch /\ batch[i] = r
      BY <1>1 DEF PrevRows
    <3>2. r \in ToSet(batch)
      BY <1>1, <3>1, BatchFacts
    <3>3. Len(flight) > 0
      BY <1>3, <1>8
    <3> QED  BY <1>1, <3>1, <3>2, <3>3 DEF PrevRows
  <2>2. k = Len(flight) /\ DOMAIN Inputs = {} /\ flight'[k] = LastStep' /\ flight[k] = LastStep
    BY <1>7, <1>9, <2>1 DEF LastStep
  <2>3. i \in DOMAIN fed /\ fed[i].req = r
    <3>1. DOMAIN fed # {}
      BY <1>1, SampleIsNext
    <3> QED  BY <1>1, <2>1, <2>2, <3>1 DEF BatchOnGpu
  <2>4. fed[i].spec = LastStep.rows[r].spec /\ r \in DOMAIN LastStep.rows
    BY <1>3, <2>2, <2>3 DEF RowsMatch
  <2>5. r \notin FedDiscard
    BY <1>3, <2>1, <2>2, <2>4 DEF RowsMatch
  <2>6. LastStep.rows[r].spec = requests[r].drafts
    BY <1>1, <1>3, <1>8, <2>1 DEF BatchIsLast
  <2>7. /\ sampled'[i] = [req |-> r, start |-> fed[i].start, count |-> GotBy(s, r),
                          last |-> length'[r] - 1]
        /\ s.got[r] = GotBy(s, r) /\ kv'[r] = length'[r] - 1
        /\ fed[i].spec > 0 => fed[i].start + GotBy(s, r) = kv'[r]
    BY <1>13, <2>3, <2>5
  <2>8. LastStep' = s
    BY <1>7, <2>2
  <2> HIDE DEF i
  <2> QED  BY <2>4, <2>6, <2>7, <2>8 DEF i
<1>23. OutputsAhead'
  <2>1. \A r \in ToSet(batch) : Len(flight) > 0 =>
          /\ Awaited(LastStep', r) = Awaited(LastStep, r)
          /\ Samples(LastStep', r) = Samples(LastStep, r)
    BY <1>11 DEF Awaited, Samples
  <2>2. Len(flight) > 0
    BY <1>3, <1>8
  <2> QED  BY <1>1, <1>7, <1>12, <2>1, <2>2 DEF IInv, OutputsAhead
<1>24. DiscardsWhatIsNotExpected'
  <2>1. ASSUME pc # "execute_model"
        PROVE  discard = {r \in ToSet(batch) : ~Last(flight').rows[r].samples}
    <3>1. discard = {r \in ToSet(batch) : ~Last(flight).rows[r].samples}
      BY <2>1 DEF IInv, DiscardsWhatIsNotExpected
    <3>2. Last(flight) = LastStep /\ Last(flight') = LastStep' /\ Len(flight) > 0
      BY <1>3, <1>8 DEF LastStep, Last
    <3> QED  BY <1>11, <3>1, <3>2
  <2> QED  BY <1>1, <2>1 DEF DiscardsWhatIsNotExpected
<1>25. Corrections'
  <2> SUFFICES ASSUME pc # "execute_model", Len(flight) = 2, NEW r \in ToSet(batch)
               PROVE  CpuCount(r, row[r].computed)'
    BY <1>1, <1>7 DEF IInv, Corrections
  <2> DEFINE c == row[r].computed
             t == sampled'[prev_row[r]]
  <2>1. Pending("sample") /\ ~Pending("sample")'
    BY <1>9
  <2>2. IF r \in FedReqs
        THEN /\ c = FedEnd(FedAt(r)) /\ fed[FedAt(r)].spec = Due(r)
             /\ Due(r) > 0 => prev_row[r] = FedAt(r)
        ELSE c = kv[r] /\ Due(r) = 0
    BY <2>1 DEF IInv, Corrections, CpuCount
  <2>3. Due(r)' = Due(r) /\ r \in ReqIds
    BY <1>1, BatchFacts DEF Due
  <2>4. c = kv'[r] + IF Due(r) > 0 THEN Due(r) - (t.count - 1) ELSE 0
    <3>1. CASE r \in FedReqs
      <4> DEFINE i == FedAt(r)
      <4>1. i \in DOMAIN fed /\ fed[i].req = r
        BY <1>10, <3>1
      <4>2. /\ sampled'[i].count = GotBy(s, r) /\ GotBy(s, r) \in Nat /\ FedEnd(i) \in Nat
            /\ fed[i].spec \in Nat
        <5>1. FedEnd(i) \in Nat
          BY <1>10, <4>1
        <5>2. GotBy(s, r) \in Nat /\ fed[i].spec \in Nat
          BY <1>13, <4>1
        <5>3. sampled'[i] = [req |-> fed[i].req, start |-> fed[i].start,
                             count |-> GotBy(s, fed[i].req), last |-> length'[fed[i].req] - 1]
          BY <1>13, <4>1
        <5> QED  BY <4>1, <5>1, <5>2, <5>3
      <4>3. /\ r \in FedDiscard => kv'[r] = FedEnd(i) /\ fed[i].spec = 0
            /\ r \notin FedDiscard => /\ kv'[r] = FedEnd(i) - (fed[i].spec + 1 - GotBy(s, r))
                                      /\ GotBy(s, r) >= 1 /\ GotBy(s, r) <= fed[i].spec + 1
        BY <1>13, <4>1
      <4> HIDE DEF i
      <4>4. CASE Due(r) > 0
        <5>1. prev_row[r] = i /\ fed[i].spec = Due(r) /\ c = FedEnd(i)
          BY <2>2, <3>1, <4>4 DEF i
        <5>2. r \notin FedDiscard
          BY <4>3, <4>4, <5>1
        <5>3. t.count = GotBy(s, r)
          BY <4>2, <5>1
        <5> QED  BY <4>2, <4>3, <4>4, <5>1, <5>2, <5>3
      <4>5. CASE ~(Due(r) > 0)
        <5>1. fed[i].spec = Due(r) /\ c = FedEnd(i)
          BY <2>2, <3>1 DEF i
        <5>2. fed[i].spec = 0
          BY <4>2, <4>5, <5>1
        <5>3. kv'[r] = FedEnd(i)
          BY <4>2, <4>3, <5>2
        <5> QED  BY <4>2, <4>5, <5>1, <5>3
      <4> QED  BY <4>4, <4>5
    <3>2. CASE r \notin FedReqs
      <4>1. kv'[r] = kv[r] /\ kv[r] \in Nat
        BY <1>1, <1>14, <2>3, <3>2 DEF SchedulerTypes
      <4> QED  BY <2>2, <3>2, <4>1
    <3> QED  BY <3>1, <3>2
  <2> QED  BY <1>1, <2>1, <2>3, <2>4 DEF CpuCount
<1> QED  BY <1>9, <1>16, <1>17, <1>18, <1>19, <1>20, <1>21, <1>22, <1>23, <1>24, <1>25 DEF IInv
-----------------------------------------------------------------------------
(* What execute_model plans from: no step waits for its inputs, and at     *)
(* most one runs or is done.                                               *)
Ready == /\ Types /\ pc = "execute_model" /\ Len(flight) \in 0 .. 1
         /\ DOMAIN flight = 1 .. Len(flight)
         /\ Idle \/ Runs
         /\ DOMAIN Inputs = {} /\ InputReqs = {}
         /\ Len(flight) = 1 => LastStep = flight[1] /\ Settled(flight[1])
         /\ Len(flight) = 1 => DOMAIN flight[1].rows = ToSet(batch)
         /\ Runs => /\ Len(flight) = 1 /\ ~flight[1].done /\ FedReqs = ToSet(batch)
                    /\ RowsMatch(fed, flight[1], FedDiscard)
         /\ Idle => FedReqs = {} /\ \A k \in DOMAIN flight : flight[k].done

LEMMA ReadyToPlan ==
  ASSUME IInv, pc = "execute_model", Len(flight) < 2, ~Pending("inputs")
  PROVE  Ready
<1>1. /\ Types /\ Pipeline /\ BatchIsLast /\ stream \in Seq(Op) /\ flight \in Flights
  BY DEF IInv, Types, GpuTypes, SchedulerTypes
<1>2. /\ Len(flight) \in 0 .. 1 /\ DOMAIN flight = 1 .. Len(flight)
      /\ \A k \in DOMAIN flight : Settled(flight[k])
  BY <1>1, FlightLength
<1>3. Len(stream) \in Nat /\ DOMAIN stream = 1 .. Len(stream)
  BY <1>1
<1>4. \A i \in 1 .. Len(stream) : stream[i].op # "inputs"
  BY <1>3 DEF Pending
<1>5. DOMAIN Inputs = {} /\ InputReqs = {}
  <2>1. Inputs = <<>>
    BY <1>3, <1>4 DEF Inputs
  <2> QED  BY <2>1 DEF InputReqs, ReqsOf
<1>6. Idle \/ Runs
  BY <1>1, <1>5 DEF Pipeline, Queued, RunsOne, New, NewRuns, NewNext
<1>7. Len(flight) = 1 => /\ LastStep = flight[1] /\ Settled(flight[1])
                         /\ DOMAIN flight[1].rows = ToSet(batch)
  BY <1>1, <1>2 DEF LastStep, BatchIsLast
<1>8. Runs => /\ Len(flight) = 1 /\ ~flight[1].done /\ FedReqs = ToSet(batch)
              /\ RowsMatch(fed, flight[1], FedDiscard)
  <2> HAVE Runs
  <2>1. PICK k \in DOMAIN flight : Only(k) /\ RowsMatch(fed, flight[k], FedDiscard)
    BY DEF Runs
  <2>2. k = 1 /\ Len(flight) = 1
    BY <1>2
  <2>3. FedReqs = DOMAIN flight[1].rows
    BY <2>1, <2>2 DEF RowsMatch, FedReqs, ReqsOf
  <2> QED  BY <1>7, <2>1, <2>2, <2>3 DEF Only
<1>9. Idle => FedReqs = {} /\ \A k \in DOMAIN flight : flight[k].done
  BY DEF Idle, FedReqs, ReqsOf
<1> QED  BY <1>1, <1>2, <1>5, <1>6, <1>7, <1>8, <1>9 DEF Ready

(* What the scheduler expects is what is awaited.                          *)
LEMMA ExpectedIsAwaited ==
  ASSUME flight \in Flights, Len(flight) < 2, NEW r
  PROVE  Expected(r) = AwaitedIn(flight, r)
<1> DEFINE f == [k \in DOMAIN flight |-> Awaited(flight[k], r)]
<1>1. /\ Len(flight) \in 0 .. 1 /\ DOMAIN flight = 1 .. Len(flight)
      /\ \A k \in DOMAIN flight : Awaited(flight[k], r) \in Nat
  BY FlightLength, StepNumbers
<1>2. DOMAIN f = 1 .. Len(flight) /\ \A k \in 1 .. Len(flight) : f[k] = Awaited(flight[k], r)
  BY <1>1
<1>3. Expected(r) = FoldFunction(+, 0, f)
  BY DEF Expected
<1> HIDE DEF f
<1>4. IntOn(f, 1 .. Len(flight))
  <2>1. IsFiniteSet(1 .. Len(flight))
    BY <1>1, FS_Interval
  <2>2. \A k \in 1 .. Len(flight) : f[k] \in Int
    BY <1>1, <1>2
  <2> QED  BY <2>1, <2>2 DEF IntOn
<1>5. Expected(r) = SumOver(f, 1 .. Len(flight))
  BY <1>2, <1>3, <1>4, TotalIsSum
<1>6. CASE Len(flight) = 0
  <2>1. 1 .. Len(flight) = {}
    BY <1>6
  <2> QED  BY <1>5, <1>6, <2>1, EmptySum, FlightNumbers
<1>7. CASE Len(flight) = 1
  <2>1. 1 .. Len(flight) = 1 .. 0 + 1 /\ 1 .. 0 = {}
    BY <1>7
  <2>2. SumOver(f, 1 .. 0 + 1) = SumOver(f, 1 .. 0) + f[0 + 1]
    BY <1>4, <2>1, SumLast
  <2>3. f[1] = Awaited(flight[1], r) /\ f[1] \in Nat
    BY <1>1, <1>2, <1>7
  <2>4. Expected(r) = 0 + f[1]
    <3>1. SumOver(f, 1 .. 0) = 0
      BY <2>1, EmptySum
    <3>2. Expected(r) = SumOver(f, 1 .. 0 + 1)
      BY <1>5, <2>1
    <3> QED  BY <2>2, <3>1, <3>2
  <2> QED  BY <1>7, <2>3, <2>4, FlightNumbers
<1> QED  BY <1>1, <1>6, <1>7

LEMMA NoFunction ==
  ASSUME NEW S, NEW T, NEW f \in [S -> T]
  PROVE  f = <<>> <=> S = {}
<1>1. ASSUME f = <<>> PROVE S = {}
  <2>1. DOMAIN f = S /\ DOMAIN f = 1 .. 0
    BY <1>1
  <2> QED  BY <2>1
<1>2. ASSUME S = {} PROVE f = <<>>
  <2>1. f = [x \in {} |-> f[x]]
    BY <1>2
  <2>2. <<>> = [x \in {} |-> <<>>[x]]
    OBVIOUS
  <2>3. [x \in {} |-> f[x]] = [x \in {} |-> <<>>[x]]
    OBVIOUS
  <2> QED  BY <2>1, <2>2, <2>3, Zenon
<1> QED  BY <1>1, <1>2

(* The orders that a set of requests can have in the batch.                *)
LEMMA Orders ==
  ASSUME NEW S \in SUBSET ReqIds, NEW s \in SetToSeqs(S)
  PROVE  /\ s \in Seq(ReqIds) /\ DOMAIN s \subseteq BatchRows
         /\ \A i, j \in DOMAIN s : s[i] = s[j] => i = j
         /\ ToSet(s) = S /\ ToSet(s) = {s[i] : i \in DOMAIN s}
         /\ S = {} <=> DOMAIN s = {}
<1> DEFINE n == Cardinality(S)
<1>1. /\ IsFiniteSet(S) /\ n \in Nat /\ n <= Cardinality(ReqIds) /\ Cardinality(ReqIds) \in Nat
  BY FS_Subset, FS_CardinalityType, RunnerAssumption
<1>2. /\ s \in [1 .. n -> S] /\ \A i, j \in 1 .. n : i # j => s[i] # s[j]
  BY DEF SetToSeqs
<1>3. IsFiniteSet(1 .. n) /\ Cardinality(1 .. n) = n
  BY <1>1, FS_Interval
<1>4. s \in Injection(1 .. n, S)
  BY <1>2 DEF Injection, IsInjective
<1>5. s \in Surjection(1 .. n, S)
  BY <1>1, <1>3, <1>4, FS_Injection
<1>6. \A r \in S : \E i \in 1 .. n : s[i] = r
  BY <1>5 DEF Surjection
<1> HIDE DEF n
<1>7. DOMAIN s = 1 .. n /\ 1 .. n \subseteq BatchRows
  BY <1>1, <1>2 DEF BatchRows, n
<1>8. s \in Seq(ReqIds)
  BY <1>1, <1>2
<1>9. ToSet(s) = S /\ ToSet(s) = {s[i] : i \in DOMAIN s}
  BY <1>2, <1>6, <1>7 DEF ToSet
<1>10. S = {} <=> DOMAIN s = {}
  BY <1>9
<1> QED  BY <1>2, <1>7, <1>8, <1>9, <1>10

-----------------------------------------------------------------------------
(* A row of a plan, for a request whose row stays in the batch and for one *)
(* that gets a fresh row.                                                  *)
PlanRow(r, w) ==
  /\ w.start \in Nat /\ w.n \in Nat \ {0} /\ w.spec \in 0 .. NumSpec /\ w.outputs \in Nat
  /\ w.samples \in BOOLEAN /\ status[r] \in {"waiting", "running", "preempted"}
  /\ Optimistic(r) \in Nat /\ Optimistic(r) = Prompt + w.outputs
  /\ w.samples <=> ~(w.start + w.n < Optimistic(r))
  /\ w.samples => w.start + w.n = Optimistic(r) + w.spec
  /\ w.samples => w.start + w.n + 1 <= MaxModelLen
  /\ w.spec > 0 => w.samples
  /\ w.kind \in {"new", "resumed", "running"}
  /\ w.kind = "new" <=> status[r] = "waiting"
  /\ w.kind = "running" <=> status[r] = "running"
StaysRow(r, w) ==
  /\ r \in ToSet(batch) /\ w.kind = "running" /\ w.start = computed[r]
  /\ w.spec > 0 => r \in DOMAIN prev_row
  /\ r \in DOMAIN prev_row \/ AwaitedIn(flight, r) > 0 => w.n = w.spec + 1 /\ w.samples
AloneRow(r, w) ==
  /\ AwaitedIn(flight, r) = 0 /\ GotIn(flight, r) = 0 /\ LackIn(flight, r) = 0
  /\ r \notin FedReqs /\ w.spec = 0
  /\ known[r] = Optimistic(r) /\ length[r] = known[r]
  /\ w.start + w.n <= length[r] /\ length[r] < MaxModelLen
  /\ w.kind = "running" => kv[r] = w.start
  /\ w.kind = "new" => w.outputs = 0

LEMMA RowFields ==
  ASSUME NEW r, NEW kind, NEW start, NEW n, NEW spec
  PROVE  LET w == Row(r, kind, start, n, spec) IN
         /\ w.kind = kind /\ w.start = start /\ w.n = n /\ w.spec = spec
         /\ w.outputs = known[r] + (Expected(r) - Prompt)
         /\ w.samples \in BOOLEAN /\ (w.samples <=> start + n >= known[r] + Expected(r))
<1> DEFINE e == known[r] + Expected(r)
           enough == start + n >= e
           w == Row(r, kind, start, n, spec)
<1>1. w = [kind |-> kind, start |-> start, n |-> n, spec |-> spec,
           outputs |-> known[r] + (Expected(r) - Prompt), samples |-> enough]
  BY DEF Row
<1>2. enough \in BOOLEAN
  OBVIOUS
<1> HIDE DEF w, enough, e
<1>3. /\ w.kind = kind /\ w.start = start /\ w.n = n /\ w.spec = spec
      /\ w.outputs = known[r] + (Expected(r) - Prompt)
  BY <1>1
<1>4. w.samples = enough
  BY <1>1
<1>5. w.samples \in BOOLEAN /\ (w.samples <=> enough)
  BY <1>2, <1>4, Zenon
<1> QED  BY <1>3, <1>5 DEF w, enough, e

LEMMA NothingAwaited ==
  ASSUME Ready, NEW r, r \notin ToSet(batch) \/ Len(flight) = 0
  PROVE  /\ AwaitedIn(flight, r) = 0 /\ GotIn(flight, r) = 0 /\ LackIn(flight, r) = 0
         /\ r \notin FedReqs
<1>1. flight \in Flights /\ Len(flight) \in 0 .. 1
  BY DEF Ready, Types, SchedulerTypes
<1>2. CASE Len(flight) = 0
  BY <1>1, <1>2, FlightNumbers DEF Ready
<1>3. CASE Len(flight) = 1
  <2>1. r \notin DOMAIN flight[1].rows /\ Settled(flight[1])
    BY <1>3 DEF Ready
  <2>2. Awaited(flight[1], r) = 0 /\ GotBy(flight[1], r) = 0 /\ LackOf(flight[1], r) = 0
    BY <2>1, StepNumbers
  <2>3. r \notin FedReqs
    BY <1>3 DEF Ready
  <2> QED  BY <1>1, <1>3, <2>2, <2>3, FlightNumbers
<1> QED  BY <1>1, <1>2, <1>3

LEMMA PlannedRow ==
  ASSUME IInv, Ready, NEW r \in ReqIds, NEW w \in Rows(r)
  PROVE  /\ PlanRow(r, w)
         /\ r \in ToSet(batch) /\ w.kind = "running" => StaysRow(r, w)
         /\ ~(r \in ToSet(batch) /\ w.kind = "running") => AloneRow(r, w)
<1> DEFINE o == Optimistic(r)
           a == AwaitedIn(flight, r)
<1>1. /\ Types /\ flight \in Flights /\ Len(flight) < 2 /\ pc = "execute_model"
      /\ prev_step = ToSet(batch) /\ InputReqs = {}
  <2>1. Types /\ Len(flight) < 2 /\ pc = "execute_model" /\ InputReqs = {}
    BY DEF Ready
  <2>2. flight \in Flights
    BY <2>1 DEF Types, SchedulerTypes
  <2>3. prev_step = ToSet(batch)
    BY DEF IInv, BatchIsLast
  <2> QED  BY <2>1, <2>2, <2>3
<1>2. /\ known[r] \in Nat /\ computed[r] \in Nat /\ length[r] \in Nat /\ kv[r] \in Nat
      /\ a \in Nat /\ GotIn(flight, r) \in Nat /\ LackIn(flight, r) \in Nat
      /\ o = known[r] + a /\ o \in Nat
  BY <1>1, FlightNumbers DEF Types, SchedulerTypes, Optimistic
<1>3. Expected(r) = a
  BY <1>1, ExpectedIsAwaited
<1> DEFINE left == known[r] + Expected(r) - computed[r]
<1>4. status[r] \in {"waiting", "running", "preempted"}
  BY DEF Rows
<1>5. /\ length[r] = known[r] + GotIn(flight, r) /\ known[r] < MaxModelLen
      /\ Prompt <= known[r] /\ o <= MaxModelLen
      /\ status[r] = "waiting" => known[r] = Prompt
  BY <1>4 DEF IInv, KnownTokens, Live
<1>6. CASE status[r] = "running"
  <2>1. w \in RunningRows(r)
    BY <1>6 DEF Rows
  <2>2. /\ computed[r] = RunEnd(r) + LackIn(flight, r)
        /\ computed[r] + 1 <= o /\ (a > 0 => computed[r] + 1 = o)
        /\ r \in DOMAIN prev_row => computed[r] + 1 = o
    <3>1. End(r) = RunEnd(r) + 0 /\ RunEnd(r) \in Nat
      BY <1>1, EndIsNat DEF IInv, End
    <3>2. End(r) = RunEnd(r)
      BY <3>1
    <3> QED  BY <1>1, <1>6, <3>2 DEF IInv, ComputedTokens
  <2>3. left = o - computed[r] /\ left \in Nat /\ left >= 1
    BY <1>2, <1>3, <2>2
  <2>4. /\ w.kind = "running" /\ w.start = computed[r] /\ w.start + w.n < MaxModelLen
        /\ w.outputs = o - Prompt /\ w.samples \in BOOLEAN
        /\ w.samples <=> w.start + w.n >= o
        /\ \/ w.n \in 1 .. left /\ w.spec = 0
           \/ w.spec \in Drafts(r) /\ w.n = left + w.spec
    <3>1. known[r] + Expected(r) = o /\ known[r] + (Expected(r) - Prompt) = o - Prompt
      BY <1>2, <1>3, Numbers
    <3>2. w.start + w.n < MaxModelLen
      BY <2>1 DEF RunningRows
    <3>3. \/ \E n \in 1 .. left : w = Row(r, "running", computed[r], n, 0)
          \/ \E s \in Drafts(r) : w = Row(r, "running", computed[r], left + s, s)
      BY <2>1 DEF RunningRows
    <3>4. CASE \E n \in 1 .. left : w = Row(r, "running", computed[r], n, 0)
      <4>1. PICK n \in 1 .. left : w = Row(r, "running", computed[r], n, 0)
        BY <3>4
      <4> HIDE DEF o, a, left
      <4>2. /\ w.kind = "running" /\ w.start = computed[r] /\ w.n = n /\ w.spec = 0
            /\ w.outputs = o - Prompt /\ w.samples \in BOOLEAN
            /\ w.samples <=> computed[r] + n >= o
        BY <3>1, <4>1, RowFields
      <4> QED  BY <3>2, <4>2
    <3>5. CASE \E s \in Drafts(r) : w = Row(r, "running", computed[r], left + s, s)
      <4>1. PICK s \in Drafts(r) : w = Row(r, "running", computed[r], left + s, s)
        BY <3>5
      <4> HIDE DEF o, a, left
      <4>2. /\ w.kind = "running" /\ w.start = computed[r] /\ w.n = left + s /\ w.spec = s
            /\ w.outputs = o - Prompt /\ w.samples \in BOOLEAN
            /\ w.samples <=> computed[r] + (left + s) >= o
        BY <3>1, <4>1, RowFields
      <4> QED  BY <3>2, <4>2
    <3> QED  BY <3>3, <3>4, <3>5
  <2>5. w.spec \in 0 .. NumSpec /\ (w.spec > 0 => r \in ToSet(batch) /\ r \in DOMAIN prev_row)
    BY <1>1, <2>4, Numbers DEF Drafts
  <2> HIDE DEF left, o, a
  <2>6. w.n \in Nat \ {0} /\ w.spec \in Nat
    BY <2>3, <2>4, <2>5, Numbers
  <2>7. /\ w.samples <=> ~(w.start + w.n < o)
        /\ w.samples => w.start + w.n = o + w.spec
        /\ w.samples => w.start + w.n + 1 <= MaxModelLen
        /\ w.spec > 0 => w.samples
    BY <1>2, <2>3, <2>4, <2>5, <2>6, Numbers
  <2>8. r \in DOMAIN prev_row \/ a > 0 => w.n = w.spec + 1 /\ w.samples
    BY <1>2, <2>2, <2>3, <2>4, <2>5, <2>6, <2>7
  <2>9. w.outputs \in Nat /\ o = Prompt + w.outputs
    BY <1>2, <1>5, <2>4, Numbers
  <2>10. w.samples \in BOOLEAN
    BY <2>4
  <2>11. PlanRow(r, w)
    BY <1>2, <1>6, <2>4, <2>5, <2>6, <2>7, <2>9, <2>10 DEF PlanRow, o
  <2>12. r \in ToSet(batch) => StaysRow(r, w)
    BY <2>4, <2>5, <2>8 DEF StaysRow, a
  <2>13. r \notin ToSet(batch) => AloneRow(r, w)
    <3> HAVE r \notin ToSet(batch)
    <3>1. AwaitedIn(flight, r) = 0 /\ GotIn(flight, r) = 0 /\ LackIn(flight, r) = 0
          /\ r \notin FedReqs
      BY NothingAwaited
    <3>2. RunEnd(r) = kv[r]
      BY <3>1 DEF RunEnd
    <3>3. w.spec = 0
      BY <2>5, <2>6
    <3>4. w.start = kv[r]
      BY <1>2, <2>2, <2>4, <3>1, <3>2
    <3>5. known[r] = o /\ length[r] = known[r] /\ w.start + w.n <= length[r]
      BY <1>2, <1>5, <2>3, <2>4, <2>7, <3>1, <3>3 DEF a
    <3> QED  BY <1>5, <2>4, <3>1, <3>3, <3>4, <3>5 DEF AloneRow, o
  <2> QED  BY <2>4, <2>11, <2>12, <2>13
<1>7. CASE status[r] # "running"
  <2>1. PICK kind \in {"new", "resumed"} :
          /\ w \in AdmittedRows(r, kind)
          /\ kind = "new" <=> status[r] = "waiting"
          /\ kind = "resumed" => r \notin prev_step
    BY <1>4, <1>7 DEF Rows
  <2>2. PICK hit \in PrefixHits, n \in 1 .. known[r] :
          w = Row(r, kind, hit, n, 0) /\ w.start + w.n <= known[r]
    BY <2>1 DEF AdmittedRows
  <2>3. r \notin ToSet(batch) \/ Len(flight) = 0
    <3>1. CASE kind = "resumed"
      BY <1>1, <2>1, <3>1
    <3>2. CASE kind = "new"
      <4>1. Len(flight) = 1 => r \notin DOMAIN flight[1].rows
        BY <2>1, <3>2 DEF IInv, BatchIsLast, Ready
      <4> QED  BY <4>1 DEF Ready
    <3> QED  BY <3>1, <3>2
  <2>4. a = 0 /\ GotIn(flight, r) = 0 /\ LackIn(flight, r) = 0 /\ r \notin FedReqs
    BY <2>3, NothingAwaited
  <2>5. o = known[r] /\ length[r] = known[r]
    BY <1>2, <1>5, <2>4
  <2>6. /\ w.kind = kind /\ w.start = hit /\ w.n = n /\ w.spec = 0
        /\ w.outputs = o - Prompt /\ w.samples \in BOOLEAN
        /\ w.samples <=> w.start + w.n >= o
    <3>1. known[r] + Expected(r) = o /\ known[r] + (Expected(r) - Prompt) = o - Prompt
      BY <1>2, <1>3, Numbers
    <3> HIDE DEF o, a, left
    <3> QED  BY <2>2, <3>1, RowFields
  <2>7. hit \in Nat /\ n \in Nat \ {0} /\ 0 \in 0 .. NumSpec
    BY <1>2, Numbers
  <2> HIDE DEF o, a, left
  <2>8. w.samples \in BOOLEAN /\ (w.samples <=> ~(w.start + w.n < o))
    BY <1>2, <2>6, <2>7
  <2>9. /\ w.samples => w.start + w.n = o + w.spec
        /\ w.samples => w.start + w.n + 1 <= MaxModelLen
        /\ ~(w.spec > 0)
    <3>1. w.start + w.n <= o /\ w.start \in Nat /\ w.n \in Nat
      BY <2>2, <2>5, <2>6, <2>7
    <3>2. w.samples => w.start + w.n = o
      BY <1>2, <2>8, <3>1
    <3>3. o + 1 <= MaxModelLen
      BY <1>2, <1>5, <2>5, Numbers
    <3> QED  BY <1>2, <2>6, <3>1, <3>2, <3>3
  <2>10. /\ w.outputs \in Nat /\ o = Prompt + w.outputs
         /\ w.kind = "new" => w.outputs = 0
    BY <1>2, <1>5, <2>1, <2>5, <2>6, Numbers
  <2>11. PlanRow(r, w)
    BY <1>2, <1>4, <1>7, <2>1, <2>6, <2>7, <2>8, <2>9, <2>10 DEF PlanRow, o
  <2>12. AloneRow(r, w)
    BY <1>5, <2>2, <2>4, <2>5, <2>6, <2>10 DEF AloneRow, o, a
  <2> QED  BY <2>1, <2>6, <2>11, <2>12
<1> QED  BY <1>6, <1>7

LEMMA PlanTypes ==
  ASSUME NEW plan \in Plans
  PROVE  /\ DOMAIN plan \subseteq ReqIds /\ \A r \in DOMAIN plan : plan[r] \in Rows(r)
         /\ plan = <<>> <=> DOMAIN plan = {}
         /\ plan = [r \in DOMAIN plan |-> plan[r]]
<1> DEFINE rows == UNION {{r} \X Rows(r) : r \in ReqIds}
           of(S) == {p \in [S -> {x[2] : x \in {y \in rows : y[1] \in S}}] :
                       \A r \in S : <<r, p[r]>> \in rows}
<1>1. \A r, w : <<r, w>> \in rows => r \in ReqIds /\ w \in Rows(r)
  OBVIOUS
<1>2. Plans = UNION {of(S) : S \in SUBSET ReqIds}
  BY DEF Plans
<1> HIDE DEF rows
<1>3. PICK S \in SUBSET ReqIds : plan \in of(S)
  BY <1>2
<1>4. plan \in [S -> {x[2] : x \in {y \in rows : y[1] \in S}}] /\ DOMAIN plan = S
  BY <1>3
<1>5. \A r \in S : <<r, plan[r]>> \in rows
  BY <1>3
<1>6. plan = <<>> <=> DOMAIN plan = {}
  BY <1>4, NoFunction
<1> QED  BY <1>1, <1>4, <1>5, <1>6

-----------------------------------------------------------------------------
(* What update_states makes of a row of the plan.                          *)
UpdatedRow(plan, r) ==
  LET w == plan[r] IN
  /\ requests'[r] \in [computed : Int, outputs : Nat, real : Nat, drafts : 0 .. NumSpec]
  /\ requests'[r].computed = w.start /\ requests'[r].outputs = w.outputs
  /\ requests'[r].drafts = w.spec
  /\ row'[r] \in [computed : Int, tokens : Nat, real : Nat]
  /\ row'[r].computed = w.start /\ row'[r].tokens <= Prompt + w.outputs
  /\ row'[r].real = IF r \in Stays(plan) THEN row[r].real ELSE Prompt + w.outputs

LEMMA LeastOfTwo ==
  ASSUME NEW a \in Nat, NEW b \in Nat
  PROVE  Least(a, b) \in Nat /\ Least(a, b) <= b /\ (b <= a => Least(a, b) = b)
BY DEF Least

LEMMA RowKept ==
  ASSUME IInv, Ready, NEW plan \in Plans, UpdateStates(plan), NEW r \in Stays(plan)
  PROVE  UpdatedRow(plan, r)
<1> DEFINE w == plan[r]
           q == requests[r]
           g == Grown(plan, r)
<1>1. /\ r \in DOMAIN plan /\ r \in ToSet(batch) /\ w.kind = "running" /\ r \in ReqIds
      /\ w \in Rows(r)
  BY PlanTypes DEF Stays
<1>2. PlanRow(r, w)
  BY <1>1, PlannedRow
<1>3. /\ w.start \in Nat /\ w.outputs \in Nat /\ w.spec \in 0 .. NumSpec /\ w.spec \in Nat
      /\ Optimistic(r) = Prompt + w.outputs /\ status[r] = "running"
  BY <1>1, <1>2, Numbers DEF PlanRow
<1>4. CpuTypes /\ pc = "execute_model" /\ ToSet(batch) \subseteq DOMAIN requests
  BY DEF IInv, Types, Ready, BatchIsLast
<1>5. /\ q \in [computed : Int, outputs : Nat, real : Nat, drafts : 0 .. NumSpec]
      /\ row[r] \in [computed : Int, tokens : Nat, real : Nat]
  BY <1>1, <1>4 DEF CpuTypes
<1>6. q.outputs \in Nat /\ q.drafts \in Nat /\ q.real \in Nat /\ row[r].tokens \in Nat
  BY <1>5, Numbers
<1>7. /\ Prompt + q.outputs + q.drafts >= Optimistic(r)
      /\ row[r].tokens <= Prompt + q.outputs
  BY <1>1, <1>3, <1>4 DEF IInv, OutputsAhead
<1>8. g = q.outputs + q.drafts
  BY DEF Grown
<1> HIDE DEF g, q
<1>9. w.outputs <= g /\ g \in Nat /\ q.outputs <= g
  BY <1>3, <1>6, <1>7, <1>8, Numbers
<1>10. requests'[r] = [computed |-> w.start, outputs |-> Least(g, w.outputs),
                       real |-> Least(q.real, w.outputs), drafts |-> w.spec]
  <2>1. requests'[r] = CachedState(plan, r)
    BY <1>1 DEF UpdateStates
  <2>2. w.kind # "new"
    BY <1>1
  <2> QED  BY <2>1, <2>2 DEF CachedState, g, q
<1>11. requests'[r] = [computed |-> w.start, outputs |-> w.outputs,
                       real |-> Least(q.real, w.outputs), drafts |-> w.spec]
  <2>1. Least(g, w.outputs) = w.outputs
    BY <1>3, <1>9, LeastOfTwo
  <2> QED  BY <1>10, <2>1
<1>12. Least(q.real, w.outputs) \in Nat
  BY <1>3, <1>6, LeastOfTwo
<1>13. row'[r] = [computed |-> w.start,
                  tokens |-> IF w.outputs < g THEN Prompt + w.outputs ELSE row[r].tokens,
                  real |-> row[r].real]
  <2>1. row'[r] = BatchRow(plan, r)
    BY <1>1 DEF UpdateStates
  <2> QED  BY <2>1 DEF BatchRow, g
<1> DEFINE tokens == IF w.outputs < g THEN Prompt + w.outputs ELSE row[r].tokens
<1>14. tokens \in Nat /\ tokens <= Prompt + w.outputs
  BY <1>3, <1>6, <1>7, <1>9, Numbers
<1> HIDE DEF tokens
<1>15. row'[r] = [computed |-> w.start, tokens |-> tokens, real |-> row[r].real]
  BY <1>13 DEF tokens
<1> HIDE DEF w
<1>16. /\ requests'[r] \in [computed : Int, outputs : Nat, real : Nat, drafts : 0 .. NumSpec]
       /\ requests'[r].computed = w.start /\ requests'[r].outputs = w.outputs
       /\ requests'[r].drafts = w.spec
  BY <1>3, <1>11, <1>12
<1>17. /\ row'[r] \in [computed : Int, tokens : Nat, real : Nat]
       /\ row'[r].computed = w.start /\ row'[r].tokens <= Prompt + w.outputs
       /\ row'[r].real = row[r].real
  BY <1>3, <1>5, <1>14, <1>15
<1> QED  BY <1>16, <1>17 DEF UpdatedRow, w

LEMMA RowMade ==
  ASSUME IInv, Ready, NEW plan \in Plans, UpdateStates(plan),
         NEW r \in DOMAIN plan, r \notin Stays(plan)
  PROVE  UpdatedRow(plan, r)
<1> DEFINE w == plan[r]
           q == requests[r]
           g == Grown(plan, r)
<1>1. r \in ReqIds /\ w \in Rows(r) /\ ~(r \in ToSet(batch) /\ w.kind = "running")
  BY PlanTypes DEF Stays
<1>2. PlanRow(r, w) /\ AloneRow(r, w)
  BY <1>1, PlannedRow
<1>3. /\ w.start \in Nat /\ w.outputs \in Nat /\ w.spec \in 0 .. NumSpec
      /\ w.kind \in {"new", "resumed", "running"}
      /\ w.kind # "new" => status[r] \in {"running", "preempted"}
      /\ w.kind = "new" => w.outputs = 0
      /\ AwaitedIn(flight, r) = 0
  BY <1>2 DEF PlanRow, AloneRow
<1>4. Expected(r) = 0
  <2>1. Types /\ Len(flight) < 2
    BY DEF Ready
  <2>2. flight \in Flights
    BY <2>1 DEF Types, SchedulerTypes
  <2>3. Expected(r) = AwaitedIn(flight, r)
    BY <2>1, <2>2, ExpectedIsAwaited
  <2> QED  BY <1>3, <2>3
<1>5. requests'[r] = CachedState(plan, r) /\ row'[r] = BatchRow(plan, r)
  BY DEF UpdateStates
<1>6. requests'[r] = [computed |-> w.start, outputs |-> w.outputs, real |-> w.outputs,
                      drafts |-> w.spec]
  <2>1. CASE w.kind = "new"
    BY <1>3, <1>5, <2>1 DEF CachedState
  <2>2. CASE w.kind # "new" /\ w.outputs > 0
    BY <1>4, <1>5, <2>2 DEF CachedState
  <2>3. CASE w.kind # "new" /\ w.outputs = 0
    <3>1. r \in DOMAIN requests
      BY <1>1, <1>3, <2>3 DEF IInv, KnownTokens, Held
    <3>2. q \in [computed : Int, outputs : Nat, real : Nat, drafts : 0 .. NumSpec]
      BY <3>1 DEF IInv, Types, CpuTypes
    <3>3. q.outputs \in Nat /\ q.real \in Nat
      BY <3>2
    <3>4. g \in Nat
      BY <3>3 DEF Grown
    <3> HIDE DEF q, g
    <3>5. Least(g, w.outputs) = 0 /\ Least(q.real, w.outputs) = 0
      <4>1. \A n \in Nat : 0 <= n /\ 0 \in Nat
        OBVIOUS
      <4>2. Least(g, 0) = 0 /\ Least(q.real, 0) = 0
        BY <3>3, <3>4, <4>1, LeastOfTwo, Zenon
      <4> QED  BY <2>3, <4>2, Zenon
    <3>6. requests'[r] = [computed |-> w.start, outputs |-> Least(g, w.outputs),
                          real |-> Least(q.real, w.outputs), drafts |-> w.spec]
      BY <1>5, <2>3 DEF CachedState, g, q
    <3> QED  BY <2>3, <3>5, <3>6
  <2> QED  BY <1>3, <2>1, <2>2, <2>3
<1>7. row'[r] = [computed |-> w.start, tokens |-> Prompt + w.outputs,
                 real |-> Prompt + w.outputs]
  <2>1. row'[r] = [computed |-> w.start, tokens |-> Prompt + requests'[r].outputs,
                   real |-> Prompt + requests'[r].real]
    BY <1>5 DEF BatchRow
  <2>2. requests'[r].outputs = w.outputs /\ requests'[r].real = w.outputs
    BY <1>6
  <2> QED  BY <2>1, <2>2
<1> HIDE DEF w
<1>8. Prompt + w.outputs \in Nat
  BY <1>3, Numbers
<1>9. /\ requests'[r] \in [computed : Int, outputs : Nat, real : Nat, drafts : 0 .. NumSpec]
      /\ requests'[r].computed = w.start /\ requests'[r].outputs = w.outputs
      /\ requests'[r].drafts = w.spec
  BY <1>3, <1>6
<1>10. /\ row'[r] \in [computed : Int, tokens : Nat, real : Nat]
       /\ row'[r].computed = w.start /\ row'[r].tokens <= Prompt + w.outputs
       /\ row'[r].real = Prompt + w.outputs
  BY <1>3, <1>7, <1>8
<1> QED  BY <1>9, <1>10 DEF UpdatedRow, w

(* The batch and what remembers the rows of the last one.                  *)
Remembered(plan) ==
  /\ DOMAIN prev_row' \subseteq Stays(plan) \cap DOMAIN prev_row
  /\ \A r \in Stays(plan) \cap DOMAIN prev_row :
       /\ r \in DOMAIN prev_row' /\ prev_row'[r] = prev_row[r]
       /\ prev_row[r] \in DOMAIN batch /\ batch[prev_row[r]] = r
       /\ prev_row[r] \in BatchRows /\ prev_row[r] > 0
       /\ prev_num_draft'[prev_row[r]] = requests[r].drafts
  /\ DOMAIN deferred' \subseteq DOMAIN prev_row'
  /\ \A r \in DOMAIN prev_row' : r \in DOMAIN deferred' <=> requests[r].drafts > 0
  /\ \A r \in DOMAIN deferred' : deferred'[r] = requests[r].drafts /\ deferred'[r] \in 1 .. NumSpec
  /\ prev_num_draft' \in [BatchRows -> 0 .. NumSpec]

LEMMA RowsRemembered ==
  ASSUME IInv, Ready, NEW plan \in Plans, UpdateStates(plan)
  PROVE  Remembered(plan)
<1>1. /\ CpuTypes /\ PrevRows /\ pc = "execute_model" /\ ToSet(batch) \subseteq DOMAIN requests
      /\ DOMAIN batch \subseteq BatchRows
  BY DEF IInv, Types, Ready, BatchIsLast, CpuTypes
<1>2. \A r \in DOMAIN prev_row : /\ prev_row[r] \in DOMAIN batch /\ batch[prev_row[r]] = r
                                 /\ r \in ToSet(batch)
  BY <1>1, BatchFacts DEF PrevRows
<1>3. /\ prev_row' = [r \in RowsKnown(plan) |-> prev_row[r]]
      /\ deferred' = [r \in {q \in Stays(plan) : requests[q].drafts > 0} |-> requests[r].drafts]
  BY DEF UpdateStates
<1>4. RowsKnown(plan) = DOMAIN prev_row \cap Stays(plan)
  BY <1>2 DEF RowsKnown
<1>5. \A r \in Stays(plan) : /\ r \in ToSet(batch) /\ requests[r].drafts \in 0 .. NumSpec
                             /\ requests[r].drafts > 0 => r \in DOMAIN prev_row
  <2> TAKE r \in Stays(plan)
  <2>1. r \in ToSet(batch)
    BY DEF Stays
  <2>2. requests[r] \in [computed : Int, outputs : Nat, real : Nat, drafts : 0 .. NumSpec]
    BY <1>1, <2>1 DEF CpuTypes
  <2> QED  BY <1>1, <2>1, <2>2 DEF PrevRows
<1>6. /\ DOMAIN prev_row' = DOMAIN prev_row \cap Stays(plan)
      /\ \A r \in DOMAIN prev_row' : prev_row'[r] = prev_row[r]
      /\ DOMAIN deferred' = {q \in Stays(plan) : requests[q].drafts > 0}
      /\ \A r \in DOMAIN deferred' : deferred'[r] = requests[r].drafts
  BY <1>3, <1>4
<1>7. DOMAIN deferred' \subseteq DOMAIN prev_row'
  BY <1>5, <1>6
<1>8. \A r \in DOMAIN deferred' : deferred'[r] \in 1 .. NumSpec
  <2> TAKE r \in DOMAIN deferred'
  <2>1. deferred'[r] = requests[r].drafts /\ requests[r].drafts > 0
        /\ requests[r].drafts \in 0 .. NumSpec
    BY <1>5, <1>6
  <2> QED  BY <2>1, Numbers
<1> DEFINE was(i) == {r \in DOMAIN deferred' \cap DOMAIN prev_row' : prev_row'[r] = i}
           drafts(i) == IF was(i) = {} THEN 0 ELSE deferred'[CHOOSE r \in was(i) : TRUE]
<1>9. prev_num_draft' = [i \in BatchRows |-> drafts(i)]
  BY DEF UpdateStates
<1>10. \A i \in BatchRows : drafts(i) \in 0 .. NumSpec
  <2> TAKE i \in BatchRows
  <2>1. CASE was(i) = {}
    BY <2>1, Numbers
  <2>2. CASE was(i) # {}
    <3>1. (CHOOSE r \in was(i) : TRUE) \in was(i)
      BY <2>2
    <3> DEFINE c == CHOOSE r \in was(i) : TRUE
    <3>2. c \in DOMAIN deferred' /\ drafts(i) = deferred'[c]
      BY <2>2, <3>1
    <3> HIDE DEF c, drafts
    <3> QED  BY <1>8, <3>2, Numbers
  <2> QED  BY <2>1, <2>2
<1>11. \A r \in DOMAIN prev_row' : drafts(prev_row[r]) = requests[r].drafts
  <2> TAKE r \in DOMAIN prev_row'
  <2>1. \A q \in was(prev_row[r]) : q = r
    BY <1>2, <1>6
  <2>2. requests[r].drafts \in 0 .. NumSpec
    BY <1>5, <1>6
  <2>3. CASE requests[r].drafts > 0
    <3>1. r \in was(prev_row[r])
      BY <1>6, <2>3
    <3>2. (CHOOSE q \in was(prev_row[r]) : TRUE) = r
      BY <2>1, <3>1
    <3> QED  BY <1>6, <2>3, <3>1, <3>2
  <2>4. CASE ~(requests[r].drafts > 0)
    <3>1. r \notin DOMAIN deferred'
      BY <1>6, <2>4
    <3>2. was(prev_row[r]) = {}
      BY <2>1, <3>1
    <3> QED  BY <2>2, <2>4, <3>2, Numbers
  <2> QED  BY <2>3, <2>4
<1> HIDE DEF drafts
<1>12. \A r \in Stays(plan) \cap DOMAIN prev_row :
         /\ r \in DOMAIN prev_row' /\ prev_row'[r] = prev_row[r]
         /\ prev_row[r] \in DOMAIN batch /\ batch[prev_row[r]] = r
         /\ prev_row[r] \in BatchRows /\ prev_row[r] > 0
         /\ prev_num_draft'[prev_row[r]] = requests[r].drafts
  <2> TAKE r \in Stays(plan) \cap DOMAIN prev_row
  <2>1. r \in DOMAIN prev_row' /\ prev_row'[r] = prev_row[r]
    BY <1>6
  <2>2. prev_row[r] \in DOMAIN batch /\ batch[prev_row[r]] = r /\ prev_row[r] \in BatchRows
    BY <1>1, <1>2
  <2>3. prev_row[r] > 0
    BY <2>2 DEF BatchRows
  <2>4. prev_num_draft'[prev_row[r]] = requests[r].drafts
    BY <1>9, <1>11, <2>1, <2>2
  <2> QED  BY <2>1, <2>2, <2>3, <2>4
<1>13. \A r \in DOMAIN prev_row' : r \in DOMAIN deferred' <=> requests[r].drafts > 0
  BY <1>6
<1>14. prev_num_draft' \in [BatchRows -> 0 .. NumSpec]
  BY <1>9, <1>10
<1> QED  BY <1>6, <1>7, <1>8, <1>12, <1>13, <1>14 DEF Remembered

-----------------------------------------------------------------------------
(* A request that runs and has a row in the batch: what is known of its    *)
(* counts before a plan, when the GPU has done its row and when it runs it.*)
Standing(r) ==
  /\ r \in ReqIds /\ length[r] \in Nat /\ known[r] \in Nat /\ kv[r] \in Nat
  /\ computed[r] \in Nat /\ requests[r].drafts \in Nat /\ Optimistic(r) \in Nat
  /\ AwaitedIn(flight, r) \in Nat /\ GotIn(flight, r) \in Nat /\ LackIn(flight, r) \in Nat
  /\ RunEnd(r) \in Nat
  /\ Optimistic(r) = known[r] + AwaitedIn(flight, r)
  /\ length[r] = known[r] + GotIn(flight, r)
  /\ computed[r] = RunEnd(r) + LackIn(flight, r)
  /\ known[r] < MaxModelLen
  /\ r \in DOMAIN prev_row => computed[r] + 1 = Optimistic(r)
  /\ requests[r].drafts > 0 => r \in DOMAIN prev_row
  /\ r \notin DOMAIN prev_row => row[r].real = known[r] /\ AwaitedIn(flight, r) = 0
StandingStep(r) ==
  /\ AwaitedIn(flight, r) = Awaited(flight[1], r) /\ GotIn(flight, r) = GotBy(flight[1], r)
  /\ LackIn(flight, r) = LackOf(flight[1], r)
  /\ r \in DOMAIN flight[1].rows /\ flight[1].rows[r].spec = requests[r].drafts
  /\ flight[1].rows[r].samples \in BOOLEAN
  /\ r \in DOMAIN prev_row <=> flight[1].rows[r].samples
  /\ Awaited(flight[1], r) = IF r \in DOMAIN prev_row THEN 1 + requests[r].drafts ELSE 0
IdleRow(r) ==
  /\ r \notin FedReqs /\ RunEnd(r) = kv[r] /\ length[r] <= Optimistic(r)
  /\ r \notin DOMAIN prev_row => LackIn(flight, r) = 0 /\ length[r] = known[r]
  /\ requests[r].drafts = 0 => LackIn(flight, r) = 0
  /\ r \in DOMAIN prev_row /\ Len(flight) = 1 =>
       /\ sampled[prev_row[r]].count \in Nat
       /\ computed[r] = kv[r] + (requests[r].drafts - (sampled[prev_row[r]].count - 1))
RunsRow(r) ==
  /\ r \in FedReqs /\ LackIn(flight, r) = 0 /\ length[r] = known[r]
  /\ FedAt(r) \in DOMAIN fed /\ RunEnd(r) = FedEnd(FedAt(r))
  /\ fed[FedAt(r)].req = r /\ fed[FedAt(r)].spec = requests[r].drafts
  /\ r \in DOMAIN prev_row => /\ r \notin FedDiscard /\ prev_row[r] = FedAt(r)
                              /\ Optimistic(r) = length[r] + requests[r].drafts + 1
  /\ r \notin DOMAIN prev_row => r \in FedDiscard

LEMMA Stands ==
  ASSUME IInv, Ready, NEW r \in ToSet(batch), status[r] = "running"
  PROVE  Standing(r) /\ (Len(flight) = 1 => StandingStep(r))
<1>1. Types /\ pc = "execute_model" /\ InputReqs = {} /\ Len(flight) \in 0 .. 1
  BY DEF Ready
<1>2. SchedulerTypes /\ CpuTypes /\ BatchOnGpu /\ PrevRows /\ BatchIsLast
  BY <1>1 DEF IInv, Types
<1>3. r \in ReqIds /\ r \in DOMAIN requests
  BY <1>2, BatchFacts DEF BatchIsLast
<1>4. flight \in Flights /\ computed[r] \in Nat /\ length[r] \in Nat /\ kv[r] \in Nat
      /\ known[r] \in Nat
  BY <1>2, <1>3 DEF SchedulerTypes
<1>5. requests[r] \in [computed : Int, outputs : Nat, real : Nat, drafts : 0 .. NumSpec]
  BY <1>2, <1>3 DEF CpuTypes
<1>6. requests[r].drafts \in Nat
  BY <1>5, Numbers
<1>7. AwaitedIn(flight, r) \in Nat /\ GotIn(flight, r) \in Nat /\ LackIn(flight, r) \in Nat
  BY <1>4, FlightNumbers
<1>8. Optimistic(r) = known[r] + AwaitedIn(flight, r) /\ Optimistic(r) \in Nat
  BY <1>4, <1>7 DEF Optimistic
<1>9. RunEnd(r) \in Nat /\ End(r) = RunEnd(r)
  <2>1. RunEnd(r) \in Nat
    BY <1>1, <1>2, <1>3, EndIsNat
  <2>2. End(r) = RunEnd(r) + 0
    BY <1>1 DEF End
  <2> QED  BY <2>1, <2>2
<1>10. length[r] = known[r] + GotIn(flight, r) /\ known[r] < MaxModelLen
  BY <1>3 DEF IInv, KnownTokens, Live
<1>11. /\ computed[r] = RunEnd(r) + LackIn(flight, r)
       /\ r \in DOMAIN prev_row => computed[r] + 1 = Optimistic(r)
  BY <1>1, <1>3, <1>9 DEF IInv, ComputedTokens
<1>12. requests[r].drafts > 0 => r \in DOMAIN prev_row
  BY <1>1, <1>2 DEF PrevRows
<1>13. r \notin DOMAIN prev_row => row[r].real = known[r] /\ AwaitedIn(flight, r) = 0
  BY <1>1 DEF IInv, OutputsAhead
<1>14. Standing(r)
  BY <1>3, <1>4, <1>6, <1>7, <1>8, <1>9, <1>10, <1>11, <1>12, <1>13 DEF Standing
<1>15. ASSUME Len(flight) = 1 PROVE StandingStep(r)
  <2>1. /\ LastStep = flight[1] /\ Settled(flight[1]) /\ DOMAIN flight[1].rows = ToSet(batch)
    BY <1>15 DEF Ready
  <2>2. /\ AwaitedIn(flight, r) = Awaited(flight[1], r) /\ GotIn(flight, r) = GotBy(flight[1], r)
        /\ LackIn(flight, r) = LackOf(flight[1], r)
    BY <1>4, <1>15, FlightNumbers
  <2>3. flight[1].rows[r].spec = requests[r].drafts
    BY <1>2, <1>15, <2>1 DEF BatchIsLast
  <2>4. flight[1].rows[r].samples \in BOOLEAN
    BY <2>1, StepRows
  <2>5. r \in DOMAIN prev_row <=> flight[1].rows[r].samples
    BY <1>1, <1>2, <1>15, <2>1 DEF PrevRows
  <2>6. Samples(flight[1], r) <=> r \in DOMAIN prev_row
    BY <2>1, <2>4, <2>5 DEF Samples
  <2>7. Awaited(flight[1], r) = IF r \in DOMAIN prev_row THEN 1 + requests[r].drafts ELSE 0
    BY <2>3, <2>6 DEF Awaited
  <2> QED  BY <2>1, <2>2, <2>3, <2>4, <2>5, <2>7 DEF StandingStep
<1> QED  BY <1>14, <1>15

LEMMA StandsIdle ==
  ASSUME IInv, Ready, Idle, NEW r \in ToSet(batch), status[r] = "running"
  PROVE  IdleRow(r)
<1>1. Standing(r) /\ (Len(flight) = 1 => StandingStep(r))
  BY Stands
<1> DEFINE d == requests[r].drafts
           c == sampled[prev_row[r]].count
           lack == LackIn(flight, r)
           got == GotIn(flight, r)
           awaited == AwaitedIn(flight, r)
<1>2. /\ length[r] \in Nat /\ known[r] \in Nat /\ kv[r] \in Nat /\ computed[r] \in Nat
      /\ d \in Nat /\ lack \in Nat /\ got \in Nat /\ awaited \in Nat /\ Optimistic(r) \in Nat
      /\ Optimistic(r) = known[r] + awaited /\ length[r] = known[r] + got
      /\ computed[r] = RunEnd(r) + lack
      /\ d > 0 => r \in DOMAIN prev_row
  BY <1>1 DEF Standing
<1>3. Types /\ pc = "execute_model" /\ Len(flight) \in 0 .. 1 /\ FedReqs = {}
      /\ DOMAIN flight = 1 .. Len(flight)
  BY DEF Ready
<1>4. r \notin FedReqs /\ RunEnd(r) = kv[r]
  BY <1>3 DEF RunEnd
<1>5. CASE Len(flight) = 0
  <2>1. flight \in Flights
    BY <1>3 DEF Types, SchedulerTypes
  <2>2. lack = 0 /\ got = 0
    BY <1>5, <2>1, FlightNumbers
  <2>3. length[r] = known[r] /\ length[r] <= Optimistic(r) /\ Len(flight) # 1
    BY <1>2, <1>5, <2>2
  <2> QED  BY <1>4, <2>2, <2>3 DEF IdleRow
<1>6. CASE Len(flight) = 1
  <2>1. flight[1].done /\ Settled(flight[1]) /\ LastStep = flight[1]
    BY <1>3, <1>6 DEF Idle, Ready
  <2>2. StandingStep(r)
    BY <1>1, <1>6
  <2>3. /\ awaited = Awaited(flight[1], r) /\ got = GotBy(flight[1], r)
        /\ lack = LackOf(flight[1], r)
        /\ r \in DOMAIN flight[1].rows /\ flight[1].rows[r].spec = d
        /\ flight[1].rows[r].samples \in BOOLEAN
        /\ r \in DOMAIN prev_row <=> flight[1].rows[r].samples
        /\ Awaited(flight[1], r) = IF r \in DOMAIN prev_row THEN 1 + d ELSE 0
    BY <2>2 DEF StandingStep
  <2>4. lack = awaited - got
    BY <2>1, <2>3, StepNumbers
  <2>5. length[r] <= Optimistic(r)
    BY <1>2, <2>4
  <2>6. CASE r \notin DOMAIN prev_row
    <3>1. ~Samples(flight[1], r)
      BY <2>3, <2>6 DEF Samples
    <3>2. got = 0
      BY <2>3, <3>1 DEF GotBy
    <3>3. awaited = 0
      BY <2>3, <2>6
    <3>4. lack = 0 /\ length[r] = known[r]
      BY <1>2, <2>4, <3>2, <3>3
    <3> QED  BY <1>4, <2>5, <2>6, <3>4 DEF IdleRow
  <2>7. CASE r \in DOMAIN prev_row
    <3>1. Samples(flight[1], r)
      BY <2>3, <2>7 DEF Samples
    <3>2. got = flight[1].got[r]
      BY <2>1, <2>3, <3>1 DEF GotBy
    <3>3. flight[1].got[r] \in 1 .. flight[1].rows[r].spec + 1
      BY <2>1, <2>3, <2>7 DEF Settled
    <3>4. flight[1].got[r] = c
      <4>1. Len(stream) = 0
        BY DEF Idle
      <4>2. LastSampled
        BY DEF IInv
      <4>3. LastStep.got[r] = c
        BY <1>3, <1>6, <2>7, <4>1, <4>2 DEF LastSampled
      <4> QED  BY <2>1, <4>3
    <3>5. got = c /\ c \in 1 .. d + 1
      BY <2>3, <3>2, <3>3, <3>4
    <3>6. awaited = 1 + d
      BY <2>3, <2>7
    <3> HIDE DEF got, awaited, lack, d, c
    <3>7. lack = (1 + d) - c /\ c \in Nat
      BY <1>2, <2>4, <3>5, <3>6
    <3>8. computed[r] = kv[r] + (d - (c - 1))
      BY <1>2, <1>4, <3>7
    <3>9. d = 0 => lack = 0
      BY <1>2, <3>5, <3>7
    <3> QED  BY <1>4, <2>5, <2>7, <3>7, <3>8, <3>9 DEF IdleRow, lack, d, c
  <2> QED  BY <2>6, <2>7
<1> QED  BY <1>3, <1>5, <1>6

LEMMA StandsRuns ==
  ASSUME IInv, Ready, Runs, NEW r \in ToSet(batch), status[r] = "running"
  PROVE  RunsRow(r)
<1>1. /\ Types /\ Len(flight) = 1 /\ ~flight[1].done /\ FedReqs = ToSet(batch)
      /\ RowsMatch(fed, flight[1], FedDiscard) /\ DOMAIN Inputs = {} /\ Settled(flight[1])
      /\ pc = "execute_model"
  BY DEF Ready
<1>2. Standing(r) /\ StandingStep(r)
  BY <1>1, Stands
<1>3. GpuTypes /\ CpuTypes
  BY <1>1 DEF Types
<1>4. r \in FedReqs /\ FedAt(r) \in DOMAIN fed /\ fed[FedAt(r)].req = r
  BY <1>1, <1>3, FedFacts
<1>5. RunEnd(r) = FedEnd(FedAt(r))
  BY <1>4 DEF RunEnd
<1>6. LackIn(flight, r) = 0 /\ GotIn(flight, r) = 0
  <2>1. LackOf(flight[1], r) = 0 /\ GotBy(flight[1], r) = 0
    BY <1>1 DEF LackOf, GotBy
  <2> QED  BY <1>2, <2>1 DEF StandingStep
<1>7. length[r] = known[r]
  BY <1>2, <1>6 DEF Standing
<1>8. /\ r \in DOMAIN flight[1].rows /\ flight[1].rows[r].spec = requests[r].drafts
      /\ r \in DOMAIN prev_row <=> flight[1].rows[r].samples
  BY <1>2 DEF StandingStep
<1>9. fed[FedAt(r)].spec = requests[r].drafts
  BY <1>1, <1>4, <1>8 DEF RowsMatch
<1>10. r \in FedDiscard <=> r \notin DOMAIN prev_row
  BY <1>1, <1>8 DEF RowsMatch
<1>11. ASSUME r \in DOMAIN prev_row
       PROVE  prev_row[r] = FedAt(r) /\ Optimistic(r) = length[r] + requests[r].drafts + 1
  <2>1. prev_row[r] \in DOMAIN batch /\ batch[prev_row[r]] = r
    BY <1>1, <1>11 DEF IInv, PrevRows
  <2>2. DOMAIN fed = DOMAIN batch /\ fed[prev_row[r]].req = batch[prev_row[r]]
    BY <1>1, <2>1 DEF IInv, BatchOnGpu, Runs
  <2>3. prev_row[r] = FedAt(r)
    BY <1>3, <2>1, <2>2, FedFacts
  <2>4. AwaitedIn(flight, r) = 1 + requests[r].drafts
    BY <1>2, <1>11 DEF StandingStep
  <2>5. Optimistic(r) = known[r] + AwaitedIn(flight, r) /\ known[r] \in Nat
        /\ requests[r].drafts \in Nat
    BY <1>2 DEF Standing
  <2> QED  BY <1>7, <2>3, <2>4, <2>5
<1> QED  BY <1>4, <1>5, <1>6, <1>7, <1>9, <1>10, <1>11 DEF RunsRow

-----------------------------------------------------------------------------
(* What execute_model does once it has a plan.                             *)
Executed(plan) ==
  /\ plan \in Plans /\ Schedule(plan) /\ UpdateStates(plan)
  /\ IF plan = <<>>
     THEN pc' = pc /\ UNCHANGED <<prev_positions, discard, stream>>
     ELSE pc' = "correct" /\ PrepareInputs(plan)
  /\ kv' = [r \in ReqIds |-> IF r \in DOMAIN plan /\ plan[r].kind # "running"
                             THEN plan[r].start ELSE kv[r]]
  /\ UNCHANGED <<fed, sampled, length>>

(* Its rows, and the step it adds to the flight.                           *)
PlanRows(plan) ==
  /\ DOMAIN plan \subseteq ReqIds /\ (plan = <<>> <=> DOMAIN plan = {})
  /\ Stays(plan) \subseteq DOMAIN plan \cap ToSet(batch)
  /\ \A r \in DOMAIN plan : PlanRow(r, plan[r])
  /\ \A r \in Stays(plan) : StaysRow(r, plan[r]) /\ status[r] = "running"
  /\ \A r \in DOMAIN plan \ Stays(plan) : AloneRow(r, plan[r])

PlannedStep(plan) ==
  [rows |-> [r \in DOMAIN plan |-> [spec |-> plan[r].spec, samples |-> plan[r].samples]],
   got |-> <<>>, done |-> plan = <<>>]
StepOf(plan, s) ==
  /\ Settled(s) /\ DOMAIN s.rows = DOMAIN plan /\ (s.done <=> DOMAIN plan = {})
  /\ \A r \in DOMAIN plan : /\ s.rows[r].spec = plan[r].spec
                            /\ s.rows[r].samples = plan[r].samples
  /\ \A r : /\ Samples(s, r) <=> r \in DOMAIN plan /\ plan[r].samples
            /\ Awaited(s, r) = IF r \in DOMAIN plan /\ plan[r].samples
                               THEN 1 + plan[r].spec ELSE 0
            /\ GotBy(s, r) = 0 /\ LackOf(s, r) = 0

LEMMA RowsOfPlan ==
  ASSUME IInv, Ready, NEW plan \in Plans
  PROVE  PlanRows(plan)
<1>1. /\ DOMAIN plan \subseteq ReqIds /\ (plan = <<>> <=> DOMAIN plan = {})
      /\ \A r \in DOMAIN plan : plan[r] \in Rows(r)
  BY PlanTypes
<1>2. Stays(plan) \subseteq DOMAIN plan \cap ToSet(batch)
      /\ \A r \in DOMAIN plan : r \in Stays(plan) <=> r \in ToSet(batch) /\ plan[r].kind = "running"
  BY DEF Stays
<1>3. \A r \in DOMAIN plan :
        /\ PlanRow(r, plan[r])
        /\ r \in Stays(plan) => StaysRow(r, plan[r])
        /\ r \notin Stays(plan) => AloneRow(r, plan[r])
  BY <1>1, <1>2, PlannedRow
<1>4. \A r \in Stays(plan) : status[r] = "running"
  BY <1>2, <1>3 DEF PlanRow
<1> QED  BY <1>1, <1>2, <1>3, <1>4 DEF PlanRows

LEMMA NewStep ==
  ASSUME NEW plan, PlanRows(plan)
  PROVE  StepOf(plan, PlannedStep(plan))
<1> DEFINE s == PlannedStep(plan)
           empty == plan = <<>>
<1>1. /\ DOMAIN plan \subseteq ReqIds /\ (empty <=> DOMAIN plan = {}) /\ empty \in BOOLEAN
      /\ \A r \in DOMAIN plan : PlanRow(r, plan[r])
  BY DEF PlanRows
<1>2. \A r \in DOMAIN plan : /\ plan[r].spec \in 0 .. NumSpec /\ plan[r].samples \in BOOLEAN
                             /\ plan[r].spec > 0 => plan[r].samples
  BY <1>1 DEF PlanRow
<1> HIDE DEF empty
<1>3. s = [rows |-> [r \in DOMAIN plan |-> [spec |-> plan[r].spec, samples |-> plan[r].samples]],
           got |-> <<>>, done |-> empty]
  BY DEF PlannedStep, empty
<1> HIDE DEF s
<1>4. DOMAIN s.rows = DOMAIN plan
  BY <1>3
<1>5. s.done = empty /\ s.got = <<>>
  BY <1>3
<1>6. s.done <=> DOMAIN plan = {}
  BY <1>1, <1>5, Zenon
<1>7. \A r \in DOMAIN plan : s.rows[r].spec = plan[r].spec /\ s.rows[r].samples = plan[r].samples
  BY <1>3
<1>8. s \in StepType
  <2>1. [r \in DOMAIN plan |-> [spec |-> plan[r].spec, samples |-> plan[r].samples]]
          \in [DOMAIN plan -> StepRow]
    BY <1>2 DEF StepRow
  <2>2. [r \in DOMAIN plan |-> [spec |-> plan[r].spec, samples |-> plan[r].samples]]
          \in OnSomeOf(StepRow)
    BY <1>1, <2>1 DEF OnSomeOf
  <2>3. <<>> \in OnSomeOf(0 .. NumSpec + 1)
    <3>1. <<>> \in [{} -> 0 .. NumSpec + 1]
      OBVIOUS
    <3> QED  BY <3>1 DEF OnSomeOf
  <2> QED  BY <1>1, <1>3, <2>2, <2>3 DEF StepType
<1>9. Settled(s)
  <2>1. \A r \in DOMAIN s.rows : s.rows[r].spec > 0 => s.rows[r].samples
    BY <1>2, <1>4, <1>7
  <2>2. \A r \in DOMAIN s.rows : ~s.done
    BY <1>4, <1>6
  <2> QED  BY <1>8, <2>1, <2>2 DEF Settled
<1>10. ASSUME NEW r
       PROVE  /\ Samples(s, r) <=> r \in DOMAIN plan /\ plan[r].samples
              /\ Awaited(s, r) = IF r \in DOMAIN plan /\ plan[r].samples
                                 THEN 1 + plan[r].spec ELSE 0
              /\ GotBy(s, r) = 0 /\ LackOf(s, r) = 0
  <2>1. Samples(s, r) <=> r \in DOMAIN plan /\ plan[r].samples
    <3>1. CASE r \in DOMAIN plan
      BY <1>2, <1>4, <1>7, <3>1 DEF Samples
    <3>2. CASE r \notin DOMAIN plan
      BY <1>4, <3>2 DEF Samples
    <3> QED  BY <3>1, <3>2
  <2>2. Awaited(s, r) = IF r \in DOMAIN plan /\ plan[r].samples THEN 1 + plan[r].spec ELSE 0
    BY <1>7, <2>1 DEF Awaited
  <2>3. GotBy(s, r) = 0 /\ LackOf(s, r) = 0
    <3>1. CASE r \in DOMAIN plan
      BY <1>6, <3>1 DEF GotBy, LackOf
    <3>2. CASE r \notin DOMAIN plan
      BY <1>4, <1>9, <3>2, StepNumbers
    <3> QED  BY <3>1, <3>2
  <2> QED  BY <2>1, <2>2, <2>3
<1> QED  BY <1>4, <1>6, <1>7, <1>9, <1>10 DEF StepOf, s

(* What is in flight then.                                                 *)
FlightOf(plan, s) ==
  /\ flight' \in Flights /\ Len(flight') = Len(flight) + 1 /\ Len(flight) \in 0 .. 1
  /\ DOMAIN flight' = 1 .. Len(flight') /\ LastStep' = s /\ flight'[Len(flight')] = s
  /\ Last(flight') = s
  /\ \A k \in DOMAIN flight : k \in DOMAIN flight' /\ k # Len(flight') /\ flight'[k] = flight[k]
  /\ \A k \in DOMAIN flight' : k \in DOMAIN flight \/ k = Len(flight')
  /\ \A r : /\ AwaitedIn(flight', r) = AwaitedIn(flight, r) + Awaited(s, r)
            /\ GotIn(flight', r) = GotIn(flight, r)
            /\ LackIn(flight', r) = LackIn(flight, r)

LEMMA FlightPlanned ==
  ASSUME IInv, Ready, NEW plan, Executed(plan)
  PROVE  /\ PlanRows(plan) /\ StepOf(plan, PlannedStep(plan))
         /\ FlightOf(plan, PlannedStep(plan))
<1> DEFINE s == PlannedStep(plan)
<1>1. plan \in Plans /\ Schedule(plan)
  BY DEF Executed
<1>2. PlanRows(plan) /\ StepOf(plan, s)
  BY <1>1, RowsOfPlan, NewStep
<1>3. /\ Len(flight) \in 0 .. 1 /\ DOMAIN flight = 1 .. Len(flight) /\ Types
  BY DEF Ready
<1>4. flight \in Flights
  BY <1>3 DEF Types, SchedulerTypes
<1>5. flight' = Append(flight, s)
  BY <1>1 DEF Schedule, PlannedStep
<1> HIDE DEF s
<1>6. Settled(s) /\ \A r : GotBy(s, r) = 0 /\ LackOf(s, r) = 0
  BY <1>2 DEF StepOf
<1>7. Len(flight) < 2
  BY <1>3
<1>8. /\ flight' \in Flights /\ Len(flight') = Len(flight) + 1
      /\ flight'[Len(flight) + 1] = s
      /\ \A k \in DOMAIN flight : flight'[k] = flight[k]
  BY <1>4, <1>5, <1>6, <1>7, LongerFlight
<1>9. \A r : /\ AwaitedIn(flight', r) = AwaitedIn(flight, r) + Awaited(s, r)
             /\ GotIn(flight', r) = GotIn(flight, r) + GotBy(s, r)
             /\ LackIn(flight', r) = LackIn(flight, r) + LackOf(s, r)
  BY <1>4, <1>5, <1>6, <1>7, LongerFlight
<1>10. ASSUME NEW r
       PROVE  GotIn(flight', r) = GotIn(flight, r) /\ LackIn(flight', r) = LackIn(flight, r)
  <2>1. GotIn(flight, r) \in Nat /\ LackIn(flight, r) \in Nat
    BY <1>4, FlightNumbers
  <2> QED  BY <1>6, <1>9, <2>1
<1>11. DOMAIN flight' = 1 .. Len(flight') /\ flight' \in Seq(StepType)
  BY <1>8, FlightLength
<1>12. flight'[Len(flight')] = s
  BY <1>8
<1>13. LastStep' = s /\ Last(flight') = s
  BY <1>12 DEF LastStep, Last
<1>14. \A k \in DOMAIN flight : k \in DOMAIN flight' /\ k # Len(flight')
  BY <1>3, <1>8, <1>11
<1>15. \A k \in DOMAIN flight' : k \in DOMAIN flight \/ k = Len(flight')
  BY <1>3, <1>8, <1>11
<1>16. \A r : AwaitedIn(flight', r) = AwaitedIn(flight, r) + Awaited(s, r)
  BY <1>9
<1>17. FlightOf(plan, s)
  BY <1>3, <1>8, <1>10, <1>11, <1>12, <1>13, <1>14, <1>15, <1>16 DEF FlightOf
<1> QED  BY <1>2, <1>17 DEF s

(* The CPU's state then.                                                   *)
BatchOf(plan) ==
  /\ batch' \in Seq(ReqIds) /\ DOMAIN batch' \subseteq BatchRows
  /\ \A i, j \in DOMAIN batch' : batch'[i] = batch'[j] => i = j
  /\ ToSet(batch') = DOMAIN plan /\ \A i \in DOMAIN batch' : batch'[i] \in DOMAIN plan
  /\ \A r \in DOMAIN plan : \E i \in DOMAIN batch' : batch'[i] = r
  /\ DOMAIN plan = {} <=> DOMAIN batch' = {}
CachedOf(plan) ==
  /\ DOMAIN row' = DOMAIN plan /\ DOMAIN requests' \subseteq ReqIds
  /\ DOMAIN requests' = (DOMAIN requests \ finished_ids) \cup DOMAIN plan
  /\ \A r \in DOMAIN requests' \ DOMAIN plan :
       r \in DOMAIN requests /\ requests'[r] = requests[r]
  /\ \A r \in DOMAIN plan : UpdatedRow(plan, r)

LEMMA BatchPlanned ==
  ASSUME IInv, Ready, NEW plan, Executed(plan), PlanRows(plan)
  PROVE  BatchOf(plan) /\ CachedOf(plan) /\ Remembered(plan)
<1>1. plan \in Plans /\ UpdateStates(plan)
  BY DEF Executed
<1>2. DOMAIN plan \subseteq ReqIds /\ batch' \in SetToSeqs(DOMAIN plan)
  BY <1>1 DEF PlanRows, UpdateStates
<1>3. /\ batch' \in Seq(ReqIds) /\ DOMAIN batch' \subseteq BatchRows
      /\ \A i, j \in DOMAIN batch' : batch'[i] = batch'[j] => i = j
      /\ ToSet(batch') = DOMAIN plan /\ ToSet(batch') = {batch'[i] : i \in DOMAIN batch'}
      /\ DOMAIN plan = {} <=> DOMAIN batch' = {}
  BY <1>2, Orders
<1>4. BatchOf(plan)
  <2>1. \A i \in DOMAIN batch' : batch'[i] \in DOMAIN plan
    BY <1>3
  <2>2. \A r \in DOMAIN plan : \E i \in DOMAIN batch' : batch'[i] = r
    BY <1>3
  <2> QED  BY <1>3, <2>1, <2>2 DEF BatchOf
<1>5. DOMAIN requests \subseteq ReqIds
  BY DEF IInv, Types, CpuTypes
<1>6. /\ DOMAIN requests' = (DOMAIN requests \ finished_ids) \cup DOMAIN plan
      /\ \A r \in DOMAIN requests' \ DOMAIN plan :
           r \in DOMAIN requests /\ requests'[r] = requests[r]
  BY <1>1 DEF UpdateStates
<1>7. DOMAIN row' = DOMAIN plan
  BY <1>1 DEF UpdateStates
<1>8. \A r \in DOMAIN plan : UpdatedRow(plan, r)
  BY <1>1, RowKept, RowMade
<1>9. CachedOf(plan)
  BY <1>2, <1>5, <1>6, <1>7, <1>8 DEF CachedOf
<1>10. Remembered(plan)
  BY <1>1, RowsRemembered
<1> QED  BY <1>4, <1>9, <1>10

(* What it enqueues when there is work to do.                              *)
Enqueued(plan) ==
  /\ pc' = "correct"
  /\ discard' = {r \in DOMAIN plan : ~plan[r].samples}
  /\ prev_positions' \in [BatchRows -> Int]
  /\ \A i \in DOMAIN batch' :
       prev_positions'[i] = IF batch'[i] \in DOMAIN prev_row' THEN prev_row'[batch'[i]] ELSE -1
  /\ stream' \in Seq(Op) /\ Len(stream') = Len(stream) + 1 /\ Len(stream) \in 0 .. 1
  /\ Idle => Len(stream) = 0
  /\ Runs => Len(stream) = 1 /\ stream'[1] = stream[1] /\ stream[1].op = "sample"
  /\ stream'[Len(stream')].op = "inputs" /\ Inputs' = stream'[Len(stream')].rows
  /\ DOMAIN Inputs' = DOMAIN batch'
  /\ \A i \in DOMAIN batch' :
       LET r == batch'[i] IN
       Inputs'[i] = [req |-> r, n |-> plan[r].n, spec |-> plan[r].spec,
                     prev |-> prev_positions'[i], at |-> plan[r].start, real |-> row'[r].real]

LEMMA StepEnqueued ==
  ASSUME IInv, Ready, NEW plan, Executed(plan), PlanRows(plan), BatchOf(plan),
         CachedOf(plan), Remembered(plan), DOMAIN plan # {}
  PROVE  Enqueued(plan)
<1> DEFINE rows == [i \in DOMAIN batch' |-> LET r == batch'[i] IN
             [req |-> r, n |-> plan[r].n, spec |-> plan[r].spec, prev |-> prev_positions'[i],
              at |-> row'[r].computed, real |-> row'[r].real]]
           op == [op |-> "inputs", rows |-> rows]
<1>1. pc' = "correct" /\ PrepareInputs(plan)
  <2>1. plan # <<>>
    BY DEF PlanRows
  <2> QED  BY <2>1 DEF Executed
<1>2. /\ prev_positions' = [i \in BatchRows |->
            IF i \in DOMAIN batch' /\ batch'[i] \in DOMAIN prev_row'
            THEN prev_row'[batch'[i]] ELSE -1]
      /\ discard' = {r \in DOMAIN plan :
            row'[r].computed + plan[r].n < Prompt + requests'[r].outputs}
      /\ stream' = Append(stream, op)
  BY <1>1 DEF PrepareInputs
<1>3. \A r \in DOMAIN prev_row' : prev_row'[r] \in BatchRows
  BY DEF Remembered
<1>4. prev_positions' \in [BatchRows -> Int]
  <2>1. BatchRows \subseteq Int /\ -1 \in Int
    BY DEF BatchRows
  <2> QED  BY <1>2, <1>3, <2>1
<1>5. \A i \in DOMAIN batch' :
        prev_positions'[i] = IF batch'[i] \in DOMAIN prev_row' THEN prev_row'[batch'[i]] ELSE -1
  BY <1>2 DEF BatchOf
<1>6. ASSUME NEW r \in DOMAIN plan
      PROVE  /\ row'[r].computed = plan[r].start /\ row'[r].real \in Nat
             /\ plan[r].start \in Nat /\ plan[r].n \in Nat \ {0}
             /\ plan[r].spec \in 0 .. NumSpec
             /\ row'[r].computed + plan[r].n < Prompt + requests'[r].outputs
                  <=> ~plan[r].samples
  <2>1. /\ row'[r].computed = plan[r].start
        /\ row'[r] \in [computed : Int, tokens : Nat, real : Nat]
        /\ requests'[r].outputs = plan[r].outputs
    BY DEF CachedOf, UpdatedRow
  <2>2. PlanRow(r, plan[r])
    BY DEF PlanRows
  <2>3. /\ plan[r].start \in Nat /\ plan[r].n \in Nat \ {0} /\ plan[r].spec \in 0 .. NumSpec
        /\ plan[r].samples \in BOOLEAN /\ Optimistic(r) = Prompt + plan[r].outputs
        /\ plan[r].samples <=> ~(plan[r].start + plan[r].n < Optimistic(r))
    BY <2>2 DEF PlanRow
  <2>4. row'[r].real \in Nat
    BY <2>1
  <2>5. row'[r].computed + plan[r].n < Prompt + requests'[r].outputs <=> ~plan[r].samples
    BY <2>1, <2>3
  <2> QED  BY <2>1, <2>3, <2>4, <2>5
<1>7. discard' = {r \in DOMAIN plan : ~plan[r].samples}
  BY <1>2, <1>6
<1>8. \A i \in DOMAIN batch' :
        LET r == batch'[i] IN
        rows[i] = [req |-> r, n |-> plan[r].n, spec |-> plan[r].spec,
                   prev |-> prev_positions'[i], at |-> plan[r].start, real |-> row'[r].real]
  BY <1>6 DEF BatchOf
<1>9. DOMAIN rows = DOMAIN batch'
  OBVIOUS
<1> HIDE DEF rows
<1>10. rows \in Seq(InputRow)
  <2>1. \A i \in DOMAIN batch' : rows[i] \in InputRow
    <3> TAKE i \in DOMAIN batch'
    <3>1. batch'[i] \in DOMAIN plan /\ batch'[i] \in ReqIds /\ prev_positions'[i] \in Int
      BY <1>4 DEF BatchOf, PlanRows
    <3> DEFINE r == batch'[i]
    <3>2. /\ row'[r].real \in Nat /\ plan[r].start \in Nat /\ plan[r].n \in Nat \ {0}
          /\ plan[r].spec \in 0 .. NumSpec
      BY <1>6, <3>1
    <3>3. rows[i] = [req |-> r, n |-> plan[r].n, spec |-> plan[r].spec,
                     prev |-> prev_positions'[i], at |-> plan[r].start, real |-> row'[r].real]
      BY <1>8
    <3>4. r \in ReqIds /\ prev_positions'[i] \in Int
      BY <3>1
    <3> HIDE DEF r
    <3> QED  BY <3>2, <3>3, <3>4 DEF InputRow
  <2>2. batch' \in Seq(ReqIds)
    BY DEF BatchOf
  <2>3. DOMAIN batch' = 1 .. Len(batch') /\ Len(batch') \in Nat
    BY <2>2
  <2>4. rows = [i \in 1 .. Len(batch') |-> rows[i]]
    BY <2>3 DEF rows
  <2> QED  BY <2>1, <2>3, <2>4
<1>11. op \in Op /\ op.op = "inputs" /\ op.rows = rows
  BY <1>10 DEF Op
<1> HIDE DEF op
<1>12. stream \in Seq(Op)
  BY DEF IInv, Types, GpuTypes
<1>13. /\ stream' \in Seq(Op) /\ Len(stream') = Len(stream) + 1
       /\ stream'[Len(stream) + 1] = op
       /\ \A k \in 1 .. Len(stream) : stream'[k] = stream[k]
  BY <1>2, <1>11, <1>12, Sequences
<1>14. Idle \/ Runs
  BY DEF Ready
<1>15. /\ Idle => Len(stream) = 0
       /\ Runs => Len(stream) = 1 /\ stream[1].op = "sample"
  BY DEF Idle, Runs
<1>16. Len(stream) \in 0 .. 1
  BY <1>14, <1>15
<1>17. Runs => stream'[1] = stream[1]
  BY <1>13, <1>15
<1>18. stream'[Len(stream')] = op
  BY <1>13
<1>19. Inputs' = op.rows
  <2>1. CASE Idle
    <3>1. Len(stream') = 1 /\ stream'[1] = op
      BY <1>13, <1>15, <2>1
    <3> QED  BY <1>11, <3>1 DEF Inputs
  <2>2. CASE Runs
    <3>1. Len(stream) = 1 /\ stream[1].op = "sample" /\ stream'[1] = stream[1]
      BY <1>15, <1>17, <2>2
    <3>2. Len(stream') = 2 /\ stream'[2] = op
      BY <1>13, <3>1
    <3>3. stream'[1].op # "inputs"
      BY <3>1
    <3> QED  BY <1>11, <3>2, <3>3 DEF Inputs
  <2> QED  BY <1>14, <2>1, <2>2
<1>20. /\ stream'[Len(stream')].op = "inputs" /\ Inputs' = stream'[Len(stream')].rows
       /\ Inputs' = rows
  BY <1>11, <1>18, <1>19
<1>21. /\ DOMAIN Inputs' = DOMAIN batch'
       /\ \A i \in DOMAIN batch' :
            LET r == batch'[i] IN
            Inputs'[i] = [req |-> r, n |-> plan[r].n, spec |-> plan[r].spec,
                          prev |-> prev_positions'[i], at |-> plan[r].start,
                          real |-> row'[r].real]
  BY <1>8, <1>9, <1>20
<1> QED
  BY <1>1, <1>4, <1>5, <1>7, <1>13, <1>15, <1>16, <1>17, <1>20, <1>21 DEF Enqueued

(* The scheduler's state then, and where the steps end.                    *)
ScheduledOf(plan) ==
  /\ status' \in [ReqIds -> {"waiting", "running", "preempted", "finished"}]
  /\ computed' \in [ReqIds -> Nat]
  /\ \A r \in DOMAIN plan : /\ status'[r] = "running"
                            /\ computed'[r] = plan[r].start + plan[r].n
  /\ \A r \in ReqIds \ DOMAIN plan :
       \/ status'[r] = status[r] /\ computed'[r] = computed[r]
       \/ status[r] = "running" /\ status'[r] = "preempted" /\ computed'[r] = 0
  /\ known' = known /\ prev_step' = DOMAIN plan /\ finished_ids' = {}
CachesOf(plan) ==
  /\ kv' \in [ReqIds -> Nat] /\ FedReqs' = FedReqs /\ FedReqs \subseteq ReqIds
  /\ \A x : FedAt(x)' = FedAt(x) /\ FedEnd(x)' = FedEnd(x)
  /\ \A r \in ReqIds : r \notin DOMAIN plan \/ r \in Stays(plan) => kv'[r] = kv[r]
  /\ \A r \in DOMAIN plan \ Stays(plan) : kv'[r] = plan[r].start /\ r \notin FedReqs
  /\ \A r \in FedReqs : kv'[r] = kv[r]
EndsOf(plan) ==
  /\ InputReqs' = DOMAIN plan
  /\ \A r \in ReqIds :
       /\ r \notin DOMAIN plan => RunEnd(r)' = RunEnd(r) /\ End(r)' = RunEnd(r)
       /\ r \in Stays(plan) => RunEnd(r)' = RunEnd(r) /\ End(r)' = RunEnd(r) + plan[r].n
       /\ r \in DOMAIN plan \ Stays(plan) => End(r)' = plan[r].start + plan[r].n

LEMMA PlanScheduled ==
  ASSUME IInv, Ready, NEW plan, Executed(plan), PlanRows(plan)
  PROVE  ScheduledOf(plan)
<1>1. Schedule(plan) /\ SchedulerTypes
  BY DEF Executed, IInv, Types
<1>2. PICK victims \in SUBSET {r \in Preempts \ DOMAIN plan : status[r] = "running"} :
        /\ status' = [r \in ReqIds |-> IF r \in victims THEN "preempted"
                                       ELSE IF r \in DOMAIN plan THEN "running" ELSE status[r]]
        /\ computed' = [r \in ReqIds |-> IF r \in victims THEN 0
                                         ELSE IF r \in DOMAIN plan THEN plan[r].start + plan[r].n
                                         ELSE computed[r]]
  BY <1>1 DEF Schedule
<1>3. \A r \in victims : r \notin DOMAIN plan /\ status[r] = "running"
  BY <1>2
<1>4. DOMAIN plan \subseteq ReqIds
  BY DEF PlanRows
<1>5. \A r \in DOMAIN plan : plan[r].start + plan[r].n \in Nat
  <2> TAKE r \in DOMAIN plan
  <2>1. plan[r].start \in Nat /\ plan[r].n \in Nat
    BY DEF PlanRows, PlanRow
  <2> QED  BY <2>1
<1>6. status' \in [ReqIds -> {"waiting", "running", "preempted", "finished"}]
  BY <1>1, <1>2 DEF SchedulerTypes
<1>7. computed' \in [ReqIds -> Nat]
  <2>1. \A r \in ReqIds : computed[r] \in Nat
    BY <1>1 DEF SchedulerTypes
  <2> QED  BY <1>2, <1>5, <2>1
<1>8. \A r \in DOMAIN plan : status'[r] = "running" /\ computed'[r] = plan[r].start + plan[r].n
  BY <1>2, <1>3, <1>4
<1>9. \A r \in ReqIds \ DOMAIN plan :
        \/ status'[r] = status[r] /\ computed'[r] = computed[r]
        \/ status[r] = "running" /\ status'[r] = "preempted" /\ computed'[r] = 0
  BY <1>2, <1>3
<1>10. known' = known /\ prev_step' = DOMAIN plan /\ finished_ids' = {}
  BY <1>1 DEF Schedule
<1> QED  BY <1>6, <1>7, <1>8, <1>9, <1>10 DEF ScheduledOf

LEMMA CachesPlanned ==
  ASSUME IInv, Ready, NEW plan, Executed(plan), PlanRows(plan)
  PROVE  CachesOf(plan)
<1>1. /\ kv' = [r \in ReqIds |-> IF r \in DOMAIN plan /\ plan[r].kind # "running"
                                 THEN plan[r].start ELSE kv[r]]
      /\ fed' = fed
  BY DEF Executed
<1>2. kv \in [ReqIds -> Nat] /\ GpuTypes
  BY DEF IInv, Types, SchedulerTypes
<1>3. /\ DOMAIN plan \subseteq ReqIds
      /\ \A r \in DOMAIN plan : plan[r].start \in Nat
      /\ \A r \in Stays(plan) : r \in DOMAIN plan /\ plan[r].kind = "running"
      /\ \A r \in DOMAIN plan \ Stays(plan) :
           plan[r].kind = "running" => kv[r] = plan[r].start
      /\ \A r \in DOMAIN plan \ Stays(plan) : r \notin FedReqs
  BY DEF PlanRows, PlanRow, StaysRow, AloneRow
<1>4. kv' \in [ReqIds -> Nat]
  BY <1>1, <1>2, <1>3
<1>5. \A r \in ReqIds : r \notin DOMAIN plan \/ r \in Stays(plan) => kv'[r] = kv[r]
  BY <1>1, <1>3
<1>6. \A r \in DOMAIN plan \ Stays(plan) : kv'[r] = plan[r].start
  BY <1>1, <1>3
<1>7. FedReqs' = FedReqs /\ \A x : FedAt(x)' = FedAt(x) /\ FedEnd(x)' = FedEnd(x)
  BY <1>1, FedFrame
<1>8. FedReqs \subseteq ReqIds
  BY <1>2, FedFacts
<1>9. \A r \in FedReqs : kv'[r] = kv[r]
  BY <1>3, <1>5, <1>8
<1> QED  BY <1>3, <1>4, <1>5, <1>6, <1>7, <1>8, <1>9 DEF CachesOf

LEMMA EnqueuedRows ==
  ASSUME NEW plan, Enqueued(plan)
  PROVE  /\ DOMAIN Inputs' = DOMAIN batch'
         /\ \A i \in DOMAIN batch' :
              LET r == batch'[i]
                  w == Inputs'[i]
              IN /\ w.req = r /\ w.n = plan[r].n /\ w.spec = plan[r].spec
                 /\ w.prev = prev_positions'[i] /\ w.at = plan[r].start
                 /\ w.real = row'[r].real
<1>1. /\ DOMAIN Inputs' = DOMAIN batch'
      /\ \A i \in DOMAIN batch' :
           LET r == batch'[i] IN
           Inputs'[i] = [req |-> r, n |-> plan[r].n, spec |-> plan[r].spec,
                         prev |-> prev_positions'[i], at |-> plan[r].start,
                         real |-> row'[r].real]
  BY Zenon DEF Enqueued
<1> QED  BY <1>1

LEMMA EndsPlanned ==
  ASSUME IInv, Ready, NEW plan, Executed(plan), PlanRows(plan), BatchOf(plan),
         DOMAIN plan # {} => Enqueued(plan), CachesOf(plan)
  PROVE  EndsOf(plan)
<1>1. /\ DOMAIN plan \subseteq ReqIds /\ (plan = <<>> <=> DOMAIN plan = {})
      /\ Stays(plan) \subseteq DOMAIN plan
      /\ \A r \in DOMAIN plan : plan[r].n \in Nat /\ plan[r].start \in Nat
  BY DEF PlanRows, PlanRow
<1>2. /\ InputReqs' = DOMAIN plan
      /\ \A r \in DOMAIN plan : Inputs'[InputAt(r)'].n = plan[r].n
  <2>1. CASE DOMAIN plan = {}
    <3>1. stream' = stream
      BY <1>1, <2>1 DEF Executed
    <3>2. InputReqs' = {}
      BY <3>1, InputsFrame DEF Ready
    <3> QED  BY <2>1, <3>2
  <2>2. CASE DOMAIN plan # {}
    <3> DEFINE w == Inputs'
    <3>1. /\ DOMAIN w = DOMAIN batch'
          /\ \A i \in DOMAIN batch' : w[i].req = batch'[i] /\ w[i].n = plan[batch'[i]].n
      <4>1. Enqueued(plan)
        BY <2>2
      <4> QED  BY <4>1, EnqueuedRows
    <3>2. OneEach(w)
      <4> HIDE DEF w
      <4> QED  BY <3>1 DEF OneEach, BatchOf
    <3>3. ReqsOf(w) = DOMAIN plan
      <4> HIDE DEF w
      <4>1. ReqsOf(w) \subseteq DOMAIN plan
        BY <3>1 DEF ReqsOf, BatchOf
      <4>2. ASSUME NEW r \in DOMAIN plan PROVE r \in ReqsOf(w)
        <5>1. PICK i \in DOMAIN batch' : batch'[i] = r
          BY DEF BatchOf
        <5>2. i \in DOMAIN w /\ w[i].req = r
          BY <3>1, <5>1
        <5> QED  BY <5>2 DEF ReqsOf
      <4> QED  BY <4>1, <4>2
    <3>4. \A r \in DOMAIN plan : w[RowOf(w, r)].n = plan[r].n
      <4> HIDE DEF w
      <4> TAKE r \in DOMAIN plan
      <4>1. RowOf(w, r) \in DOMAIN w /\ w[RowOf(w, r)].req = r
        BY <3>2, <3>3, RowsByRequest
      <4> QED  BY <3>1, <4>1
    <3>5. InputReqs' = ReqsOf(w) /\ \A r : InputAt(r)' = RowOf(w, r)
      BY DEF InputReqs, InputAt
    <3> QED  BY <3>3, <3>4, <3>5 DEF w
  <2> QED  BY <2>1, <2>2
<1>3. ASSUME NEW r \in ReqIds
      PROVE  /\ r \notin DOMAIN plan => RunEnd(r)' = RunEnd(r) /\ End(r)' = RunEnd(r)
             /\ r \in Stays(plan) => RunEnd(r)' = RunEnd(r) /\ End(r)' = RunEnd(r) + plan[r].n
             /\ r \in DOMAIN plan \ Stays(plan) => End(r)' = plan[r].start + plan[r].n
  <2>1. RunEnd(r)' = IF r \in FedReqs THEN FedEnd(FedAt(r)) ELSE kv'[r]
    <3>1. RunEnd(r)' = IF r \in FedReqs' THEN FedEnd(FedAt(r))' ELSE kv'[r]
      BY DEF RunEnd
    <3>2. FedEnd(FedAt(r))' = FedEnd(FedAt(r)) /\ FedReqs' = FedReqs
      <4>1. fed' = fed
        BY DEF Executed
      <4> QED  BY <4>1 DEF FedEnd, FedAt, FedReqs
    <3> QED  BY <3>1, <3>2
  <2>2. End(r)' = RunEnd(r)' + IF r \in DOMAIN plan THEN plan[r].n ELSE 0
    <3>1. End(r)' = RunEnd(r)' + IF r \in InputReqs' THEN Inputs'[InputAt(r)'].n ELSE 0
      BY DEF End
    <3> QED  BY <1>2, <3>1
  <2>3. RunEnd(r) \in Nat
    BY EndIsNat DEF IInv
  <2>4. r \notin DOMAIN plan \/ r \in Stays(plan) => RunEnd(r)' = RunEnd(r)
    BY <2>1 DEF CachesOf, RunEnd
  <2>5. r \in DOMAIN plan \ Stays(plan) => RunEnd(r)' = plan[r].start
    BY <2>1 DEF CachesOf
  <2> QED  BY <1>1, <2>2, <2>3, <2>4, <2>5
<1> QED  BY <1>2, <1>3 DEF EndsOf

-----------------------------------------------------------------------------
(* All of that.                                                            *)
Same(plan) ==
  /\ fed' = fed /\ sampled' = sampled /\ length' = length
  /\ DOMAIN plan = {} => /\ pc' = pc /\ prev_positions' = prev_positions
                         /\ discard' = discard /\ stream' = stream
PlanOutcome(plan) ==
  /\ PlanRows(plan) /\ StepOf(plan, PlannedStep(plan)) /\ FlightOf(plan, PlannedStep(plan))
  /\ BatchOf(plan) /\ CachedOf(plan) /\ Remembered(plan)
  /\ DOMAIN plan # {} => Enqueued(plan)
  /\ ScheduledOf(plan) /\ CachesOf(plan) /\ EndsOf(plan) /\ Same(plan)

LEMMA ExecuteOutcome ==
  ASSUME IInv, Ready, NEW plan, Executed(plan)
  PROVE  PlanOutcome(plan)
<1>1. /\ PlanRows(plan) /\ StepOf(plan, PlannedStep(plan))
      /\ FlightOf(plan, PlannedStep(plan))
  BY FlightPlanned
<1>2. BatchOf(plan) /\ CachedOf(plan) /\ Remembered(plan)
  BY <1>1, BatchPlanned
<1>3. DOMAIN plan # {} => Enqueued(plan)
  BY <1>1, <1>2, StepEnqueued
<1>4. ScheduledOf(plan) /\ CachesOf(plan)
  BY <1>1, PlanScheduled, CachesPlanned
<1>5. EndsOf(plan)
  BY <1>1, <1>2, <1>3, <1>4, EndsPlanned
<1>6. Same(plan)
  BY <1>1 DEF Same, Executed, PlanRows
<1> QED  BY <1>1, <1>2, <1>3, <1>4, <1>5, <1>6 DEF PlanOutcome

LEMMA ExecuteTypes ==
  ASSUME IInv, Ready, NEW plan, PlanOutcome(plan)
  PROVE  Types'
<1>1. Types /\ pc = "execute_model" /\ DOMAIN Inputs = {}
  BY DEF IInv, Ready
<1>2. SchedulerTypes /\ CpuTypes /\ GpuTypes
  BY <1>1 DEF Types
<1>3. SchedulerTypes'
  <2>1. flight' \in Flights
    BY DEF PlanOutcome, FlightOf
  <2>2. /\ status' \in [ReqIds -> {"waiting", "running", "preempted", "finished"}]
        /\ computed' \in [ReqIds -> Nat] /\ known' = known /\ finished_ids' = {}
    BY DEF PlanOutcome, ScheduledOf
  <2>3. kv' \in [ReqIds -> Nat] /\ length' = length
    BY DEF PlanOutcome, CachesOf, Same
  <2> QED  BY <1>2, <2>1, <2>2, <2>3 DEF SchedulerTypes
<1>4. CpuTypes'
  <2>1. BatchOf(plan) /\ CachedOf(plan) /\ Remembered(plan) /\ Same(plan)
    BY DEF PlanOutcome
  <2>2. /\ pc' \in {"execute_model", "correct", "sample_tokens"}
        /\ discard' \subseteq ReqIds /\ prev_positions' \in [BatchRows -> Int]
    <3>1. CASE DOMAIN plan = {}
      BY <1>2, <2>1, <3>1 DEF Same, CpuTypes
    <3>2. CASE DOMAIN plan # {}
      BY <3>2 DEF PlanOutcome, Enqueued, PlanRows
    <3> QED  BY <3>1, <3>2
  <2>3. DOMAIN requests' \subseteq ReqIds
    BY <2>1 DEF CachedOf
  <2>4. \A r \in DOMAIN requests' :
          requests'[r] \in [computed : Int, outputs : Nat, real : Nat, drafts : 0 .. NumSpec]
    <3> TAKE r \in DOMAIN requests'
    <3>1. CASE r \in DOMAIN plan
      BY <2>1, <3>1 DEF CachedOf, UpdatedRow
    <3>2. CASE r \notin DOMAIN plan
      BY <1>2, <2>1, <3>2 DEF CachedOf, CpuTypes
    <3> QED  BY <3>1, <3>2
  <2>5. /\ batch' \in Seq(ReqIds) /\ DOMAIN batch' \subseteq BatchRows
        /\ \A i, j \in DOMAIN batch' : batch'[i] = batch'[j] => i = j
        /\ ToSet(batch') = DOMAIN plan
    BY <2>1 DEF BatchOf
  <2>6. /\ DOMAIN row' = ToSet(batch')
        /\ \A r \in DOMAIN row' : row'[r] \in [computed : Int, tokens : Nat, real : Nat]
    BY <2>1, <2>5 DEF CachedOf, UpdatedRow
  <2>7. prev_num_draft' \in [BatchRows -> 0 .. NumSpec]
    BY <2>1 DEF Remembered
  <2>8. DOMAIN deferred' \subseteq ReqIds /\ \A r \in DOMAIN deferred' : deferred'[r] \in 1 .. NumSpec
    <3>1. /\ DOMAIN deferred' \subseteq Stays(plan)
          /\ \A r \in DOMAIN deferred' : deferred'[r] \in 1 .. NumSpec
      BY <2>1 DEF Remembered
    <3>2. Stays(plan) \subseteq ReqIds
      BY DEF PlanOutcome, PlanRows
    <3> QED  BY <3>1, <3>2
  <2> QED  BY <2>2, <2>3, <2>4, <2>5, <2>6, <2>7, <2>8 DEF CpuTypes, BatchRows
<1>5. GpuTypes'
  <2>1. fed' = fed /\ sampled' = sampled
    BY DEF PlanOutcome, Same
  <2>2. stream' \in Seq(Op) /\ DOMAIN Inputs' \subseteq BatchRows
    <3>1. CASE DOMAIN plan = {}
      <4>1. stream' = stream
        BY <3>1 DEF PlanOutcome, Same
      <4> QED  BY <1>2, <4>1, InputsFrame DEF GpuTypes
    <3>2. CASE DOMAIN plan # {}
      BY <3>2 DEF PlanOutcome, Enqueued, BatchOf
    <3> QED  BY <3>1, <3>2
  <2> QED  BY <1>2, <2>1, <2>2 DEF GpuTypes, BatchRows
<1> QED  BY <1>3, <1>4, <1>5 DEF Types

LEMMA ExecuteBatch ==
  ASSUME IInv, Ready, NEW plan, PlanOutcome(plan)
  PROVE  BatchIsLast' /\ PrevRows' /\ BatchOnGpu'
<1> DEFINE s == PlannedStep(plan)
<1>1. /\ StepOf(plan, s) /\ FlightOf(plan, s) /\ BatchOf(plan) /\ CachedOf(plan)
      /\ Remembered(plan) /\ ScheduledOf(plan) /\ Same(plan) /\ PlanRows(plan)
      /\ DOMAIN plan # {} => Enqueued(plan)
  BY DEF PlanOutcome
<1> HIDE DEF s
<1>2. /\ LastStep' = s /\ DOMAIN s.rows = DOMAIN plan /\ ToSet(batch') = DOMAIN plan
      /\ \A r \in DOMAIN plan : s.rows[r].spec = plan[r].spec /\ requests'[r].drafts = plan[r].spec
      /\ DOMAIN plan \subseteq DOMAIN requests'
  BY <1>1 DEF StepOf, FlightOf, BatchOf, CachedOf, UpdatedRow
<1>3. pc = "execute_model" /\ DOMAIN Inputs = {}
  BY DEF Ready
<1>4. BatchIsLast'
  <2>1. prev_step' = ToSet(batch')
    BY <1>1, <1>2 DEF ScheduledOf
  <2>2. /\ DOMAIN LastStep'.rows = ToSet(batch')
        /\ \A r \in ToSet(batch') : LastStep'.rows[r].spec = requests'[r].drafts
    BY <1>2
  <2>3. ASSUME NEW k \in DOMAIN flight', NEW r \in DOMAIN flight'[k].rows
        PROVE  status'[r] # "waiting"
    <3>1. CASE k = Len(flight')
      <4>1. r \in DOMAIN plan
        BY <1>1, <1>2, <2>3, <3>1 DEF FlightOf
      <4> QED  BY <1>1, <4>1 DEF ScheduledOf
    <3>2. CASE k # Len(flight')
      <4>1. k \in DOMAIN flight /\ flight'[k] = flight[k]
        BY <1>1, <2>3, <3>2 DEF FlightOf
      <4>2. status[r] # "waiting"
        BY <2>3, <4>1 DEF IInv, BatchIsLast
      <4>3. r \in ReqIds
        <5>1. flight \in Flights
          BY DEF IInv, Types, SchedulerTypes
        <5>2. Settled(flight[k])
          BY <4>1, <5>1, FlightLength
        <5> QED  BY <2>3, <4>1, <5>2, StepRows
      <4> QED  BY <1>1, <4>2, <4>3 DEF ScheduledOf
    <3> QED  BY <3>1, <3>2
  <2> QED  BY <1>2, <2>1, <2>2, <2>3 DEF BatchIsLast
<1>5. PrevRows'
  <2>1. CASE DOMAIN plan = {}
    <3>1. pc' = "execute_model" /\ ToSet(batch') = {} /\ DOMAIN prev_row' = {}
      BY <1>1, <1>2, <1>3, <2>1 DEF Same, Remembered, PlanRows
    <3> QED  BY <3>1 DEF PrevRows
  <2>2. CASE DOMAIN plan # {}
    <3>1. pc' = "correct" /\ Len(flight') > 0
      BY <1>1, <2>2 DEF Enqueued, FlightOf
    <3>2. \A r \in DOMAIN prev_row' : r \in ReqIds /\ prev_row'[r] \in BatchRows
      BY <1>1 DEF Remembered, PlanRows
    <3>3. \A i \in DOMAIN batch' :
            prev_positions'[i] = IF batch'[i] \in DOMAIN prev_row' THEN prev_row'[batch'[i]] ELSE -1
      BY <1>1, <2>2 DEF Enqueued
    <3>4. \A r \in DOMAIN deferred' \cap DOMAIN prev_row' :
            prev_num_draft'[prev_row'[r]] = deferred'[r]
      BY <1>1 DEF Remembered
    <3>5. DOMAIN deferred' \subseteq ToSet(batch')
      BY <1>1, <1>2 DEF Remembered, PlanRows
    <3> QED  BY <3>1, <3>2, <3>3, <3>4, <3>5 DEF PrevRows, BatchRows
  <2> QED  BY <2>1, <2>2
<1>6. BatchOnGpu'
  <2>1. CASE DOMAIN plan = {}
    <3>1. DOMAIN Inputs' = {} /\ DOMAIN batch' = {}
      BY <1>1, <1>3, <2>1, InputsFrame DEF Same, BatchOf
    <3> QED  BY <3>1 DEF BatchOnGpu
  <2>2. CASE DOMAIN plan # {}
    <3>1. DOMAIN Inputs' = DOMAIN batch' /\ \A i \in DOMAIN batch' : Inputs'[i].req = batch'[i]
      <4>1. Enqueued(plan)
        BY <1>1, <2>2
      <4> QED  BY <4>1, EnqueuedRows
    <3>2. DOMAIN batch' # {}
      BY <1>1, <2>2 DEF BatchOf
    <3> QED  BY <3>1, <3>2 DEF BatchOnGpu
  <2> QED  BY <2>1, <2>2
<1> QED  BY <1>4, <1>5, <1>6

LEMMA PlannedMatch ==
  ASSUME NEW plan, PlanOutcome(plan), DOMAIN plan # {}
  PROVE  /\ RowsMatch(Inputs', PlannedStep(plan), discard') /\ LastDiscard' = discard'
         /\ DOMAIN Inputs' # {} /\ ~PlannedStep(plan).done
<1> DEFINE s == PlannedStep(plan)
<1>1. StepOf(plan, s) /\ Enqueued(plan) /\ BatchOf(plan)
  BY DEF PlanOutcome
<1> HIDE DEF s
<1>2. /\ DOMAIN s.rows = DOMAIN plan /\ ~s.done
      /\ \A r \in DOMAIN plan : /\ s.rows[r].spec = plan[r].spec
                                /\ s.rows[r].samples = plan[r].samples
  BY <1>1 DEF StepOf
<1>3. /\ DOMAIN Inputs' = DOMAIN batch'
      /\ \A i \in DOMAIN batch' : /\ Inputs'[i].req = batch'[i]
                                  /\ Inputs'[i].spec = plan[batch'[i]].spec
  BY <1>1, EnqueuedRows
<1>4. /\ \A i \in DOMAIN batch' : batch'[i] \in DOMAIN plan
      /\ \A r \in DOMAIN plan : \E i \in DOMAIN batch' : batch'[i] = r
  BY <1>1 DEF BatchOf
<1>5. pc' = "correct" /\ discard' = {r \in DOMAIN plan : ~plan[r].samples}
  BY <1>1 DEF Enqueued
<1>6. LastDiscard' = discard'
  BY <1>5 DEF LastDiscard
<1> DEFINE w == Inputs'
<1>7. RowsMatch(w, s, discard') /\ DOMAIN w # {}
  <2> HIDE DEF w
  <2>1. /\ DOMAIN w = DOMAIN batch'
        /\ \A i \in DOMAIN batch' : w[i].req = batch'[i] /\ w[i].spec = plan[batch'[i]].spec
    BY <1>3 DEF w
  <2>2. DOMAIN s.rows = {w[i].req : i \in DOMAIN w}
    <3>1. {w[i].req : i \in DOMAIN w} \subseteq DOMAIN plan
      BY <1>4, <2>1
    <3>2. \A r \in DOMAIN plan : \E i \in DOMAIN w : w[i].req = r
      BY <1>4, <2>1
    <3> QED  BY <1>2, <3>1, <3>2
  <2>3. \A i \in DOMAIN w : w[i].spec = s.rows[w[i].req].spec
    BY <1>2, <1>4, <2>1
  <2>4. \A r \in DOMAIN s.rows : r \in discard' <=> ~s.rows[r].samples
    BY <1>2, <1>5
  <2>5. DOMAIN w # {}
    BY <1>4, <2>1
  <2> QED  BY <2>2, <2>3, <2>4, <2>5 DEF RowsMatch
<1> QED  BY <1>2, <1>6, <1>7 DEF s, w

LEMMA ExecutePipeline ==
  ASSUME IInv, Ready, NEW plan, PlanOutcome(plan)
  PROVE  Pipeline' /\ (DOMAIN fed # {} => FedDiscard' = FedDiscard)
<1> DEFINE s == PlannedStep(plan)
<1>1. /\ StepOf(plan, s) /\ FlightOf(plan, s) /\ Same(plan) /\ BatchOf(plan)
      /\ DOMAIN plan # {} => Enqueued(plan)
  BY DEF PlanOutcome
<1> HIDE DEF s
<1>2. /\ fed' = fed /\ pc = "execute_model" /\ DOMAIN flight = 1 .. Len(flight)
      /\ Idle \/ Runs
      /\ Runs => /\ Len(flight) = 1 /\ ~flight[1].done /\ RowsMatch(fed, flight[1], FedDiscard)
      /\ Idle => \A k \in DOMAIN flight : flight[k].done
  BY <1>1 DEF Ready, Same
<1>3. /\ flight'[Len(flight')] = s /\ DOMAIN flight' = 1 .. Len(flight')
      /\ Len(flight') = Len(flight) + 1 /\ Len(flight) \in 0 .. 1
      /\ \A k \in DOMAIN flight : k \in DOMAIN flight' /\ k # Len(flight') /\ flight'[k] = flight[k]
      /\ \A k \in DOMAIN flight' : k \in DOMAIN flight \/ k = Len(flight')
      /\ s.done <=> DOMAIN plan = {}
  BY <1>1 DEF FlightOf, StepOf
<1>4. Idle => fed = <<>> /\ Len(stream) = 0
  BY DEF Idle
<1>5. Runs => DOMAIN fed # {} /\ Len(stream) = 1 /\ stream[1].op = "sample"
  BY DEF Runs
<1>6. CASE DOMAIN plan = {}
  <2>1. /\ pc' = "execute_model" /\ stream' = stream /\ discard' = discard /\ s.done
        /\ DOMAIN batch' = {}
    BY <1>1, <1>2, <1>3, <1>6 DEF Same, BatchOf
  <2>2. FedDiscard' = FedDiscard
    BY <2>1 DEF FedDiscard
  <2>3. CASE Idle
    <3>1. \A k \in DOMAIN flight' : flight'[k].done
      BY <1>2, <1>3, <2>1, <2>3
    <3>2. fed' = <<>> /\ Len(stream') = 0
      BY <1>2, <1>4, <2>1, <2>3
    <3>3. Idle'
      BY <2>1, <3>1, <3>2 DEF Idle
    <3> QED  BY <2>2, <3>3 DEF Pipeline
  <2>4. CASE Runs
    <3>1. 1 \in DOMAIN flight /\ flight'[1] = flight[1] /\ ~flight'[1].done /\ 1 \in DOMAIN flight'
      BY <1>2, <1>3, <2>4
    <3>2. \A m \in DOMAIN flight' : m # 1 => flight'[m].done
      <4> TAKE m \in DOMAIN flight'
      <4> HAVE m # 1
      <4>1. m = Len(flight')
        BY <1>2, <1>3, <2>4
      <4> QED  BY <1>3, <2>1, <4>1
    <3>3. Only(1)'
      BY <3>1, <3>2 DEF Only
    <3>4. RowsMatch(fed', flight'[1], FedDiscard')
      BY <1>2, <2>2, <2>4, <3>1
    <3>5. DOMAIN fed' # {} /\ Len(stream') = 1 /\ stream'[1].op = "sample"
      BY <1>2, <1>5, <2>1, <2>4
    <3>6. \E k \in DOMAIN flight' :
            /\ Only(k)' /\ (k = Len(flight') \/ DOMAIN batch' = {})
            /\ RowsMatch(fed', flight'[k], FedDiscard')
      BY <2>1, <3>1, <3>3, <3>4
    <3>7. Runs'
      BY <2>1, <3>5, <3>6 DEF Runs
    <3> QED  BY <2>2, <3>7 DEF Pipeline
  <2> QED  BY <1>2, <2>3, <2>4
<1>7. CASE DOMAIN plan # {}
  <2>1. /\ pc' = "correct" /\ stream' \in Seq(Op) /\ Len(stream') = Len(stream) + 1
        /\ Runs => stream'[1] = stream[1]
        /\ stream'[Len(stream')].op = "inputs"
    BY <1>1, <1>7 DEF Enqueued
  <2>2. /\ RowsMatch(Inputs', s, LastDiscard') /\ DOMAIN Inputs' # {} /\ ~s.done
    BY <1>7, PlannedMatch DEF s
  <2>3. CASE Idle
    <3>1. Len(stream') = 1 /\ stream'[1].op = "inputs" /\ fed' = <<>>
      <4>1. Len(stream') = 1
        BY <1>4, <2>1, <2>3
      <4> QED  BY <1>2, <1>4, <2>1, <2>3, <4>1
    <3>2. Only(Len(flight))'
      <4>1. Len(flight') \in DOMAIN flight' /\ ~flight'[Len(flight')].done
        BY <1>3, <2>2
      <4>2. \A m \in DOMAIN flight' : m # Len(flight') => flight'[m].done
        BY <1>2, <1>3, <2>3
      <4> QED  BY <4>1, <4>2 DEF Only
    <3>3. RowsMatch(Inputs', flight'[Len(flight')], LastDiscard')
      BY <1>3, <2>2
    <3>4. New'
      BY <2>1, <2>2, <3>1, <3>2, <3>3 DEF New
    <3>5. ~(DOMAIN fed # {})
      BY <1>4, <2>3
    <3> QED  BY <3>4, <3>5 DEF Pipeline
  <2>4. CASE Runs
    <3>1. /\ Len(stream') = 2 /\ stream'[1] = stream[1] /\ stream'[1].op = "sample"
          /\ stream'[2].op = "inputs" /\ DOMAIN fed' # {}
      <4>1. Len(stream') = 2
        <5>1. Len(stream) = 1
          BY <1>5, <2>4
        <5>2. Len(stream') = Len(stream) + 1
          BY <2>1
        <5> QED  BY <5>1, <5>2
      <4> QED  BY <1>2, <1>5, <2>1, <2>4, <4>1
    <3>2. FedDiscard' = FedDiscard
      BY <1>5, <2>4, <3>1 DEF FedDiscard
    <3>3. /\ Len(flight') = 2 /\ flight'[1] = flight[1] /\ ~flight'[1].done
          /\ flight'[2] = s /\ ~flight'[2].done
      BY <1>2, <1>3, <2>2, <2>4
    <3>4. Both'
      BY <3>3 DEF Both
    <3>5. /\ RowsMatch(fed', flight'[1], FedDiscard')
          /\ RowsMatch(Inputs', flight'[2], LastDiscard')
      BY <1>2, <2>2, <2>4, <3>2, <3>3
    <3>6. NewNext'
      BY <2>1, <2>2, <3>1, <3>4, <3>5 DEF NewNext
    <3> QED  BY <3>2, <3>6 DEF Pipeline
  <2> QED  BY <1>2, <2>3, <2>4
<1> QED  BY <1>6, <1>7

LEMMA ExecuteCounts ==
  ASSUME IInv, Ready, NEW plan, PlanOutcome(plan)
  PROVE  KnownTokens' /\ ComputedTokens'
<1> DEFINE s == PlannedStep(plan)
<1>1. /\ StepOf(plan, s) /\ FlightOf(plan, s) /\ Same(plan) /\ PlanRows(plan)
      /\ ScheduledOf(plan) /\ CachesOf(plan) /\ EndsOf(plan) /\ CachedOf(plan)
      /\ Remembered(plan) /\ (DOMAIN plan # {} => Enqueued(plan))
  BY DEF PlanOutcome
<1> HIDE DEF s
<1>2. /\ length' = length /\ known' = known /\ DOMAIN plan \subseteq ReqIds
      /\ pc = "execute_model" /\ InputReqs = {} /\ Types
  BY <1>1 DEF Same, ScheduledOf, PlanRows, Ready
<1>3. flight \in Flights
  BY <1>2 DEF Types, SchedulerTypes
<1> SUFFICES ASSUME NEW r \in ReqIds
             PROVE  /\ Live(r)' => /\ length'[r] = known'[r] + GotIn(flight', r)
                                   /\ known'[r] < MaxModelLen /\ Prompt <= known'[r]
                                   /\ Optimistic(r)' <= MaxModelLen
                    /\ status'[r] \in {"waiting", "finished"} => known'[r] = Prompt
                    /\ Held(r)' => r \in DOMAIN requests'
                    /\ kv'[r] <= length'[r] /\ length'[r] <= MaxModelLen
                    /\ status'[r] # "running" => computed'[r] = 0
                    /\ status'[r] = "running" =>
                         /\ computed'[r] = End(r)' + LackIn(flight', r)
                         /\ computed'[r] + 1 <= Optimistic(r)'
                         /\ AwaitedIn(flight', r) > 0 => computed'[r] + 1 = Optimistic(r)'
                         /\ pc' = "execute_model" /\ r \in DOMAIN prev_row' =>
                              computed'[r] + 1 = Optimistic(r)'
                         /\ r \notin FedReqs' \cup InputReqs' => kv'[r] >= 1
  BY DEF KnownTokens, ComputedTokens
<1> DEFINE o == Optimistic(r)
           a == AwaitedIn(flight, r)
<1>4. /\ known[r] \in Nat /\ length[r] \in Nat /\ kv[r] \in Nat /\ computed[r] \in Nat
      /\ a \in Nat /\ GotIn(flight, r) \in Nat /\ LackIn(flight, r) \in Nat /\ o \in Nat
      /\ o = known[r] + a
  BY <1>2, <1>3, FlightNumbers DEF Types, SchedulerTypes, Optimistic
<1>5. /\ Live(r) => /\ length[r] = known[r] + GotIn(flight, r)
                    /\ known[r] < MaxModelLen /\ Prompt <= known[r] /\ o <= MaxModelLen
      /\ status[r] \in {"waiting", "finished"} => known[r] = Prompt
      /\ Held(r) => r \in DOMAIN requests
      /\ kv[r] <= length[r] /\ length[r] <= MaxModelLen
  BY DEF IInv, KnownTokens
<1>6. /\ status[r] # "running" => computed[r] = 0
      /\ status[r] = "running" =>
           /\ computed[r] = RunEnd(r) + LackIn(flight, r)
           /\ computed[r] + 1 <= o
           /\ a > 0 => computed[r] + 1 = o
           /\ r \notin FedReqs => kv[r] >= 1
  <2>1. RunEnd(r) \in Nat /\ End(r) = RunEnd(r) + 0
    BY <1>2, EndIsNat DEF IInv, End
  <2>2. End(r) = RunEnd(r)
    BY <2>1
  <2> QED  BY <1>2, <2>2 DEF IInv, ComputedTokens
<1>7. /\ GotIn(flight', r) = GotIn(flight, r) /\ LackIn(flight', r) = LackIn(flight, r)
      /\ AwaitedIn(flight', r) = a + Awaited(s, r)
      /\ Awaited(s, r) = IF r \in DOMAIN plan /\ plan[r].samples THEN 1 + plan[r].spec ELSE 0
  BY <1>1 DEF FlightOf, StepOf
<1>8. Optimistic(r)' = known[r] + AwaitedIn(flight', r)
  BY <1>2 DEF Optimistic
<1>9. pc' = "execute_model" => DOMAIN prev_row' = {}
  <2> HAVE pc' = "execute_model"
  <2>1. DOMAIN plan = {}
    BY <1>1 DEF Enqueued
  <2> QED  BY <1>1, <2>1 DEF Remembered, PlanRows
<1>10. FedReqs' = FedReqs /\ InputReqs' = DOMAIN plan
  BY <1>1 DEF CachesOf, EndsOf
<1>11. RunEnd(r) \in Nat
  BY EndIsNat DEF IInv
<1>12. CASE r \notin DOMAIN plan
  <2>1. \/ status'[r] = status[r] /\ computed'[r] = computed[r]
        \/ status[r] = "running" /\ status'[r] = "preempted" /\ computed'[r] = 0
    BY <1>1, <1>12 DEF ScheduledOf
  <2>2. kv'[r] = kv[r] /\ End(r)' = RunEnd(r)
    BY <1>1, <1>12 DEF CachesOf, EndsOf
  <2>3. AwaitedIn(flight', r) = a /\ Optimistic(r)' = o
    BY <1>4, <1>7, <1>8, <1>12
  <2>4. Held(r)' => r \in DOMAIN requests'
    <3> HAVE Held(r)'
    <3>1. Held(r) /\ Live(r)
      BY <2>1 DEF Held, Live
    <3>2. r \notin finished_ids
      BY <1>2, <3>1 DEF Types, SchedulerTypes
    <3> QED  BY <1>1, <1>5, <3>1, <3>2 DEF CachedOf
  <2>5. Live(r)' => Live(r)
    BY <2>1 DEF Live
  <2>6. status'[r] = "running" => status[r] = "running" /\ computed'[r] = computed[r]
    BY <2>1
  <2>7. /\ status'[r] \in {"waiting", "finished"} => known'[r] = Prompt
        /\ status'[r] # "running" => computed'[r] = 0
    BY <1>2, <1>5, <1>6, <2>1
  <2>8. r \notin FedReqs' \cup InputReqs' => r \notin FedReqs
    BY <1>10
  <2> HIDE DEF o, a
  <2> QED  BY <1>2, <1>5, <1>6, <1>7, <1>9, <2>2, <2>3, <2>4, <2>5, <2>6, <2>7, <2>8
<1>13. CASE r \in DOMAIN plan
  <2> DEFINE w == plan[r]
  <2>1. PlanRow(r, w) /\ status'[r] = "running" /\ computed'[r] = w.start + w.n
    BY <1>1, <1>13 DEF PlanRows, ScheduledOf
  <2>2. /\ w.start \in Nat /\ w.n \in Nat /\ w.spec \in Nat /\ w.samples \in BOOLEAN
        /\ w.samples <=> ~(w.start + w.n < o)
        /\ w.samples => w.start + w.n = o + w.spec
        /\ w.samples => w.start + w.n + 1 <= MaxModelLen
        /\ Live(r)
    BY <2>1, Numbers DEF PlanRow, Live
  <2>3. r \in DOMAIN requests'
    BY <1>1, <1>13 DEF CachedOf
  <2>4. /\ w.samples => AwaitedIn(flight', r) = a + 1 + w.spec /\ Optimistic(r)' = o + 1 + w.spec
        /\ ~w.samples => AwaitedIn(flight', r) = a /\ Optimistic(r)' = o
    <3>1. Awaited(s, r) = IF w.samples THEN 1 + w.spec ELSE 0
      BY <1>7, <1>13
    <3> HIDE DEF w, o, a
    <3> QED  BY <1>4, <1>7, <1>8, <2>2, <3>1
  <2>5. r \in InputReqs'
    BY <1>10, <1>13
  <2>6. r \in Stays(plan) \/ r \notin Stays(plan)
    OBVIOUS
  <2>7. CASE r \in Stays(plan)
    <3>1. StaysRow(r, w) /\ status[r] = "running"
      BY <1>1, <2>7 DEF PlanRows
    <3>2. w.start = computed[r] /\ (a > 0 => w.samples)
      BY <3>1 DEF StaysRow
    <3>3. kv'[r] = kv[r] /\ End(r)' = RunEnd(r) + w.n
      BY <1>1, <2>7 DEF CachesOf, EndsOf
    <3> HIDE DEF w, o, a
    <3>4. computed'[r] = End(r)' + LackIn(flight', r)
      BY <1>4, <1>6, <1>7, <1>11, <2>1, <2>2, <3>1, <3>2, <3>3
    <3>5. /\ computed'[r] + 1 <= Optimistic(r)'
          /\ AwaitedIn(flight', r) > 0 => computed'[r] + 1 = Optimistic(r)'
          /\ Optimistic(r)' <= MaxModelLen
      <4>1. CASE w.samples
        BY <1>4, <1>5, <2>1, <2>2, <2>4, <4>1
      <4>2. CASE ~w.samples
        BY <1>4, <1>5, <2>1, <2>2, <2>4, <3>2, <4>2
      <4> QED  BY <2>2, <4>1, <4>2
    <3> QED  BY <1>2, <1>5, <1>7, <1>9, <2>1, <2>2, <2>3, <2>5, <3>3, <3>4, <3>5
  <2>8. CASE r \notin Stays(plan)
    <3>1. AloneRow(r, w)
      BY <1>1, <1>13, <2>8 DEF PlanRows
    <3>2. a = 0 /\ LackIn(flight, r) = 0 /\ w.start + w.n <= length[r]
      BY <3>1 DEF AloneRow
    <3>3. kv'[r] = w.start /\ End(r)' = w.start + w.n
      BY <1>1, <1>13, <2>8 DEF CachesOf, EndsOf
    <3> HIDE DEF w, o, a
    <3>4. computed'[r] = End(r)' + LackIn(flight', r)
      BY <1>4, <1>7, <2>1, <2>2, <3>2, <3>3
    <3>5. /\ computed'[r] + 1 <= Optimistic(r)'
          /\ AwaitedIn(flight', r) > 0 => computed'[r] + 1 = Optimistic(r)'
          /\ Optimistic(r)' <= MaxModelLen
      <4>1. CASE w.samples
        BY <1>4, <1>5, <2>1, <2>2, <2>4, <4>1
      <4>2. CASE ~w.samples
        BY <1>4, <1>5, <2>1, <2>2, <2>4, <3>2, <4>2
      <4> QED  BY <2>2, <4>1, <4>2
    <3>6. kv'[r] <= length[r]
      BY <1>4, <2>2, <3>2, <3>3
    <3> QED  BY <1>2, <1>5, <1>7, <1>9, <2>1, <2>2, <2>3, <2>5, <3>4, <3>5, <3>6
  <2> QED  BY <2>6, <2>7, <2>8
<1> QED  BY <1>12, <1>13

LEMMA ExecuteRows ==
  ASSUME IInv, Ready, NEW plan, PlanOutcome(plan)
  PROVE  FedRows' /\ InputsAreTheSequence' /\ LastSampled' /\ DiscardsWhatIsNotExpected'
<1> DEFINE s == PlannedStep(plan)
<1>1. /\ StepOf(plan, s) /\ FlightOf(plan, s) /\ Same(plan) /\ BatchOf(plan)
      /\ CachesOf(plan) /\ Remembered(plan) /\ PlanRows(plan)
      /\ DOMAIN plan # {} => Enqueued(plan)
  BY DEF PlanOutcome
<1> HIDE DEF s
<1>2. fed' = fed /\ length' = length /\ sampled' = sampled /\ pc = "execute_model"
  BY <1>1 DEF Same, Ready
<1>3. FedRows'
  <2>1. GpuTypes /\ FedRows
    BY DEF IInv, Types
  <2>2. ASSUME NEW i \in DOMAIN fed
        PROVE  kv'[fed[i].req] = kv[fed[i].req] /\ FedDiscard' = FedDiscard
    <3>1. fed[i].req \in FedReqs
      BY <2>1, FedFacts
    <3>2. FedDiscard' = FedDiscard
      BY ExecutePipeline
    <3> QED  BY <1>1, <3>1, <3>2 DEF CachesOf
  <2>3. \A x : FedEnd(x)' = FedEnd(x)
    BY <1>2, FedFrame
  <2>4. SUFFICES ASSUME NEW i \in DOMAIN fed
                 PROVE  LET f == fed[i] IN
                        /\ f.start = kv'[f.req]
                        /\ IF f.req \in FedDiscard'
                           THEN FedEnd(i)' <= length[f.req] /\ f.spec = 0
                           ELSE /\ FedEnd(i)' = length[f.req] + f.spec
                                /\ length[f.req] + f.spec + 1 <= MaxModelLen
                                /\ Tight(Len(f.ids), f.spec)
    BY <1>2 DEF FedRows
  <2>5. FedEnd(i)' = FedEnd(i)
    BY <2>3
  <2> QED  BY <2>1, <2>2, <2>5 DEF FedRows
<1>4. InputsAreTheSequence'
  BY <1>2 DEF IInv, InputsAreTheSequence
<1>5. LastSampled'
  <2>1. CASE DOMAIN plan = {}
    <3>1. DOMAIN prev_row' = {}
      BY <1>1, <2>1 DEF Remembered, PlanRows
    <3> QED  BY <3>1 DEF LastSampled
  <2>2. CASE DOMAIN plan # {}
    BY <1>1, <2>2 DEF Enqueued, LastSampled
  <2> QED  BY <2>1, <2>2
<1>6. DiscardsWhatIsNotExpected'
  <2>1. CASE DOMAIN plan = {}
    BY <1>1, <1>2, <2>1 DEF Same, DiscardsWhatIsNotExpected
  <2>2. CASE DOMAIN plan # {}
    <3>1. discard' = {r \in DOMAIN plan : ~plan[r].samples}
      BY <1>1, <2>2 DEF Enqueued
    <3>2. ToSet(batch') = DOMAIN plan /\ Last(flight') = s
      BY <1>1 DEF BatchOf, FlightOf
    <3>3. \A r \in DOMAIN plan : s.rows[r].samples = plan[r].samples
      BY <1>1 DEF StepOf
    <3>4. discard' = {r \in ToSet(batch') : ~Last(flight').rows[r].samples}
      BY <3>1, <3>2, <3>3
    <3> QED  BY <3>4 DEF DiscardsWhatIsNotExpected
  <2> QED  BY <2>1, <2>2
<1> QED  BY <1>3, <1>4, <1>5, <1>6

LEMMA ExecuteOutputs ==
  ASSUME IInv, Ready, NEW plan, PlanOutcome(plan)
  PROVE  OutputsAhead'
<1> DEFINE s == PlannedStep(plan)
<1>1. /\ StepOf(plan, s) /\ FlightOf(plan, s) /\ Same(plan) /\ PlanRows(plan)
      /\ ScheduledOf(plan) /\ CachedOf(plan) /\ BatchOf(plan)
      /\ DOMAIN plan # {} => Enqueued(plan)
  BY DEF PlanOutcome
<1> HIDE DEF s
<1>2. ToSet(batch') = DOMAIN plan /\ known' = known /\ LastStep' = s /\ pc = "execute_model"
      /\ DOMAIN plan \subseteq ReqIds
  BY <1>1 DEF BatchOf, ScheduledOf, FlightOf, Ready, PlanRows
<1>3. pc' # "execute_model" \/ DOMAIN plan = {}
  BY <1>1 DEF Enqueued
<1>4. ASSUME NEW r \in DOMAIN plan
      PROVE  /\ Prompt + requests'[r].outputs <= MaxModelLen
             /\ row'[r].tokens <= Prompt + requests'[r].outputs
             /\ row'[r].real <= MaxModelLen
             /\ status'[r] = "running"
             /\ Prompt + requests'[r].outputs + Awaited(s, r) = Optimistic(r)'
             /\ ~Samples(s, r) => row'[r].real = known[r] /\ AwaitedIn(flight', r) = 0
  <2> DEFINE w == plan[r]
             o == Optimistic(r)
             a == AwaitedIn(flight, r)
  <2>1. PlanRow(r, w) /\ UpdatedRow(plan, r)
    BY <1>1 DEF PlanRows, CachedOf
  <2>2. /\ w.outputs \in Nat /\ o \in Nat /\ o = Prompt + w.outputs /\ w.samples \in BOOLEAN
        /\ w.spec \in Nat /\ Live(r)
    BY <2>1, Numbers DEF PlanRow, Live
  <2>3. /\ requests'[r].outputs = w.outputs /\ row'[r].tokens <= Prompt + w.outputs
        /\ row'[r].real = IF r \in Stays(plan) THEN row[r].real ELSE Prompt + w.outputs
    BY <2>1 DEF UpdatedRow
  <2>4. o <= MaxModelLen
    BY <1>2, <2>2 DEF IInv, KnownTokens
  <2>5. /\ AwaitedIn(flight', r) = a + Awaited(s, r)
        /\ Awaited(s, r) = IF w.samples THEN 1 + w.spec ELSE 0
        /\ Samples(s, r) <=> w.samples
    BY <1>1 DEF FlightOf, StepOf
  <2>6. a \in Nat /\ known[r] \in Nat /\ o = known[r] + a
    <3>1. SchedulerTypes
      BY DEF IInv, Types
    <3>2. flight \in Flights /\ known[r] \in Nat
      BY <1>2, <3>1 DEF SchedulerTypes
    <3> QED  BY <3>2, FlightNumbers DEF Optimistic
  <2>7. Optimistic(r)' = known[r] + AwaitedIn(flight', r)
    BY <1>2 DEF Optimistic
  <2>8. status'[r] = "running"
    BY <1>1 DEF ScheduledOf
  <2>9. /\ row'[r].real <= MaxModelLen
        /\ ~w.samples => row'[r].real = known[r] /\ a = 0
    <3>1. CASE r \in Stays(plan)
      <4>1. StaysRow(r, w) /\ status[r] = "running" /\ r \in ToSet(batch)
        BY <1>1, <3>1 DEF PlanRows
      <4>2. row[r].real <= MaxModelLen
        BY <4>1 DEF IInv, OutputsAhead
      <4>3. r \notin DOMAIN prev_row => row[r].real = known[r] /\ a = 0
        BY <1>2, <4>1 DEF IInv, OutputsAhead
      <4>4. ~w.samples => r \notin DOMAIN prev_row
        BY <4>1 DEF StaysRow
      <4> QED  BY <2>3, <3>1, <4>2, <4>3, <4>4
    <3>2. CASE r \notin Stays(plan)
      <4>1. AloneRow(r, w)
        BY <1>1, <3>2 DEF PlanRows
      <4>2. a = 0 /\ known[r] = o
        BY <4>1 DEF AloneRow
      <4> QED  BY <2>2, <2>3, <2>4, <3>2, <4>2
    <3> QED  BY <3>1, <3>2
  <2> HIDE DEF w, o, a
  <2>10. Prompt + requests'[r].outputs + Awaited(s, r) = Optimistic(r)'
    <3>1. CASE w.samples
      BY <2>2, <2>3, <2>5, <2>6, <2>7, <3>1, Numbers
    <3>2. CASE ~w.samples
      BY <2>2, <2>3, <2>5, <2>6, <2>7, <3>2, Numbers
    <3> QED  BY <3>1, <3>2
  <2>11. ~Samples(s, r) => AwaitedIn(flight', r) = 0 /\ row'[r].real = known[r]
    <3> HAVE ~Samples(s, r)
    <3>1. ~w.samples
      BY <2>5
    <3>2. Awaited(s, r) = 0
      BY <2>5, <3>1
    <3> QED  BY <2>5, <2>9, <3>1, <3>2
  <2>12. /\ Prompt + requests'[r].outputs <= MaxModelLen
         /\ row'[r].tokens <= Prompt + requests'[r].outputs
    BY <2>2, <2>3, <2>4
  <2> QED  BY <2>8, <2>9, <2>10, <2>11, <2>12
<1>5. CASE DOMAIN plan = {}
  BY <1>2, <1>5 DEF OutputsAhead
<1>6. CASE DOMAIN plan # {}
  <2>1. pc' # "execute_model"
    BY <1>3, <1>6
  <2> QED  BY <1>2, <1>4, <2>1 DEF OutputsAhead
<1> QED  BY <1>5, <1>6

-----------------------------------------------------------------------------
(* The rows of the inputs that were enqueued.                              *)
InputOf(plan, r, w) ==
  /\ w.req = r /\ w.n = plan[r].n /\ w.spec = plan[r].spec /\ w.at = plan[r].start
  /\ w.real = row'[r].real
  /\ w.prev = IF r \in DOMAIN prev_row' THEN prev_row'[r] ELSE -1
FreshThen(w) ==
  LET r == w.req IN
  /\ w.prev = -1 /\ w.spec = 0
  /\ row'[r].computed = w.at /\ w.at + w.n <= w.real /\ w.real <= length[r]
  /\ r \notin LastDiscard' => w.at + w.n = length[r] /\ length[r] < MaxModelLen
  /\ r \notin FedReqs => kv'[r] = w.at
  /\ r \in FedReqs => r \in FedDiscard' /\ w.at = FedEnd(FedAt(r))
SampledThen(w) ==
  LET r == w.req
      s == sampled[w.prev]
  IN /\ s.req = r /\ s.last = length[r] - 1 /\ kv'[r] = length[r] - 1
     /\ length[r] + w.spec + 1 <= MaxModelLen
     /\ IF prev_num_draft'[w.prev] > 0 THEN s.start + s.count = kv'[r]
        ELSE row'[r].computed = kv'[r]
RunningThen(w) ==
  LET r == w.req
      f == fed[w.prev]
  IN /\ w.prev \in DOMAIN fed /\ f.req = r /\ r \notin FedDiscard'
     /\ length[r] + f.spec + 1 + w.spec + 1 <= MaxModelLen
     /\ IF prev_num_draft'[w.prev] > 0 THEN Len(f.ids) = f.spec + 1
        ELSE f.spec = 0 /\ row'[r].computed = FedEnd(w.prev)
RowThen(w) ==
  \/ FreshThen(w)
  \/ /\ w.prev \in BatchRows /\ w.prev > 0 /\ w.req \notin LastDiscard'
     /\ w.n = w.spec + 1
     /\ DOMAIN fed = {} => SampledThen(w)
     /\ DOMAIN fed # {} => RunningThen(w)

LEMMA RowsThen ==
  ASSUME UNCHANGED <<fed, length, sampled>>, NEW rows, Inputs' = rows,
         \A i \in DOMAIN rows : rows[i].prev = prev_positions'[i] /\ RowThen(rows[i])
  PROVE  InputRows'
<1>1. FedReqs' = FedReqs /\ \A x : FedAt(x)' = FedAt(x) /\ FedEnd(x)' = FedEnd(x)
  BY FedFrame
<1> SUFFICES ASSUME NEW i \in DOMAIN rows
             PROVE  LET w == rows[i] IN
                    /\ w.prev = prev_positions'[i]
                    /\ \/ FreshRow(w)'
                       \/ /\ w.prev \in BatchRows' /\ w.prev > 0 /\ w.req \notin LastDiscard'
                          /\ w.n = w.spec + 1
                          /\ DOMAIN fed' = {} => RowOfSampled(w)'
                          /\ DOMAIN fed' # {} => RowOfRunning(w)'
  BY Zenon DEF InputRows
<1>2. FreshThen(rows[i]) => FreshRow(rows[i])'
  BY <1>1 DEF FreshThen, FreshRow
<1>3. SampledThen(rows[i]) => RowOfSampled(rows[i])'
  BY DEF SampledThen, RowOfSampled
<1>4. RunningThen(rows[i]) => RowOfRunning(rows[i])'
  BY <1>1 DEF RunningThen, RowOfRunning
<1> QED  BY <1>2, <1>3, <1>4 DEF RowThen, BatchRows

(* A request whose row is not that of a sampled token knows its tokens.    *)
LEMMA FreshInput ==
  ASSUME IInv, Ready, NEW plan, PlanOutcome(plan), NEW r \in DOMAIN plan,
         r \notin Stays(plan) \/ r \notin DOMAIN prev_row,
         NEW w, InputOf(plan, r, w)
  PROVE  FreshThen(w)
<1> DEFINE p == plan[r]
           o == Optimistic(r)
<1>1. /\ PlanRows(plan) /\ CachesOf(plan) /\ CachedOf(plan) /\ Remembered(plan)
      /\ Enqueued(plan)
  BY DEF PlanOutcome
<1>2. PlanRow(r, p) /\ UpdatedRow(plan, r) /\ r \in ReqIds
  BY <1>1 DEF PlanRows, CachedOf
<1>3. r \notin DOMAIN prev_row'
  BY <1>1 DEF Remembered
<1>4. /\ w.req = r /\ w.n = p.n /\ w.spec = p.spec /\ w.at = p.start /\ w.real = row'[r].real
      /\ w.prev = -1
  BY <1>3 DEF InputOf
<1>5. /\ p.start \in Nat /\ p.n \in Nat /\ p.spec \in Nat /\ p.samples \in BOOLEAN
      /\ o \in Nat /\ o = Prompt + p.outputs
      /\ p.samples <=> ~(p.start + p.n < o)
      /\ p.samples => p.start + p.n = o + p.spec
  BY <1>2, Numbers DEF PlanRow
<1>6. /\ row'[r].computed = p.start
      /\ row'[r].real = IF r \in Stays(plan) THEN row[r].real ELSE Prompt + p.outputs
  BY <1>2 DEF UpdatedRow
<1>7. r \notin LastDiscard' => p.samples
  <2>1. LastDiscard' = discard' /\ discard' = {q \in DOMAIN plan : ~plan[q].samples}
    BY <1>1, PlannedMatch DEF Enqueued
  <2> QED  BY <2>1
<1>8. CASE r \notin Stays(plan)
  <2>1. AloneRow(r, p)
    BY <1>1, <1>8 DEF PlanRows
  <2>2. /\ r \notin FedReqs /\ p.spec = 0 /\ known[r] = o /\ length[r] = known[r]
        /\ p.start + p.n <= length[r] /\ length[r] < MaxModelLen
    BY <2>1 DEF AloneRow
  <2>3. kv'[r] = p.start
    BY <1>1, <1>8 DEF CachesOf
  <2>4. w.real = o
    BY <1>4, <1>5, <1>6, <1>8
  <2>5. p.samples => p.start + p.n = length[r]
    BY <1>5, <2>2
  <2>6. p.start + p.n <= w.real /\ w.real <= length[r]
    BY <1>5, <2>2, <2>4
  <2> HIDE DEF p, o
  <2> QED  BY <1>4, <1>6, <1>7, <2>2, <2>3, <2>5, <2>6 DEF FreshThen
<1>9. CASE r \in Stays(plan)
  <2>1. StaysRow(r, p) /\ status[r] = "running" /\ r \in ToSet(batch) /\ r \notin DOMAIN prev_row
    BY <1>1, <1>9 DEF PlanRows
  <2>2. Standing(r)
    BY <2>1, Stands
  <2>3. /\ row[r].real = known[r] /\ AwaitedIn(flight, r) = 0 /\ known[r] \in Nat
        /\ o = known[r] + AwaitedIn(flight, r) /\ known[r] < MaxModelLen /\ kv[r] \in Nat
        /\ computed[r] = RunEnd(r) + LackIn(flight, r) /\ RunEnd(r) \in Nat
    BY <2>1, <2>2 DEF Standing
  <2>4. p.start = computed[r] /\ ~(p.spec > 0)
    BY <2>1 DEF StaysRow
  <2>5. p.spec = 0
    BY <1>5, <2>4
  <2>6. kv'[r] = kv[r]
    BY <1>1, <1>2, <1>9 DEF CachesOf
  <2>7. o = known[r] /\ w.real = known[r]
    BY <1>4, <1>6, <1>9, <2>3
  <2>8. /\ length[r] = known[r] /\ LackIn(flight, r) = 0
        /\ r \notin FedReqs => RunEnd(r) = kv[r]
        /\ r \in FedReqs => r \in FedDiscard' /\ RunEnd(r) = FedEnd(FedAt(r))
    <3>1. CASE Idle
      <4>1. IdleRow(r)
        BY <2>1, <3>1, StandsIdle
      <4> QED  BY <2>1, <4>1 DEF IdleRow
    <3>2. CASE Runs
      <4>1. RunsRow(r)
        BY <2>1, <3>2, StandsRuns
      <4>2. FedDiscard' = FedDiscard
        BY <3>2, ExecutePipeline DEF Runs
      <4> QED  BY <2>1, <4>1, <4>2 DEF RunsRow
    <3> QED  BY <3>1, <3>2 DEF Ready
  <2>9. p.start = RunEnd(r)
    BY <2>3, <2>4, <2>8
  <2>10. p.start + p.n <= w.real /\ w.real <= length[r]
         /\ (p.samples => p.start + p.n = length[r] /\ length[r] < MaxModelLen)
    <3> HIDE DEF p, o
    <3>1. CASE p.samples
      BY <1>5, <2>3, <2>5, <2>7, <2>8, <3>1
    <3>2. CASE ~p.samples
      BY <1>5, <2>3, <2>5, <2>7, <2>8, <3>2
    <3> QED  BY <1>5, <3>1, <3>2
  <2> HIDE DEF p, o
  <2> QED  BY <1>4, <1>6, <1>7, <2>5, <2>6, <2>8, <2>9, <2>10 DEF FreshThen
<1> QED  BY <1>8, <1>9

(* The others take them from the step that ran, or that runs.              *)
LEMMA TakenInput ==
  ASSUME IInv, Ready, NEW plan, PlanOutcome(plan), NEW r \in Stays(plan), r \in DOMAIN prev_row,
         NEW w, InputOf(plan, r, w)
  PROVE  /\ w.prev \in BatchRows /\ w.prev > 0 /\ w.req \notin LastDiscard'
         /\ w.n = w.spec + 1
         /\ DOMAIN fed = {} => SampledThen(w)
         /\ DOMAIN fed # {} => RunningThen(w)
<1> DEFINE p == plan[r]
           o == Optimistic(r)
           d == requests[r].drafts
<1>1. /\ PlanRows(plan) /\ CachesOf(plan) /\ CachedOf(plan) /\ Remembered(plan)
      /\ r \in DOMAIN plan /\ Enqueued(plan)
  BY DEF PlanOutcome, PlanRows
<1>2. PlanRow(r, p) /\ UpdatedRow(plan, r) /\ r \in ReqIds /\ StaysRow(r, p)
      /\ status[r] = "running" /\ r \in ToSet(batch)
  BY <1>1 DEF PlanRows, CachedOf
<1>3. /\ r \in DOMAIN prev_row' /\ prev_row'[r] = prev_row[r] /\ prev_row[r] \in BatchRows
      /\ prev_row[r] > 0 /\ prev_num_draft'[prev_row[r]] = d
  BY <1>1 DEF Remembered
<1>4. /\ w.req = r /\ w.n = p.n /\ w.spec = p.spec /\ w.prev = prev_row[r]
  BY <1>3 DEF InputOf
<1>5. /\ p.start \in Nat /\ p.n \in Nat /\ p.spec \in Nat /\ p.samples \in BOOLEAN
      /\ o \in Nat
      /\ p.samples => p.start + p.n + 1 <= MaxModelLen
  BY <1>2, Numbers DEF PlanRow
<1>6. p.n = p.spec + 1 /\ p.samples /\ p.start = computed[r]
  BY <1>2 DEF StaysRow
<1>7. row'[r].computed = p.start /\ kv'[r] = kv[r]
  BY <1>1, <1>2 DEF UpdatedRow, CachesOf
<1>8. r \notin LastDiscard'
  <2>1. LastDiscard' = discard' /\ discard' = {q \in DOMAIN plan : ~plan[q].samples}
    BY <1>1, PlannedMatch DEF Enqueued
  <2> QED  BY <1>6, <2>1
<1>9. Standing(r)
  BY <1>2, Stands
<1>10. /\ length[r] \in Nat /\ kv[r] \in Nat /\ computed[r] \in Nat /\ d \in Nat
       /\ RunEnd(r) \in Nat /\ LackIn(flight, r) \in Nat
       /\ computed[r] = RunEnd(r) + LackIn(flight, r) /\ computed[r] + 1 = o
  BY <1>9 DEF Standing
<1> HIDE DEF p, o, d
<1>11. o + p.spec + 1 <= MaxModelLen
  BY <1>5, <1>6, <1>10
<1>12. ASSUME DOMAIN fed = {} PROVE SampledThen(w)
  <2>1. Idle
    BY <1>12 DEF Ready, Runs
  <2>2. IdleRow(r)
    BY <1>2, <2>1, StandsIdle
  <2>3. RunEnd(r) = kv[r] /\ length[r] <= o /\ (d = 0 => LackIn(flight, r) = 0)
    BY <2>2 DEF IdleRow, o, d
  <2>4. Len(stream) = 0 /\ pc = "execute_model"
    BY <2>1 DEF Idle
  <2>5. /\ sampled[prev_row[r]].req = r /\ sampled[prev_row[r]].last = length[r] - 1
        /\ kv[r] = length[r] - 1
        /\ d > 0 => sampled[prev_row[r]].start + sampled[prev_row[r]].count = kv[r]
    BY <2>4 DEF IInv, LastSampled, d
  <2>6. length[r] + w.spec + 1 <= MaxModelLen
    BY <1>4, <1>5, <1>10, <1>11, <2>3, Numbers
  <2>7. d = 0 => row'[r].computed = kv'[r]
    BY <1>6, <1>7, <1>10, <2>3
  <2>8. d > 0 \/ d = 0
    BY <1>10
  <2> QED  BY <1>3, <1>4, <1>7, <2>5, <2>6, <2>7, <2>8 DEF SampledThen
<1>13. ASSUME DOMAIN fed # {} PROVE RunningThen(w)
  <2>1. Runs
    BY <1>13 DEF Ready, Idle
  <2>2. RunsRow(r)
    BY <1>2, <2>1, StandsRuns
  <2>3. /\ r \in FedReqs /\ LackIn(flight, r) = 0 /\ FedAt(r) \in DOMAIN fed
        /\ RunEnd(r) = FedEnd(FedAt(r)) /\ fed[FedAt(r)].req = r /\ fed[FedAt(r)].spec = d
        /\ r \notin FedDiscard /\ prev_row[r] = FedAt(r) /\ o = length[r] + d + 1
    BY <2>2 DEF RunsRow, o, d
  <2>4. FedDiscard' = FedDiscard
    BY <1>13, ExecutePipeline
  <2>5. Tight(Len(fed[FedAt(r)].ids), d)
    BY <2>3 DEF IInv, FedRows
  <2>6. length[r] + d + 1 + w.spec + 1 <= MaxModelLen
    BY <1>4, <1>5, <1>10, <1>11, <2>3, Numbers
  <2>7. d > 0 => Len(fed[FedAt(r)].ids) = d + 1
    BY <2>5 DEF Tight
  <2>8. row'[r].computed = FedEnd(FedAt(r))
    BY <1>6, <1>7, <1>10, <2>3
  <2>9. d > 0 \/ d = 0
    BY <1>10
  <2> QED  BY <1>3, <1>4, <2>3, <2>4, <2>6, <2>7, <2>8, <2>9 DEF RunningThen
<1> QED  BY <1>3, <1>4, <1>6, <1>8, <1>12, <1>13

LEMMA ExecuteInputs ==
  ASSUME IInv, Ready, NEW plan, PlanOutcome(plan)
  PROVE  InputRows'
<1>1. /\ Same(plan) /\ BatchOf(plan) /\ PlanRows(plan) /\ (DOMAIN plan # {} => Enqueued(plan))
  BY DEF PlanOutcome
<1>2. CASE DOMAIN plan = {}
  <2>1. DOMAIN Inputs' = {}
    <3>1. stream' = stream
      BY <1>1, <1>2 DEF Same
    <3> QED  BY <3>1, InputsFrame DEF Ready
  <2> QED  BY <2>1 DEF InputRows
<1>3. CASE DOMAIN plan # {}
  <2>1. Enqueued(plan)
    BY <1>1, <1>3
  <2>2. \A i \in DOMAIN batch' : InputOf(plan, batch'[i], Inputs'[i])
    <3>1. \A i \in DOMAIN batch' :
            prev_positions'[i] = IF batch'[i] \in DOMAIN prev_row' THEN prev_row'[batch'[i]] ELSE -1
      BY <2>1 DEF Enqueued
    <3> QED  BY <2>1, <3>1, EnqueuedRows DEF InputOf
  <2>3. \A i \in DOMAIN batch' : RowThen(Inputs'[i])
    <3> TAKE i \in DOMAIN batch'
    <3>1. batch'[i] \in DOMAIN plan
      BY <1>1 DEF BatchOf
    <3> DEFINE r == batch'[i]
               w == Inputs'[i]
    <3>2. r \in DOMAIN plan /\ InputOf(plan, r, w)
      BY <2>2, <3>1
    <3> HIDE DEF r, w
    <3>3. CASE r \in Stays(plan) /\ r \in DOMAIN prev_row
      <4>1. /\ w.prev \in BatchRows /\ w.prev > 0 /\ w.req \notin LastDiscard'
            /\ w.n = w.spec + 1
            /\ DOMAIN fed = {} => SampledThen(w)
            /\ DOMAIN fed # {} => RunningThen(w)
        BY <3>2, <3>3, TakenInput
      <4> QED  BY <4>1 DEF RowThen, w
    <3>4. CASE ~(r \in Stays(plan) /\ r \in DOMAIN prev_row)
      <4>1. FreshThen(w)
        BY <3>2, <3>4, FreshInput
      <4> QED  BY <4>1 DEF RowThen, w
    <3> QED  BY <3>3, <3>4
  <2>4. \A i \in DOMAIN Inputs' : Inputs'[i].prev = prev_positions'[i] /\ RowThen(Inputs'[i])
    BY <2>1, <2>3, EnqueuedRows
  <2>5. UNCHANGED <<fed, length, sampled>>
    BY <1>1 DEF Same
  <2> DEFINE rows == Inputs'
  <2>6. /\ Inputs' = rows
        /\ \A i \in DOMAIN rows : rows[i].prev = prev_positions'[i] /\ RowThen(rows[i])
    BY <2>4
  <2> HIDE DEF rows
  <2> QED  BY <2>5, <2>6, RowsThen
<1> QED  BY <1>2, <1>3

(* What is left to correct.                                                *)
LEMMA ExecuteCorrections ==
  ASSUME IInv, Ready, NEW plan, PlanOutcome(plan)
  PROVE  Corrections'
<1>1. /\ Same(plan) /\ BatchOf(plan) /\ PlanRows(plan) /\ CachedOf(plan) /\ CachesOf(plan)
      /\ Remembered(plan) /\ (DOMAIN plan # {} => Enqueued(plan)) /\ GpuTypes
      /\ FlightOf(plan, PlannedStep(plan))
  BY DEF PlanOutcome, IInv, Types
<1>2. fed' = fed /\ sampled' = sampled /\ pc = "execute_model"
  BY <1>1 DEF Same, Ready
<1>3. CASE DOMAIN plan = {}
  BY <1>1, <1>2, <1>3 DEF Same, Corrections
<1>4. CASE DOMAIN plan # {}
  <2>1. Enqueued(plan) /\ pc' = "correct"
    BY <1>1, <1>4 DEF Enqueued
  <2>2. DOMAIN deferred' \subseteq DOMAIN prev_row' /\ ToSet(batch') = DOMAIN plan
    BY <1>1 DEF Remembered, BatchOf
  <2>3. Idle => ~Pending("sample")'
    <3> HAVE Idle
    <3>1. /\ stream' \in Seq(Op) /\ Len(stream') = 1 /\ stream'[1].op = "inputs"
      <4>1. /\ Len(stream) = 0 /\ stream' \in Seq(Op) /\ Len(stream') = Len(stream) + 1
            /\ stream'[Len(stream')].op = "inputs"
        BY <2>1 DEF Enqueued
      <4>2. Len(stream') = 1
        BY <4>1
      <4> QED  BY <4>1, <4>2
    <3>2. DOMAIN stream' = {1}
      BY <3>1
    <3> QED  BY <3>1, <3>2 DEF Pending
  <2>4. Runs => Pending("sample")'
    <3> HAVE Runs
    <3>1. /\ Len(stream) = 1 /\ stream'[1] = stream[1] /\ stream[1].op = "sample"
          /\ stream' \in Seq(Op) /\ Len(stream') = Len(stream) + 1
      BY <2>1 DEF Enqueued
    <3>2. 1 \in DOMAIN stream' /\ stream'[1].op = "sample"
      <4>1. Len(stream') = 2
        BY <3>1
      <4> QED  BY <3>1, <4>1
    <3> QED  BY <3>2 DEF Pending
  <2>5. ASSUME Len(flight') = 2, NEW r \in DOMAIN plan
        PROVE  /\ requests'[r].computed = row'[r].computed
               /\ CpuCount(r, row[r].computed)'
    <3> DEFINE p == plan[r]
               d == requests[r].drafts
    <3>1. PlanRow(r, p) /\ UpdatedRow(plan, r) /\ r \in ReqIds
      BY <1>1 DEF PlanRows, CachedOf
    <3>2. requests'[r].computed = p.start /\ row'[r].computed = p.start /\ p.start \in Nat
      BY <3>1 DEF UpdatedRow, PlanRow
    <3>3. Len(flight) = 1
      <4>1. Len(flight') = Len(flight) + 1 /\ Len(flight) \in 0 .. 1
        BY <1>1 DEF FlightOf
      <4> QED  BY <2>5, <4>1
    <3>4. /\ FedReqs' = FedReqs /\ FedAt(r)' = FedAt(r) /\ FedEnd(FedAt(r))' = FedEnd(FedAt(r))
      BY <1>2 DEF FedReqs, FedAt, FedEnd
    <3>5. kv' \in [ReqIds -> Nat] /\ kv'[r] \in Nat
      BY <1>1, <3>1 DEF CachesOf
    <3>6. CASE r \notin Stays(plan)
      <4>1. r \notin FedReqs /\ kv'[r] = p.start
        BY <1>1, <3>6 DEF CachesOf
      <4>2. Due(r)' = 0
        <5>1. r \notin DOMAIN deferred'
          BY <1>1, <3>6 DEF Remembered
        <5> QED  BY <5>1 DEF Due
      <4>3. row'[r].computed = kv'[r] + 0
        BY <3>2, <3>5, <4>1
      <4>4. CpuCount(r, row[r].computed)'
        BY <3>4, <3>2, <4>1, <4>2, <4>3 DEF CpuCount
      <4> QED  BY <3>2, <4>4
    <3>7. CASE r \in Stays(plan)
      <4>1. StaysRow(r, p) /\ status[r] = "running" /\ r \in ToSet(batch) /\ kv'[r] = kv[r]
        BY <1>1, <3>1, <3>7 DEF PlanRows, CachesOf
      <4>2. Standing(r)
        BY <4>1, Stands
      <4>3. /\ p.start = computed[r] /\ d \in Nat /\ kv[r] \in Nat /\ RunEnd(r) \in Nat
            /\ computed[r] = RunEnd(r) + LackIn(flight, r)
            /\ d > 0 => r \in DOMAIN prev_row
        BY <4>1, <4>2 DEF StaysRow, Standing
      <4>4. Due(r)' = d /\ (d > 0 => prev_row'[r] = prev_row[r] /\ r \in DOMAIN prev_row)
        <5>1. CASE r \in DOMAIN prev_row
          <6>1. /\ r \in DOMAIN prev_row' /\ prev_row'[r] = prev_row[r]
                /\ r \in DOMAIN deferred' <=> d > 0
                /\ r \in DOMAIN deferred' => deferred'[r] = d
            BY <1>1, <3>7, <5>1 DEF Remembered
          <6>2. d > 0 => Due(r)' = d
            BY <2>1, <6>1 DEF Due
          <6>3. ~(d > 0) => Due(r)' = 0
            BY <2>1, <6>1 DEF Due
          <6> HIDE DEF d
          <6> QED  BY <4>3, <5>1, <6>1, <6>2, <6>3
        <5>2. CASE r \notin DOMAIN prev_row
          <6>1. r \notin DOMAIN deferred'
            BY <1>1, <5>2 DEF Remembered
          <6>2. Due(r)' = 0
            BY <6>1 DEF Due
          <6> HIDE DEF d
          <6> QED  BY <4>3, <5>2, <6>2
        <5> QED  BY <5>1, <5>2
      <4>5. CASE Idle
        <5>1. IdleRow(r)
          BY <4>1, <4>5, StandsIdle
        <5>2. /\ r \notin FedReqs /\ RunEnd(r) = kv[r] /\ (d = 0 => LackIn(flight, r) = 0)
              /\ r \in DOMAIN prev_row =>
                   /\ sampled[prev_row[r]].count \in Nat
                   /\ computed[r] = kv[r] + (d - (sampled[prev_row[r]].count - 1))
          BY <3>3, <5>1 DEF IdleRow
        <5>3. CASE d > 0
          <6>1. row'[r].computed = kv'[r] + (Due(r)' - (sampled'[prev_row'[r]].count - 1))
            BY <1>2, <3>2, <4>1, <4>3, <4>4, <5>2, <5>3
          <6>2. Due(r)' > 0
            BY <4>4, <5>3
          <6> QED  BY <2>3, <3>2, <4>5, <6>1, <6>2 DEF CpuCount
        <5>4. CASE d = 0
          <6>1. row'[r].computed = kv'[r] + 0 /\ Due(r)' = 0
            BY <3>2, <4>1, <4>3, <4>4, <5>2, <5>4
          <6> QED  BY <2>3, <3>2, <4>5, <6>1 DEF CpuCount
        <5>5. d > 0 \/ d = 0
          BY <4>3
        <5> QED  BY <5>3, <5>4, <5>5
      <4>6. CASE Runs
        <5>1. RunsRow(r)
          BY <4>1, <4>6, StandsRuns
        <5>2. /\ r \in FedReqs /\ LackIn(flight, r) = 0 /\ RunEnd(r) = FedEnd(FedAt(r))
              /\ fed[FedAt(r)].spec = d
              /\ r \in DOMAIN prev_row => prev_row[r] = FedAt(r)
          BY <5>1 DEF RunsRow
        <5>3. row'[r].computed = FedEnd(FedAt(r))
          BY <3>2, <4>3, <5>2
        <5>4. fed'[FedAt(r)'].spec = Due(r)' /\ (Due(r)' > 0 => prev_row'[r] = FedAt(r)')
          BY <1>2, <3>4, <4>4, <5>2
        <5>5. r \in FedReqs' /\ row'[r].computed = FedEnd(FedAt(r))'
          BY <3>4, <5>2, <5>3
        <5> QED  BY <2>4, <3>2, <4>6, <5>4, <5>5 DEF CpuCount
      <4> QED  BY <4>5, <4>6 DEF Ready
    <3> QED  BY <3>6, <3>7
  <2> QED  BY <2>1, <2>2, <2>5 DEF Corrections
<1> QED  BY <1>3, <1>4

LEMMA ExecuteModelKeepsIInv ==
  ASSUME IInv, ExecuteModel
  PROVE  IInv'
<1>1. Ready
  BY ReadyToPlan DEF ExecuteModel, SynchronizeInputPrep
<1>2. PICK plan : Executed(plan)
  BY DEF ExecuteModel, Executed
<1>3. PlanOutcome(plan)
  BY <1>1, <1>2, ExecuteOutcome
<1>4. Types' /\ BatchIsLast' /\ PrevRows' /\ BatchOnGpu'
  BY <1>1, <1>3, ExecuteTypes, ExecuteBatch
<1>5. Pipeline' /\ KnownTokens' /\ ComputedTokens'
  BY <1>1, <1>3, ExecutePipeline, ExecuteCounts
<1>6. FedRows' /\ InputsAreTheSequence' /\ LastSampled' /\ DiscardsWhatIsNotExpected'
  BY <1>1, <1>3, ExecuteRows
<1>7. OutputsAhead' /\ InputRows' /\ Corrections'
  BY <1>1, <1>3, ExecuteOutputs, ExecuteInputs, ExecuteCorrections
<1> QED  BY <1>4, <1>5, <1>6, <1>7 DEF IInv

-----------------------------------------------------------------------------
LEMMA InitIsIInv ==
  ASSUME Init
  PROVE  IInv
<1>1. /\ status = [r \in ReqIds |-> "waiting"] /\ known = [r \in ReqIds |-> Prompt]
      /\ computed = [r \in ReqIds |-> 0] /\ prev_step = {} /\ finished_ids = {}
      /\ prev_positions = [i \in BatchRows |-> -1] /\ prev_num_draft = [i \in BatchRows |-> 0]
      /\ discard = {} /\ pc = "execute_model"
      /\ sampled = [i \in BatchRows |-> NoSample]
      /\ length = [r \in ReqIds |-> Prompt] /\ kv = [r \in ReqIds |-> 0]
  BY DEF Init
<1>2. /\ flight \in Seq(StepType) /\ Len(flight) = 0 /\ DOMAIN flight = {}
      /\ DOMAIN requests = {} /\ batch \in Seq(ReqIds) /\ DOMAIN batch = {} /\ DOMAIN row = {}
      /\ DOMAIN prev_row = {} /\ DOMAIN deferred = {} /\ stream \in Seq(Op) /\ Len(stream) = 0
      /\ DOMAIN fed = {} /\ ToSet(batch) = {} /\ Inputs = <<>> /\ fed = <<>>
  BY DEF Init, Inputs, ToSet
<1>3. flight \in Flights
  BY <1>2 DEF Flights
<1>4. Types
  <2>1. SchedulerTypes
    BY <1>1, <1>3, Numbers DEF SchedulerTypes
  <2>2. CpuTypes
    BY <1>1, <1>2, Numbers DEF CpuTypes
  <2>3. GpuTypes
    BY <1>1, <1>2 DEF GpuTypes, NoSample
  <2> QED  BY <2>1, <2>2, <2>3 DEF Types
<1>5. FedReqs = {} /\ InputReqs = {}
  BY <1>2 DEF FedReqs, InputReqs, ReqsOf
<1>6. Pipeline
  BY <1>1, <1>2 DEF Pipeline, Idle
<1>7. BatchIsLast /\ PrevRows /\ BatchOnGpu
  BY <1>1, <1>2 DEF BatchIsLast, PrevRows, BatchOnGpu
<1>8. KnownTokens
  <2>1. \A r \in ReqIds : /\ GotIn(flight, r) = 0 /\ AwaitedIn(flight, r) = 0
                          /\ Optimistic(r) = Prompt
    BY <1>1, <1>2, <1>3, FlightNumbers, Numbers DEF Optimistic
  <2> QED  BY <1>1, <2>1, Numbers DEF KnownTokens, Held, Live
<1>9. ComputedTokens
  BY <1>1 DEF ComputedTokens
<1>10. FedRows /\ InputRows /\ InputsAreTheSequence
  BY <1>2 DEF FedRows, InputRows, InputsAreTheSequence
<1>11. LastSampled /\ OutputsAhead /\ Corrections /\ DiscardsWhatIsNotExpected
  BY <1>1, <1>2 DEF LastSampled, OutputsAhead, Corrections, DiscardsWhatIsNotExpected
<1> QED  BY <1>4, <1>6, <1>7, <1>8, <1>9, <1>10, <1>11 DEF IInv

LEMMA StepKeepsIInv ==
  ASSUME IInv, [Next]_vars
  PROVE  IInv'
<1>1. CASE ExecuteModel
  BY <1>1, ExecuteModelKeepsIInv
<1>2. CASE Correct
  BY <1>2, CorrectKeepsIInv
<1>3. CASE SampleTokens
  BY <1>3, SampleTokensKeepsIInv
<1>4. CASE GpuInputs
  BY <1>4, GpuInputsKeepIInv
<1>5. CASE GpuSample
  BY <1>5, GpuSampleKeepsIInv
<1>6. CASE UpdateFromOutput
  BY <1>6, UpdateKeepsIInv
<1>7. CASE \E r \in ReqIds : Abort(r)
  BY <1>7, AbortKeepsIInv
<1>8. CASE UNCHANGED vars
  <2>1. /\ UNCHANGED <<pc, fed, stream, discard, flight, batch>>
        /\ UNCHANGED <<status, known, computed, prev_step, finished_ids>>
        /\ UNCHANGED <<requests, row, prev_row, prev_positions, prev_num_draft, deferred>>
        /\ UNCHANGED <<sampled, length, kv>>
    BY <1>8 DEF vars, scheduler, cpu, gpu, truth
  <2>2. /\ Inputs' = Inputs /\ InputReqs' = InputReqs
        /\ FedReqs' = FedReqs /\ \A x : FedAt(x)' = FedAt(x) /\ FedEnd(x)' = FedEnd(x)
    BY <2>1, InputsFrame, FedFrame
  <2>3. Types'
    BY <2>1, <2>2 DEF IInv, Types, SchedulerTypes, CpuTypes, GpuTypes, Live, BatchRows
  <2>4. Pipeline'
    BY <2>1, PipelineFrame DEF IInv
  <2>5. FedRows' /\ InputRows' /\ InputsAreTheSequence'
    BY <2>1, RowsFrame DEF IInv
  <2>6. BatchIsLast' /\ PrevRows' /\ BatchOnGpu'
    BY <2>1, <2>2 DEF IInv, BatchIsLast, LastStep, PrevRows, BatchOnGpu, BatchRows
  <2>7. KnownTokens' /\ ComputedTokens'
    <3>1. \A r \in ReqIds : Optimistic(r)' = Optimistic(r) /\ End(r)' = End(r)
      BY <2>1, <2>2 DEF Optimistic, End, RunEnd, InputAt
    <3> QED  BY <2>1, <2>2, <3>1 DEF IInv, KnownTokens, ComputedTokens, Live, Held
  <2>8. LastSampled' /\ OutputsAhead' /\ DiscardsWhatIsNotExpected'
    BY <2>1 DEF IInv, LastSampled, OutputsAhead, DiscardsWhatIsNotExpected, LastStep, Optimistic
  <2>9. Corrections'
    BY <2>1, <2>2 DEF IInv, Corrections, CpuCount, Due, Pending
  <2> QED  BY <2>3, <2>4, <2>5, <2>6, <2>7, <2>8, <2>9 DEF IInv
<1> QED  BY <1>1, <1>2, <1>3, <1>4, <1>5, <1>6, <1>7, <1>8 DEF Next

(* At every moment the counts of the scheduler, the CPU, the stream and    *)
(* the GPU are related as IInv says: execute_model, the correction, the    *)
(* sampling, the GPU's operations and update_from_output all keep it, in   *)
(* every order in which they can happen.                                   *)
THEOREM RunnerInvariant == Spec => []IInv
<1>1. Init => IInv
  BY InitIsIInv
<1>2. IInv /\ [Next]_vars => IInv'
  BY StepKeepsIInv
<1> QED  BY <1>1, <1>2, PTL DEF Spec

LEMMA CountsInBounds ==
  ASSUME IInv
  PROVE  TypeOK
<1>1. Types /\ SchedulerTypes /\ CpuTypes /\ GpuTypes /\ BatchIsLast /\ PrevRows
  BY DEF IInv, Types
<1>2. flight \in Flights
  BY <1>1 DEF SchedulerTypes
<1>3. \A r \in ReqIds : /\ known[r] \in 0 .. MaxModelLen /\ computed[r] \in 0 .. MaxModelLen
                        /\ length[r] \in 0 .. MaxModelLen /\ kv[r] \in 0 .. MaxModelLen
  <2> TAKE r \in ReqIds
  <2>1. /\ known[r] \in Nat /\ computed[r] \in Nat /\ length[r] \in Nat /\ kv[r] \in Nat
        /\ status[r] \in {"waiting", "running", "preempted", "finished"}
    BY <1>1 DEF SchedulerTypes
  <2>2. /\ Live(r) => known[r] < MaxModelLen /\ Optimistic(r) <= MaxModelLen
        /\ status[r] \in {"waiting", "finished"} => known[r] = Prompt
        /\ kv[r] <= length[r] /\ length[r] <= MaxModelLen
    BY DEF IInv, KnownTokens
  <2>3. known[r] <= MaxModelLen
    BY <2>1, <2>2, Numbers DEF Live
  <2>4. computed[r] <= MaxModelLen
    <3>1. CASE status[r] = "running"
      <4>1. computed[r] + 1 <= Optimistic(r)
        BY <3>1 DEF IInv, ComputedTokens
      <4>2. Optimistic(r) <= MaxModelLen /\ Optimistic(r) \in Nat
        <5>1. AwaitedIn(flight, r) \in Nat
          BY <1>2, FlightNumbers
        <5> QED  BY <2>1, <2>2, <3>1, <5>1 DEF Live, Optimistic
      <4> QED  BY <2>1, <4>1, <4>2, Numbers
    <3>2. CASE status[r] # "running"
      BY <3>2, Numbers DEF IInv, ComputedTokens
    <3> QED  BY <3>1, <3>2
  <2> QED  BY <2>1, <2>2, <2>3, <2>4, Numbers
<1>4. {known, computed, length, kv} \subseteq [ReqIds -> 0 .. MaxModelLen]
  BY <1>1, <1>3 DEF SchedulerTypes
<1>5. \A r \in DOMAIN row :
        row[r] \in [computed : Int, tokens : 0 .. MaxModelLen, real : 0 .. MaxModelLen]
  <2> TAKE r \in DOMAIN row
  <2>1. r \in ToSet(batch) /\ row[r] \in [computed : Int, tokens : Nat, real : Nat]
    BY <1>1 DEF CpuTypes
  <2>2. r \in DOMAIN requests
    BY <1>1, <2>1 DEF BatchIsLast
  <2>3. requests[r] \in [computed : Int, outputs : Nat, real : Nat, drafts : 0 .. NumSpec]
    BY <1>1, <2>2 DEF CpuTypes
  <2>4. /\ Prompt + requests[r].outputs <= MaxModelLen
        /\ row[r].tokens <= Prompt + requests[r].outputs /\ row[r].real <= MaxModelLen
    BY <2>1 DEF IInv, OutputsAhead
  <2>5. requests[r].outputs \in Nat /\ row[r].tokens \in Nat /\ row[r].real \in Nat
    BY <2>1, <2>3
  <2>6. row[r].tokens \in 0 .. MaxModelLen /\ row[r].real \in 0 .. MaxModelLen
    BY <2>4, <2>5, Numbers
  <2> QED  BY <2>1, <2>6
<1>6. DOMAIN prev_row \subseteq ReqIds
  <2>1. CASE pc = "execute_model"
    <3>1. \A r \in DOMAIN prev_row : r \in ToSet(batch)
      BY <1>1, <2>1, BatchFacts DEF PrevRows
    <3> QED  BY <1>1, <3>1, BatchFacts
  <2>2. CASE pc # "execute_model"
    BY <1>1, <2>2 DEF PrevRows
  <2> QED  BY <2>1, <2>2
<1>7. Len(flight) <= 2 /\ Len(stream) <= 3
  <2>1. Len(flight) <= 2
    BY <1>2, FlightLength
  <2>2. Len(stream) \in 0 .. 3
    BY DEF IInv, Pipeline, Idle, Queued, Runs, RunsOne, New, NewRuns, NewNext
  <2>3. Len(stream) <= 3
    <3>1. \A n \in 0 .. 3 : n <= 3
      OBVIOUS
    <3> QED  BY <2>2, <3>1, Zenon
  <2> QED  BY <2>1, <2>3
<1>8. /\ status \in [ReqIds -> {"waiting", "running", "preempted", "finished"}]
      /\ \A r \in DOMAIN requests :
           requests[r] \in [computed : Int, outputs : Nat, real : Nat, drafts : 0 .. NumSpec]
      /\ DOMAIN row \subseteq DOMAIN requests /\ DOMAIN row = ToSet(batch)
      /\ discard \subseteq ReqIds /\ pc \in {"execute_model", "correct", "sample_tokens"}
  BY <1>1 DEF SchedulerTypes, CpuTypes, BatchIsLast
<1> QED  BY <1>4, <1>5, <1>6, <1>7, <1>8 DEF TypeOK

LEMMA CorrectedInTime ==
  ASSUME IInv
  PROVE  CorrectedCountExact
<1> SUFFICES ASSUME pc = "sample_tokens", Len(flight) = 2, ~Pending("sample"),
                    NEW r \in ToSet(batch)
             PROVE  row[r].computed = kv[r] /\ requests[r].computed = kv[r]
  BY DEF CorrectedCountExact
<1>1. requests[r].computed = row[r].computed /\ CpuCount(r, row[r].computed)
  BY DEF IInv, Corrections
<1>2. Due(r) = 0
  BY DEF Due
<1>3. row[r].computed = kv[r] + 0
  BY <1>1, <1>2 DEF CpuCount
<1>4. kv[r] \in Nat
  <2>1. SchedulerTypes /\ CpuTypes
    BY DEF IInv, Types
  <2> QED  BY <2>1, BatchFacts DEF SchedulerTypes
<1> QED  BY <1>1, <1>3, <1>4

(* CountsAgree holds for any number of requests, drafts and tokens: the    *)
(* counters keep to the model length, every step starts where the valid KV *)
(* entries of its requests end, and correct_spec_decode_token_counts       *)
(* leaves the CPU with the counts of the GPU.                              *)
THEOREM CountsAgreeAlways == Spec => []CountsAgree
<1>1. IInv => CountsAgree
  <2> HAVE IInv
  <2>1. StartsWhereCacheEnds
    BY DEF IInv, FedRows, StartsWhereCacheEnds
  <2> QED  BY <2>1, CountsInBounds, CorrectedInTime DEF CountsAgree
<1> QED  BY <1>1, RunnerInvariant, PTL

(* The model is given the tokens of the request in their places: the ones  *)
(* that _prepare_input_ids scatters come from the row the request had, and *)
(* are there when they are used.                                           *)
THEOREM SequenceIsFed == Spec => []InputsAreTheSequence
<1>1. IInv => InputsAreTheSequence
  BY DEF IInv
<1> QED  BY <1>1, RunnerInvariant, PTL

(* discard_request_mask, computed from the CPU's counts, is what schedule()*)
(* decided from its own.                                                   *)
THEOREM DiscardsAgree == Spec => []DiscardsWhatIsNotExpected
<1>1. IInv => DiscardsWhatIsNotExpected
  BY DEF IInv
<1> QED  BY <1>1, RunnerInvariant, PTL

=============================================================================
