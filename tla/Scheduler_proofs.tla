--------------------------- MODULE Scheduler_proofs ---------------------------
(* Proofs about the scheduler, for any requests, priorities, budgets, block  *)
(* sizes and draft lengths: its queues, blocks and optimistic counters agree *)
(* with each other and with the steps in flight.                             *)
EXTENDS Scheduler, DataLemmas

(* The engine core's queue of batches holds two under asynchronous           *)
(* scheduling. With more, a preempted request could be resumed while a step  *)
(* that samples for it is still in flight, and its counters would drift.     *)
TwoInFlight == InFlight <= 2

-----------------------------------------------------------------------------
(* The inductive invariant, in named parts.                                  *)

StepRow == [spec : 0 .. NumSpec, samples : BOOLEAN]
PlanRow == [new : Nat \ {0}, spec : 0 .. NumSpec, kind : {"running", "new", "resumed"}]
StepsOf == UNION {[S -> StepRow] : S \in SUBSET ReqIds}
PlansOf == UNION {[S -> PlanRow] : S \in SUBSET ReqIds}

RequestTypes ==
  /\ policy \in Policies /\ pause \in Pauses \cup {"none"}
  /\ status \in [ReqIds -> {"new", "waiting", "preempted", "running", "finished"}]
  /\ tokens \in [ReqIds -> 1 .. MaxModelLen - 1]
  /\ computed \in [ReqIds -> 0 .. MaxModelLen - 1]
  /\ placeholders \in [ReqIds -> Nat] /\ specs \in [ReqIds -> 0 .. NumSpec]
  /\ chunk \in [ReqIds -> BOOLEAN] /\ blocks \in [ReqIds -> Nat]
  /\ running \in Seq(ReqIds) /\ waiting \in Seq(ReqIds)
  /\ finished_ids \in SUBSET ReqIds /\ prev_step \in SUBSET ReqIds /\ worker \in SUBSET ReqIds
  /\ flight \in Seq(StepsOf) /\ Len(flight) <= InFlight

LocalTypes ==
  /\ plan \in PlansOf /\ at \in Nat \ {0} /\ budget \in Nat /\ preempted \in BOOLEAN
  /\ pc \in {"idle", "running", "allocate", "waiting", "commit"}

(* Where a call of schedule() is.                                            *)
Phases ==
  /\ pc = "idle" => plan = <<>> /\ ~preempted /\ budget = 0
  /\ pc # "idle" => Len(flight) < InFlight
  /\ pc = "waiting" => ~preempted

(* What has been planned stands before the position of the loop, so that     *)
(* nothing is planned twice; the request that is tried has not been.         *)
PlannedBefore ==
  /\ DOMAIN plan \subseteq ToSet(running)
  /\ pc \in {"running", "allocate"} =>
       \A r \in DOMAIN plan : \E i \in DOMAIN running : i < at /\ running[i] = r
  /\ pc = "allocate" =>
       /\ current.req \notin DOMAIN plan
       /\ \E i \in DOMAIN running : i <= at /\ running[i] = current.req

Planned(p) == Total([r \in DOMAIN p |-> p[r].new])

Budget ==
  /\ Len(running) <= MaxRunning
  /\ pc # "idle" =>
       budget + Planned(plan) = IF pause = "all" THEN 0 ELSE MaxBatchTokens

(* Blocks also cover what is planned.                                        *)
PlanCovered == \A r \in DOMAIN plan : blocks[r] * BlockSize >= computed[r] + plan[r].new

(* A running request between two steps, and after its row has been planned.  *)
Exact(r) ==
  IF chunk[r] THEN placeholders[r] = 0 /\ computed[r] < tokens[r]
  ELSE computed[r] + 1 = tokens[r] + placeholders[r]

PlannedSound(r, new, spec) ==
  /\ computed[r] + new <= MaxModelLen - 1
  /\ IF computed[r] + new >= tokens[r] + placeholders[r]
     THEN computed[r] + new = tokens[r] + placeholders[r] + spec
     ELSE placeholders[r] = 0

Counters ==
  /\ \A r \in ToSet(running) \ DOMAIN plan : Exact(r)
  /\ \A r \in DOMAIN plan : PlannedSound(r, plan[r].new, plan[r].spec)
  /\ \A r \in ReqIds : status[r] = "preempted" => computed[r] = 0

TriedSound(r, new) ==
  /\ new \in Nat \ {0} /\ new <= budget
  /\ computed[r] + new <= MaxModelLen - 1
  /\ computed[r] + new <= tokens[r] + specs[r] + placeholders[r]

Tried == pc = "allocate" => TriedSound(current.req, current.new)

(* The tokens that the steps of f may still yield for r.                     *)
ExpectedIn(f, r) == Total([i \in DOMAIN f |-> Awaited(f[i], r)])

(* The placeholders, and who can be in flight.                               *)
InFlightRows ==
  /\ \A r \in ReqIds : Live(r) => placeholders[r] = ExpectedIn(flight, r)
  /\ \A r \in ReqIds : status[r] \in {"new", "waiting"} =>
       placeholders[r] = 0 /\ \A i \in DOMAIN flight : r \notin DOMAIN flight[i]
  /\ flight # <<>> => DOMAIN flight[Len(flight)] = prev_step

(* A preempted request leaves the previous step before it can be resumed.    *)
Readmission ==
  /\ ~preempted => \A r \in ReqIds : status[r] = "preempted" => r \notin prev_step
  /\ \A r \in DOMAIN plan : plan[r].kind = "resumed" => r \notin prev_step

WorkerKnows == \A r \in worker : Live(r) \/ r \in finished_ids

IInv ==
  /\ RequestTypes /\ LocalTypes /\ Phases /\ QueuesMatchStatus /\ PlannedBefore /\ Budget
  /\ HeldBlocksCover /\ PlanCovered /\ Counters /\ Tried
  /\ InFlightRows /\ Readmission /\ WorkerKnows

-----------------------------------------------------------------------------
(* The operators of the scheduler.                                           *)

LEMMA WithoutFacts ==
  ASSUME NEW q \in Seq(ReqIds), NEW S
  PROVE  /\ Without(q, S) \in Seq(ReqIds) /\ Len(Without(q, S)) <= Len(q)
         /\ ToSet(Without(q, S)) = ToSet(q) \ S
         /\ IsInjective(q) => IsInjective(Without(q, S))
         /\ KeepsOrder(q, S, Without(q, S), Len(q))
<1>1. Without(q, S) = FlattenSeq(Singles(q, S))
  BY DEF Without, Singles
<1>2. Without(q, S) \in Seq(ReqIds) /\ KeepsOrder(q, S, Without(q, S), Len(q))
  BY <1>1, FlattenKeeps
<1>3. Len(Without(q, S)) <= Len(q)
  BY <1>2 DEF KeepsOrder
<1>4. /\ ToSet(Without(q, S)) = ToSet(q) \ S
      /\ IsInjective(q) => IsInjective(Without(q, S))
  BY <1>2, KeptElements
<1> QED  BY <1>2, <1>3, <1>4

LEMMA AppendFacts ==
  ASSUME NEW q \in Seq(ReqIds), NEW x \in ReqIds
  PROVE  /\ Append(q, x) \in Seq(ReqIds) /\ Len(Append(q, x)) = Len(q) + 1
         /\ ToSet(Append(q, x)) = ToSet(q) \cup {x}
         /\ IsInjective(q) /\ x \notin ToSet(q) => IsInjective(Append(q, x))
BY AppendProperties DEF ToSet, IsInjective

LEMMA PushFacts ==
  ASSUME NEW q \in Seq(ReqIds), NEW x \in ReqIds
  PROVE  /\ <<x>> \o q \in Seq(ReqIds)
         /\ ToSet(<<x>> \o q) = ToSet(q) \cup {x}
         /\ IsInjective(q) /\ x \notin ToSet(q) => IsInjective(<<x>> \o q)
<1> DEFINE w == <<x>> \o q
<1>1. /\ w \in Seq(ReqIds) /\ Len(w) = Len(q) + 1
      /\ \A i \in 1 .. Len(q) + 1 : w[i] = IF i = 1 THEN x ELSE q[i - 1]
  BY ConcatProperties
<1> HIDE DEF w
<1>2. DOMAIN w = 1 .. Len(q) + 1 /\ DOMAIN q = 1 .. Len(q) /\ Len(q) \in Nat
  BY <1>1
<1>3. ToSet(w) = ToSet(q) \cup {x}
  <2>1. ASSUME NEW y \in ToSet(w) PROVE y \in ToSet(q) \cup {x}
    BY <1>1, <1>2 DEF ToSet
  <2>2. x \in ToSet(w)
    BY <1>1, <1>2 DEF ToSet
  <2>3. ASSUME NEW y \in ToSet(q) PROVE y \in ToSet(w)
    <3>1. PICK i \in 1 .. Len(q) : q[i] = y
      BY <1>2 DEF ToSet
    <3>2. i + 1 \in 1 .. Len(q) + 1 /\ i + 1 # 1 /\ (i + 1) - 1 = i
      BY <1>2
    <3>3. w[i + 1] = y
      BY <1>1, <3>1, <3>2
    <3> QED  BY <1>2, <3>2, <3>3 DEF ToSet
  <2> QED  BY <2>1, <2>2, <2>3
<1>4. ASSUME IsInjective(q), x \notin ToSet(q),
             NEW i \in 1 .. Len(q) + 1, NEW j \in 1 .. Len(q) + 1, w[i] = w[j]
      PROVE  i = j
  <2>1. ASSUME NEW k \in 1 .. Len(q) + 1, k # 1
        PROVE  k - 1 \in DOMAIN q /\ w[k] = q[k - 1] /\ w[k] # x
    <3>1. k - 1 \in 1 .. Len(q)
      BY <1>2, <2>1
    <3> QED  BY <1>1, <1>2, <1>4, <2>1, <3>1 DEF ToSet
  <2>2. CASE i = 1
    BY <1>1, <1>4, <2>1, <2>2
  <2>3. CASE j = 1
    BY <1>1, <1>4, <2>1, <2>3
  <2>4. CASE i # 1 /\ j # 1
    <3>1. i - 1 = j - 1
      BY <1>4, <2>1, <2>4 DEF IsInjective
    <3> QED  BY <1>2, <3>1
  <2> QED  BY <2>2, <2>3, <2>4
<1> QED  BY <1>1, <1>2, <1>3, <1>4 DEF IsInjective, w

(* The priority order is total, so that every queue has a first and a last.  *)
LEMMA AheadIsTotal ==
  ASSUME NEW x \in ReqIds, NEW y \in ReqIds, NEW z \in ReqIds
  PROVE  /\ Ahead(x, y) \/ Ahead(y, x)
         /\ Ahead(x, y) /\ Ahead(y, z) => Ahead(x, z)
BY SchedulerAssumption DEF Ahead

LEMMA Extremes ==
  ASSUME NEW T \in SUBSET ReqIds, T # {}
  PROVE  /\ \E r \in T : \A s \in T : Ahead(r, s)
         /\ \E r \in T : \A s \in T : Ahead(s, r)
<1> DEFINE P(R) == R # {} => /\ \E r \in R : \A s \in R : Ahead(r, s)
                             /\ \E r \in R : \A s \in R : Ahead(s, r)
           N == {n \in Nat : \A R \in SUBSET T : Cardinality(R) = n => P(R)}
<1>0. ASSUME NEW R \in SUBSET T
      PROVE  IsFiniteSet(R) /\ Cardinality(R) \in Nat /\ (Cardinality(R) = 0 <=> R = {})
  <2>1. IsFiniteSet(R)
    BY FS_Subset, SchedulerAssumption
  <2> QED  BY <2>1, FS_CardinalityType, FS_EmptySet
<1>1. 0 \in N
  BY <1>0
<1>2. ASSUME NEW n \in Nat, n \in N PROVE n + 1 \in N
  <2> SUFFICES ASSUME NEW R \in SUBSET T, Cardinality(R) = n + 1 PROVE P(R)
    OBVIOUS
  <2>1. PICK z : z \in R
    BY <1>0
  <2> DEFINE Q == R \ {z}
  <2>2. Q \in SUBSET T /\ Cardinality(Q) = n
    BY <1>0, <2>1, FS_RemoveElement
  <2>3. P(Q)
    BY <1>2, <2>2
  <2>4. z \in ReqIds /\ Ahead(z, z)
    BY <2>1, AheadIsTotal
  <2>5. CASE Q = {}
    <3>1. R = {z}
      BY <2>1, <2>5
    <3> QED  BY <2>4, <3>1
  <2>6. CASE Q # {}
    <3>1. PICK a \in Q : \A s \in Q : Ahead(a, s)
      BY <2>3, <2>6
    <3>2. PICK b \in Q : \A s \in Q : Ahead(s, b)
      BY <2>3, <2>6
    <3>3. \E r \in R : \A s \in R : Ahead(r, s)
      <4>1. CASE Ahead(a, z)
        BY <2>4, <3>1, <4>1
      <4>2. CASE Ahead(z, a)
        <5>1. \A s \in R : Ahead(z, s)
          BY <2>1, <2>4, <3>1, <4>2, AheadIsTotal
        <5> QED  BY <2>1, <5>1
      <4> QED  BY <2>4, <4>1, <4>2, AheadIsTotal
    <3>4. \E r \in R : \A s \in R : Ahead(s, r)
      <4>1. CASE Ahead(z, b)
        BY <2>4, <3>2, <4>1
      <4>2. CASE Ahead(b, z)
        <5>1. \A s \in R : Ahead(s, z)
          BY <2>1, <2>4, <3>2, <4>2, AheadIsTotal
        <5> QED  BY <2>1, <5>1
      <4> QED  BY <2>4, <4>1, <4>2, AheadIsTotal
    <3> QED  BY <3>3, <3>4
  <2> QED  BY <2>5, <2>6
<1>3. Cardinality(T) \in N
  <2>1. Cardinality(T) \in Nat
    BY <1>0
  <2> HIDE DEF N
  <2> QED  BY <1>1, <1>2, <2>1, Induction
<1> QED  BY <1>3

LEMMA ChoicesExist ==
  /\ running \in Seq(ReqIds) /\ ToSet(running) # {} => Victim \in ToSet(running)
  /\ waiting \in Seq(ReqIds) /\ waiting # <<>> => Peek \in ToSet(waiting)
<1>1. ASSUME running \in Seq(ReqIds), ToSet(running) # {} PROVE Victim \in ToSet(running)
  <2>1. ToSet(running) \in SUBSET ReqIds /\ running # <<>>
    BY <1>1 DEF ToSet
  <2>2. \E r \in ToSet(running) : \A s \in ToSet(running) : Ahead(s, r)
    BY <1>1, <2>1, Extremes
  <2>3. Last(running) \in ToSet(running)
    <3>1. Len(running) \in 1 .. Len(running) /\ DOMAIN running = 1 .. Len(running)
      BY <1>1, <2>1, EmptySeq
    <3> QED  BY <3>1 DEF Last, ToSet
  <2> QED  BY <2>2, <2>3 DEF Victim
<1>2. ASSUME waiting \in Seq(ReqIds), waiting # <<>> PROVE Peek \in ToSet(waiting)
  <2>0. 1 \in 1 .. Len(waiting) /\ DOMAIN waiting = 1 .. Len(waiting) /\ Head(waiting) = waiting[1]
    BY <1>2, EmptySeq
  <2>1. ToSet(waiting) \in SUBSET ReqIds /\ Head(waiting) \in ToSet(waiting)
    BY <1>2, <2>0 DEF ToSet
  <2>2. \E r \in ToSet(waiting) : \A s \in ToSet(waiting) : Ahead(r, s)
    BY <2>1, Extremes
  <2> QED  BY <2>1, <2>2 DEF Peek
<1> QED  BY <1>1, <1>2

LEMMA AwaitedType ==
  ASSUME NEW step \in StepsOf, NEW r
  PROVE  /\ Awaited(step, r) \in Nat
         /\ r \notin DOMAIN step => Awaited(step, r) = 0
         /\ r \in DOMAIN step =>
              /\ step[r].spec \in 0 .. NumSpec /\ step[r].samples \in BOOLEAN
              /\ Awaited(step, r) = IF step[r].samples THEN 1 + step[r].spec ELSE 0
<1>1. CASE r \in DOMAIN step
  <2>1. step[r] \in StepRow
    BY <1>1 DEF StepsOf
  <2>2. step[r].spec \in 0 .. NumSpec /\ step[r].samples \in BOOLEAN
    BY <2>1 DEF StepRow
  <2> QED  BY <1>1, <2>2, SchedulerAssumption DEF Awaited
<1>2. CASE r \notin DOMAIN step
  BY <1>2 DEF Awaited
<1> QED  BY <1>1, <1>2

LEMMA ExpectedSum ==
  ASSUME NEW f \in Seq(StepsOf), NEW r
  PROVE  /\ Len(f) \in Nat /\ DOMAIN f = 1 .. Len(f)
         /\ \A i \in 1 .. Len(f) : f[i] \in StepsOf /\ Awaited(f[i], r) \in Nat
         /\ IntOn([i \in 1 .. Len(f) |-> Awaited(f[i], r)], 1 .. Len(f))
         /\ ExpectedIn(f, r) = SumOver([i \in 1 .. Len(f) |-> Awaited(f[i], r)], 1 .. Len(f))
<1> DEFINE g == [i \in 1 .. Len(f) |-> Awaited(f[i], r)]
<1>1. Len(f) \in Nat /\ DOMAIN f = 1 .. Len(f)
  OBVIOUS
<1>2. ASSUME NEW i \in 1 .. Len(f) PROVE f[i] \in StepsOf /\ Awaited(f[i], r) \in Nat
  BY AwaitedType, ElementOfSeq
<1>3. IntOn(g, 1 .. Len(f))
  BY <1>1, <1>2, FS_Interval DEF IntOn
<1>4. ExpectedIn(f, r) = FoldFunction(+, 0, g) /\ DOMAIN g = 1 .. Len(f)
  BY <1>1 DEF ExpectedIn, Total
<1> HIDE DEF g
<1>5. FoldFunction(+, 0, g) = SumOver(g, DOMAIN g)
  BY <1>3, <1>4, TotalIsSum
<1> QED  BY <1>1, <1>2, <1>3, <1>4, <1>5 DEF g

LEMMA ExpectedNat ==
  ASSUME NEW f \in Seq(StepsOf), NEW r
  PROVE  ExpectedIn(f, r) \in Nat
<1> DEFINE g == [i \in 1 .. Len(f) |-> Awaited(f[i], r)]
<1>1. \A i \in 1 .. Len(f) : g[i] \in Nat
  BY ExpectedSum
<1>2. IsFiniteSet(1 .. Len(f)) /\ ExpectedIn(f, r) = SumOver(g, 1 .. Len(f))
  BY ExpectedSum DEF IntOn
<1> HIDE DEF g
<1> QED  BY <1>1, <1>2, SumOfNaturals

LEMMA ExpectedAppend ==
  ASSUME NEW f \in Seq(StepsOf), NEW step \in StepsOf, NEW r
  PROVE  ExpectedIn(Append(f, step), r) = ExpectedIn(f, r) + Awaited(step, r)
<1> DEFINE h == Append(f, step)
           n == Len(f)
           g == [i \in 1 .. n |-> Awaited(f[i], r)]
           k == [i \in 1 .. n + 1 |-> Awaited(h[i], r)]
<1>1. /\ h \in Seq(StepsOf) /\ Len(h) = n + 1 /\ n \in Nat
      /\ \A i \in 1 .. n : h[i] = f[i]
      /\ h[n + 1] = step
  BY AppendProperties
<1> HIDE DEF h
<1>2. ExpectedIn(h, r) = SumOver(k, 1 .. n + 1) /\ IntOn(k, 1 .. n + 1)
  BY <1>1, ExpectedSum
<1>3. ExpectedIn(f, r) = SumOver(g, 1 .. n) /\ IntOn(g, 1 .. n)
  BY <1>1, ExpectedSum
<1>4. (\A i \in 1 .. n : g[i] = k[i]) /\ k[n + 1] = Awaited(step, r)
  BY <1>1
<1> HIDE DEF g, k
<1>5. SumOver(k, 1 .. n + 1) = SumOver(k, 1 .. n) + k[n + 1]
  BY <1>1, <1>2, SumLast
<1>6. SumOver(g, 1 .. n) = SumOver(k, 1 .. n)
  BY <1>3, <1>4, SumEqual
<1> QED  BY <1>2, <1>3, <1>4, <1>5, <1>6 DEF h

LEMMA ExpectedHead ==
  ASSUME NEW f \in Seq(StepsOf), f # <<>>, NEW r
  PROVE  ExpectedIn(f, r) = Awaited(Head(f), r) + ExpectedIn(Tail(f), r)
<1> DEFINE t == Tail(f)
           n == Len(f) - 1
           g == [i \in 1 .. n |-> Awaited(t[i], r)]
           k == [i \in 1 .. n + 1 |-> Awaited(f[i], r)]
<1>1. /\ t \in Seq(StepsOf) /\ Len(t) = n /\ n \in Nat /\ Len(f) = n + 1
      /\ \A i \in 1 .. n : t[i] = f[i + 1]
      /\ Head(f) = f[1] /\ 1 \in 1 .. n + 1
  BY HeadTailProperties, EmptySeq
<1> HIDE DEF t, n
<1>2. ExpectedIn(f, r) = SumOver(k, 1 .. n + 1) /\ IntOn(k, 1 .. n + 1)
  BY <1>1, ExpectedSum
<1>3. ExpectedIn(t, r) = SumOver(g, 1 .. n)
  BY <1>1, ExpectedSum
<1>4. g = [i \in 1 .. n |-> k[i + 1]] /\ k[1] = Awaited(Head(f), r)
  <2>1. \A i \in 1 .. n : i + 1 \in 1 .. n + 1
    BY <1>1
  <2> QED  BY <1>1, <2>1
<1> HIDE DEF g, k
<1>5. SumOver(k, 1 .. n + 1) = k[1] + SumOver([i \in 1 .. n |-> k[i + 1]], 1 .. n)
  BY <1>1, <1>2, SumFirst
<1> QED  BY <1>2, <1>3, <1>4, <1>5 DEF t

LEMMA ExpectedNone ==
  ASSUME NEW f \in Seq(StepsOf), NEW r, \A i \in 1 .. Len(f) : Awaited(f[i], r) = 0
  PROVE  ExpectedIn(f, r) = 0
<1> DEFINE g == [i \in 1 .. Len(f) |-> Awaited(f[i], r)]
<1>1. IsFiniteSet(1 .. Len(f)) /\ ExpectedIn(f, r) = SumOver(g, 1 .. Len(f))
  BY ExpectedSum DEF IntOn
<1>2. \A i \in 1 .. Len(f) : g[i] = 0
  OBVIOUS
<1> HIDE DEF g
<1> QED  BY <1>1, <1>2, SumOfZeros

(* The blocks.                                                               *)
Blocks == [ReqIds -> Nat]

LEMMA BlocksTotal ==
  ASSUME NEW f \in Blocks
  PROVE  Total(f) = SumOver(f, ReqIds) /\ IntOn(f, ReqIds) /\ Total(f) \in Nat
<1>1. IntOn(f, ReqIds) /\ DOMAIN f = ReqIds
  BY SchedulerAssumption DEF IntOn, Blocks
<1>2. Total(f) = SumOver(f, ReqIds)
  BY <1>1, TotalIsSum DEF Total
<1>3. \A x \in ReqIds : f[x] \in Nat
  BY DEF Blocks
<1>4. IsFiniteSet(ReqIds)
  BY SchedulerAssumption
<1>5. SumOver(f, ReqIds) \in Nat
  BY <1>3, <1>4, SumOfNaturals
<1> QED  BY <1>1, <1>2, <1>5

LEMMA BlocksChange ==
  ASSUME NEW f \in Blocks, NEW r \in ReqIds, NEW v \in Nat
  PROVE  Total([f EXCEPT ![r] = v]) = Total(f) - f[r] + v
<1> DEFINE g == [f EXCEPT ![r] = v]
<1>1. g \in Blocks /\ g[r] = v /\ \A y \in ReqIds \ {r} : g[y] = f[y]
  BY DEF Blocks
<1> HIDE DEF g
<1>2. SumOver(g, ReqIds) = SumOver(f, ReqIds) - f[r] + g[r]
  <2>1. IntOn(f, ReqIds) /\ g[r] \in Int
    BY <1>1, BlocksTotal
  <2> QED  BY <1>1, <2>1, SumChange
<1> QED  BY <1>1, <1>2, BlocksTotal DEF g

LEMMA BlocksFreed ==
  ASSUME blocks \in Blocks, NEW S
  PROVE  FreeBlocks(S) \in Blocks /\ Total(FreeBlocks(S)) <= Total(blocks)
<1> DEFINE g == FreeBlocks(S)
<1>1. g \in Blocks /\ \A r \in ReqIds : g[r] <= blocks[r]
  BY DEF Blocks, FreeBlocks
<1> HIDE DEF g
<1>2. IntOn(g, ReqIds) /\ IntOn(blocks, ReqIds)
  BY <1>1, BlocksTotal
<1>3. SumOver(g, ReqIds) <= SumOver(blocks, ReqIds)
  BY <1>1, <1>2, SumAtMost
<1> QED  BY <1>1, <1>3, BlocksTotal DEF g

(* Enough blocks for n tokens hold m of them, if m is not more than the      *)
(* model length either.                                                      *)
LEMMA BlocksHold ==
  ASSUME NEW n \in Nat, NEW m \in Nat, m <= n, m <= MaxModelLen
  PROVE  BlocksFor(n) \in Nat /\ BlocksFor(n) * BlockSize >= m
<1> DEFINE a == Least(n, MaxModelLen)
           q == (a + BlockSize - 1) \div BlockSize
<1>1. MaxModelLen \in Nat /\ BlockSize \in Nat \ {0} /\ a \in Nat /\ m <= a
  BY SchedulerAssumption DEF Least
<1> HIDE DEF a
<1>2. a + BlockSize - 1 \in Nat
  BY <1>1
<1>3. /\ q \in Nat /\ (a + BlockSize - 1) % BlockSize \in 0 .. BlockSize - 1
      /\ a + BlockSize - 1 = q * BlockSize + ((a + BlockSize - 1) % BlockSize)
  BY <1>1, <1>2, Division
<1>4. BlocksFor(n) = q
  BY DEF BlocksFor, a
<1> HIDE DEF q
<1>5. q * BlockSize \in Nat
  BY <1>1, <1>3
<1>6. q * BlockSize >= a
  BY <1>1, <1>3, <1>5
<1> QED  BY <1>1, <1>3, <1>4, <1>5, <1>6

(* The tokens of a plan.                                                     *)
LEMMA PlannedSum ==
  ASSUME NEW p \in PlansOf
  PROVE  /\ DOMAIN p \in SUBSET ReqIds
         /\ \A r \in DOMAIN p : p[r] \in PlanRow /\ p[r].new \in Nat \ {0}
         /\ IntOn([r \in DOMAIN p |-> p[r].new], DOMAIN p)
         /\ Planned(p) = SumOver([r \in DOMAIN p |-> p[r].new], DOMAIN p)
         /\ Planned(p) \in Nat
<1> DEFINE g == [r \in DOMAIN p |-> p[r].new]
<1>1. DOMAIN p \in SUBSET ReqIds /\ IsFiniteSet(DOMAIN p)
  <2>1. DOMAIN p \in SUBSET ReqIds
    BY DEF PlansOf
  <2> QED  BY <2>1, FS_Subset, SchedulerAssumption
<1>2. ASSUME NEW r \in DOMAIN p PROVE p[r] \in PlanRow /\ p[r].new \in Nat \ {0}
  BY DEF PlansOf, PlanRow
<1>3. IntOn(g, DOMAIN p) /\ DOMAIN g = DOMAIN p /\ \A r \in DOMAIN p : g[r] \in Nat
  BY <1>1, <1>2 DEF IntOn
<1>4. Planned(p) = FoldFunction(+, 0, g)
  BY DEF Planned, Total
<1> HIDE DEF g
<1>5. Planned(p) = SumOver(g, DOMAIN p)
  BY <1>3, <1>4, TotalIsSum
<1>6. SumOver(g, DOMAIN p) \in Nat
  BY <1>1, <1>3, SumOfNaturals
<1> QED  BY <1>1, <1>2, <1>3, <1>5, <1>6 DEF g

LEMMA EmptyPlan == <<>> \in PlansOf /\ Planned(<<>>) = 0 /\ DOMAIN <<>> = {}
<1>1. DOMAIN <<>> = {} /\ <<>> \in [{} -> PlanRow]
  OBVIOUS
<1>2. <<>> \in PlansOf
  BY <1>1 DEF PlansOf
<1> QED  BY <1>1, <1>2, PlannedSum, EmptySum

LEMMA PlanWith ==
  ASSUME NEW p \in PlansOf, NEW r \in ReqIds, r \notin DOMAIN p, NEW w \in PlanRow
  PROVE  /\ With(p, r, w) \in PlansOf
         /\ DOMAIN With(p, r, w) = DOMAIN p \cup {r}
         /\ With(p, r, w)[r] = w /\ \A q \in DOMAIN p : With(p, r, w)[q] = p[q]
         /\ Planned(With(p, r, w)) = Planned(p) + w.new
<1> DEFINE a == With(p, r, w)
           D == DOMAIN p
           f == [q \in D |-> p[q].new]
           g == [q \in D \cup {r} |-> a[q].new]
<1>1. /\ DOMAIN a = D \cup {r} /\ a[r] = w /\ \A q \in D : a[q] = p[q]
  BY DEF With
<1>2. a \in PlansOf
  <2>1. D \in SUBSET ReqIds /\ \A q \in D : p[q] \in PlanRow
    BY PlannedSum
  <2>2. a \in [D \cup {r} -> PlanRow] /\ D \cup {r} \in SUBSET ReqIds
    BY <2>1 DEF With
  <2> QED  BY <2>2 DEF PlansOf
<1> HIDE DEF a, D
<1>3. Planned(a) = SumOver(g, D \cup {r}) /\ IntOn(g, D \cup {r})
  BY <1>1, <1>2, PlannedSum
<1>4. Planned(p) = SumOver(f, D) /\ IntOn(f, D)
  BY PlannedSum DEF D
<1>5. (\A q \in D : f[q] = g[q]) /\ g[r] = w.new
  BY <1>1
<1> HIDE DEF f, g
<1>6. SumOver(g, D \cup {r}) = g[r] + SumOver(g, (D \cup {r}) \ {r}) /\ (D \cup {r}) \ {r} = D
  BY <1>3, SumWithout DEF D
<1>7. SumOver(f, D) = SumOver(g, D)
  BY <1>4, <1>5, SumEqual
<1>8. SumOver(f, D) \in Int /\ w.new \in Int
  BY <1>4, SumIn DEF PlanRow
<1> QED  BY <1>1, <1>2, <1>3, <1>4, <1>5, <1>6, <1>7, <1>8 DEF a, D

LEMMA PlanMinus ==
  ASSUME NEW p \in PlansOf, NEW r \in DOMAIN p
  PROVE  /\ Minus(p, r) \in PlansOf
         /\ DOMAIN Minus(p, r) = DOMAIN p \ {r}
         /\ \A q \in DOMAIN p \ {r} : Minus(p, r)[q] = p[q]
         /\ Planned(Minus(p, r)) = Planned(p) - p[r].new
<1> DEFINE a == Minus(p, r)
           D == DOMAIN p
           f == [q \in D |-> p[q].new]
           g == [q \in D \ {r} |-> a[q].new]
<1>0. D \in SUBSET ReqIds /\ \A q \in D : p[q] \in PlanRow /\ p[q].new \in Nat \ {0}
  BY PlannedSum
<1>1. DOMAIN a = D \ {r} /\ \A q \in D \ {r} : a[q] = p[q]
  BY DEF Minus
<1>2. a \in PlansOf
  <2>2. a \in [D \ {r} -> PlanRow] /\ D \ {r} \in SUBSET ReqIds
    BY <1>0 DEF Minus
  <2> QED  BY <2>2 DEF PlansOf
<1> HIDE DEF a
<1>3. Planned(a) = SumOver(g, D \ {r}) /\ IntOn(g, D \ {r})
  BY <1>1, <1>2, PlannedSum
<1>4. Planned(p) = SumOver(f, D) /\ IntOn(f, D)
  BY PlannedSum
<1>5. (\A q \in D \ {r} : f[q] = g[q]) /\ f[r] = p[r].new
  BY <1>1
<1> HIDE DEF f, g
<1>6. SumOver(f, D) = f[r] + SumOver(f, D \ {r})
  BY <1>4, SumWithout
<1>7. SumOver(f, D \ {r}) = SumOver(g, D \ {r})
  BY <1>3, <1>5, SumEqual
<1>8. SumOver(g, D \ {r}) \in Int
  BY <1>3, SumIn
<1> QED  BY <1>0, <1>1, <1>2, <1>3, <1>4, <1>5, <1>6, <1>7, <1>8 DEF a

-----------------------------------------------------------------------------
(* What every action may use of the state.                                   *)

LEMMA Sizes ==
  /\ MaxModelLen \in Nat \ {0} /\ MaxRunning \in Nat /\ MaxBatchTokens \in Nat \ {0}
  /\ BlockSize \in Nat \ {0} /\ NumBlocks \in Nat /\ InFlight \in Nat
  /\ NumSpec \in Nat /\ LongPrefill \in Nat /\ IsFiniteSet(ReqIds)
  /\ \A r \in ReqIds : Prompt[r] \in 1 .. MaxModelLen - 1 /\ MaxOutput[r] \in Nat
  /\ PrefixHits \subseteq Nat /\ DraftLengths \subseteq 0 .. NumSpec
BY SchedulerAssumption

LEMMA Ranges ==
  ASSUME RequestTypes, NEW r \in ReqIds
  PROVE  /\ tokens[r] \in 1 .. MaxModelLen - 1 /\ computed[r] \in 0 .. MaxModelLen - 1
         /\ placeholders[r] \in Nat /\ specs[r] \in 0 .. NumSpec
         /\ chunk[r] \in BOOLEAN /\ blocks[r] \in Nat
BY DEF RequestTypes

LEMMA StatusOfQueued ==
  ASSUME QueuesMatchStatus, RequestTypes
  PROVE  /\ ToSet(running) \in SUBSET ReqIds /\ ToSet(waiting) \in SUBSET ReqIds
         /\ \A r \in ReqIds : r \in ToSet(running) <=> status[r] = "running"
         /\ \A r \in ReqIds : r \in ToSet(waiting) <=> status[r] \in {"waiting", "preempted"}
         /\ \A r \in ToSet(running) : Live(r) /\ r \notin ToSet(waiting)
         /\ \A r \in ToSet(waiting) : Live(r) /\ r \notin ToSet(running)
BY DEF QueuesMatchStatus, Live

LEMMA InitIInv == ASSUME Init PROVE IInv
<1> USE Init DEF Init
<1>1. Blocks # {} /\ blocks \in Blocks /\ Total(blocks) = 0
  <2>1. blocks \in Blocks /\ \A r \in ReqIds : blocks[r] = 0
    BY DEF Blocks
  <2>2. SumOver(blocks, ReqIds) = 0
    BY ONLY <2>1, Sizes, SumOfZeros
  <2> QED  BY ONLY <2>1, <2>2, BlocksTotal
<1>2. RequestTypes
  <2>1. /\ tokens \in [ReqIds -> 1 .. MaxModelLen - 1]
        /\ 0 \in 0 .. MaxModelLen - 1 /\ 0 \in 0 .. NumSpec
    BY SchedulerAssumption, Sizes
  <2>2. /\ <<>> \in Seq(ReqIds) /\ <<>> \in Seq(StepsOf) /\ Len(<<>>) = 0 /\ 0 <= InFlight
    BY Sizes
  <2> QED  BY <2>1, <2>2, SchedulerAssumption DEF RequestTypes
<1>3. LocalTypes
  <2>1. plan \in PlansOf
    BY EmptyPlan, Zenon
  <2>2. preempted \in BOOLEAN
    BY Zenon
  <2>3. /\ at \in Nat \ {0} /\ budget \in Nat
        /\ pc \in {"idle", "running", "allocate", "waiting", "commit"}
    OBVIOUS
  <2> QED  BY ONLY <2>1, <2>2, <2>3 DEF LocalTypes
<1>4. QueuesMatchStatus
  BY DEF QueuesMatchStatus, IsInjective, ToSet
<1>5. ToSet(running) = {} /\ DOMAIN plan = {}
  BY EmptyPlan DEF ToSet
<1>6. HeldBlocksCover
  BY <1>1, Sizes DEF HeldBlocksCover
<1>7. InFlightRows
  BY DEF InFlightRows, Live
<1> QED
  BY <1>2, <1>3, <1>4, <1>5, <1>6, <1>7, Sizes
  DEF IInv, Phases, PlannedBefore, Budget, PlanCovered, Counters, Tried, Readmission, WorkerKnows

(* The parts that speak of the requests alone.                               *)
Settled == RequestTypes /\ QueuesMatchStatus /\ HeldBlocksCover /\ InFlightRows /\ WorkerKnows

LEMMA SettledSame ==
  ASSUME Settled, UNCHANGED <<config, requests, queues, engine>>
  PROVE  Settled'
<1> USE DEF config, requests, queues, engine
<1>1. RequestTypes'
  BY DEF Settled, RequestTypes
<1>2. QueuesMatchStatus' /\ HeldBlocksCover'
  BY DEF Settled, QueuesMatchStatus, HeldBlocksCover
<1>3. InFlightRows' /\ WorkerKnows'
  BY DEF Settled, InFlightRows, WorkerKnows, Live, ExpectedIn
<1> QED  BY <1>1, <1>2, <1>3 DEF Settled

(* The parts that speak of the call under way.                               *)
UnderWay ==
  /\ LocalTypes /\ Phases /\ PlannedBefore /\ Budget
  /\ PlanCovered /\ Counters /\ Tried /\ Readmission

LEMMA IInvParts == IInv <=> Settled /\ UnderWay
BY DEF IInv, Settled, UnderWay

LEMMA StartStepKeeps == ASSUME IInv, StartStep PROVE IInv'
<1>1. Settled'
  BY IInvParts, SettledSame DEF StartStep
<1>2. plan = <<>> /\ ~preempted /\ plan' = <<>> /\ ~preempted' /\ pc' = "running" /\ at' = 1
  BY DEF StartStep, IInv, Phases
<1>3. /\ DOMAIN plan = {} /\ DOMAIN plan' = {} /\ Planned(plan') = 0
  BY <1>2, EmptyPlan
<1>4. /\ budget' = IF pause' = "all" THEN 0 ELSE MaxBatchTokens
      /\ budget' \in Nat
  BY Sizes DEF StartStep, config
<1>5. LocalTypes'
  <2>1. plan' \in PlansOf
    BY <1>2, EmptyPlan, Zenon
  <2>2. preempted' \in BOOLEAN
    BY Zenon DEF StartStep
  <2> QED  BY <1>2, <1>4, <2>1, <2>2 DEF LocalTypes
<1>6. Phases' /\ PlannedBefore' /\ PlanCovered' /\ Tried'
  BY <1>2, <1>3 DEF Phases, PlannedBefore, PlanCovered, Tried, StartStep, engine
<1>7. Budget'
  BY <1>2, <1>3, <1>4 DEF Budget, IInv, StartStep, queues
<1>8. Counters'
  BY <1>3 DEF Counters, Exact, IInv, StartStep, requests, queues
<1>9. Readmission'
  BY <1>2, <1>3 DEF Readmission, IInv, StartStep, requests, engine
<1> QED  BY <1>1, <1>5, <1>6, <1>7, <1>8, <1>9 DEF IInv, Settled, UnderWay

(* Actions that leave the plan and the requests as they are.                 *)
LEMMA PlanSame ==
  ASSUME IInv, UNCHANGED <<config, requests, queues, engine, budget, plan, preempted>>
  PROVE  /\ (pc # "idle" => Budget')
         /\ PlanCovered' /\ Counters' /\ Readmission'
<1> USE DEF config, requests, queues, engine
<1>1. PlanCovered' /\ Readmission'
  BY DEF PlanCovered, Readmission, IInv
<1>2. Counters'
  BY DEF Counters, Exact, PlannedSound, IInv
<1>3. (pc # "idle" => Budget')
  BY DEF Budget, IInv, Planned
<1> QED  BY <1>1, <1>2, <1>3

LEMMA PassOverKeeps == ASSUME IInv, PassOver PROVE IInv'
<1>0. UNCHANGED <<config, requests, queues, engine>> /\ UNCHANGED <<budget, plan, preempted>>
  BY DEF PassOver
<1>1. Settled'
  BY <1>0, IInvParts, SettledSame
<1>2. pc = "running" /\ pc' = "running" /\ at' = at + 1 /\ running' = running /\ flight' = flight
  BY DEF PassOver, InLoop, queues, engine
<1>3. Budget' /\ PlanCovered' /\ Counters' /\ Readmission'
  BY <1>0, <1>2, PlanSame
<1>4. LocalTypes' /\ Phases' /\ Tried'
  BY <1>0, <1>2 DEF IInv, LocalTypes, Phases, Tried
<1>5. PlannedBefore'
  <2>1. ASSUME NEW i \in DOMAIN running, i < at PROVE i < at + 1
    BY <2>1 DEF IInv, RequestTypes, LocalTypes
  <2> QED  BY <1>0, <1>2, <2>1 DEF IInv, PlannedBefore
<1> QED  BY <1>1, <1>3, <1>4, <1>5 DEF IInv, Settled, UnderWay

LEMMA EndRunningKeeps == ASSUME IInv, EndRunning PROVE IInv'
<1>0. UNCHANGED <<config, requests, queues, engine>> /\ UNCHANGED <<at, budget, plan, preempted>>
  BY DEF EndRunning
<1>1. Settled'
  BY <1>0, IInvParts, SettledSame
<1>2. /\ pc = "running" /\ pc' \in {"waiting", "commit"} /\ (pc' = "waiting" => ~preempted)
      /\ running' = running /\ flight' = flight
  BY DEF EndRunning, AdmitsNow, queues, engine
<1>3. Budget' /\ PlanCovered' /\ Counters' /\ Readmission'
  BY <1>0, <1>2, PlanSame
<1>4. LocalTypes' /\ Phases' /\ Tried' /\ PlannedBefore'
  BY <1>0, <1>2 DEF IInv, LocalTypes, Phases, Tried, PlannedBefore
<1> QED  BY <1>1, <1>3, <1>4 DEF IInv, Settled, UnderWay

LEMMA EndWaitingKeeps == ASSUME IInv, EndWaiting PROVE IInv'
<1>0. UNCHANGED <<config, requests, queues, engine>> /\ UNCHANGED <<at, budget, plan, preempted>>
  BY DEF EndWaiting
<1>1. Settled'
  BY <1>0, IInvParts, SettledSame
<1>2. pc = "waiting" /\ pc' = "commit" /\ running' = running /\ flight' = flight
  BY DEF EndWaiting, queues, engine
<1>3. Budget' /\ PlanCovered' /\ Counters' /\ Readmission'
  BY <1>0, <1>2, PlanSame
<1>4. LocalTypes' /\ Phases' /\ Tried' /\ PlannedBefore'
  BY <1>0, <1>2 DEF IInv, LocalTypes, Phases, Tried, PlannedBefore
<1> QED  BY <1>1, <1>3, <1>4 DEF IInv, Settled, UnderWay

(* A running request that is not passed over has between one token to do and *)
(* what is left of the budget.                                               *)
LEMMA TokensToDo ==
  ASSUME RequestTypes, NEW r \in ReqIds, Exact(r), budget \in Nat \ {0},
         NumNewTokens(r) # 0
  PROVE  TriedSound(r, NumNewTokens(r))
<1> DEFINE x == tokens[r] + specs[r] + placeholders[r] - computed[r]
           y == Least(Chunked(x), budget)
<1>0. /\ tokens[r] \in Nat /\ computed[r] \in Nat /\ computed[r] <= MaxModelLen - 1
      /\ placeholders[r] \in Nat /\ specs[r] \in Nat /\ MaxModelLen \in Nat /\ LongPrefill \in Nat
  BY Ranges, Sizes
<1>1. x \in Nat \ {0}
  BY <1>0 DEF Exact
<1>2. Chunked(x) \in Nat \ {0} /\ Chunked(x) <= x
  <2> HIDE DEF x
  <2> QED  BY <1>0, <1>1 DEF Chunked
<1>3. y \in Nat \ {0} /\ y <= x /\ y <= budget
  <2> HIDE DEF x
  <2> QED  BY <1>1, <1>2 DEF Least
<1>4. NumNewTokens(r) = Least(y, MaxModelLen - 1 - computed[r])
  BY DEF NumNewTokens, InModelLen
<1>5. x + computed[r] = tokens[r] + specs[r] + placeholders[r]
  BY <1>0
<1> HIDE DEF x, y
<1> QED  BY <1>0, <1>1, <1>3, <1>4, <1>5 DEF Least, TriedSound

LEMMA ConsiderKeeps == ASSUME IInv, Consider PROVE IInv'
<1>0. UNCHANGED <<config, requests, queues, engine>> /\ UNCHANGED <<at, budget, plan, preempted>>
  BY DEF Consider
<1> DEFINE r == running[at]
<1>1. Settled'
  BY <1>0, IInvParts, SettledSame
<1>2. /\ pc = "running" /\ pc' = "allocate" /\ running' = running /\ flight' = flight
      /\ current'.req = r /\ current'.new = NumNewTokens(r)
      /\ at <= Len(running) /\ budget > 0 /\ NumNewTokens(r) # 0
      /\ UNCHANGED <<computed, tokens, specs, placeholders>>
  BY DEF Consider, InLoop, Idles, queues, engine, requests
<1>3. /\ at \in DOMAIN running /\ r \in ReqIds /\ r \in ToSet(running) /\ at <= at
      /\ budget \in Nat \ {0}
  <2>1. at \in Nat \ {0} /\ running \in Seq(ReqIds) /\ budget \in Nat
    BY DEF IInv, RequestTypes, LocalTypes
  <2> QED  BY <1>2, <2>1 DEF ToSet
<1>4. r \notin DOMAIN plan
  <2>1. SUFFICES ASSUME r \in DOMAIN plan PROVE FALSE
    OBVIOUS
  <2>2. PICK i \in DOMAIN running : i < at /\ running[i] = r
    BY <1>2, <2>1 DEF IInv, PlannedBefore
  <2>3. i = at
    BY <1>3, <2>2 DEF IInv, QueuesMatchStatus, IsInjective
  <2> QED  BY <1>3, <2>2, <2>3 DEF IInv, RequestTypes
<1>5. TriedSound(r, NumNewTokens(r))
  <2>1. Exact(r)
    BY <1>3, <1>4 DEF IInv, Counters
  <2> QED  BY <1>2, <1>3, <2>1, TokensToDo DEF IInv
<1> HIDE DEF r
<1>6. Budget' /\ PlanCovered' /\ Counters' /\ Readmission'
  BY <1>0, <1>2, PlanSame
<1>7. LocalTypes' /\ Phases'
  BY <1>0, <1>2 DEF IInv, LocalTypes, Phases
<1>8. PlannedBefore'
  BY <1>0, <1>2, <1>3, <1>4 DEF IInv, PlannedBefore, r
<1>9. Tried'
  BY <1>0, <1>2, <1>5 DEF Tried, TriedSound
<1> QED  BY <1>1, <1>6, <1>7, <1>8, <1>9 DEF IInv, Settled, UnderWay

(* Growing the blocks of one request within the pool.                        *)
LEMMA BlocksGrown ==
  ASSUME RequestTypes, Total(blocks) <= NumBlocks, NEW r \in ReqIds,
         NEW n \in Nat, NEW m \in Nat, m <= n, m <= MaxModelLen, Fits(r, n)
  PROVE  /\ Grown(r, n) \in Nat /\ Grown(r, n) >= blocks[r] /\ Grown(r, n) * BlockSize >= m
         /\ [blocks EXCEPT ![r] = Grown(r, n)] \in Blocks
         /\ Total([blocks EXCEPT ![r] = Grown(r, n)]) <= NumBlocks
<1> DEFINE g == Grown(r, n)
<1>1. BlocksFor(n) \in Nat /\ BlocksFor(n) * BlockSize >= m
  BY BlocksHold
<1>2. blocks[r] \in Nat /\ BlockSize \in Nat /\ NumBlocks \in Nat
  BY Ranges, Sizes
<1>3. g \in Nat /\ g >= blocks[r] /\ g >= BlocksFor(n) /\ (g = blocks[r] \/ g = BlocksFor(n))
  BY <1>1, <1>2 DEF Grown
<1>4. BlocksFor(n) - blocks[r] <= NumBlocks - Total(blocks)
  BY DEF Fits
<1> HIDE DEF g
<1>5. BlocksFor(n) * BlockSize <= g * BlockSize /\ g * BlockSize \in Nat
      /\ BlocksFor(n) * BlockSize \in Nat
  BY <1>1, <1>2, <1>3, Monotone
<1>6. g * BlockSize >= m
  BY <1>1, <1>5
<1>7. blocks \in Blocks /\ [blocks EXCEPT ![r] = g] \in Blocks
  BY <1>3 DEF RequestTypes, Blocks
<1>8. Total([blocks EXCEPT ![r] = g]) = Total(blocks) - blocks[r] + g /\ Total(blocks) \in Nat
  BY <1>3, <1>7, BlocksChange, BlocksTotal
<1>9. Total([blocks EXCEPT ![r] = g]) <= NumBlocks
  BY <1>1, <1>2, <1>3, <1>4, <1>8
<1> QED  BY <1>3, <1>6, <1>7, <1>9 DEF g

(* The row that is planned for the request that was tried.                   *)
LEMMA RowPlanned ==
  ASSUME RequestTypes, NEW r \in ReqIds, NEW n, Exact(r), budget \in Nat, TriedSound(r, n)
  PROVE  SpecOf(r, n) \in 0 .. NumSpec /\ PlannedSound(r, n, SpecOf(r, n))
<1> DEFINE beyond == n + computed[r] - tokens[r] - placeholders[r]
<1>0. /\ tokens[r] \in Nat /\ computed[r] \in Nat /\ MaxModelLen \in Nat
      /\ placeholders[r] \in Nat /\ specs[r] \in 0 .. NumSpec /\ NumSpec \in Nat
  BY Ranges, Sizes
<1>1. /\ n \in Nat \ {0} /\ computed[r] + n <= MaxModelLen - 1
      /\ computed[r] + n <= tokens[r] + specs[r] + placeholders[r]
  BY DEF TriedSound
<1>2. beyond \in Int /\ beyond <= specs[r]
  BY <1>0, <1>1
<1>3. SpecOf(r, n) = IF beyond > 0 THEN beyond ELSE 0
  <2>1. Least(beyond, specs[r]) = beyond
    <3> HIDE DEF beyond
    <3> QED  BY <1>2 DEF Least
  <2> QED  BY <2>1 DEF SpecOf
<1>4. SpecOf(r, n) \in 0 .. NumSpec
  <2> HIDE DEF beyond
  <2> QED  BY <1>0, <1>2, <1>3
<1>5. CASE computed[r] + n >= tokens[r] + placeholders[r]
  BY <1>0, <1>1, <1>3, <1>4, <1>5 DEF PlannedSound
<1>6. CASE ~(computed[r] + n >= tokens[r] + placeholders[r])
  <2>1. placeholders[r] = 0
    BY <1>0, <1>1, <1>6 DEF Exact
  <2> QED  BY <1>1, <1>4, <1>6, <2>1 DEF PlannedSound
<1> QED  BY <1>4, <1>5, <1>6

LEMMA AllocateKeeps == ASSUME IInv, Allocate PROVE IInv'
<1> DEFINE r == current.req
           n == current.new
           need == computed[r] + n + NumSpec
           row == [new |-> n, spec |-> SpecOf(r, n), kind |-> "running"]
<1>0. /\ pc = "allocate" /\ Fits(r, need)
      /\ blocks' = [blocks EXCEPT ![r] = Grown(r, need)]
      /\ plan' = With(plan, r, row)
      /\ specs' = [specs EXCEPT ![r] = 0]
      /\ budget' = budget - n /\ at' = at + 1 /\ pc' = "running"
      /\ UNCHANGED <<preempted, status, tokens, computed, placeholders, chunk>>
      /\ UNCHANGED <<policy, pause, running, waiting, finished_ids, prev_step, flight, worker>>
  BY DEF Allocate, config, queues, engine
<1>1. RequestTypes /\ QueuesMatchStatus /\ HeldBlocksCover /\ LocalTypes
  BY DEF IInv
<1>2. r \notin DOMAIN plan /\ TriedSound(r, n)
  BY <1>0 DEF IInv, PlannedBefore, Tried
<1>3. PICK p \in DOMAIN running : p <= at /\ running[p] = r
  BY <1>0 DEF IInv, PlannedBefore
<1>4. r \in ToSet(running) /\ r \in ReqIds /\ status[r] = "running" /\ Exact(r)
  <2>1. r \in ToSet(running)
    BY <1>3 DEF ToSet
  <2>2. Exact(r)
    BY <1>2, <2>1 DEF IInv, Counters
  <2> QED  BY <1>1, <2>1, <2>2, StatusOfQueued
<1>5. /\ n \in Nat \ {0} /\ n <= budget /\ computed[r] + n <= MaxModelLen - 1
      /\ computed[r] \in Nat /\ budget \in Nat
  <2>1. computed[r] \in Nat
    BY <1>1, <1>4, Ranges
  <2> QED  BY <1>1, <1>2, <2>1 DEF TriedSound, LocalTypes
<1>6. row \in PlanRow /\ PlannedSound(r, n, row.spec) /\ row.new = n
  <2>1. SpecOf(r, n) \in 0 .. NumSpec /\ PlannedSound(r, n, SpecOf(r, n))
    BY <1>1, <1>2, <1>4, <1>5, RowPlanned
  <2> QED  BY <1>5, <2>1 DEF PlanRow
<1> HIDE DEF row
<1>7. /\ plan' \in PlansOf /\ DOMAIN plan' = DOMAIN plan \cup {r}
      /\ plan'[r] = row /\ \A q \in DOMAIN plan : plan'[q] = plan[q]
      /\ Planned(plan') = Planned(plan) + n /\ Planned(plan) \in Nat
  <2>1. plan \in PlansOf
    BY <1>1 DEF LocalTypes
  <2> HIDE DEF r, n
  <2> DEFINE w == With(plan, r, row)
  <2>2. /\ w \in PlansOf /\ DOMAIN w = DOMAIN plan \cup {r}
        /\ w[r] = row /\ \A q \in DOMAIN plan : w[q] = plan[q]
        /\ Planned(w) = Planned(plan) + row.new
    BY <1>2, <1>4, <1>6, <2>1, PlanWith
  <2>3. Planned(plan) \in Nat
    BY <2>1, PlannedSum
  <2> QED  BY <1>0, <1>6, <2>2, <2>3
<1>8. /\ Grown(r, need) \in Nat /\ Grown(r, need) >= blocks[r]
      /\ Grown(r, need) * BlockSize >= computed[r] + n
      /\ blocks' \in Blocks /\ Total(blocks') <= NumBlocks
  <2>1. need \in Nat /\ computed[r] + n \in Nat /\ computed[r] + n <= need
        /\ computed[r] + n <= MaxModelLen
    BY <1>5, Sizes
  <2>2. Total(blocks) <= NumBlocks
    BY <1>1 DEF HeldBlocksCover
  <2> HIDE DEF need
  <2> QED  BY <1>0, <1>1, <1>4, <2>1, <2>2, BlocksGrown
<1> HIDE DEF need, n, r
<1>9. blocks'[r] = Grown(r, need) /\ \A q \in ReqIds \ {r} : blocks'[q] = blocks[q]
  BY <1>0, <1>1, <1>4 DEF RequestTypes
<1>10. RequestTypes'
  <2>1. specs' \in [ReqIds -> 0 .. NumSpec] /\ blocks' \in [ReqIds -> Nat]
    <3>1. specs \in [ReqIds -> 0 .. NumSpec] /\ 0 \in 0 .. NumSpec
      BY <1>1, Sizes DEF RequestTypes
    <3> QED  BY <1>0, <1>8, <3>1 DEF Blocks
  <2> QED  BY <1>0, <1>1, <2>1 DEF RequestTypes
<1>11. QueuesMatchStatus' /\ WorkerKnows' /\ InFlightRows'
  BY <1>0 DEF IInv, QueuesMatchStatus, WorkerKnows, InFlightRows, Live, ExpectedIn
<1>12. HeldBlocksCover'
  <2>1. ASSUME NEW q \in ReqIds
        PROVE  IF status'[q] = "running" THEN blocks'[q] * BlockSize >= computed'[q]
               ELSE blocks'[q] = 0
    <3>1. CASE q = r
      <4>1. Grown(r, need) * BlockSize >= computed[r]
        <5>1. Grown(r, need) * BlockSize \in Nat
          BY <1>8, Sizes
        <5> QED  BY <1>5, <1>8, <5>1
      <4> QED  BY <1>0, <1>4, <1>9, <3>1, <4>1
    <3>2. CASE q # r
      BY <1>0, <1>1, <1>9, <3>2 DEF HeldBlocksCover
    <3> QED  BY <3>1, <3>2
  <2> QED  BY <1>8, <2>1 DEF HeldBlocksCover
<1>13. LocalTypes' /\ Phases'
  <2>1. at' \in Nat \ {0} /\ budget' \in Nat
    BY <1>0, <1>1, <1>5 DEF LocalTypes
  <2> QED  BY <1>0, <1>1, <1>7, <2>1 DEF IInv, LocalTypes, Phases
<1>14. PlannedBefore'
  <2>1. ASSUME NEW q \in DOMAIN plan' PROVE \E i \in DOMAIN running : i < at + 1 /\ running[i] = q
    <3>1. at \in Nat /\ \A i \in DOMAIN running : i \in Nat
      <4>1. running \in Seq(ReqIds) /\ at \in Nat
        BY <1>1 DEF LocalTypes, RequestTypes
      <4> QED  BY <4>1
    <3>2. CASE q = r
      BY <1>3, <3>1, <3>2
    <3>3. CASE q # r
      <4>1. PICK i \in DOMAIN running : i < at /\ running[i] = q
        BY <1>0, <1>7, <3>3 DEF IInv, PlannedBefore
      <4> QED  BY <3>1, <4>1
    <3> QED  BY <3>2, <3>3
  <2>2. DOMAIN plan' \subseteq ToSet(running)
    BY <1>4, <1>7 DEF IInv, PlannedBefore
  <2> QED  BY <1>0, <2>1, <2>2 DEF PlannedBefore
<1>15. Budget'
  <2>1. budget + Planned(plan) = IF pause = "all" THEN 0 ELSE MaxBatchTokens
    BY <1>0 DEF IInv, Budget
  <2>2. (budget - n) + (Planned(plan) + n) = budget + Planned(plan)
    BY <1>5, <1>7
  <2> QED  BY <1>0, <1>7, <2>1, <2>2 DEF IInv, Budget
<1>16. PlanCovered'
  BY <1>0, <1>6, <1>7, <1>8, <1>9, PlannedSum DEF IInv, LocalTypes, PlanCovered
<1>17. Counters'
  BY <1>0, <1>4, <1>6, <1>7 DEF IInv, Counters, Exact, PlannedSound
<1>18. Tried' /\ Readmission'
  BY <1>0, <1>7 DEF IInv, Tried, Readmission, row
<1> QED
  BY <1>10, <1>11, <1>12, <1>13, <1>14, <1>15, <1>16, <1>17, <1>18 DEF IInv

(* Who stands behind the one that leaves moves forward.                      *)
LEMMA MovesForward ==
  ASSUME NEW q \in Seq(ReqIds), NEW k \in DOMAIN q, NEW i \in DOMAIN q, q[i] # q[k]
  PROVE  \E j \in DOMAIN Without(q, {q[k]}) :
           /\ Without(q, {q[k]})[j] = q[i] /\ j \in Nat
           /\ j <= i /\ (k < i => j < i)
<1> DEFINE w == Without(q, {q[k]})
<1>1. KeepsOrder(q, {q[k]}, w, Len(q)) /\ w \in Seq(ReqIds)
  BY WithoutFacts
<1> HIDE DEF w
<1>2. Len(q) \in Nat /\ DOMAIN q = 1 .. Len(q) /\ DOMAIN w = 1 .. Len(w) /\ Len(w) \in Nat
  BY <1>1
<1>3. PICK j \in 1 .. Len(w) : j <= i /\ w[j] = q[i] /\ ((\E m \in 1 .. i - 1 : q[m] \in {q[k]}) => j < i)
  <2>1. i \in 1 .. Len(q) /\ q[i] \notin {q[k]}
    BY <1>2
  <2> QED  BY <1>1, <2>1 DEF KeepsOrder
<1>4. k < i => j < i
  <2>1. k < i => k \in 1 .. i - 1
    BY <1>2
  <2> QED  BY <1>3, <2>1
<1> QED  BY <1>2, <1>3, <1>4 DEF w

LEMMA PreemptKeeps == ASSUME IInv, Preempt PROVE IInv'
<1> DEFINE v == Victim
           c == current.req
<1>0. /\ pc = "allocate"
      /\ running' = Without(running, {v}) /\ waiting' = <<v>> \o waiting
      /\ status' = [status EXCEPT ![v] = "preempted"]
      /\ computed' = [computed EXCEPT ![v] = 0]
      /\ specs' = [specs EXCEPT ![v] = 0]
      /\ blocks' = FreeBlocks({v})
      /\ preempted' = TRUE
      /\ v \in DOMAIN plan =>
           plan' = Minus(plan, v) /\ at' = at - 1 /\ budget' = budget + plan[v].new
      /\ v \notin DOMAIN plan => UNCHANGED <<plan, at, budget>>
      /\ pc' \in {"allocate", "commit"} /\ (pc' = "allocate" => v # c)
      /\ UNCHANGED <<current, tokens, placeholders, chunk>>
      /\ UNCHANGED <<policy, pause, finished_ids, prev_step, flight, worker>>
  BY DEF Preempt, Unplan, config, engine
<1>1. RequestTypes /\ QueuesMatchStatus /\ HeldBlocksCover /\ LocalTypes
  BY DEF IInv
<1>2. PICK p \in DOMAIN running : p <= at /\ running[p] = c
  BY <1>0 DEF IInv, PlannedBefore
<1>3. v \in ToSet(running) /\ v \in ReqIds /\ status[v] = "running"
  <2>1. running \in Seq(ReqIds) /\ ToSet(running) # {}
    BY <1>1, <1>2 DEF ToSet, RequestTypes
  <2>2. v \in ToSet(running)
    BY <2>1, ChoicesExist
  <2> QED  BY <1>1, <2>2, StatusOfQueued
<1> HIDE DEF v, c
<1>4. PICK k \in DOMAIN running : running[k] = v
  BY <1>3 DEF ToSet
<1>5. /\ status'[v] = "preempted" /\ computed'[v] = 0 /\ blocks'[v] = 0
      /\ \A q \in ReqIds \ {v} : /\ status'[q] = status[q] /\ computed'[q] = computed[q]
                                 /\ blocks'[q] = blocks[q] /\ specs'[q] = specs[q]
  BY <1>0, <1>1, <1>3 DEF RequestTypes, FreeBlocks
<1>6. /\ running' \in Seq(ReqIds) /\ Len(running') <= Len(running)
      /\ ToSet(running') = ToSet(running) \ {v} /\ IsInjective(running')
  BY <1>0, <1>1, WithoutFacts DEF RequestTypes, QueuesMatchStatus
<1>7. /\ waiting' \in Seq(ReqIds) /\ ToSet(waiting') = ToSet(waiting) \cup {v}
      /\ IsInjective(waiting')
  <2>1. v \notin ToSet(waiting)
    BY <1>1, <1>3, StatusOfQueued
  <2> QED  BY <1>0, <1>1, <1>3, <2>1, PushFacts DEF RequestTypes, QueuesMatchStatus
<1>8. /\ plan' \in PlansOf /\ DOMAIN plan' = DOMAIN plan \ {v}
      /\ \A q \in DOMAIN plan' : plan'[q] = plan[q]
      /\ budget' \in Nat /\ budget' >= budget
      /\ budget' + Planned(plan') = budget + Planned(plan)
  <2>0. plan \in PlansOf /\ budget \in Nat /\ Planned(plan) \in Nat
    BY <1>1, PlannedSum DEF LocalTypes
  <2>1. CASE v \in DOMAIN plan
    <3> DEFINE m == Minus(plan, v)
    <3>1. /\ m \in PlansOf /\ DOMAIN m = DOMAIN plan \ {v}
          /\ \A q \in DOMAIN plan \ {v} : m[q] = plan[q]
          /\ Planned(m) = Planned(plan) - plan[v].new /\ plan[v].new \in Nat
      BY <2>0, <2>1, PlanMinus, PlannedSum
    <3> HIDE DEF m
    <3>2. (budget + plan[v].new) + (Planned(plan) - plan[v].new) = budget + Planned(plan)
      BY <2>0, <3>1
    <3> QED  BY <1>0, <2>0, <2>1, <3>1, <3>2 DEF m
  <2>2. CASE v \notin DOMAIN plan
    <3>1. plan' = plan /\ budget' = budget
      BY <1>0, <2>2
    <3>2. DOMAIN plan = DOMAIN plan \ {v}
      BY <2>2
    <3> QED  BY <2>0, <3>1, <3>2
  <2> QED  BY <2>1, <2>2
<1>9. RequestTypes'
  <2>1. /\ status' \in [ReqIds -> {"new", "waiting", "preempted", "running", "finished"}]
        /\ computed' \in [ReqIds -> 0 .. MaxModelLen - 1]
        /\ specs' \in [ReqIds -> 0 .. NumSpec] /\ blocks' \in [ReqIds -> Nat]
    <3>1. 0 \in 0 .. MaxModelLen - 1 /\ 0 \in 0 .. NumSpec
      BY Sizes
    <3> QED  BY <1>0, <1>1, <3>1 DEF RequestTypes, FreeBlocks
  <2> QED  BY <1>0, <1>1, <1>6, <1>7, <2>1 DEF RequestTypes
<1>10. QueuesMatchStatus'
  BY <1>1, <1>3, <1>5, <1>6, <1>7 DEF QueuesMatchStatus
<1>11. HeldBlocksCover'
  <2>1. Total(blocks') <= NumBlocks
    <3>1. blocks \in Blocks /\ Total(blocks) <= NumBlocks /\ NumBlocks \in Nat
      BY <1>1, Sizes DEF RequestTypes, Blocks, HeldBlocksCover
    <3>2. FreeBlocks({v}) \in Blocks /\ Total(FreeBlocks({v})) <= Total(blocks)
      BY <3>1, BlocksFreed
    <3> QED  BY <1>0, <3>1, <3>2, BlocksTotal
  <2>2. ASSUME NEW q \in ReqIds
        PROVE  IF status'[q] = "running" THEN blocks'[q] * BlockSize >= computed'[q]
               ELSE blocks'[q] = 0
    BY <1>1, <1>5 DEF HeldBlocksCover
  <2> QED  BY <2>1, <2>2 DEF HeldBlocksCover
<1>12. InFlightRows' /\ WorkerKnows'
  <2>1. \A q \in ReqIds : Live(q)' => Live(q)
    BY <1>3, <1>5 DEF Live
  <2>2. \A q \in ReqIds : Live(q) => Live(q)'
    BY <1>3, <1>5 DEF Live
  <2>3. InFlightRows'
    BY <1>0, <1>5, <2>1 DEF IInv, InFlightRows, ExpectedIn
  <2>4. WorkerKnows'
    BY <1>0, <1>1, <2>2 DEF IInv, WorkerKnows, RequestTypes
  <2> QED  BY <2>3, <2>4
<1>13. ASSUME NEW r \in ReqIds, r # v, NEW i \in DOMAIN running, running[i] = r
       PROVE  \E j \in DOMAIN running' :
                /\ running'[j] = r /\ j \in Nat /\ j <= i /\ (k < i => j < i)
  BY <1>0, <1>1, <1>4, <1>13, MovesForward DEF RequestTypes
<1>14. at \in Nat /\ k \in Nat /\ \A i \in DOMAIN running : i \in Nat \ {0}
  <2>1. running \in Seq(ReqIds) /\ at \in Nat
    BY <1>1 DEF LocalTypes, RequestTypes
  <2> QED  BY <2>1
<1>15. v \in DOMAIN plan => k < at /\ at' = at - 1
  <2>1. SUFFICES ASSUME v \in DOMAIN plan PROVE k < at
    BY <1>0
  <2>2. PICK i \in DOMAIN running : i < at /\ running[i] = v
    BY <1>0, <2>1 DEF IInv, PlannedBefore
  <2>3. i = k
    BY <1>1, <1>4, <2>2 DEF QueuesMatchStatus, IsInjective
  <2> QED  BY <2>2, <2>3
<1>16. LocalTypes' /\ Phases'
  <2>1. at' \in Nat \ {0}
    <3>1. CASE v \in DOMAIN plan
      BY <1>4, <1>14, <1>15, <3>1
    <3>2. CASE v \notin DOMAIN plan
      BY <1>0, <1>1, <3>2 DEF LocalTypes
    <3> QED  BY <3>1, <3>2
  <2>2. preempted' \in BOOLEAN
    BY <1>0, Zenon
  <2>3. LocalTypes'
    BY <1>0, <1>8, <2>1, <2>2 DEF LocalTypes
  <2> QED  BY <1>0, <2>3 DEF IInv, Phases
<1>17. PlannedBefore'
  <2>1. DOMAIN plan' \subseteq ToSet(running')
    BY <1>6, <1>8 DEF IInv, PlannedBefore
  <2>2. ASSUME NEW r \in DOMAIN plan' PROVE \E j \in DOMAIN running' : j < at' /\ running'[j] = r
    <3>1. PICK i \in DOMAIN running : i < at /\ running[i] = r
      BY <1>0, <1>8 DEF IInv, PlannedBefore
    <3>2. r # v /\ r \in ReqIds /\ i # k
      BY <1>1, <1>4, <1>6, <1>8, <2>1, <3>1, StatusOfQueued
    <3>3. PICK j \in DOMAIN running' :
             running'[j] = r /\ j \in Nat /\ j <= i /\ (k < i => j < i)
      BY <1>13, <3>1, <3>2
    <3>4. j < at'
      <4>1. CASE v \in DOMAIN plan
        BY <1>14, <1>15, <3>1, <3>2, <3>3, <4>1
      <4>2. CASE v \notin DOMAIN plan
        BY <1>0, <1>14, <3>1, <3>3, <4>2
      <4> QED  BY <4>1, <4>2
    <3> QED  BY <3>3, <3>4
  <2>3. ASSUME pc' = "allocate"
        PROVE  /\ current'.req \notin DOMAIN plan'
               /\ \E j \in DOMAIN running' : j <= at' /\ running'[j] = current'.req
    <3>1. c # v /\ c \in ReqIds /\ p # k /\ current'.req = c
      <4>1. c \in ToSet(running)
        BY <1>2 DEF ToSet
      <4>2. c \in ReqIds /\ c # v
        BY <1>0, <1>1, <2>3, <4>1, StatusOfQueued
      <4> QED  BY <1>0, <1>2, <1>4, <4>2 DEF c
    <3>2. c \notin DOMAIN plan
      BY <1>0 DEF IInv, PlannedBefore, c
    <3>3. PICK j \in DOMAIN running' :
             running'[j] = c /\ j \in Nat /\ j <= p /\ (k < p => j < p)
      BY <1>2, <1>13, <3>1
    <3>4. j <= at'
      <4>1. CASE v \in DOMAIN plan
        BY <1>2, <1>14, <1>15, <3>1, <3>3, <4>1
      <4>2. CASE v \notin DOMAIN plan
        BY <1>0, <1>2, <1>14, <3>3, <4>2
      <4> QED  BY <4>1, <4>2
    <3> QED  BY <1>8, <3>1, <3>2, <3>3, <3>4
  <2> QED  BY <1>0, <2>1, <2>2, <2>3 DEF PlannedBefore
<1>18. Budget'
  <2>1. Len(running') <= MaxRunning
    <3>1. Len(running) <= MaxRunning /\ running \in Seq(ReqIds)
      BY <1>1 DEF IInv, Budget, RequestTypes
    <3>2. Len(running) \in Nat /\ Len(running') \in Nat
      BY <1>6, <3>1
    <3> QED  BY <1>6, <3>1, <3>2, Sizes
  <2> QED  BY <1>0, <1>8, <2>1 DEF IInv, Budget
<1>19. DOMAIN plan \subseteq ToSet(running) /\ DOMAIN plan \subseteq ReqIds
  BY <1>1, StatusOfQueued DEF IInv, PlannedBefore
<1>20. PlanCovered'
  BY <1>5, <1>8, <1>19 DEF IInv, PlanCovered
<1>21. Counters'
  <2>1. \A q \in ReqIds \ {v} : Exact(q) => Exact(q)'
    BY <1>0, <1>5 DEF Exact
  <2>3. ASSUME NEW q \in ToSet(running') \ DOMAIN plan' PROVE Exact(q)'
    BY <1>1, <1>6, <1>8, <2>1, StatusOfQueued DEF IInv, Counters
  <2>4. ASSUME NEW q \in DOMAIN plan' PROVE PlannedSound(q, plan[q].new, plan[q].spec)'
    BY <1>0, <1>5, <1>8, <1>19 DEF IInv, Counters, PlannedSound
  <2>5. \A q \in ReqIds : status'[q] = "preempted" => computed'[q] = 0
    BY <1>5 DEF IInv, Counters
  <2> QED  BY <2>3, <2>4, <2>5 DEF Counters
<1>22. Tried'
  <2>1. SUFFICES ASSUME pc' = "allocate" PROVE TriedSound(c, current.new)'
    BY <1>0 DEF Tried, c
  <2>2. TriedSound(c, current.new) /\ c # v /\ c \in ReqIds
    <3>1. c \in ToSet(running)
      BY <1>2 DEF ToSet
    <3> QED  BY <1>0, <1>1, <2>1, <3>1, StatusOfQueued DEF IInv, Tried, c
  <2>3. budget \in Nat /\ budget' \in Nat
    BY <1>1, <1>8 DEF LocalTypes
  <2> QED  BY <1>0, <1>5, <1>8, <2>2, <2>3 DEF TriedSound, c
<1>23. Readmission'
  BY <1>0, <1>8 DEF IInv, Readmission
<1> QED
  BY <1>9, <1>10, <1>11, <1>12, <1>16, <1>17, <1>18, <1>20, <1>21, <1>22, <1>23 DEF IInv

(* While a step is planned at most one is in flight: who was not in the      *)
(* previous step has nothing in flight.                                      *)
LEMMA NothingInFlight ==
  ASSUME TwoInFlight, IInv, pc # "idle", NEW r \in ReqIds, Live(r), r \notin prev_step
  PROVE  placeholders[r] = 0
<1>1. flight \in Seq(StepsOf) /\ Len(flight) < InFlight /\ InFlight \in Nat /\ InFlight <= 2
  BY Sizes DEF IInv, RequestTypes, Phases, TwoInFlight
<1>2. Len(flight) \in Nat /\ Len(flight) <= 1
  BY <1>1
<1>3. ASSUME NEW i \in 1 .. Len(flight) PROVE Awaited(flight[i], r) = 0
  <2>1. flight # <<>> /\ i = Len(flight)
    BY <1>1, <1>2
  <2>2. r \notin DOMAIN flight[i]
    BY <2>1 DEF IInv, InFlightRows
  <2> QED  BY <2>2 DEF Awaited
<1>4. ExpectedIn(flight, r) = 0
  BY <1>1, <1>3, ExpectedNone
<1> QED  BY <1>4 DEF IInv, InFlightRows

LEMMA AdmitKeeps == ASSUME TwoInFlight, IInv, Admit PROVE IInv'
<1> DEFINE r == Peek
<1>1. PICK hit \in PrefixHits :
        /\ hit < tokens[r] /\ Fits(r, hit + ToPrefill(r, hit))
        /\ computed' = [computed EXCEPT ![r] = hit]
        /\ blocks' = [blocks EXCEPT ![r] = Grown(r, hit + ToPrefill(r, hit))]
        /\ plan' = With(plan, r, [new |-> ToPrefill(r, hit), spec |-> 0,
                                  kind |-> IF status[r] = "waiting" THEN "new" ELSE "resumed"])
        /\ budget' = budget - ToPrefill(r, hit)
  BY DEF Admit
<1> DEFINE n == ToPrefill(r, hit)
           row == [new |-> n, spec |-> 0,
                   kind |-> IF status[r] = "waiting" THEN "new" ELSE "resumed"]
<1>2. /\ pc = "waiting" /\ pc' = "waiting" /\ waiting # <<>> /\ budget > 0
      /\ Len(running) # MaxRunning
      /\ waiting' = Without(waiting, {r}) /\ running' = Append(running, r)
      /\ status' = [status EXCEPT ![r] = "running"]
      /\ UNCHANGED <<at, current, preempted, tokens, placeholders, specs, chunk>>
      /\ UNCHANGED <<policy, pause, finished_ids, prev_step, flight, worker>>
  BY DEF Admit, MayAdmit, config, engine
<1>3. RequestTypes /\ QueuesMatchStatus /\ HeldBlocksCover /\ LocalTypes
  BY DEF IInv
<1>4. /\ r \in ToSet(waiting) /\ r \in ReqIds /\ status[r] \in {"waiting", "preempted"}
      /\ r \notin ToSet(running) /\ Live(r)
  <2>1. r \in ToSet(waiting)
    BY <1>2, <1>3, ChoicesExist DEF RequestTypes
  <2> HIDE DEF r
  <2>2. r \in ReqIds
    BY <1>3, <2>1, StatusOfQueued
  <2> QED  BY <1>3, <2>1, <2>2, StatusOfQueued
<1> HIDE DEF r
<1>5. r \notin DOMAIN plan /\ blocks[r] = 0
  BY <1>3, <1>4 DEF IInv, PlannedBefore, HeldBlocksCover
<1>6. placeholders[r] = 0 /\ (status[r] = "preempted" => r \notin prev_step)
  <2>1. status[r] = "waiting" => placeholders[r] = 0
    BY <1>4 DEF IInv, InFlightRows
  <2>2. status[r] = "preempted" => r \notin prev_step
    BY <1>2, <1>4 DEF IInv, Phases, Readmission
  <2> QED  BY <1>2, <1>4, <2>1, <2>2, NothingInFlight
<1>7. /\ hit \in Nat /\ n \in Nat \ {0} /\ n <= budget /\ hit + n <= tokens[r]
      /\ tokens[r] <= MaxModelLen - 1 /\ tokens[r] \in Nat /\ budget \in Nat
  <2>1. hit \in Nat /\ LongPrefill \in Nat /\ tokens[r] \in Nat /\ budget \in Nat
        /\ tokens[r] <= MaxModelLen - 1 /\ MaxModelLen \in Nat
    BY <1>3, <1>4, Sizes, Ranges DEF LocalTypes
  <2>2. tokens[r] - hit \in Nat \ {0}
    BY <1>1, <2>1
  <2> DEFINE x == tokens[r] - hit
  <2>3. Chunked(x) \in Nat \ {0} /\ Chunked(x) <= x
    <3> HIDE DEF x
    <3> QED  BY <2>1, <2>2 DEF Chunked, x
  <2>4. n = Least(Chunked(x), budget)
    BY DEF ToPrefill
  <2>5. hit + x = tokens[r] /\ x \in Nat
    BY <2>1, <2>2
  <2> HIDE DEF x, n
  <2> QED  BY <1>2, <2>1, <2>3, <2>4, <2>5 DEF Least
<1> HIDE DEF n
<1>8. row \in PlanRow /\ row.new = n /\ row.spec = 0
      /\ (row.kind = "resumed" => r \notin prev_step)
  <2>1. 0 \in 0 .. NumSpec
    BY Sizes
  <2> QED  BY <1>6, <1>4, <1>7, <2>1 DEF PlanRow
<1>9. plan' = With(plan, r, row) /\ budget' = budget - n
  BY <1>1 DEF n
<1> HIDE DEF row
<1>10. /\ plan' \in PlansOf /\ DOMAIN plan' = DOMAIN plan \cup {r}
       /\ plan'[r] = row /\ \A q \in DOMAIN plan : plan'[q] = plan[q]
       /\ Planned(plan') = Planned(plan) + n /\ Planned(plan) \in Nat
  <2>1. plan \in PlansOf /\ Planned(plan) \in Nat
    BY <1>3, PlannedSum DEF LocalTypes
  <2>2. \A x \in ReqIds, y \in PlanRow : x \notin DOMAIN plan =>
           LET w == With(plan, x, y)
           IN /\ w \in PlansOf /\ DOMAIN w = DOMAIN plan \cup {x}
              /\ w[x] = y /\ \A q \in DOMAIN plan : w[q] = plan[q]
              /\ Planned(w) = Planned(plan) + y.new
    BY <2>1, PlanWith
  <2> QED  BY <1>4, <1>5, <1>8, <1>9, <2>1, <2>2
<1>11. /\ blocks'[r] * BlockSize >= hit + n /\ blocks'[r] * BlockSize \in Nat
       /\ blocks' \in Blocks /\ Total(blocks') <= NumBlocks
       /\ \A q \in ReqIds \ {r} : blocks'[q] = blocks[q]
  <2> DEFINE need == hit + n
             g == Grown(r, need)
  <2>1. need \in Nat /\ need <= MaxModelLen /\ need <= need /\ Fits(r, need)
        /\ blocks' = [blocks EXCEPT ![r] = g]
    BY <1>1, <1>7, Sizes DEF n
  <2>2. Total(blocks) <= NumBlocks
    BY <1>3 DEF HeldBlocksCover
  <2> HIDE DEF need
  <2>3. /\ g \in Nat /\ g * BlockSize >= need /\ [blocks EXCEPT ![r] = g] \in Blocks
        /\ Total([blocks EXCEPT ![r] = g]) <= NumBlocks
    BY <1>3, <1>4, <2>1, <2>2, BlocksGrown
  <2> HIDE DEF g
  <2>4. blocks'[r] = g /\ \A q \in ReqIds \ {r} : blocks'[q] = blocks[q]
    BY <1>3, <1>4, <2>1 DEF RequestTypes
  <2>5. g * BlockSize \in Nat
    BY <2>3, Sizes
  <2> QED  BY <2>1, <2>3, <2>4, <2>5 DEF need
<1>12. /\ status'[r] = "running" /\ computed'[r] = hit
       /\ \A q \in ReqIds \ {r} : status'[q] = status[q] /\ computed'[q] = computed[q]
  BY <1>1, <1>2, <1>3, <1>4 DEF RequestTypes
<1>13. /\ running' \in Seq(ReqIds) /\ Len(running') = Len(running) + 1
       /\ ToSet(running') = ToSet(running) \cup {r} /\ IsInjective(running')
  BY <1>2, <1>3, <1>4, AppendFacts DEF RequestTypes, QueuesMatchStatus
<1>14. /\ waiting' \in Seq(ReqIds) /\ ToSet(waiting') = ToSet(waiting) \ {r}
       /\ IsInjective(waiting')
  BY <1>2, <1>3, WithoutFacts DEF RequestTypes, QueuesMatchStatus
<1>15. RequestTypes'
  <2>1. /\ status' \in [ReqIds -> {"new", "waiting", "preempted", "running", "finished"}]
        /\ computed' \in [ReqIds -> 0 .. MaxModelLen - 1] /\ blocks' \in [ReqIds -> Nat]
    <3>1. hit \in 0 .. MaxModelLen - 1
      BY <1>7, Sizes
    <3> QED  BY <1>1, <1>2, <1>3, <1>11, <3>1 DEF RequestTypes, Blocks
  <2> QED  BY <1>2, <1>3, <1>13, <1>14, <2>1 DEF RequestTypes
<1>16. QueuesMatchStatus'
  BY <1>3, <1>4, <1>12, <1>13, <1>14 DEF QueuesMatchStatus
<1>17. HeldBlocksCover'
  <2>1. ASSUME NEW q \in ReqIds
        PROVE  IF status'[q] = "running" THEN blocks'[q] * BlockSize >= computed'[q]
               ELSE blocks'[q] = 0
    <3>1. CASE q = r
      BY <1>7, <1>11, <1>12, <3>1
    <3>2. CASE q # r
      BY <1>3, <1>11, <1>12, <3>2 DEF HeldBlocksCover
    <3> QED  BY <3>1, <3>2
  <2> QED  BY <1>11, <2>1 DEF HeldBlocksCover
<1>18. InFlightRows' /\ WorkerKnows'
  <2>1. \A q \in ReqIds : Live(q) <=> Live(q)'
    BY <1>4, <1>12 DEF Live
  <2>2. \A q \in ReqIds : status'[q] \in {"new", "waiting"} => status[q] \in {"new", "waiting"}
    BY <1>12
  <2>3. InFlightRows'
    BY <1>2, <2>1, <2>2 DEF IInv, InFlightRows, ExpectedIn
  <2>4. WorkerKnows'
    BY <1>2, <1>3, <2>1 DEF IInv, WorkerKnows, RequestTypes
  <2> QED  BY <2>3, <2>4
<1>19. LocalTypes' /\ Phases' /\ PlannedBefore' /\ Tried'
  <2>1. budget' \in Nat
    BY <1>7, <1>9
  <2>2. LocalTypes'
    BY <1>2, <1>3, <1>10, <2>1 DEF LocalTypes
  <2>3. DOMAIN plan' \subseteq ToSet(running')
    BY <1>10, <1>13 DEF IInv, PlannedBefore
  <2> QED  BY <1>2, <2>2, <2>3 DEF IInv, Phases, PlannedBefore, Tried
<1>20. Budget'
  <2>1. Len(running') <= MaxRunning
    <3>1. Len(running) <= MaxRunning /\ running \in Seq(ReqIds)
      BY <1>3 DEF IInv, Budget, RequestTypes
    <3>2. Len(running) \in Nat
      BY <3>1
    <3> QED  BY <1>2, <1>13, <3>1, <3>2, Sizes
  <2>2. (budget - n) + (Planned(plan) + n) = budget + Planned(plan)
    BY <1>7, <1>10
  <2> QED  BY <1>2, <1>9, <1>10, <2>1, <2>2 DEF IInv, Budget
<1>21. DOMAIN plan \subseteq ToSet(running) /\ DOMAIN plan \subseteq ReqIds
  BY <1>3, StatusOfQueued DEF IInv, PlannedBefore
<1>22. PlanCovered'
  <2>1. ASSUME NEW q \in DOMAIN plan' PROVE blocks'[q] * BlockSize >= computed'[q] + plan'[q].new
    <3>1. CASE q = r
      BY <1>8, <1>10, <1>11, <1>12, <3>1
    <3>2. CASE q # r
      BY <1>10, <1>11, <1>12, <1>21, <3>2 DEF IInv, PlanCovered
    <3> QED  BY <3>1, <3>2
  <2> QED  BY <2>1 DEF PlanCovered
<1>23. Counters'
  <2>1. ASSUME NEW q \in ToSet(running') \ DOMAIN plan' PROVE Exact(q)'
    <3>1. q \in ToSet(running) \ DOMAIN plan /\ q # r /\ q \in ReqIds
      BY <1>3, <1>10, <1>13, StatusOfQueued
    <3> QED  BY <1>2, <1>12, <3>1 DEF IInv, Counters, Exact
  <2>2. ASSUME NEW q \in DOMAIN plan, q # r PROVE PlannedSound(q, plan[q].new, plan[q].spec)'
    BY <1>2, <1>10, <1>12, <1>21, <2>2 DEF IInv, Counters, PlannedSound
  <2>3. /\ computed'[r] + row.new <= MaxModelLen - 1
        /\ IF computed'[r] + row.new >= tokens'[r] + placeholders'[r]
           THEN computed'[r] + row.new = tokens'[r] + placeholders'[r] + row.spec
           ELSE placeholders'[r] = 0
    <3>1. /\ computed'[r] = hit /\ tokens'[r] = tokens[r] /\ placeholders'[r] = 0
          /\ row.new = n /\ row.spec = 0
      BY <1>2, <1>6, <1>8, <1>12
    <3>2. hit + n <= MaxModelLen - 1
      BY <1>7, Sizes
    <3>3. hit + n >= tokens[r] + 0 => hit + n = tokens[r] + 0 + 0
      BY <1>7
    <3> HIDE DEF row
    <3> QED  BY <3>1, <3>2, <3>3
  <2>4. \A q \in ReqIds : status'[q] = "preempted" => computed'[q] = 0
    BY <1>12 DEF IInv, Counters
  <2> QED  BY <1>10, <2>1, <2>2, <2>3, <2>4 DEF Counters, PlannedSound
<1>24. Readmission'
  <2>1. \A q \in ReqIds : status'[q] = "preempted" => status[q] = "preempted"
    BY <1>12
  <2> QED  BY <1>2, <1>8, <1>10, <2>1 DEF IInv, Readmission
<1> QED
  BY <1>15, <1>16, <1>17, <1>18, <1>19, <1>20, <1>22, <1>23, <1>24 DEF IInv

LEMMA CommitStepKeeps == ASSUME IInv, CommitStep PROVE IInv'
<1> DEFINE after(r)   == computed[r] + plan[r].new
           samples(r) == after(r) >= tokens[r] + placeholders[r]
           step == [r \in DOMAIN plan |-> [spec |-> plan[r].spec, samples |-> samples(r)]]
<1>0. /\ pc = "commit" /\ pc' = "idle" /\ at' = 1 /\ budget' = 0 /\ plan' = <<>>
      /\ preempted' = FALSE /\ finished_ids' = {} /\ prev_step' = DOMAIN plan
      /\ flight' = Append(flight, step)
      /\ worker' = (worker \ finished_ids) \cup DOMAIN plan
      /\ computed' = [r \in ReqIds |-> IF r \in DOMAIN plan THEN after(r) ELSE computed[r]]
      /\ chunk' = [r \in ReqIds |-> IF r \in DOMAIN plan THEN ~samples(r) ELSE chunk[r]]
      /\ placeholders' = [r \in ReqIds |->
           IF r \in {q \in DOMAIN plan : samples(q)} THEN placeholders[r] + 1 + plan[r].spec
           ELSE placeholders[r]]
      /\ specs' = [r \in ReqIds |->
           IF r \in {q \in DOMAIN plan : samples(q)} THEN NumSpec ELSE specs[r]]
      /\ UNCHANGED <<status, tokens, blocks, policy, pause, running, waiting>>
  BY DEF CommitStep, config, queues
<1>1. RequestTypes /\ QueuesMatchStatus /\ HeldBlocksCover /\ LocalTypes
  BY DEF IInv
<1>2. /\ DOMAIN plan \subseteq ToSet(running) /\ DOMAIN plan \subseteq ReqIds
      /\ \A r \in DOMAIN plan : status[r] = "running" /\ Live(r)
  BY <1>1, StatusOfQueued DEF IInv, PlannedBefore
<1>3. ASSUME NEW r \in DOMAIN plan
      PROVE  /\ plan[r].new \in Nat \ {0} /\ plan[r].spec \in 0 .. NumSpec
             /\ after(r) \in 0 .. MaxModelLen - 1 /\ samples(r) \in BOOLEAN
             /\ tokens[r] \in Nat /\ placeholders[r] \in Nat /\ NumSpec \in Nat
             /\ PlannedSound(r, plan[r].new, plan[r].spec)
  <2>1. plan[r].new \in Nat \ {0} /\ plan[r].spec \in 0 .. NumSpec
    <3>1. plan[r] \in PlanRow
      BY <1>1, PlannedSum DEF LocalTypes
    <3> QED  BY <3>1 DEF PlanRow
  <2>2. PlannedSound(r, plan[r].new, plan[r].spec)
    BY DEF IInv, Counters
  <2>3. tokens[r] \in Nat /\ placeholders[r] \in Nat /\ computed[r] \in Nat
        /\ NumSpec \in Nat /\ MaxModelLen \in Nat
    BY <1>1, <1>2, Ranges, Sizes
  <2>4. after(r) \in 0 .. MaxModelLen - 1
    BY <2>1, <2>2, <2>3 DEF PlannedSound
  <2> QED  BY <2>1, <2>2, <2>3, <2>4
<1>4. ASSUME NEW r \in DOMAIN plan, samples(r)
      PROVE  /\ computed'[r] = tokens[r] + placeholders[r] + plan[r].spec /\ ~chunk'[r]
             /\ plan[r].spec \in Nat /\ placeholders'[r] = placeholders[r] + 1 + plan[r].spec
             /\ specs'[r] = NumSpec
  <2>1. after(r) = tokens[r] + placeholders[r] + plan[r].spec
    BY <1>3, <1>4 DEF PlannedSound
  <2>2. plan[r].spec \in Nat
    BY <1>3
  <2> HIDE DEF after
  <2> QED  BY <1>0, <1>2, <1>4, <2>1, <2>2
<1>5. ASSUME NEW r \in DOMAIN plan, ~samples(r)
      PROVE  /\ computed'[r] = after(r) /\ computed'[r] < tokens[r] /\ chunk'[r]
             /\ placeholders'[r] = placeholders[r] /\ placeholders[r] = 0 /\ specs'[r] = specs[r]
  <2>1. placeholders[r] = 0 /\ after(r) < tokens[r]
    BY <1>3, <1>5 DEF PlannedSound
  <2> HIDE DEF after
  <2> QED  BY <1>0, <1>2, <1>5, <2>1
<1>6. ASSUME NEW r \in ReqIds \ DOMAIN plan
      PROVE  /\ computed'[r] = computed[r] /\ chunk'[r] = chunk[r]
             /\ placeholders'[r] = placeholders[r] /\ specs'[r] = specs[r]
  BY <1>0
<1>7. step \in StepsOf /\ DOMAIN step = DOMAIN plan
  <2>1. ASSUME NEW r \in DOMAIN plan
        PROVE  [spec |-> plan[r].spec, samples |-> samples(r)] \in StepRow
    BY <1>3 DEF StepRow
  <2> HIDE DEF samples
  <2>2. step \in [DOMAIN plan -> StepRow]
    BY <2>1
  <2> QED  BY <1>2, <2>2 DEF StepsOf
<1>8. \A r \in DOMAIN plan : Awaited(step, r) = IF samples(r) THEN 1 + plan[r].spec ELSE 0
  <2> HIDE DEF samples
  <2> QED  BY DEF Awaited
<1> HIDE DEF step
<1>9. /\ flight \in Seq(StepsOf) /\ flight' \in Seq(StepsOf)
      /\ Len(flight) \in Nat /\ Len(flight') = Len(flight) + 1 /\ flight' # <<>>
      /\ DOMAIN flight = 1 .. Len(flight) /\ DOMAIN flight' = 1 .. Len(flight) + 1
      /\ (\A i \in DOMAIN flight : flight'[i] = flight[i]) /\ flight'[Len(flight) + 1] = step
  <2>1. flight \in Seq(StepsOf)
    BY <1>1 DEF RequestTypes
  <2> QED  BY <1>0, <1>7, <2>1, AppendProperties
<1>10. RequestTypes'
  <2>1. computed' \in [ReqIds -> 0 .. MaxModelLen - 1] /\ chunk' \in [ReqIds -> BOOLEAN]
    <3>1. \A r \in ReqIds : computed[r] \in 0 .. MaxModelLen - 1 /\ chunk[r] \in BOOLEAN
      BY <1>1, Ranges
    <3>2. \A r \in DOMAIN plan : after(r) \in 0 .. MaxModelLen - 1 /\ samples(r) \in BOOLEAN
      BY <1>3
    <3> HIDE DEF after, samples
    <3>3. computed' \in [ReqIds -> 0 .. MaxModelLen - 1]
      BY <1>0, <3>1, <3>2
    <3>4. chunk' \in [ReqIds -> BOOLEAN]
      BY <1>0, <3>1, <3>2, Zenon
    <3> QED  BY <3>3, <3>4
  <2>2. placeholders' \in [ReqIds -> Nat] /\ specs' \in [ReqIds -> 0 .. NumSpec]
    <3>1. \A r \in ReqIds : placeholders[r] \in Nat /\ specs[r] \in 0 .. NumSpec
      BY <1>1, Ranges
    <3>2. \A r \in DOMAIN plan : placeholders[r] + 1 + plan[r].spec \in Nat
      BY <1>3
    <3>3. NumSpec \in 0 .. NumSpec
      BY Sizes
    <3> HIDE DEF samples
    <3> QED  BY <1>0, <3>1, <3>2, <3>3
  <2>3. Len(flight') <= InFlight
    <3>1. Len(flight) < InFlight
      BY <1>0 DEF IInv, Phases
    <3> QED  BY <1>9, <3>1, Sizes
  <2>4. worker' \in SUBSET ReqIds /\ prev_step' \in SUBSET ReqIds /\ finished_ids' \in SUBSET ReqIds
    BY <1>0, <1>1, <1>2 DEF RequestTypes
  <2> QED  BY <1>0, <1>1, <1>9, <2>1, <2>2, <2>3, <2>4 DEF RequestTypes
<1>11. QueuesMatchStatus'
  BY <1>0, <1>1 DEF QueuesMatchStatus
<1>12. HeldBlocksCover'
  <2>1. ASSUME NEW r \in ReqIds
        PROVE  IF status'[r] = "running" THEN blocks'[r] * BlockSize >= computed'[r]
               ELSE blocks'[r] = 0
    <3>1. CASE r \in DOMAIN plan
      <4>1. computed'[r] = after(r)
        BY <1>0, <1>2, <3>1
      <4>2. blocks[r] * BlockSize >= after(r)
        BY <3>1 DEF IInv, PlanCovered
      <4> HIDE DEF after
      <4> QED  BY <1>0, <1>2, <3>1, <4>1, <4>2
    <3>2. CASE r \notin DOMAIN plan
      BY <1>0, <1>1, <1>6, <3>2 DEF HeldBlocksCover
    <3> QED  BY <3>1, <3>2
  <2> QED  BY <1>0, <1>1, <2>1 DEF HeldBlocksCover
<1>13. InFlightRows'
  <2>1. ASSUME NEW r \in ReqIds, Live(r)' PROVE placeholders'[r] = ExpectedIn(flight', r)
    <3>1. Live(r) /\ placeholders[r] = ExpectedIn(flight, r) /\ placeholders[r] \in Nat
      BY <1>0, <1>1, <2>1, Ranges DEF IInv, InFlightRows, Live
    <3>2. ExpectedIn(flight', r) = ExpectedIn(flight, r) + Awaited(step, r)
      BY <1>0, <1>7, <1>9, ExpectedAppend
    <3>3. CASE r \notin DOMAIN plan
      <4>1. Awaited(step, r) = 0
        BY <1>7, <3>3 DEF Awaited
      <4> QED  BY <1>6, <3>1, <3>2, <3>3, <4>1
    <3>4. CASE r \in DOMAIN plan /\ samples(r)
      <4>1. placeholders'[r] = placeholders[r] + 1 + plan[r].spec /\ plan[r].spec \in Nat
        BY <1>4, <3>4
      <4>2. Awaited(step, r) = 1 + plan[r].spec
        <5> HIDE DEF samples
        <5> QED  BY <1>8, <3>4
      <4> QED  BY <3>1, <3>2, <4>1, <4>2
    <3>5. CASE r \in DOMAIN plan /\ ~samples(r)
      <4> HIDE DEF after, samples
      <4>1. Awaited(step, r) = 0 /\ placeholders'[r] = placeholders[r]
        BY <1>5, <1>8, <3>5
      <4> QED  BY <3>1, <3>2, <4>1
    <3> QED  BY <3>3, <3>4, <3>5
  <2>2. ASSUME NEW r \in ReqIds, status'[r] \in {"new", "waiting"}
        PROVE  placeholders'[r] = 0 /\ \A i \in DOMAIN flight' : r \notin DOMAIN flight'[i]
    <3>1. status[r] \in {"new", "waiting"} /\ r \notin DOMAIN plan
      BY <1>0, <1>2, <2>2
    <3>2. placeholders[r] = 0 /\ \A i \in DOMAIN flight : r \notin DOMAIN flight[i]
      BY <3>1 DEF IInv, InFlightRows
    <3>3. ASSUME NEW i \in DOMAIN flight' PROVE r \notin DOMAIN flight'[i]
      <4>1. i \in DOMAIN flight \/ i = Len(flight) + 1
        BY <1>9
      <4> QED  BY <1>7, <1>9, <3>1, <3>2, <4>1
    <3> QED  BY <1>6, <3>1, <3>2, <3>3
  <2>3. DOMAIN flight'[Len(flight')] = prev_step'
    BY <1>0, <1>7, <1>9
  <2> QED  BY <2>1, <2>2, <2>3 DEF InFlightRows
<1>14. WorkerKnows'
  BY <1>0, <1>2 DEF IInv, WorkerKnows, Live
<1>15. LocalTypes' /\ Phases'
  <2>1. plan' \in PlansOf
    BY <1>0, EmptyPlan, Zenon
  <2>2. preempted' \in BOOLEAN /\ ~preempted'
    BY <1>0, Zenon
  <2> QED  BY <1>0, <2>1, <2>2 DEF LocalTypes, Phases
<1>16. DOMAIN plan' = {}
  BY <1>0, EmptyPlan
<1>17. PlannedBefore' /\ Budget' /\ PlanCovered' /\ Tried'
  BY <1>0, <1>16 DEF PlannedBefore, Budget, PlanCovered, Tried, IInv
<1>18. Counters'
  <2>1. ASSUME NEW r \in ToSet(running) PROVE Exact(r)'
    <3>1. r \in ReqIds /\ tokens[r] \in Nat /\ placeholders[r] \in Nat
      BY <1>1, StatusOfQueued, Ranges
    <3>2. CASE r \notin DOMAIN plan
      BY <1>0, <1>6, <3>1, <3>2 DEF IInv, Counters, Exact
    <3>3. CASE r \in DOMAIN plan /\ samples(r)
      <4>1. /\ computed'[r] = tokens[r] + placeholders[r] + plan[r].spec /\ ~chunk'[r]
            /\ placeholders'[r] = placeholders[r] + 1 + plan[r].spec /\ plan[r].spec \in Nat
        BY <1>4, <3>3
      <4>2. tokens'[r] = tokens[r]
        BY <1>0
      <4>3. computed'[r] + 1 = tokens'[r] + placeholders'[r]
        BY <3>1, <4>1, <4>2
      <4> QED  BY <4>1, <4>3 DEF Exact
    <3>4. CASE r \in DOMAIN plan /\ ~samples(r)
      <4>1. computed'[r] < tokens[r] /\ placeholders'[r] = 0 /\ chunk'[r]
        BY <1>5, <3>4
      <4> QED  BY <1>0, <4>1 DEF Exact
    <3> QED  BY <3>2, <3>3, <3>4
  <2>2. ASSUME NEW r \in ReqIds, status'[r] = "preempted" PROVE computed'[r] = 0
    <3>1. r \notin DOMAIN plan
      BY <1>0, <1>2, <2>2
    <3> QED  BY <1>0, <1>6, <2>2, <3>1 DEF IInv, Counters
  <2> QED  BY <1>0, <1>16, <2>1, <2>2 DEF Counters
<1>19. Readmission'
  BY <1>0, <1>2, <1>16 DEF Readmission
<1> QED
  BY <1>10, <1>11, <1>12, <1>13, <1>14, <1>15, <1>17, <1>18, <1>19 DEF IInv

(* Requests that leave the scheduler leave its queues and free their blocks. *)
LEMMA DropFacts ==
  ASSUME RequestTypes, QueuesMatchStatus, HeldBlocksCover, NEW S \in SUBSET ReqIds, Drop(S)
  PROVE  /\ \A r \in S : status'[r] = "finished" /\ ~chunk'[r] /\ blocks'[r] = 0
         /\ \A r \in ReqIds \ S : /\ status'[r] = status[r] /\ chunk'[r] = chunk[r]
                                  /\ blocks'[r] = blocks[r]
         /\ status' \in [ReqIds -> {"new", "waiting", "preempted", "running", "finished"}]
         /\ chunk' \in [ReqIds -> BOOLEAN] /\ blocks' \in [ReqIds -> Nat]
         /\ running' \in Seq(ReqIds) /\ waiting' \in Seq(ReqIds)
         /\ Len(running') <= Len(running)
         /\ finished_ids' = finished_ids \cup S /\ finished_ids' \in SUBSET ReqIds
         /\ QueuesMatchStatus' /\ Total(blocks') <= NumBlocks
<1>0. /\ status' = [r \in ReqIds |-> IF r \in S THEN "finished" ELSE status[r]]
      /\ chunk' = [r \in ReqIds |-> IF r \in S THEN FALSE ELSE chunk[r]]
      /\ blocks' = FreeBlocks(S) /\ running' = Without(running, S)
      /\ waiting' = Without(waiting, S) /\ finished_ids' = finished_ids \cup S
  BY DEF Drop, Reset, WaitingWithout
<1>1. /\ \A r \in S : status'[r] = "finished" /\ blocks'[r] = 0
      /\ \A r \in ReqIds \ S : status'[r] = status[r] /\ blocks'[r] = blocks[r]
      /\ status' \in [ReqIds -> {"new", "waiting", "preempted", "running", "finished"}]
  BY <1>0 DEF FreeBlocks, RequestTypes
<1>2. /\ \A r \in S : ~chunk'[r]
      /\ \A r \in ReqIds \ S : chunk'[r] = chunk[r]
      /\ chunk' \in [ReqIds -> BOOLEAN]
  <2>1. \A r \in ReqIds : chunk[r] \in BOOLEAN
    BY Ranges
  <2> QED  BY <1>0, <2>1, Zenon
<1>3. blocks' \in [ReqIds -> Nat] /\ Total(blocks') <= NumBlocks
  <2>1. blocks \in Blocks /\ Total(blocks) <= NumBlocks /\ NumBlocks \in Nat
    BY Sizes DEF RequestTypes, Blocks, HeldBlocksCover
  <2>2. FreeBlocks(S) \in Blocks /\ Total(FreeBlocks(S)) <= Total(blocks)
    BY <2>1, BlocksFreed
  <2>3. Total(FreeBlocks(S)) \in Nat /\ Total(blocks) \in Nat
    BY <2>1, <2>2, BlocksTotal
  <2> QED  BY <1>0, <2>1, <2>2, <2>3 DEF Blocks
<1>4. /\ running' \in Seq(ReqIds) /\ Len(running') <= Len(running)
      /\ ToSet(running') = ToSet(running) \ S /\ IsInjective(running')
  BY <1>0, WithoutFacts DEF RequestTypes, QueuesMatchStatus
<1>5. /\ waiting' \in Seq(ReqIds)
      /\ ToSet(waiting') = ToSet(waiting) \ S /\ IsInjective(waiting')
  BY <1>0, WithoutFacts DEF RequestTypes, QueuesMatchStatus
<1>6. QueuesMatchStatus'
  BY <1>1, <1>4, <1>5 DEF QueuesMatchStatus
<1>7. finished_ids' \in SUBSET ReqIds
  BY <1>0 DEF RequestTypes
<1> QED  BY <1>0, <1>1, <1>2, <1>3, <1>4, <1>5, <1>6, <1>7

(* Between two steps nothing is planned.                                     *)
LEMMA IdleSame ==
  ASSUME IInv, pc = "idle", UNCHANGED locals, Len(running') <= Len(running),
         running' \in Seq(ReqIds), RequestTypes'
  PROVE  /\ LocalTypes' /\ Phases' /\ PlannedBefore' /\ Budget' /\ PlanCovered' /\ Tried'
         /\ DOMAIN plan = {} /\ DOMAIN plan' = {} /\ ~preempted /\ ~preempted'
<1>1. UNCHANGED <<pc, at, budget, current, plan, preempted>>
  BY DEF locals
<1>2. plan = <<>> /\ ~preempted
  BY DEF IInv, Phases
<1>3. DOMAIN plan = {} /\ DOMAIN plan' = {}
  BY <1>1, <1>2, EmptyPlan
<1>4. LocalTypes' /\ Phases'
  BY <1>1 DEF IInv, LocalTypes, Phases
<1>5. PlannedBefore' /\ PlanCovered' /\ Tried'
  BY <1>1, <1>3 DEF PlannedBefore, PlanCovered, Tried
<1>6. Budget'
  <2>1. Len(running) <= MaxRunning /\ running \in Seq(ReqIds)
    BY DEF IInv, Budget, RequestTypes
  <2>2. Len(running) \in Nat /\ Len(running') \in Nat /\ MaxRunning \in Nat
    BY <2>1, Sizes
  <2> QED  BY <1>1, <2>1, <2>2 DEF Budget
<1> QED  BY <1>1, <1>2, <1>3, <1>4, <1>5, <1>6

LEMMA AddRequestKeeps == ASSUME IInv, NEW r \in ReqIds, AddRequest(r) PROVE IInv'
<1>0. /\ pc = "idle" /\ status[r] = "new" /\ status' = [status EXCEPT ![r] = "waiting"]
      /\ waiting' = Append(waiting, r)
      /\ UNCHANGED <<tokens, computed, placeholders, specs, chunk, blocks, running, policy,
                     pause, finished_ids, prev_step, flight, worker>>
      /\ UNCHANGED locals
  BY DEF AddRequest, config, engine
<1>1. RequestTypes /\ QueuesMatchStatus /\ HeldBlocksCover
  BY DEF IInv
<1>2. status'[r] = "waiting" /\ \A q \in ReqIds \ {r} : status'[q] = status[q]
  BY <1>0, <1>1 DEF RequestTypes
<1>3. /\ waiting' \in Seq(ReqIds) /\ ToSet(waiting') = ToSet(waiting) \cup {r}
      /\ IsInjective(waiting')
  <2>1. r \notin ToSet(waiting)
    BY <1>0, <1>1, StatusOfQueued
  <2> QED  BY <1>0, <1>1, <2>1, AppendFacts DEF RequestTypes, QueuesMatchStatus
<1>4. RequestTypes'
  <2>1. status' \in [ReqIds -> {"new", "waiting", "preempted", "running", "finished"}]
    BY <1>0, <1>1 DEF RequestTypes
  <2> QED  BY <1>0, <1>1, <1>3, <2>1 DEF RequestTypes
<1>5. QueuesMatchStatus'
  BY <1>0, <1>1, <1>2, <1>3 DEF QueuesMatchStatus
<1>6. HeldBlocksCover'
  BY <1>0, <1>1, <1>2 DEF HeldBlocksCover
<1>7. InFlightRows'
  <2>1. placeholders[r] = 0 /\ \A i \in DOMAIN flight : r \notin DOMAIN flight[i]
    BY <1>0 DEF IInv, InFlightRows
  <2>2. ExpectedIn(flight, r) = 0
    <3>1. flight \in Seq(StepsOf) /\ DOMAIN flight = 1 .. Len(flight)
      BY <1>1 DEF RequestTypes
    <3>2. \A i \in 1 .. Len(flight) : Awaited(flight[i], r) = 0
      BY <2>1, <3>1 DEF Awaited
    <3> QED  BY <3>1, <3>2, ExpectedNone
  <2>3. \A q \in ReqIds : Live(q)' /\ q # r => Live(q)
    BY <1>2 DEF Live
  <2>4. \A q \in ReqIds : status'[q] \in {"new", "waiting"} /\ q # r => status[q] \in {"new", "waiting"}
    BY <1>2
  <2>5. ASSUME NEW q \in ReqIds, Live(q)' PROVE placeholders'[q] = ExpectedIn(flight, q)
    BY <1>0, <2>1, <2>2, <2>3, <2>5 DEF IInv, InFlightRows
  <2> QED  BY <1>0, <2>1, <2>4, <2>5 DEF IInv, InFlightRows, ExpectedIn
<1>8. WorkerKnows'
  <2>1. \A q \in ReqIds : Live(q) => Live(q)'
    BY <1>2 DEF Live
  <2> QED  BY <1>0, <1>1, <2>1 DEF IInv, WorkerKnows, RequestTypes
<1>9. /\ LocalTypes' /\ Phases' /\ PlannedBefore' /\ Budget' /\ PlanCovered' /\ Tried'
      /\ DOMAIN plan = {} /\ DOMAIN plan' = {} /\ ~preempted /\ ~preempted'
  <2>1. running' \in Seq(ReqIds) /\ Len(running') <= Len(running)
    <3>1. running' = running /\ running \in Seq(ReqIds)
      BY <1>0, <1>1 DEF RequestTypes
    <3>2. Len(running) \in Nat
      BY <3>1
    <3> QED  BY <3>1, <3>2
  <2> QED  BY <1>0, <1>4, <2>1, IdleSame
<1>10. Counters'
  <2>1. \A q \in ReqIds : status'[q] = "preempted" => status[q] = "preempted"
    BY <1>2
  <2> QED  BY <1>0, <1>9, <2>1 DEF IInv, Counters, Exact
<1>11. Readmission'
  <2>1. \A q \in ReqIds : status'[q] = "preempted" => status[q] = "preempted"
    BY <1>2
  <2> QED  BY <1>0, <1>9, <2>1 DEF IInv, Readmission
<1> QED
  BY <1>4, <1>5, <1>6, <1>7, <1>8, <1>9, <1>10, <1>11 DEF IInv

LEMMA SetPauseStateKeeps == ASSUME IInv, NEW p \in Pauses, SetPauseState(p) PROVE IInv'
<1>0. /\ pc = "idle" /\ pause' = p
      /\ UNCHANGED <<policy, status, tokens, computed, placeholders, specs, chunk, blocks,
                     running, waiting, finished_ids, prev_step, flight, worker>>
      /\ UNCHANGED <<pc, at, budget, current, plan, preempted>>
  BY DEF SetPauseState, requests, queues, locals, engine
<1>1. RequestTypes' /\ LocalTypes' /\ QueuesMatchStatus' /\ HeldBlocksCover'
  BY <1>0 DEF IInv, RequestTypes, LocalTypes, QueuesMatchStatus, HeldBlocksCover
<1>2. InFlightRows' /\ WorkerKnows'
  BY <1>0 DEF IInv, InFlightRows, WorkerKnows, Live, ExpectedIn
<1>3. Phases' /\ PlannedBefore' /\ Budget' /\ Tried'
  BY <1>0 DEF IInv, Phases, PlannedBefore, Budget, Tried
<1>4. PlanCovered' /\ Counters' /\ Readmission'
  BY <1>0 DEF IInv, PlanCovered, Counters, Exact, PlannedSound, Readmission
<1> QED  BY <1>1, <1>2, <1>3, <1>4 DEF IInv

LEMMA AbortKeeps == ASSUME IInv, NEW v \in ReqIds, Abort(v) PROVE IInv'
<1>0. /\ pc = "idle" /\ Live(v) /\ Drop({v})
      /\ tokens' = [tokens EXCEPT ![v] = Prompt[v]]
      /\ computed' = [computed EXCEPT ![v] = 0]
      /\ placeholders' = [placeholders EXCEPT ![v] = 0]
      /\ specs' = [specs EXCEPT ![v] = 0]
      /\ UNCHANGED <<prev_step, flight, worker, policy, pause>> /\ UNCHANGED locals
  BY DEF Abort, config
<1>1. RequestTypes /\ QueuesMatchStatus /\ HeldBlocksCover
  BY DEF IInv
<1>2. /\ status'[v] = "finished" /\ ~chunk'[v] /\ blocks'[v] = 0
      /\ \A r \in ReqIds \ {v} : /\ status'[r] = status[r] /\ chunk'[r] = chunk[r]
                                 /\ blocks'[r] = blocks[r]
      /\ status' \in [ReqIds -> {"new", "waiting", "preempted", "running", "finished"}]
      /\ chunk' \in [ReqIds -> BOOLEAN] /\ blocks' \in [ReqIds -> Nat]
      /\ running' \in Seq(ReqIds) /\ waiting' \in Seq(ReqIds)
      /\ Len(running') <= Len(running)
      /\ finished_ids' = finished_ids \cup {v} /\ finished_ids' \in SUBSET ReqIds
      /\ QueuesMatchStatus' /\ Total(blocks') <= NumBlocks
  BY <1>0, <1>1, DropFacts
<1>3. \A r \in ReqIds \ {v} : /\ tokens'[r] = tokens[r] /\ computed'[r] = computed[r]
                              /\ placeholders'[r] = placeholders[r]
  BY <1>0, <1>1 DEF RequestTypes
<1>4. RequestTypes'
  <2>1. Prompt[v] \in 1 .. MaxModelLen - 1 /\ 0 \in 0 .. MaxModelLen - 1 /\ 0 \in 0 .. NumSpec
    BY Sizes
  <2>2. /\ tokens' \in [ReqIds -> 1 .. MaxModelLen - 1]
        /\ computed' \in [ReqIds -> 0 .. MaxModelLen - 1]
        /\ placeholders' \in [ReqIds -> Nat] /\ specs' \in [ReqIds -> 0 .. NumSpec]
    BY <1>0, <1>1, <2>1 DEF RequestTypes
  <2> QED  BY <1>0, <1>1, <1>2, <2>2 DEF RequestTypes
<1>5. HeldBlocksCover'
  BY <1>1, <1>2, <1>3 DEF HeldBlocksCover
<1>6. \A r \in ReqIds : /\ Live(r)' => r # v /\ Live(r)
                        /\ Live(r) => Live(r)' \/ r = v
  BY <1>2 DEF Live
<1>7. InFlightRows'
  <2>1. ASSUME NEW r \in ReqIds, status'[r] \in {"new", "waiting"}
        PROVE  r # v /\ status[r] \in {"new", "waiting"}
    BY <1>2, <2>1
  <2>2. ASSUME NEW r \in ReqIds, Live(r)' PROVE placeholders'[r] = ExpectedIn(flight, r)
    BY <1>3, <1>6, <2>2 DEF IInv, InFlightRows
  <2>3. ASSUME NEW r \in ReqIds, status'[r] \in {"new", "waiting"}
        PROVE  placeholders'[r] = 0 /\ \A i \in DOMAIN flight : r \notin DOMAIN flight[i]
    BY <1>3, <2>1, <2>3 DEF IInv, InFlightRows
  <2> QED  BY <1>0, <2>2, <2>3 DEF IInv, InFlightRows, ExpectedIn
<1>8. WorkerKnows'
  BY <1>0, <1>1, <1>2, <1>6 DEF IInv, WorkerKnows, RequestTypes
<1>9. /\ LocalTypes' /\ Phases' /\ PlannedBefore' /\ Budget' /\ PlanCovered' /\ Tried'
      /\ DOMAIN plan = {} /\ DOMAIN plan' = {} /\ ~preempted /\ ~preempted'
  BY <1>0, <1>2, <1>4, IdleSame
<1>10. Counters'
  <2>1. ASSUME NEW r \in ToSet(running') PROVE Exact(r)'
    <3>1. r \in ReqIds /\ status'[r] = "running"
      BY <1>2 DEF QueuesMatchStatus
    <3>2. r # v /\ status[r] = "running"
      BY <1>2, <3>1
    <3>3. Exact(r)
      BY <1>1, <1>9, <3>1, <3>2, StatusOfQueued DEF IInv, Counters
    <3> QED  BY <1>2, <1>3, <3>1, <3>2, <3>3 DEF Exact
  <2>2. \A r \in ReqIds : status'[r] = "preempted" => computed'[r] = 0
    BY <1>2, <1>3 DEF IInv, Counters
  <2> QED  BY <1>9, <2>1, <2>2 DEF Counters
<1>11. Readmission'
  <2>1. \A q \in ReqIds : status'[q] = "preempted" => status[q] = "preempted"
    BY <1>2
  <2> QED  BY <1>0, <1>9, <2>1 DEF IInv, Readmission
<1> QED
  BY <1>2, <1>4, <1>5, <1>7, <1>8, <1>9, <1>10, <1>11 DEF IInv

(* The row of a live request in the oldest step in flight.                   *)
LEMMA OldestRow ==
  ASSUME IInv, pc = "idle", flight # <<>>, NEW r \in ReqIds, Live(r)
  PROVE  /\ ExpectedIn(Tail(flight), r) \in Nat
         /\ placeholders[r] = Awaited(Head(flight), r) + ExpectedIn(Tail(flight), r)
         /\ r \in DOMAIN Head(flight) =>
              /\ status[r] \in {"running", "preempted"}
              /\ Head(flight)[r].spec \in 0 .. NumSpec
              /\ Awaited(Head(flight), r)
                   = IF Head(flight)[r].samples THEN 1 + Head(flight)[r].spec ELSE 0
         /\ r \notin DOMAIN Head(flight) => Awaited(Head(flight), r) = 0
<1>1. /\ flight \in Seq(StepsOf) /\ Tail(flight) \in Seq(StepsOf) /\ Head(flight) \in StepsOf
      /\ 1 \in DOMAIN flight /\ Head(flight) = flight[1]
  <2>1. flight \in Seq(StepsOf)
    BY DEF IInv, RequestTypes
  <2> QED  BY <2>1, HeadTailProperties, EmptySeq
<1>2. placeholders[r] = ExpectedIn(flight, r)
  BY DEF IInv, InFlightRows
<1>3. ExpectedIn(flight, r) = Awaited(Head(flight), r) + ExpectedIn(Tail(flight), r)
  BY <1>1, ExpectedHead
<1>4. ExpectedIn(Tail(flight), r) \in Nat
  BY <1>1, ExpectedNat
<1>5. r \in DOMAIN Head(flight) => status[r] \in {"running", "preempted"}
  <2>1. status[r] = "waiting" => r \notin DOMAIN flight[1]
    BY <1>1 DEF IInv, InFlightRows
  <2> QED  BY <1>1, <2>1 DEF Live
<1> QED  BY <1>1, <1>2, <1>3, <1>4, <1>5, AwaitedType

(* What a row that yields tokens leaves of its request's counters.           *)
LEMMA CountersAfter ==
  ASSUME IInv, pc = "idle", flight # <<>>, NEW r \in ReqIds, Live(r),
         r \in DOMAIN Head(flight), Head(flight)[r].samples,
         NEW g \in 0 .. NumSpec + 1, g # 0, g \in Yields(r, Head(flight)[r])
  PROVE  LET rejected == Head(flight)[r].spec + 1 - g
             c == ComputedAfter(r, rejected)
             p == PlaceholdersAfter(r, rejected, g)
         IN /\ tokens[r] + g \in 1 .. MaxModelLen - 1
            /\ c \in 0 .. MaxModelLen - 1 /\ c <= computed[r]
            /\ p \in Nat /\ p = ExpectedIn(Tail(flight), r)
            /\ status[r] = "running" => ~chunk[r] /\ c + 1 = tokens[r] + g + p
            /\ status[r] = "preempted" => c = 0
<1> DEFINE s == Head(flight)[r].spec
           e == ExpectedIn(Tail(flight), r)
           rejected == s + 1 - g
<1>1. /\ s \in 0 .. NumSpec /\ NumSpec \in Nat /\ e \in Nat /\ placeholders[r] = 1 + s + e
      /\ status[r] \in {"running", "preempted"}
  <2>1. /\ s \in 0 .. NumSpec /\ e \in Nat /\ placeholders[r] = Awaited(Head(flight), r) + e
        /\ status[r] \in {"running", "preempted"} /\ Awaited(Head(flight), r) = 1 + s
    BY OldestRow
  <2> HIDE DEF s, e
  <2> QED  BY <2>1, Sizes
<1>2. g \in 1 .. s + 1 /\ tokens[r] + g < Limit(r)
  BY <1>1 DEF Yields
<1>3. /\ tokens[r] \in 1 .. MaxModelLen - 1 /\ computed[r] \in 0 .. MaxModelLen - 1
      /\ MaxModelLen \in Nat /\ Prompt[r] \in Nat /\ MaxOutput[r] \in Nat
  <2>1. RequestTypes
    BY DEF IInv
  <2> QED  BY <2>1, Ranges, Sizes
<1>4. status[r] = "running" => Exact(r)
  <2>1. SUFFICES ASSUME status[r] = "running" PROVE Exact(r)
    OBVIOUS
  <2>2. r \in ToSet(running)
    BY <2>1 DEF IInv, QueuesMatchStatus
  <2>3. r \notin DOMAIN plan
    BY EmptyPlan DEF IInv, Phases
  <2> QED  BY <2>2, <2>3 DEF IInv, Counters
<1> HIDE DEF s, e
<1>5. status[r] = "preempted" => computed[r] = 0
  BY DEF IInv, Counters
<1>6. tokens[r] + g \in 1 .. MaxModelLen - 1
  <2>1. Limit(r) <= MaxModelLen /\ Limit(r) \in Nat
    BY <1>3 DEF Limit, Least
  <2>2. g \in Nat
    BY <1>1, <1>2
  <2> QED  BY <1>2, <1>3, <2>1, <2>2
<1>7. /\ rejected \in Nat /\ rejected <= s /\ rejected + g = s + 1
      /\ s \in Nat /\ g \in Nat
  BY <1>1, <1>2
<1> HIDE DEF rejected
<1>8. PlaceholdersAfter(r, rejected, g) = e
  BY <1>1, <1>2, <1>7 DEF PlaceholdersAfter
<1>9. CASE status[r] = "running"
  <2>1. computed[r] + 1 = tokens[r] + placeholders[r] /\ ~chunk[r]
    BY <1>1, <1>4, <1>9 DEF Exact
  <2>2. computed[r] >= s + 1
    BY <1>1, <1>3, <2>1
  <2>3. ComputedAfter(r, rejected) = computed[r] - rejected
    BY <1>1, <1>3, <2>2 DEF ComputedAfter
  <2>4. /\ computed[r] - rejected \in 0 .. MaxModelLen - 1 /\ computed[r] - rejected <= computed[r]
        /\ computed[r] - rejected + 1 = tokens[r] + g + e
    <3>1. /\ computed[r] \in Nat /\ computed[r] <= MaxModelLen - 1 /\ MaxModelLen \in Nat
          /\ tokens[r] \in Nat /\ e \in Nat /\ rejected <= computed[r]
          /\ computed[r] + 1 = tokens[r] + (1 + s + e)
      BY <1>1, <1>3, <1>7, <2>1, <2>2
    <3>2. computed[r] - rejected + 1 = tokens[r] + g + e
      BY ONLY <1>7, <3>1
    <3> QED  BY ONLY <1>7, <3>1, <3>2
  <2> QED  BY <1>1, <1>6, <1>8, <1>9, <2>1, <2>3, <2>4 DEF s, e, rejected
<1>10. CASE status[r] = "preempted"
  <2>1. ComputedAfter(r, rejected) = 0 /\ computed[r] = 0
    BY <1>5, <1>10 DEF ComputedAfter
  <2>2. 0 \in 0 .. MaxModelLen - 1
    BY <1>3
  <2> QED  BY <1>1, <1>6, <1>8, <1>10, <2>1, <2>2 DEF s, e, rejected
<1> QED  BY <1>1, <1>9, <1>10

LEMMA UpdateFromOutputKeeps == ASSUME IInv, UpdateFromOutput PROVE IInv'
<1> DEFINE step == Head(flight)
           live == {r \in DOMAIN step : Live(r)}
           sampled == {r \in live : step[r].samples}
<1>0. /\ pc = "idle" /\ flight # <<>> /\ flight' = Tail(flight)
      /\ UNCHANGED <<prev_step, worker, policy, pause>> /\ UNCHANGED locals
  BY DEF UpdateFromOutput, config
<1>1. PICK got \in [sampled -> 0 .. NumSpec + 1], lengths \in Plans(live) :
        LET stopped == {r \in sampled : got[r] = 0}
            more    == sampled \ stopped
            rejected(r) == step[r].spec + 1 - got[r]
        IN /\ \A r \in sampled : got[r] \in Yields(r, step[r])
           /\ Drop(stopped)
           /\ tokens' = [r \in ReqIds |->
                IF r \in stopped THEN Prompt[r]
                ELSE IF r \in more THEN tokens[r] + got[r] ELSE tokens[r]]
           /\ computed' = [r \in ReqIds |->
                IF r \in stopped THEN 0
                ELSE IF r \in more THEN ComputedAfter(r, rejected(r)) ELSE computed[r]]
           /\ placeholders' = [r \in ReqIds |->
                IF r \in stopped THEN 0
                ELSE IF r \in more THEN PlaceholdersAfter(r, rejected(r), got[r])
                ELSE placeholders[r]]
           /\ specs' = [r \in ReqIds |->
                IF r \in stopped THEN 0
                ELSE IF r \in DOMAIN lengths THEN lengths[r] ELSE specs[r]]
  BY DEF UpdateFromOutput
<1> DEFINE stopped == {r \in sampled : got[r] = 0}
           more    == sampled \ stopped
           rejected(r) == step[r].spec + 1 - got[r]
<1>2. RequestTypes /\ QueuesMatchStatus /\ HeldBlocksCover
  BY DEF IInv
<1>3. \A r \in ReqIds : Live(r) =>
        /\ ExpectedIn(Tail(flight), r) \in Nat
        /\ placeholders[r] = Awaited(step, r) + ExpectedIn(Tail(flight), r)
        /\ r \notin sampled => Awaited(step, r) = 0
  BY <1>0, OldestRow
<1>4. DOMAIN step \subseteq ReqIds
  <2>1. flight \in Seq(StepsOf)
    BY <1>2 DEF RequestTypes
  <2>2. step \in StepsOf
    BY <1>0, <2>1, HeadTailProperties, EmptySeq
  <2> QED  BY <2>2 DEF StepsOf
<1>5. /\ \A r \in sampled : r \in ReqIds /\ Live(r) /\ r \in DOMAIN step /\ step[r].samples
      /\ \A r \in sampled : got[r] \in 0 .. NumSpec + 1 /\ got[r] \in Yields(r, step[r])
      /\ \A r \in more : r \in sampled /\ got[r] # 0
      /\ stopped \in SUBSET ReqIds /\ \A r \in stopped : Live(r) /\ r \notin more
      /\ \A r \in ReqIds \ stopped : r \in more \/ r \notin sampled
  BY <1>1, <1>4
<1>6. ASSUME NEW r \in more
      PROVE  LET c == ComputedAfter(r, rejected(r))
                 p == PlaceholdersAfter(r, rejected(r), got[r])
             IN /\ tokens[r] + got[r] \in 1 .. MaxModelLen - 1
                /\ c \in 0 .. MaxModelLen - 1 /\ c <= computed[r]
                /\ p \in Nat /\ p = ExpectedIn(Tail(flight), r)
                /\ status[r] = "running" => ~chunk[r] /\ c + 1 = tokens[r] + got[r] + p
                /\ status[r] = "preempted" => c = 0
  <2>1. /\ r \in ReqIds /\ Live(r) /\ r \in DOMAIN step /\ step[r].samples
        /\ got[r] \in 0 .. NumSpec + 1 /\ got[r] # 0 /\ got[r] \in Yields(r, step[r])
    BY <1>5
  <2> QED  BY <1>0, <2>1, CountersAfter
<1>7. /\ Drop(stopped)
      /\ tokens' = [r \in ReqIds |->
           IF r \in stopped THEN Prompt[r]
           ELSE IF r \in more THEN tokens[r] + got[r] ELSE tokens[r]]
      /\ computed' = [r \in ReqIds |->
           IF r \in stopped THEN 0
           ELSE IF r \in more THEN ComputedAfter(r, rejected(r)) ELSE computed[r]]
      /\ placeholders' = [r \in ReqIds |->
           IF r \in stopped THEN 0
           ELSE IF r \in more THEN PlaceholdersAfter(r, rejected(r), got[r])
           ELSE placeholders[r]]
      /\ specs' = [r \in ReqIds |->
           IF r \in stopped THEN 0
           ELSE IF r \in DOMAIN lengths THEN lengths[r] ELSE specs[r]]
  BY <1>1
<1>8. \A r \in DOMAIN lengths : lengths[r] \in 0 .. NumSpec
  <2>1. lengths \in [live -> DraftLengths] \/ lengths = <<>>
    BY DEF Plans
  <2>2. DOMAIN <<>> = {}
    OBVIOUS
  <2> HIDE DEF live
  <2> QED  BY <2>1, <2>2, Sizes
<1> HIDE DEF stopped, more, sampled, live, rejected, step
<1>9. /\ \A r \in stopped : status'[r] = "finished" /\ ~chunk'[r] /\ blocks'[r] = 0
      /\ \A r \in ReqIds \ stopped : /\ status'[r] = status[r] /\ chunk'[r] = chunk[r]
                                     /\ blocks'[r] = blocks[r]
      /\ status' \in [ReqIds -> {"new", "waiting", "preempted", "running", "finished"}]
      /\ chunk' \in [ReqIds -> BOOLEAN] /\ blocks' \in [ReqIds -> Nat]
      /\ running' \in Seq(ReqIds) /\ waiting' \in Seq(ReqIds)
      /\ Len(running') <= Len(running)
      /\ finished_ids' = finished_ids \cup stopped /\ finished_ids' \in SUBSET ReqIds
      /\ QueuesMatchStatus' /\ Total(blocks') <= NumBlocks
  BY <1>2, <1>5, <1>7, DropFacts
<1>10. ASSUME NEW r \in ReqIds, r \notin stopped, r \in more
       PROVE  /\ tokens'[r] = tokens[r] + got[r]
              /\ computed'[r] = ComputedAfter(r, rejected(r))
              /\ placeholders'[r] = PlaceholdersAfter(r, rejected(r), got[r])
  BY <1>7, <1>10
<1>11. ASSUME NEW r \in ReqIds, r \notin stopped, r \notin more
       PROVE  /\ tokens'[r] = tokens[r] /\ computed'[r] = computed[r]
              /\ placeholders'[r] = placeholders[r]
  BY <1>7, <1>11
<1>12. /\ flight \in Seq(StepsOf) /\ flight' \in Seq(StepsOf)
       /\ Len(flight) \in Nat \ {0} /\ Len(flight') = Len(flight) - 1
       /\ DOMAIN flight' = 1 .. Len(flight) - 1 /\ DOMAIN flight = 1 .. Len(flight)
       /\ \A i \in DOMAIN flight' : i + 1 \in DOMAIN flight /\ flight'[i] = flight[i + 1]
       /\ (flight' # <<>> => Len(flight') \in DOMAIN flight')
  <2>1. flight \in Seq(StepsOf)
    BY <1>2 DEF RequestTypes
  <2>2. Len(flight) \in Nat \ {0} /\ DOMAIN flight = 1 .. Len(flight)
    BY <1>0, <2>1, EmptySeq
  <2>3. /\ flight' \in Seq(StepsOf) /\ Len(flight') = Len(flight) - 1
        /\ \A i \in 1 .. Len(flight') : flight'[i] = flight[i + 1]
    BY <1>0, <2>1, HeadTailProperties
  <2>4. DOMAIN flight' = 1 .. Len(flight) - 1
    BY <2>3
  <2>5. flight' # <<>> => Len(flight') \in 1 .. Len(flight')
    BY <2>3, EmptySeq
  <2> QED  BY <2>1, <2>2, <2>3, <2>4, <2>5
<1>13. RequestTypes'
  <2>1. ASSUME NEW r \in ReqIds
        PROVE  /\ tokens'[r] \in 1 .. MaxModelLen - 1
               /\ computed'[r] \in 0 .. MaxModelLen - 1
               /\ placeholders'[r] \in Nat
    <3>1. CASE r \in stopped
      <4>1. tokens'[r] = Prompt[r] /\ computed'[r] = 0 /\ placeholders'[r] = 0
        BY <1>7, <3>1
      <4> QED  BY <4>1, Sizes
    <3>2. CASE r \notin stopped /\ r \in more
      BY <1>6, <1>10, <3>2
    <3>3. CASE r \notin stopped /\ r \notin more
      BY <1>2, <1>11, <3>3, Ranges
    <3> QED  BY <3>1, <3>2, <3>3
  <2>2. ASSUME NEW r \in ReqIds PROVE specs'[r] \in 0 .. NumSpec
    <3>1. specs[r] \in 0 .. NumSpec /\ 0 \in 0 .. NumSpec
      BY <1>2, Ranges, Sizes
    <3> QED  BY <1>7, <1>8, <3>1
  <2>3. /\ tokens' \in [ReqIds -> 1 .. MaxModelLen - 1]
        /\ computed' \in [ReqIds -> 0 .. MaxModelLen - 1]
        /\ placeholders' \in [ReqIds -> Nat] /\ specs' \in [ReqIds -> 0 .. NumSpec]
    <3>1. DOMAIN tokens' = ReqIds /\ DOMAIN computed' = ReqIds
          /\ DOMAIN placeholders' = ReqIds /\ DOMAIN specs' = ReqIds
      BY <1>7
    <3>2. /\ tokens' = [r \in ReqIds |-> tokens'[r]] /\ computed' = [r \in ReqIds |-> computed'[r]]
          /\ placeholders' = [r \in ReqIds |-> placeholders'[r]]
          /\ specs' = [r \in ReqIds |-> specs'[r]]
      BY <1>7
    <3> QED  BY <2>1, <2>2, <3>2
  <2>4. Len(flight') <= InFlight
    <3>1. Len(flight) <= InFlight
      BY <1>2 DEF RequestTypes
    <3> QED  BY <1>12, <3>1, Sizes
  <2> QED  BY <1>0, <1>2, <1>9, <1>12, <2>3, <2>4 DEF RequestTypes
<1>14. HeldBlocksCover'
  <2>1. ASSUME NEW r \in ReqIds
        PROVE  IF status'[r] = "running" THEN blocks'[r] * BlockSize >= computed'[r]
               ELSE blocks'[r] = 0
    <3>1. CASE r \in stopped
      BY <1>9, <3>1
    <3>2. CASE r \notin stopped
      <4>1. computed'[r] <= computed[r] /\ computed[r] \in Nat /\ computed'[r] \in Nat
        <5>1. computed[r] \in Nat
          BY <1>2, Ranges
        <5>2. CASE r \in more
          BY <1>6, <1>10, <3>2, <5>1, <5>2
        <5>3. CASE r \notin more
          BY <1>11, <3>2, <5>1, <5>3
        <5> QED  BY <5>2, <5>3
      <4>2. blocks'[r] = blocks[r] /\ status'[r] = status[r] /\ blocks[r] * BlockSize \in Nat
        BY <1>2, <1>9, <3>2, Ranges, Sizes
      <4>3. IF status[r] = "running" THEN blocks[r] * BlockSize >= computed[r] ELSE blocks[r] = 0
        BY <1>2 DEF HeldBlocksCover
      <4> QED  BY <4>1, <4>2, <4>3
    <3> QED  BY <3>1, <3>2
  <2> QED  BY <1>9, <2>1 DEF HeldBlocksCover
<1>15. ASSUME NEW r \in ReqIds, Live(r)' PROVE r \notin stopped /\ Live(r)
  BY <1>9, <1>15 DEF Live
<1>16. InFlightRows'
  <2>1. ASSUME NEW r \in ReqIds, Live(r)' PROVE placeholders'[r] = ExpectedIn(flight', r)
    <3>1. r \notin stopped /\ Live(r)
      BY <1>15, <2>1
    <3>2. CASE r \in more
      BY <1>0, <1>6, <1>10, <3>1, <3>2
    <3>3. CASE r \notin more
      <4>1. r \notin sampled
        BY <1>5, <3>1, <3>3
      <4>2. placeholders[r] = 0 + ExpectedIn(Tail(flight), r) /\ ExpectedIn(Tail(flight), r) \in Nat
        BY <1>3, <3>1, <4>1
      <4> QED  BY <1>0, <1>11, <3>1, <3>3, <4>2
    <3> QED  BY <3>2, <3>3
  <2>2. ASSUME NEW r \in ReqIds, status'[r] \in {"new", "waiting"}
        PROVE  placeholders'[r] = 0 /\ \A i \in DOMAIN flight' : r \notin DOMAIN flight'[i]
    <3>1. r \notin stopped /\ status[r] \in {"new", "waiting"}
      BY <1>9, <2>2
    <3>2. placeholders[r] = 0 /\ \A i \in DOMAIN flight : r \notin DOMAIN flight[i]
      BY <3>1 DEF IInv, InFlightRows
    <3>3. r \notin more
      <4>1. 1 \in DOMAIN flight /\ step = flight[1]
        BY <1>12, HeadTailProperties DEF step
      <4> QED  BY <1>5, <3>2, <4>1
    <3> QED  BY <1>11, <1>12, <3>1, <3>2, <3>3
  <2>3. flight' # <<>> => DOMAIN flight'[Len(flight')] = prev_step'
    <3>1. SUFFICES ASSUME flight' # <<>> PROVE DOMAIN flight'[Len(flight')] = prev_step'
      OBVIOUS
    <3>2. flight'[Len(flight')] = flight[Len(flight)]
      <4>1. Len(flight') + 1 = Len(flight)
        BY <1>12
      <4> QED  BY <1>12, <3>1, <4>1
    <3> QED  BY <1>0, <3>2 DEF IInv, InFlightRows
  <2> QED  BY <2>1, <2>2, <2>3 DEF InFlightRows
<1>17. WorkerKnows'
  <2>1. \A r \in ReqIds : Live(r) => Live(r)' \/ r \in stopped
    BY <1>9 DEF Live
  <2> QED  BY <1>0, <1>2, <1>9, <2>1 DEF IInv, WorkerKnows, RequestTypes
<1>18. /\ LocalTypes' /\ Phases' /\ PlannedBefore' /\ Budget' /\ PlanCovered' /\ Tried'
       /\ DOMAIN plan = {} /\ DOMAIN plan' = {} /\ ~preempted /\ ~preempted'
  BY <1>0, <1>9, <1>13, IdleSame
<1>19. Counters'
  <2>1. ASSUME NEW r \in ToSet(running') PROVE Exact(r)'
    <3>1. r \in ReqIds /\ status'[r] = "running"
      BY <1>9 DEF QueuesMatchStatus
    <3>2. r \notin stopped /\ status[r] = "running"
      BY <1>9, <3>1
    <3>3. CASE r \in more
      <4>1. ~chunk'[r] /\ computed'[r] + 1 = tokens'[r] + placeholders'[r]
        BY <1>6, <1>9, <1>10, <3>1, <3>2, <3>3
      <4> QED  BY <4>1 DEF Exact
    <3>4. CASE r \notin more
      <4>1. Exact(r)
        BY <1>2, <1>18, <3>1, <3>2, StatusOfQueued DEF IInv, Counters
      <4>2. tokens'[r] = tokens[r] /\ computed'[r] = computed[r] /\ placeholders'[r] = placeholders[r]
        BY <1>11, <3>1, <3>2, <3>4
      <4>3. chunk'[r] = chunk[r]
        BY <1>9, <3>1, <3>2
      <4> QED  BY <4>1, <4>2, <4>3 DEF Exact
    <3> QED  BY <3>3, <3>4
  <2>2. ASSUME NEW r \in ReqIds, status'[r] = "preempted" PROVE computed'[r] = 0
    <3>1. r \notin stopped /\ status[r] = "preempted"
      BY <1>9, <2>2
    <3>2. CASE r \in more
      BY <1>6, <1>10, <3>1, <3>2
    <3>3. CASE r \notin more
      BY <1>11, <3>1, <3>3 DEF IInv, Counters
    <3> QED  BY <3>2, <3>3
  <2> QED  BY <1>18, <2>1, <2>2 DEF Counters
<1>20. Readmission'
  <2>1. \A q \in ReqIds : status'[q] = "preempted" => status[q] = "preempted"
    BY <1>9
  <2> QED  BY <1>0, <1>18, <2>1 DEF IInv, Readmission
<1> QED
  BY <1>9, <1>13, <1>14, <1>16, <1>17, <1>18, <1>19, <1>20 DEF IInv

(* One step of the scheduler, of the engine or of a client.                  *)
LEMMA StepKeepsIInv == ASSUME TwoInFlight, IInv, [Next]_vars PROVE IInv'
<1>1. CASE Schedule
  BY <1>1, StartStepKeeps, PassOverKeeps, ConsiderKeeps, AllocateKeeps, PreemptKeeps,
     EndRunningKeeps, AdmitKeeps, EndWaitingKeeps, CommitStepKeeps DEF Schedule
<1>2. CASE UpdateFromOutput
  BY <1>2, UpdateFromOutputKeeps
<1>3. CASE Client
  BY <1>3, AddRequestKeeps, AbortKeeps, SetPauseStateKeeps DEF Client
<1>4. CASE UNCHANGED vars
  <2>1. UNCHANGED <<config, requests, queues, engine>> /\ UNCHANGED <<budget, plan, preempted>>
        /\ UNCHANGED <<pc, at, current>>
    BY <1>4 DEF vars, locals
  <2>2. Settled'
    BY <2>1, IInvParts, SettledSame
  <2>3. PlanCovered' /\ Counters' /\ Readmission'
    BY <2>1, PlanSame
  <2>4. Budget' /\ LocalTypes' /\ Phases' /\ Tried' /\ PlannedBefore'
    BY <2>1 DEF IInv, Budget, LocalTypes, Phases, Tried, TriedSound, PlannedBefore, config,
                requests, queues, engine
  <2> QED  BY <2>2, <2>3, <2>4 DEF IInv, Settled
<1> QED  BY <1>1, <1>2, <1>3, <1>4 DEF Next, Engine

-----------------------------------------------------------------------------
(* The queues, the pool of blocks, the budget, the position of the loop, the *)
(* optimistic counters and the rows in flight stay in step with each other   *)
(* through schedule(), update_from_output() and every call in between.       *)
THEOREM SchedulerInvariant == ASSUME TwoInFlight PROVE Spec => []IInv
<1>1. Init => IInv
  BY InitIInv
<1>2. IInv /\ [Next]_vars => IInv'
  BY StepKeepsIInv
<1> QED  BY <1>1, <1>2, PTL DEF Spec

(* The scheduler never leaves a request in the wrong queue or in two, blocks *)
(* with one that does not run or too few with one that does, a budget that   *)
(* does not add up, or a worker with state of a request that is gone.        *)
THEOREM QueuesAndBlocksTheorem == ASSUME TwoInFlight PROVE Spec => []QueuesAndBlocksAgree
<1>1. IInv => QueuesAndBlocksAgree
  <2> SUFFICES ASSUME IInv PROVE QueuesAndBlocksAgree
    OBVIOUS
  <2>1. TypeOK
    <3>1. plan \in PlansOf /\ budget \in Nat /\ DOMAIN plan \in SUBSET ReqIds /\ Planned(plan) \in Nat
      BY PlannedSum DEF IInv, LocalTypes
    <3>2. budget \in 0 .. MaxBatchTokens
      <4>1. pc # "idle" => budget + Planned(plan) = IF pause = "all" THEN 0 ELSE MaxBatchTokens
        BY DEF IInv, Budget
      <4>2. pc = "idle" => budget = 0
        BY DEF IInv, Phases
      <4> QED  BY <3>1, <4>1, <4>2, Sizes
    <3>3. \A f \in {tokens, computed, placeholders, specs, blocks} : f \in [ReqIds -> Nat]
      <4>1. tokens \in [ReqIds -> Nat] /\ computed \in [ReqIds -> Nat] /\ specs \in [ReqIds -> Nat]
        BY Sizes DEF IInv, RequestTypes
      <4> QED  BY <4>1 DEF IInv, RequestTypes
    <3>4. /\ at \in Nat \ {0}
          /\ pc \in {"idle", "running", "allocate", "waiting", "commit"}
      BY DEF IInv, LocalTypes
    <3>5. \A S \in {finished_ids, prev_step, worker, DOMAIN plan} : S \subseteq ReqIds
      BY <3>1 DEF IInv, RequestTypes
    <3> QED  BY <3>2, <3>3, <3>4, <3>5 DEF IInv, RequestTypes, TypeOK
  <2>2. BudgetAccounted
    <3>1. \A r \in DOMAIN plan : plan[r].new > 0
      <4>1. plan \in PlansOf
        BY DEF IInv, LocalTypes
      <4>2. \A r \in DOMAIN plan : plan[r].new \in Nat \ {0}
        BY <4>1, PlannedSum
      <4> QED  BY <4>2
    <3> QED  BY <3>1 DEF IInv, BudgetAccounted, Budget, Planned, PlannedBefore
  <2>3. IdleMeansClean
    <3>1. SUFFICES ASSUME pause = "none", ~HasRequests PROVE worker = {}
      BY DEF IdleMeansClean
    <3>2. running \in Seq(ReqIds) /\ waiting \in Seq(ReqIds)
      BY DEF IInv, RequestTypes
    <3>3. Len(running) \in Nat /\ Len(waiting) \in Nat
      BY <3>2
    <3>4. Len(running) = 0 /\ Len(waiting) = 0 /\ finished_ids = {}
      BY <3>1, <3>3 DEF HasRequests, Unfinished
    <3>5. ToSet(running) = {} /\ ToSet(waiting) = {}
      <4>1. DOMAIN running = {} /\ DOMAIN waiting = {}
        BY <3>2, <3>4
      <4> QED  BY <4>1 DEF ToSet
    <3>6. ASSUME NEW r \in worker PROVE FALSE
      <4>1. r \in ReqIds /\ Live(r)
        BY <3>4 DEF IInv, WorkerKnows, RequestTypes
      <4> QED  BY <3>5, <4>1 DEF IInv, QueuesMatchStatus, Live
    <3> QED  BY <3>6
  <2> QED  BY <2>1, <2>2, <2>3 DEF IInv, QueuesAndBlocksAgree
<1> QED  BY <1>1, SchedulerInvariant, PTL

(* Between two steps, the placeholders of a request are what the steps in    *)
(* flight may yet bring it, its count of computed tokens is exact but for    *)
(* them, no position leaves the model's range, and a request that is passed  *)
(* over for its length limit reaches it by the steps in flight alone.        *)
THEOREM CountersMatchFlightTheorem == ASSUME TwoInFlight PROVE Spec => []CountersMatchFlight
<1>1. IInv => CountersMatchFlight
  <2> SUFFICES ASSUME IInv PROVE CountersMatchFlight
    OBVIOUS
  <2>1. PlaceholdersMatchFlight
    BY DEF IInv, InFlightRows, ExpectedIn, Expected, PlaceholdersMatchFlight
  <2>2. pc = "idle" => \A r \in ToSet(running) : r \in ReqIds /\ Live(r) /\ Exact(r)
    <3>1. RequestTypes /\ QueuesMatchStatus
      BY DEF IInv
    <3>2. pc = "idle" => DOMAIN plan = {}
      BY EmptyPlan DEF IInv, Phases
    <3> QED  BY <3>1, <3>2, StatusOfQueued DEF IInv, Counters
  <2>3. OptimisticCountExact
    BY <2>2 DEF OptimisticCountExact, Exact
  <2>4. SkippedWillFinish
    <3>1. SUFFICES ASSUME pc = "idle", NEW r \in ToSet(running), ReachedMaxTokens(r)
                   PROVE  tokens[r] + Cardinality({i \in DOMAIN flight :
                                r \in DOMAIN flight[i] /\ flight[i][r].samples})
                            >= Prompt[r] + MaxOutput[r]
      BY DEF SkippedWillFinish
    <3> DEFINE sampling == {i \in DOMAIN flight : r \in DOMAIN flight[i] /\ flight[i][r].samples}
    <3>2. /\ r \in ReqIds /\ Exact(r) /\ placeholders[r] = ExpectedIn(flight, r)
      BY <2>2, <3>1 DEF IInv, InFlightRows
    <3>3. /\ tokens[r] \in Nat /\ computed[r] \in Nat /\ placeholders[r] \in Nat
          /\ Prompt[r] \in Nat /\ MaxOutput[r] \in Nat
      <4>1. RequestTypes
        BY DEF IInv
      <4> QED  BY <3>2, <4>1, Ranges, Sizes
    <3>4. placeholders[r] > 0 /\ tokens[r] + 1 >= Prompt[r] + MaxOutput[r]
      <4>1. placeholders[r] > 0 /\ computed[r] + 2 - placeholders[r] >= Prompt[r] + MaxOutput[r]
        BY <3>1 DEF ReachedMaxTokens
      <4>2. computed[r] + 1 = tokens[r] + placeholders[r]
        BY <3>2, <3>3, <4>1 DEF Exact
      <4> QED  BY <3>3, <4>1, <4>2
    <3>5. sampling # {} /\ IsFiniteSet(sampling)
      <4>1. flight \in Seq(StepsOf) /\ Len(flight) \in Nat /\ DOMAIN flight = 1 .. Len(flight)
        BY DEF IInv, RequestTypes
      <4>2. sampling # {}
        <5>1. SUFFICES ASSUME sampling = {} PROVE FALSE
          OBVIOUS
        <5>2. \A i \in 1 .. Len(flight) : Awaited(flight[i], r) = 0
          BY <4>1, <5>1 DEF Awaited
        <5>3. ExpectedIn(flight, r) = 0
          BY <4>1, <5>2, ExpectedNone
        <5> QED  BY <3>2, <3>4, <5>3
      <4>3. IsFiniteSet(1 .. Len(flight)) /\ sampling \subseteq 1 .. Len(flight)
        BY <4>1, FS_Interval
      <4>4. IsFiniteSet(sampling)
        BY <4>3, FS_Subset
      <4> QED  BY <4>2, <4>4
    <3> HIDE DEF sampling
    <3>6. Cardinality(sampling) \in Nat /\ Cardinality(sampling) # 0
      BY <3>5, FS_CardinalityType, FS_EmptySet
    <3>7. tokens[r] + Cardinality(sampling) >= Prompt[r] + MaxOutput[r]
      BY <3>3, <3>4, <3>6
    <3> QED  BY <3>7 DEF sampling
  <2>5. PositionsInRange
    <3>1. RequestTypes
      BY DEF IInv
    <3> QED  BY <3>1, Ranges, Sizes DEF PositionsInRange
  <2> QED  BY <2>1, <2>3, <2>4, <2>5 DEF CountersMatchFlight
<1> QED  BY <1>1, SchedulerInvariant, PTL

(* What the worker cannot know the scheduler sends: every token of a request *)
(* that rejoins the batch is known, and none rejoins it by being resumed     *)
(* while it is still in it.                                                  *)
THEOREM ReaddedTokensTheorem == ASSUME TwoInFlight PROVE Spec => []ReaddedTokensKnown
<1>1. IInv => ReaddedTokensKnown
  <2> SUFFICES ASSUME IInv, pc = "commit", NEW r \in DOMAIN plan
               PROVE  /\ plan[r].kind # "new" /\ r \notin prev_step => placeholders[r] = 0
                      /\ plan[r].kind = "resumed" => r \notin prev_step
    BY DEF ReaddedTokensKnown
  <2>1. r \in ReqIds /\ Live(r)
    <3>1. RequestTypes /\ QueuesMatchStatus /\ r \in ToSet(running)
      BY DEF IInv, PlannedBefore
    <3> QED  BY <3>1, StatusOfQueued
  <2>2. r \notin prev_step => placeholders[r] = 0
    BY <2>1, NothingInFlight
  <2>3. plan[r].kind = "resumed" => r \notin prev_step
    BY DEF IInv, Readmission
  <2> QED  BY <2>2, <2>3
<1> QED  BY <1>1, SchedulerInvariant, PTL
=============================================================================
