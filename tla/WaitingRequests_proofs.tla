------------------------ MODULE WaitingRequests_proofs ------------------------
(* Proofs about what requests wait for, for any requests, prompts, sessions, *)
(* block sizes, numbers of blocks and failures, with one batch in flight and *)
(* no prefix shared between requests if loads may be synchronous: no request *)
(* is lost between the queues, transfers own their blocks, and no token is   *)
(* accepted that was computed from KV entries that are not right.            *)
EXTENDS WaitingRequests, DataLemmas

(* Hypotheses of the theorems.                                             *)
OneInFlight  == InFlight = 1
SyncUnshared ==
  "sync" \in Loads => \A r, s \in ReqIds : Family[r] = Family[s] => r = s

(* The inductive invariant, in named parts.                                *)
Offsets  == 0 .. BlockSize - 1
Slots    == Blocks \X Offsets
Statuses == {"new", "waiting", "preempted", "running", "remote", "streaming",
             "finished", "gone"}

Request ==
  [status : Statuses, tokens : Nat \ {0}, prompt : Nat, computed : Nat,
   table : Seq(Blocks), updates : Seq(Nat), inputs : Nat, closed : BOOLEAN,
   preempted : BOOLEAN]

BatchRow ==
  [req : ReqIds, table : Seq(Blocks), start : Nat, new : Nat \ {0},
   load : SUBSET Slots, samples : BOOLEAN]

OutRow == [req : ReqIds, samples : BOOLEAN, ok : BOOLEAN]

Output ==
  [rows : Seq(OutRow), failed : SUBSET ReqIds, done : SUBSET ReqIds,
   sent : SUBSET ReqIds, stopped : SUBSET (ReqIds \X {"running"})]

Types ==
  /\ req \in [ReqIds -> Request]
  /\ running \in Seq(ReqIds) /\ waiting \in Seq(ReqIds)
  /\ skipped \in Seq(ReqIds) /\ step_skipped \in Seq(ReqIds)
  /\ received \in SUBSET ReqIds /\ failed \in SUBSET ReqIds
  /\ sending \in SUBSET ReqIds /\ finished_ids \in SUBSET ReqIds
  /\ DOMAIN loading \in SUBSET ReqIds
  /\ \A r \in DOMAIN loading : loading[r] \in SUBSET Slots
  /\ cached \in SUBSET Held /\ good \in SUBSET Slots
  /\ plan \in Seq(BatchRow) /\ flight \in Seq(Seq(BatchRow)) /\ Len(flight) <= 1
  /\ out \in Output /\ at \in Nat \ {0} /\ faults \in 0 .. MaxFaults
  /\ pc \in {"idle", "running", "waiting", "commit", "rows"}

Phases ==
  /\ pc # "idle" => flight = <<>>
  /\ pc \in {"idle", "rows"} => plan = <<>>
  /\ pc \notin {"waiting", "commit"} => step_skipped = <<>>
  /\ pc # "rows" => out = None

Stopped == {s[1] : s \in out.stopped}
WithStatus(S) == {r \in ReqIds : req[r].status \in S}
InQueues == {"waiting", "preempted", "remote", "streaming"}

Queues ==
  /\ IsInjective(running) /\ IsInjective(waiting)
  /\ IsInjective(skipped) /\ IsInjective(step_skipped)
  /\ ToSet(waiting) \cap ToSet(skipped) = {}
  /\ ToSet(waiting) \cap ToSet(step_skipped) = {}
  /\ ToSet(skipped) \cap ToSet(step_skipped) = {}
  /\ ToSet(waiting) \cup ToSet(skipped) \cup ToSet(step_skipped) = WithStatus(InQueues)
  /\ ToSet(running) = WithStatus({"running"}) \cup Stopped
  /\ \A r \in ToSet(waiting) : req[r].status # "remote"
  /\ num_streaming = Cardinality(WithStatus({"streaming"}))

(* The only token of a prompt may have been loaded.                        *)
Alone(r) ==
  Len(req[r].table) = 1 /\ req[r].table[1] \notin cached
    /\ \A s \in ReqIds \ {r} : req[r].table[1] \notin ToSet(req[s].table)

Counters(r) ==
  /\ req[r].status \in {"new", "gone"} => req[r].table = <<>> /\ req[r].computed = 0
  /\ Live(r) => /\ req[r].computed <= req[r].tokens
                /\ req[r].computed <= Len(req[r].table) * BlockSize
  /\ req[r].status \in {"waiting", "preempted"} => req[r].computed < req[r].tokens
  /\ req[r].status \in {"waiting", "preempted"} /\ req[r].computed = 0 /\ req[r].tokens # 1 =>
       req[r].table = <<>>
  /\ req[r].status \in {"waiting", "preempted", "remote"} /\ req[r].tokens = 1 =>
       req[r].table = <<>> \/ Alone(r)
  /\ req[r].status = "streaming" => req[r].computed # 0
  /\ req[r].status = "remote" =>
       IF r \in failed THEN req[r].computed < req[r].tokens
       ELSE req[r].computed # 0 \/ r \in out.failed
  /\ r \in failed \cup received => req[r].status = "remote"

Rows == IF flight = <<>> THEN plan ELSE flight[1]

Planned(row) ==
  LET r == row.req
  IN /\ row.start + row.new <= Len(row.table) * BlockSize
     /\ row.load # {} => "sync" \in Loads
     /\ row.load \subseteq Places(row.table, 0, row.start)
     /\ pc # "idle" =>
          /\ req[r].status = "running" /\ req[r].table = row.table
          /\ req[r].computed = row.start /\ row.start + row.new <= req[r].tokens
     /\ pc = "idle" =>
          /\ req[r].status \in {"running", "finished", "gone"}
          /\ req[r].status = "running" =>
               req[r].table = row.table /\ req[r].computed = row.start + row.new

Batch ==
  /\ \A i, j \in DOMAIN Rows : Rows[i].req = Rows[j].req => i = j
  /\ \A i \in DOMAIN Rows : Planned(Rows[i])
  /\ pc = "running" =>
       \A i \in DOMAIN Rows : \E j \in DOMAIN running : j < at /\ running[j] = Rows[i].req

(* What is left of the output of a batch.                                  *)
Outcome ==
  /\ \A i, j \in DOMAIN out.rows : out.rows[i].req = out.rows[j].req => i = j
  /\ \A i \in DOMAIN out.rows :
       LET r == out.rows[i].req
       IN r \notin Stopped /\ (Live(r) /\ r \notin out.failed =>
                                 req[r].status = "running" /\ req[r].computed # 0)
  /\ Stopped \cap out.failed = {}
  /\ Stopped \subseteq WithStatus({"gone", "finished", "streaming", "waiting"})
  /\ recompute => \A r \in out.failed : req[r].status # "remote"

Moving == DOMAIN loading \cup out.done

Transfers ==
  /\ \A r \in Moving : req[r].status \in {"remote", "finished"} /\ r \notin received
  /\ DOMAIN loading \cap out.done = {} /\ sending \cap out.sent = {}
  /\ (sending \cup out.sent) \cap Moving = {}
  /\ \A r \in DOMAIN loading : \A p \in loading[r] :
       /\ p[1] \in ToSet(req[r].table) /\ p[1] \notin cached
       /\ \A s \in ReqIds \ {r} : p[1] \notin ToSet(req[s].table)
       /\ \A i \in DOMAIN Rows : p[1] \notin ToSet(Rows[i].table)
  /\ \A r \in sending \cup out.sent : req[r].status = "finished"
  /\ \A r \in ReqIds : req[r].status = "finished" => r \in sending \cup out.sent \cup Moving
  /\ \A r \in ReqIds : req[r].status = "remote" => r \in received \cup Moving

(* Tables of requests that share a block agree up to it.                   *)
Agree(r, t, s, u) ==
  \A i \in DOMAIN t, j \in DOMAIN u : t[i] = u[j] =>
    i = j /\ Family[r] = Family[s] /\ \A k \in 1 .. i : t[k] = u[k]

Sharing ==
  /\ \A r, s \in ReqIds : Agree(r, req[r].table, s, req[s].table)
  /\ \A i \in DOMAIN Rows, s \in ReqIds :
       Agree(Rows[i].req, Rows[i].table, s, req[s].table)

(* What holds the right entry when the rows before the k-th have run and   *)
(* their loads succeed.                                                    *)
Coming(k) ==
  good \cup (UNION {Rows[j].load : j \in DOMAIN Rows})
       \cup (UNION {Written(Rows[j]) : j \in {j \in DOMAIN Rows : j < k}})

Everything == Coming(Len(Rows) + 1)

RowsReadRight ==
  \A i \in DOMAIN Rows : \A p \in Places(Rows[i].table, 0, Rows[i].start) :
    p[1] \in Held => p \in Coming(i)

ComputedIsRight ==
  \A r \in ReqIds : Live(r) =>
    \A p \in Places(req[r].table, 0, req[r].computed) :
      p \in Everything \/ (r \in DOMAIN loading /\ p \in loading[r])

CachedIsRight ==
  "sync" \notin Loads => \A b \in cached, o \in Offsets : <<b, o>> \in Everything

OutputIsRight ==
  /\ \A i \in DOMAIN out.rows :
       Live(out.rows[i].req) /\ out.rows[i].req \notin out.failed => out.rows[i].ok
  /\ ~tainted

Inv_Counters == \A r \in ReqIds : Counters(r)

IInv ==
  /\ Types /\ Phases /\ Queues /\ Inv_Counters /\ Batch /\ Outcome /\ Transfers /\ Sharing
  /\ RowsReadRight /\ ComputedIsRight /\ CachedIsRight /\ OutputIsRight

-----------------------------------------------------------------------------
(* The constants.                                                            *)
LEMMA Sizes ==
  /\ BlockSize \in Nat \ {0} /\ BlockSize > 1 /\ NumBlocks \in Nat
  /\ IsFiniteSet(ReqIds) /\ ReqIds \subseteq Nat \ {0}
  /\ LongPrefill \in Nat /\ Lookahead \in Nat /\ MaxFaults \in Nat
  /\ Inputs \subseteq Nat \ {0} /\ Hits \subseteq Nat
  /\ \A r \in ReqIds : Prompt[r] \in Nat \ {0}
BY WaitingAssumption

-----------------------------------------------------------------------------
(* Positions and blocks.                                                     *)

(* The block of a position that a table covers.                              *)
LEMMA Covered ==
  ASSUME NEW p \in Nat, NEW n \in Nat, p < n * BlockSize
  PROVE  /\ p \div BlockSize + 1 \in 1 .. n /\ p % BlockSize \in Offsets
         /\ p \div BlockSize \in Nat
         /\ p = (p \div BlockSize) * BlockSize + (p % BlockSize)
<1> DEFINE q == p \div BlockSize
           o == p % BlockSize
<1>1. q \in Nat /\ o \in 0 .. BlockSize - 1 /\ p = q * BlockSize + o
  BY Sizes, Division
<1> HIDE DEF q, o
<1>2. ~(n <= q)
  <2> SUFFICES ASSUME n <= q PROVE FALSE
    OBVIOUS
  <2>1. n * BlockSize <= q * BlockSize
    BY <1>1, Sizes, Monotone
  <2>2. n * BlockSize \in Nat /\ q * BlockSize \in Nat
    BY <1>1, Sizes
  <2> QED  BY <1>1, <2>1, <2>2, Sizes
<1>4. (q \in Nat /\ o \in Offsets /\ p = q * BlockSize + o) /\ q + 1 \in 1 .. n
  BY <1>1, <1>2 DEF Offsets
<1> QED  BY <1>4 DEF q, o

(* Block i, counted from 0, starts at position i * BlockSize.                *)
LEMMA PositionOf ==
  ASSUME NEW i \in Nat, NEW o \in Offsets
  PROVE  /\ (i * BlockSize + o) \div BlockSize = i /\ (i * BlockSize + o) % BlockSize = o
         /\ i * BlockSize + o \in Nat /\ i * BlockSize + o < (i + 1) * BlockSize
<1>1. o \in 0 .. BlockSize - 1 /\ BlockSize \in Nat \ {0}
  BY Sizes DEF Offsets
<1>2. (i + 1) * BlockSize = i * BlockSize + BlockSize /\ i * BlockSize \in Nat
  BY <1>1, Successor
<1> QED  BY <1>1, <1>2, Unique

LEMMA BlockOrder ==
  ASSUME NEW p \in Nat, NEW q \in Nat, p <= q
  PROVE  p \div BlockSize <= q \div BlockSize
<1> DEFINE a == p \div BlockSize
           b == q \div BlockSize
<1>1. a \in Nat /\ p % BlockSize \in 0 .. BlockSize - 1 /\ p = a * BlockSize + (p % BlockSize)
  BY Sizes, Division
<1>2. b \in Nat /\ q % BlockSize \in 0 .. BlockSize - 1 /\ q = b * BlockSize + (q % BlockSize)
  BY Sizes, Division
<1> HIDE DEF a, b
<1>3. ~(b + 1 <= a)
  <2> SUFFICES ASSUME b + 1 <= a PROVE FALSE
    OBVIOUS
  <2>1. (b + 1) * BlockSize <= a * BlockSize /\ (b + 1) * BlockSize = b * BlockSize + BlockSize
    BY <1>1, <1>2, Sizes, Monotone, Successor
  <2>2. a * BlockSize \in Nat /\ b * BlockSize \in Nat
    BY <1>1, <1>2, Sizes
  <2> QED  BY <1>1, <1>2, <2>1, <2>2, Sizes
<1>4. a <= b
  BY <1>1, <1>2, <1>3
<1> QED  BY <1>4 DEF a, b

LEMMA BlocksForFacts ==
  ASSUME NEW n \in Nat
  PROVE  /\ BlocksFor(n) \in Nat /\ n <= BlocksFor(n) * BlockSize
         /\ \A i \in Nat : i * BlockSize < n <=> i < BlocksFor(n)
<1> DEFINE a == n + BlockSize - 1
           k == a \div BlockSize
<1>0. BlockSize \in Nat \ {0} /\ a \in Nat
  BY Sizes
<1>1. k \in Nat /\ a % BlockSize \in 0 .. BlockSize - 1 /\ a = k * BlockSize + (a % BlockSize)
  BY <1>0, Division
<1>2. k * BlockSize \in Nat
  BY <1>0, <1>1
<1>3. n <= k * BlockSize /\ k * BlockSize < n + BlockSize
  BY <1>0, <1>1, <1>2
<1> HIDE DEF k
<1>4. ASSUME NEW i \in Nat PROVE i * BlockSize < n <=> i < k
  <2>1. i * BlockSize \in Nat
    BY <1>0
  <2>2. CASE i < k
    <3>1. (i + 1) * BlockSize <= k * BlockSize /\ (i + 1) * BlockSize = i * BlockSize + BlockSize
      BY <1>0, <1>1, <2>2, Monotone, Successor
    <3> QED  BY <1>0, <1>2, <1>3, <2>1, <2>2, <3>1
  <2>3. CASE k <= i
    <3>1. k * BlockSize <= i * BlockSize
      BY <1>0, <1>1, <2>3, Monotone
    <3> QED  BY <1>1, <1>2, <1>3, <2>1, <2>3, <3>1
  <2> QED  BY <1>1, <2>2, <2>3
<1> QED  BY <1>1, <1>3, <1>4 DEF BlocksFor, k

LEMMA OneBlock == BlocksFor(1) = 1
<1>1. /\ BlocksFor(1) \in Nat /\ 1 <= BlocksFor(1) * BlockSize
      /\ \A i \in Nat : i * BlockSize < 1 <=> i < BlocksFor(1)
  BY BlocksForFacts
<1>2. 0 * BlockSize < 1 /\ ~(1 * BlockSize < 1)
  BY Sizes
<1> QED  BY <1>1, <1>2

(* What is at a position of a table that covers it.                          *)
LEMMA PlaceFacts ==
  ASSUME NEW t \in Seq(Blocks), NEW p \in Nat, p < Len(t) * BlockSize
  PROVE  /\ At(t, p) \in Slots /\ p \div BlockSize + 1 \in DOMAIN t
         /\ At(t, p)[1] = t[p \div BlockSize + 1] /\ At(t, p)[1] \in ToSet(t)
<1>1. p \div BlockSize + 1 \in 1 .. Len(t) /\ p % BlockSize \in Offsets
  BY Covered
<1>2. t[p \div BlockSize + 1] \in Blocks /\ DOMAIN t = 1 .. Len(t)
  BY <1>1
<1> QED  BY <1>1, <1>2 DEF At, Slots, ToSet

LEMMA PlacesFacts ==
  ASSUME NEW t \in Seq(Blocks), NEW from \in Nat, NEW to \in Nat, to <= Len(t) * BlockSize
  PROVE  /\ Places(t, from, to) \in SUBSET Slots
         /\ \A p \in Places(t, from, to) : p[1] \in ToSet(t)
<1>1. ASSUME NEW p \in from .. to - 1
      PROVE  At(t, p) \in Slots /\ At(t, p)[1] \in ToSet(t)
  <2>1. Len(t) * BlockSize \in Nat
    BY Sizes
  <2>2. p \in Nat /\ p < Len(t) * BlockSize
    BY <2>1
  <2> QED  BY <2>2, PlaceFacts
<1> QED  BY <1>1 DEF Places

(* Two tables agree at a position if they agree on its block.                *)
LEMMA SamePlaces ==
  ASSUME NEW t \in Seq(Blocks), NEW u \in Seq(Blocks), NEW n \in Nat, NEW k \in Nat,
         k <= Len(t), k <= Len(u), n <= k * BlockSize,
         \A i \in 1 .. k : t[i] = u[i]
  PROVE  \A from \in Nat : Places(t, from, n) = Places(u, from, n)
<1> SUFFICES ASSUME NEW from \in Nat PROVE Places(t, from, n) = Places(u, from, n)
  OBVIOUS
<1>1. ASSUME NEW p \in from .. n - 1 PROVE At(t, p) = At(u, p)
  <2>1. k * BlockSize \in Nat
    BY Sizes
  <2>2. p \in Nat /\ p < k * BlockSize
    BY <2>1
  <2>3. p \div BlockSize + 1 \in 1 .. k
    BY <2>2, Covered
  <2> QED  BY <2>3 DEF At
<1> QED  BY <1>1 DEF Places

-----------------------------------------------------------------------------
(* Allocation.                                                               *)

LEMMA Enumerated ==
  ASSUME NEW S, IsFiniteSet(S)
  PROVE  /\ Cardinality(S) \in Nat
         /\ SetToSeq(S) \in [1 .. Cardinality(S) -> S] /\ IsInjective(SetToSeq(S))
<1>1. Cardinality(S) \in Nat /\ ExistsBijection(1 .. Cardinality(S), S)
  BY FS_CardinalityType
<1>2. \E f \in [1 .. Cardinality(S) -> S] : IsInjective(f)
  BY <1>1 DEF ExistsBijection, Bijection, Injection
<1> QED  BY <1>1, <1>2 DEF SetToSeq

(* u follows t with blocks that nobody holds.                                *)
Grown(t, u) ==
  /\ u \in Seq(Blocks) /\ Len(t) <= Len(u)
  /\ \A i \in DOMAIN t : u[i] = t[i]
  /\ \A i \in DOMAIN u : i > Len(t) => u[i] \notin Held /\ u[i] \notin ToSet(t)
  /\ \A i, j \in DOMAIN u : i > Len(t) /\ j > Len(t) /\ u[i] = u[j] => i = j

LEMMA ExtendedFacts ==
  ASSUME NEW t \in Seq(Blocks), NEW n \in Nat, Fits(t, n)
  PROVE  /\ Grown(t, Extended(t, n))
         /\ n <= Len(Extended(t, n)) * BlockSize
         /\ Len(Extended(t, n)) = Len(t) \/ Len(Extended(t, n)) = BlocksFor(n)
<1> DEFINE k == BlocksFor(n)
           m == Len(t)
           S == Unused(t)
           f == SetToSeq(S)
           d == Missing(t, n)
           u == Extended(t, n)
<1>1. k \in Nat /\ n <= k * BlockSize /\ k * BlockSize \in Nat
  <2>1. k \in Nat /\ n <= k * BlockSize
    BY BlocksForFacts
  <2> HIDE DEF k
  <2> QED  BY <2>1, Sizes
<1>2. m \in Nat /\ DOMAIN t = 1 .. m /\ \A i \in 1 .. m : t[i] \in Blocks
  OBVIOUS
<1>3. d = k - m /\ d <= Cardinality(S)
  BY DEF Missing, Fits
<1> HIDE DEF k, m, d
<1>4. CASE d <= 0
  <2>1. u = t
    BY <1>4 DEF Extended, d
  <2>2. k * BlockSize <= m * BlockSize /\ m * BlockSize \in Nat
    BY <1>1, <1>2, <1>3, <1>4, Sizes, Monotone
  <2> QED  BY <1>1, <1>2, <2>1, <2>2 DEF Grown, m
<1>5. CASE ~(d <= 0)
  <2>1. d \in Nat \ {0} /\ m + d = k
    BY <1>1, <1>2, <1>3, <1>5
  <2>2. S \subseteq Blocks /\ \A x \in S : x \notin Held /\ x \notin ToSet(t)
    BY DEF Unused
  <2>3. IsFiniteSet(S)
    <3>1. IsFiniteSet(Blocks)
      BY Sizes, FS_Interval DEF Blocks
    <3> QED  BY <2>2, <3>1, FS_Subset
  <2>4. Cardinality(S) \in Nat /\ f \in [1 .. Cardinality(S) -> S] /\ IsInjective(f)
    BY <2>3, Enumerated
  <2> HIDE DEF S, f
  <2> DEFINE g == SubSeq(f, 1, d)
  <2>5. \A i \in 1 .. d : i \in 1 .. Cardinality(S) /\ f[i] \in S
    BY <1>3, <2>1, <2>4
  <2>6. g \in Seq(Blocks) /\ Len(g) = d /\ \A i \in 1 .. d : g[i] = f[i]
    <3>1. \A i \in 1 .. d : f[i] \in Blocks
      BY <2>2, <2>5
    <3>2. /\ g \in Seq(Blocks)
          /\ Len(g) = IF 1 <= d THEN d - 1 + 1 ELSE 0
          /\ \A i \in 1 .. d - 1 + 1 : g[i] = f[1 + i - 1]
      BY <2>1, <3>1, SubSeqProperties
    <3>3. d - 1 + 1 = d /\ \A i \in 1 .. d : 1 + i - 1 = i
      BY <2>1
    <3> HIDE DEF g
    <3> QED  BY <2>1, <3>2, <3>3
  <2>7. \A i, j \in 1 .. d : g[i] = g[j] => i = j
    BY <2>4, <2>5, <2>6 DEF IsInjective
  <2>8. u = t \o g
    BY <1>5 DEF Extended, d, S, f
  <2> HIDE DEF g, u
  <2>9. /\ u \in Seq(Blocks) /\ Len(u) = m + d
        /\ \A i \in 1 .. m + d : u[i] = IF i <= m THEN t[i] ELSE g[i - m]
    <3>1. /\ t \o g \in Seq(Blocks) /\ Len(t \o g) = Len(t) + Len(g)
          /\ \A i \in 1 .. Len(t) + Len(g) :
               (t \o g)[i] = IF i <= Len(t) THEN t[i] ELSE g[i - Len(t)]
      BY <2>6, ConcatProperties
    <3>2. Len(t) = m /\ Len(g) = d
      BY <2>6 DEF m
    <3> QED  BY <2>8, <3>1, <3>2
  <2>10. DOMAIN u = 1 .. m + d
    BY <2>9
  <2>11. \A i \in DOMAIN u : i > m => i - m \in 1 .. d /\ u[i] = g[i - m] /\ u[i] \in S
    <3> SUFFICES ASSUME NEW i \in 1 .. m + d, i > m
                 PROVE  i - m \in 1 .. d /\ u[i] = g[i - m] /\ u[i] \in S
      BY <2>10
    <3>1. i - m \in 1 .. d
      BY <1>2, <2>1
    <3>2. u[i] = g[i - m]
      BY <1>2, <2>1, <2>9
    <3> QED  BY <2>5, <2>6, <3>1, <3>2
  <2>12. \A i \in DOMAIN t : u[i] = t[i]
    BY <1>2, <2>1, <2>9
  <2>13. ASSUME NEW i \in DOMAIN u, NEW j \in DOMAIN u, i > m, j > m, u[i] = u[j]
         PROVE  i = j
    <3>1. i - m = j - m
      BY <2>7, <2>11, <2>13
    <3>2. i \in Int /\ j \in Int
      BY <1>2, <2>1, <2>10
    <3> QED  BY <1>2, <3>1, <3>2
  <2>14. Grown(t, u)
    BY <1>2, <2>1, <2>2, <2>9, <2>11, <2>12, <2>13 DEF Grown, m
  <2>15. Len(u) = k
    BY <2>1, <2>9
  <2> QED  BY <1>1, <2>14, <2>15 DEF u, k, m
<1> QED  BY <1>1, <1>2, <1>3, <1>4, <1>5

(* The cached prefix is one of a request of the family.                      *)
LEMMA HitFacts ==
  ASSUME Types, NEW r \in ReqIds
  PROVE  \E s \in ReqIds, k \in Nat :
           /\ Family[s] = Family[r] /\ k <= Len(req[s].table)
           /\ k * BlockSize < req[r].tokens
           /\ \A i \in 1 .. k : req[s].table[i] \in cached
           /\ Hit(r) = SubSeq(req[s].table, 1, k)
<1> DEFINE C == CachedPrefixes(r)
<1>0. /\ req[r].tokens \in Nat \ {0}
      /\ \A s \in ReqIds : req[s].table \in Seq(Blocks) /\ Len(req[s].table) \in Nat
  BY DEF Types, Request
<1>1. \A t : t \in C <=>
        \E s \in ReqIds : \E k \in CachedBlocks(r, s) :
          Family[s] = Family[r] /\ t = SubSeq(req[s].table, 1, k)
  <2> DEFINE of(s) == {SubSeq(req[s].table, 1, k) : k \in CachedBlocks(r, s)}
             same == {s \in ReqIds : Family[s] = Family[r]}
  <2>1. C = UNION {of(s) : s \in same}
    BY DEF CachedPrefixes
  <2>2. \A s, t : t \in of(s) <=> \E k \in CachedBlocks(r, s) : t = SubSeq(req[s].table, 1, k)
    OBVIOUS
  <2>3. \A s : s \in same <=> s \in ReqIds /\ Family[s] = Family[r]
    OBVIOUS
  <2> HIDE DEF of, same, C
  <2>4. \A t : t \in C <=> \E s \in same : t \in of(s)
    BY <2>1
  <2> QED  BY <2>2, <2>3, <2>4
<1>2. ASSUME NEW s \in ReqIds, NEW k \in CachedBlocks(r, s)
      PROVE  /\ Len(SubSeq(req[s].table, 1, k)) = k
             /\ k \in Nat /\ k <= req[r].tokens
  <2>1. /\ k \in Nat /\ req[s].table \in Seq(Blocks) /\ k <= Len(req[s].table)
        /\ k * BlockSize < req[r].tokens
    BY <1>0, <1>2 DEF CachedBlocks
  <2>2. \A i \in 1 .. k : req[s].table[i] \in Blocks
    BY <1>0, <2>1
  <2>3. Len(SubSeq(req[s].table, 1, k)) = IF 1 <= k THEN k - 1 + 1 ELSE 0
    BY <2>1, <2>2, SubSeqProperties
  <2>4. k <= k * BlockSize
    <3>1. 1 * k <= BlockSize * k
      BY <2>1, Sizes, Monotone
    <3>2. BlockSize * k = k * BlockSize /\ 1 * k = k
      BY <2>1, Sizes
    <3> QED  BY <3>1, <3>2
  <2>5. k * BlockSize \in Nat
    BY <2>1, Sizes
  <2> QED  BY <1>0, <1>2, <2>1, <2>3, <2>4, <2>5
<1>3. C # {} /\ \A t \in C : Len(t) \in Nat /\ Len(t) <= req[r].tokens
  <2>1. ASSUME NEW t \in C PROVE Len(t) \in Nat /\ Len(t) <= req[r].tokens
    <3>1. PICK s \in ReqIds : \E k \in CachedBlocks(r, s) : t = SubSeq(req[s].table, 1, k)
      BY <1>1
    <3> QED  BY <1>2, <3>1
  <2>2. 0 \in CachedBlocks(r, r)
    <3>1. 0 * BlockSize = 0
      BY Sizes
    <3> QED  BY <1>0, <3>1 DEF CachedBlocks
  <2>3. SubSeq(req[r].table, 1, 0) \in C
    BY <1>1, <2>2
  <2> QED  BY <2>1, <2>3
<1> HIDE DEF C
<1>4. \E t \in C : \A u \in C : Len(u) <= Len(t)
  <2> DEFINE D == {n \in Nat : \E t \in C : n = req[r].tokens - Len(t)}
  <2>1. D \in SUBSET Nat /\ D # {}
    <3>1. PICK t \in C : TRUE
      BY <1>3
    <3>2. req[r].tokens - Len(t) \in Nat
      BY <1>0, <1>3
    <3> QED  BY <3>2
  <2>2. PICK d \in D : \A e \in D : d <= e
    BY <2>1, LeastNumber
  <2>3. PICK t \in C : d = req[r].tokens - Len(t)
    BY <2>2
  <2>4. ASSUME NEW u \in C PROVE Len(u) <= Len(t)
    <3>1. req[r].tokens - Len(u) \in D
      BY <1>0, <1>3
    <3>2. /\ Len(u) \in Nat /\ Len(t) \in Nat /\ req[r].tokens \in Nat
          /\ req[r].tokens - Len(t) <= req[r].tokens - Len(u)
      BY <1>0, <1>3, <2>2, <2>3, <3>1
    <3> HIDE DEF D
    <3> QED  BY <3>2
  <2> QED  BY <2>4
<1>5. Hit(r) \in C
  BY <1>4, Zenon DEF Hit, C
<1>6. PICK s \in ReqIds : \E k \in CachedBlocks(r, s) :
        Family[s] = Family[r] /\ Hit(r) = SubSeq(req[s].table, 1, k)
  BY <1>1, <1>5, Zenon
<1> QED  BY <1>0, <1>6 DEF CachedBlocks

LEMMA FullFacts ==
  ASSUME NEW t \in Seq(Blocks), NEW n \in Nat
  PROVE  /\ Full(t, n) \in SUBSET ToSet(t)
         /\ \A b \in Full(t, n), o \in Offsets : <<b, o>> \in Places(t, 0, n)
<1>1. Full(t, n) \in SUBSET ToSet(t)
  BY DEF Full, ToSet
<1>2. ASSUME NEW b \in Full(t, n), NEW o \in Offsets PROVE <<b, o>> \in Places(t, 0, n)
  <2>1. PICK i \in DOMAIN t : i * BlockSize <= n /\ t[i] = b
    BY DEF Full
  <2>2. i \in Nat /\ i - 1 \in Nat /\ (i - 1) + 1 = i
    BY <2>1
  <2> DEFINE p == (i - 1) * BlockSize + o
  <2>3. p \div BlockSize = i - 1 /\ p % BlockSize = o /\ p \in Nat /\ p < i * BlockSize
    BY <2>2, PositionOf
  <2> HIDE DEF p
  <2>4. i * BlockSize \in Nat
    BY <2>2, Sizes
  <2>5. p \in 0 .. n - 1
    BY <2>1, <2>3, <2>4
  <2>6. At(t, p) = <<b, o>>
    BY <2>1, <2>2, <2>3 DEF At
  <2> QED  BY <2>5, <2>6 DEF Places
<1> QED  BY <1>1, <1>2

LEMMA NothingFull == \A t \in Seq(Blocks) : Full(t, 1) = {}
<1> SUFFICES ASSUME NEW t \in Seq(Blocks), NEW i \in DOMAIN t, i * BlockSize <= 1 PROVE FALSE
  BY DEF Full
<1>1. i \in Nat /\ 1 <= i
  OBVIOUS
<1>2. 1 * BlockSize <= i * BlockSize
  BY <1>1, Sizes, Monotone
<1>3. i * BlockSize \in Nat
  BY <1>1, Sizes
<1> QED  BY <1>2, <1>3, Sizes

-----------------------------------------------------------------------------
(* What every action may use of the state.                                   *)
LEMMA ReqFacts ==
  ASSUME Types, NEW r \in ReqIds
  PROVE  /\ req[r] \in Request /\ req[r].status \in Statuses
         /\ req[r].tokens \in Nat \ {0} /\ req[r].computed \in Nat
         /\ req[r].table \in Seq(Blocks) /\ Len(req[r].table) \in Nat
         /\ DOMAIN req[r].table = 1 .. Len(req[r].table)
         /\ ToSet(req[r].table) \in SUBSET Held /\ ToSet(req[r].table) \in SUBSET Blocks
<1>1. req[r] \in Request
  BY DEF Types
<1>2. req[r].table \in Seq(Blocks)
  BY <1>1 DEF Request
<1>3. ToSet(req[r].table) \in SUBSET Held
  BY DEF Held
<1> QED  BY <1>1, <1>2, <1>3 DEF Request, ToSet

LEMMA HeldBy == \A b : b \in Held <=> \E r \in ReqIds : b \in ToSet(req[r].table)
BY DEF Held

LEMMA HeldByNext == \A b : b \in Held' <=> \E r \in ReqIds : b \in ToSet(req'[r].table)
BY DEF Held

LEMMA RowsType ==
  ASSUME Types
  PROVE  /\ Rows \in Seq(BatchRow) /\ Len(Rows) \in Nat /\ DOMAIN Rows = 1 .. Len(Rows)
         /\ \A i \in DOMAIN Rows :
              /\ Rows[i] \in BatchRow /\ Rows[i].req \in ReqIds
              /\ Rows[i].table \in Seq(Blocks)
              /\ Len(Rows[i].table) \in Nat
              /\ DOMAIN Rows[i].table = 1 .. Len(Rows[i].table)
              /\ Rows[i].start \in Nat /\ Rows[i].new \in Nat \ {0}
              /\ Rows[i].load \in SUBSET Slots
<1>1. Rows \in Seq(BatchRow)
  <2>1. CASE flight = <<>>
    BY <2>1 DEF Rows, Types
  <2>2. CASE flight # <<>>
    <3>1. flight \in Seq(Seq(BatchRow)) /\ 1 \in DOMAIN flight
      BY <2>2 DEF Types
    <3> QED  BY <2>2, <3>1 DEF Rows
  <2> QED  BY <2>1, <2>2
<1>2. Len(Rows) \in Nat /\ DOMAIN Rows = 1 .. Len(Rows) /\ \A i \in DOMAIN Rows : Rows[i] \in BatchRow
  BY <1>1
<1> QED  BY <1>1, <1>2 DEF BatchRow

(* Agreement of tables.                                                      *)
LEMMA AgreeTurned ==
  ASSUME NEW r, NEW t \in Seq(Blocks), NEW s, NEW u \in Seq(Blocks), Agree(r, t, s, u)
  PROVE  Agree(s, u, r, t)
BY DEF Agree

LEMMA AgreeGrown ==
  ASSUME NEW r, NEW t \in Seq(Blocks), NEW u, Grown(t, u),
         NEW s, NEW v \in Seq(Blocks), ToSet(v) \subseteq Held, Agree(r, t, s, v)
  PROVE  Agree(r, u, s, v)
<1> SUFFICES ASSUME NEW i \in DOMAIN u, NEW j \in DOMAIN v, u[i] = v[j]
             PROVE  i = j /\ Family[r] = Family[s] /\ \A k \in 1 .. i : u[k] = v[k]
  BY DEF Agree
<1>1. /\ DOMAIN t = 1 .. Len(t) /\ DOMAIN u = 1 .. Len(u) /\ Len(t) \in Nat /\ Len(u) \in Nat
  BY DEF Grown
<1>2. v[j] \in Held
  BY DEF ToSet
<1>3. i \in DOMAIN t /\ t[i] = v[j]
  BY <1>1, <1>2 DEF Grown
<1>4. i = j /\ Family[r] = Family[s] /\ \A k \in 1 .. i : t[k] = v[k]
  BY <1>3 DEF Agree
<1>5. \A k \in 1 .. i : u[k] = t[k]
  <2>1. \A k \in 1 .. i : k \in DOMAIN t
    BY <1>1, <1>3
  <2> QED  BY <2>1 DEF Grown
<1> QED  BY <1>4, <1>5

LEMMA AgreeGrownSelf ==
  ASSUME NEW r, NEW t \in Seq(Blocks), NEW u, Grown(t, u), Agree(r, t, r, t)
  PROVE  Agree(r, u, r, u)
<1> SUFFICES ASSUME NEW i \in DOMAIN u, NEW j \in DOMAIN u, u[i] = u[j]
             PROVE  i = j
  BY DEF Agree
<1>1. /\ DOMAIN t = 1 .. Len(t) /\ DOMAIN u = 1 .. Len(u) /\ Len(t) \in Nat /\ Len(u) \in Nat
  BY DEF Grown
<1>2. CASE i <= Len(t) /\ j <= Len(t)
  <2>1. i \in DOMAIN t /\ j \in DOMAIN t /\ t[i] = t[j]
    BY <1>1, <1>2 DEF Grown
  <2> QED  BY <2>1 DEF Agree
<1>3. CASE i > Len(t) /\ j > Len(t)
  BY <1>3 DEF Grown
<1>4. CASE i <= Len(t) /\ j > Len(t)
  <2>1. u[i] = t[i] /\ i \in DOMAIN t /\ u[j] \notin ToSet(t)
    BY <1>1, <1>4 DEF Grown
  <2> QED  BY <2>1 DEF ToSet
<1>5. CASE i > Len(t) /\ j <= Len(t)
  <2>1. u[j] = t[j] /\ j \in DOMAIN t /\ u[i] \notin ToSet(t)
    BY <1>1, <1>5 DEF Grown
  <2> QED  BY <2>1 DEF ToSet
<1> QED  BY <1>1, <1>2, <1>3, <1>4, <1>5

(* Outside a step the rows of the batch belong to running requests, or to    *)
(* requests that ended since; before, their tables are those of the requests *)
LEMMA RowBlocks ==
  ASSUME Types, Batch, pc # "idle", NEW i \in DOMAIN Rows
  PROVE  /\ Rows[i].req \in ReqIds /\ Rows[i].table = req[Rows[i].req].table
         /\ req[Rows[i].req].status = "running"
         /\ ToSet(Rows[i].table) \in SUBSET Held
<1>1. Rows[i].req \in ReqIds
  BY RowsType
<1>2. Rows[i].table = req[Rows[i].req].table /\ req[Rows[i].req].status = "running"
  BY DEF Batch, Planned
<1> QED  BY <1>1, <1>2, ReqFacts

(* Tables that are freed or stay, with the batch as it is.                   *)
LEMMA SharingFreed ==
  ASSUME Types, Sharing, Rows' = Rows,
         \A s \in ReqIds : req'[s].table = req[s].table \/ req'[s].table = <<>>
  PROVE  Sharing'
<1>1. \A r, s \in ReqIds : Agree(r, req'[r].table, s, req'[s].table)
  <2> SUFFICES ASSUME NEW r \in ReqIds, NEW s \in ReqIds
               PROVE  Agree(r, req'[r].table, s, req'[s].table)
    OBVIOUS
  <2>1. Agree(r, req[r].table, s, req[s].table)
    BY DEF Sharing
  <2>2. \A t : Agree(r, <<>>, s, t) /\ Agree(r, t, s, <<>>)
    BY DEF Agree
  <2> QED  BY <2>1, <2>2
<1>2. \A i \in DOMAIN Rows, s \in ReqIds : Agree(Rows[i].req, Rows[i].table, s, req'[s].table)
  <2> SUFFICES ASSUME NEW i \in DOMAIN Rows, NEW s \in ReqIds
               PROVE  Agree(Rows[i].req, Rows[i].table, s, req'[s].table)
    OBVIOUS
  <2>1. Agree(Rows[i].req, Rows[i].table, s, req[s].table)
    BY DEF Sharing
  <2>2. \A t : Agree(Rows[i].req, t, s, <<>>)
    BY DEF Agree
  <2> QED  BY <2>1, <2>2
<1> QED  BY <1>1, <1>2 DEF Sharing

(* A table that grows, with a row of its own or none.                        *)
LEMMA SharingGrown ==
  ASSUME Types, Batch, Sharing, pc # "idle", NEW r \in ReqIds, NEW t \in Seq(Blocks),
         Grown(t, req'[r].table), Agree(r, t, r, t),
         \A s \in ReqIds : Agree(r, t, s, req[s].table),
         \A s \in ReqIds \ {r} : req'[s].table = req[s].table,
         \A i \in DOMAIN Rows' :
           \/ i \in DOMAIN Rows /\ Rows'[i] = Rows[i] /\ Rows[i].req # r
           \/ Rows'[i].req = r /\ Rows'[i].table = req'[r].table
  PROVE  Sharing'
<1> DEFINE u == req'[r].table
<1>0. /\ \A s \in ReqIds : req[s].table \in Seq(Blocks) /\ ToSet(req[s].table) \subseteq Held
      /\ u \in Seq(Blocks)
  BY ReqFacts DEF Grown
<1>1. \A s \in ReqIds : Agree(r, u, s, req[s].table) /\ Agree(s, req[s].table, r, u)
  BY <1>0, AgreeGrown, AgreeTurned
<1>2. Agree(r, u, r, u)
  BY AgreeGrownSelf
<1>3. \A q, s \in ReqIds : Agree(q, req'[q].table, s, req'[s].table)
  <2> SUFFICES ASSUME NEW q \in ReqIds, NEW s \in ReqIds
               PROVE  Agree(q, req'[q].table, s, req'[s].table)
    OBVIOUS
  <2>1. Agree(q, req[q].table, s, req[s].table)
    BY DEF Sharing
  <2>2. CASE q = r /\ s = r
    BY <1>2, <2>2
  <2>3. CASE q = r /\ s # r
    BY <1>1, <2>3
  <2>4. CASE q # r /\ s = r
    BY <1>1, <2>4
  <2>5. CASE q # r /\ s # r
    BY <2>1, <2>5
  <2> QED  BY <2>2, <2>3, <2>4, <2>5
<1>4. \A i \in DOMAIN Rows', s \in ReqIds : Agree(Rows'[i].req, Rows'[i].table, s, req'[s].table)
  <2> SUFFICES ASSUME NEW i \in DOMAIN Rows', NEW s \in ReqIds
               PROVE  Agree(Rows'[i].req, Rows'[i].table, s, req'[s].table)
    OBVIOUS
  <2>1. CASE i \in DOMAIN Rows /\ Rows'[i] = Rows[i] /\ Rows[i].req # r
    <3>1. Rows[i].req \in ReqIds /\ Rows[i].table = req'[Rows[i].req].table
      BY <2>1, RowBlocks
    <3> QED  BY <1>3, <2>1, <3>1
  <2>2. CASE Rows'[i].req = r /\ Rows'[i].table = u
    BY <1>3, <2>2
  <2> QED  BY <2>1, <2>2
<1> QED  BY <1>3, <1>4 DEF Sharing

(* What will be right stays so where blocks are held, when rows are added    *)
(* and tables other than those of X stay or are freed.                       *)
LEMMA ComingIn ==
  ASSUME NEW k, NEW p
  PROVE  p \in Coming(k) <=>
           \/ p \in good
           \/ \E j \in DOMAIN Rows : p \in Rows[j].load
           \/ \E j \in DOMAIN Rows : j < k /\ p \in Written(Rows[j])
BY DEF Coming

LEMMA ComingInNext ==
  ASSUME NEW CONSTANT k, NEW p
  PROVE  p \in Coming(k)' <=>
           \/ p \in good'
           \/ \E j \in DOMAIN Rows' : p \in Rows'[j].load
           \/ \E j \in DOMAIN Rows' : j < k /\ p \in Written(Rows'[j])
BY DEF Coming, Written, Places, At

LEMMA EverythingIn ==
  ASSUME Types, NEW p
  PROVE  p \in Everything <=>
           \/ p \in good
           \/ \E j \in DOMAIN Rows : p \in Rows[j].load
           \/ \E j \in DOMAIN Rows : p \in Written(Rows[j])
<1>1. \A j \in DOMAIN Rows : j < Len(Rows) + 1
  BY RowsType
<1> QED  BY <1>1, ComingIn DEF Everything

LEMMA EverythingInNext ==
  ASSUME Rows' \in Seq(BatchRow), NEW p
  PROVE  p \in Everything' <=>
           \/ p \in good'
           \/ \E j \in DOMAIN Rows' : p \in Rows'[j].load
           \/ \E j \in DOMAIN Rows' : p \in Written(Rows'[j])
<1>1. \A j \in DOMAIN Rows' : j < Len(Rows') + 1
  OBVIOUS
<1> QED  BY <1>1 DEF Everything, Coming, Written, Places, At

Extends(X) ==
  /\ \A p \in good : p[1] \in Held' => p \in good'
  /\ Rows' \in Seq(BatchRow) /\ DOMAIN Rows \subseteq DOMAIN Rows'
  /\ \A i \in DOMAIN Rows : Rows'[i] = Rows[i]
  /\ \A i \in DOMAIN Rows, b \in Held' : b \in ToSet(Rows[i].table) => b \in Held
  /\ \A r \in ReqIds \ X : Live(r)' =>
       /\ Live(r) /\ req'[r].table = req[r].table
       /\ req'[r].computed \in Nat /\ req'[r].computed <= req[r].computed
       /\ r \in DOMAIN loading => r \in DOMAIN loading' /\ loading'[r] = loading[r]

LEMMA StaysRight ==
  ASSUME Types, Inv_Counters, Batch, RowsReadRight, ComputedIsRight, NEW X, Extends(X)
  PROVE  /\ \A k : \A p \in Coming(k) : p[1] \in Held' => p \in Coming(k)'
         /\ \A p \in Everything : p[1] \in Held' => p \in Everything'
         /\ \A i \in DOMAIN Rows : \A p \in Places(Rows[i].table, 0, Rows[i].start) :
              p[1] \in Held' => p \in Coming(i)'
         /\ \A r \in ReqIds \ X : Live(r)' =>
              \A p \in Places(req'[r].table, 0, req'[r].computed) :
                p \in Everything' \/ (r \in DOMAIN loading' /\ p \in loading'[r])
<1>1. ASSUME NEW k, NEW p, p \in Coming(k), p[1] \in Held' PROVE p \in Coming(k)'
  BY <1>1, ComingIn, ComingInNext DEF Extends
<1>2. ASSUME NEW p, p \in Everything, p[1] \in Held' PROVE p \in Everything'
  BY <1>2, EverythingIn, EverythingInNext DEF Extends
<1>3. ASSUME NEW i \in DOMAIN Rows, NEW p \in Places(Rows[i].table, 0, Rows[i].start),
             p[1] \in Held'
      PROVE  p \in Coming(i)'
  <2>1. Rows[i].start <= Len(Rows[i].table) * BlockSize
    <3>1. Rows[i].start + Rows[i].new <= Len(Rows[i].table) * BlockSize
      BY DEF Batch, Planned
    <3>2. Len(Rows[i].table) * BlockSize \in Nat /\ Rows[i].start \in Nat /\ Rows[i].new \in Nat
      BY RowsType, Sizes
    <3> QED  BY <3>1, <3>2
  <2>2. p[1] \in ToSet(Rows[i].table)
    BY <2>1, RowsType, PlacesFacts
  <2>3. p[1] \in Held
    BY <1>3, <2>2 DEF Extends
  <2>4. p \in Coming(i)
    BY <2>3 DEF RowsReadRight
  <2> QED  BY <1>1, <1>3, <2>4
<1>4. ASSUME NEW r \in ReqIds \ X, Live(r)',
             NEW p \in Places(req'[r].table, 0, req'[r].computed)
      PROVE  p \in Everything' \/ (r \in DOMAIN loading' /\ p \in loading'[r])
  <2>1. /\ Live(r) /\ req'[r].table = req[r].table
        /\ req'[r].computed \in Nat /\ req'[r].computed <= req[r].computed
        /\ r \in DOMAIN loading => r \in DOMAIN loading' /\ loading'[r] = loading[r]
    BY <1>4 DEF Extends
  <2>2. /\ req[r].computed \in Nat /\ req[r].table \in Seq(Blocks)
        /\ req[r].computed <= Len(req[r].table) * BlockSize
    BY <2>1, ReqFacts DEF Inv_Counters, Counters
  <2>3. p \in Places(req[r].table, 0, req[r].computed)
    BY <2>1, <2>2 DEF Places
  <2>4. p[1] \in ToSet(req[r].table)
    BY <2>2, <2>3, PlacesFacts
  <2>5. p[1] \in Held'
    BY <2>1, <2>4, HeldByNext
  <2>6. p \in Everything \/ (r \in DOMAIN loading /\ p \in loading[r])
    BY <2>1, <2>3 DEF ComputedIsRight
  <2> QED  BY <1>2, <2>1, <2>5, <2>6
<1> QED  BY <1>1, <1>2, <1>3, <1>4

(* Blocks that are freed leave the prefix cache and hold nothing.            *)
LEMMA FreedFacts ==
  ASSUME Types, NEW S \in SUBSET ReqIds, Free(S),
         \A s \in S : req'[s].table = <<>>,
         \A s \in ReqIds \ S : req'[s].table = req[s].table
  PROVE  /\ Held' = Kept(S) /\ Held' \subseteq Held
         /\ cached' \in SUBSET Held' /\ cached' \in SUBSET cached
         /\ good' \in SUBSET good /\ \A p \in good : p[1] \in Held' => p \in good'
         /\ \A s \in ReqIds : req'[s].table = req[s].table \/ req'[s].table = <<>>
         /\ \A s \in ReqIds : ToSet(req'[s].table) \subseteq ToSet(req[s].table)
<1>1. ToSet(<<>>) = {}
  BY DEF ToSet
<1>2. \A s \in ReqIds : ToSet(req'[s].table) = IF s \in S THEN {} ELSE ToSet(req[s].table)
  BY <1>1
<1>3. \A b : b \in Held' <=> \E s \in ReqIds \ S : b \in ToSet(req[s].table)
  BY <1>2, HeldByNext
<1>4. \A b : b \in Kept(S) <=> \E s \in ReqIds \ S : b \in ToSet(req[s].table)
  BY DEF Kept
<1>5. Held' = Kept(S) /\ Held' \subseteq Held
  BY <1>3, <1>4, HeldBy
<1>6. cached' = cached \cap Held' /\ good' = {p \in good : p[1] \in Held'}
  BY <1>5 DEF Free
<1> QED  BY <1>2, <1>5, <1>6

(* A block that only one request holds and that is not in the prefix cache.  *)
Exclusive(b, r) ==
  /\ b \in ToSet(req[r].table) /\ b \notin cached
  /\ \A s \in ReqIds \ {r} : b \notin ToSet(req[s].table)

LEMMA AloneIsExclusive ==
  ASSUME NEW r \in ReqIds
  PROVE  Alone(r) <=> Len(req[r].table) = 1 /\ Exclusive(req[r].table[1], r)
BY DEF Alone, Exclusive, ToSet

(* It stays so when tables are freed ...                                     *)
LEMMA ExclusiveKept ==
  ASSUME NEW b, NEW r \in ReqIds, Exclusive(b, r), req'[r].table = req[r].table,
         cached' \subseteq cached,
         \A s \in ReqIds : ToSet(req'[s].table) \subseteq ToSet(req[s].table)
  PROVE  Exclusive(b, r)'
BY DEF Exclusive

(* ... and when a table grows by blocks that nobody held, after blocks it    *)
(* had or that are in the prefix cache, and its blocks are cached.           *)
LEMMA ExclusiveGrown ==
  ASSUME Types, NEW b, NEW r \in ReqIds, Exclusive(b, r),
         NEW q \in ReqIds \ {r}, NEW t \in Seq(Blocks), Grown(t, req'[q].table),
         ToSet(t) \subseteq ToSet(req[q].table) \cup cached,
         \A s \in ReqIds \ {q} : req'[s].table = req[s].table,
         cached' \subseteq cached \cup ToSet(req'[q].table)
  PROVE  Exclusive(b, r)' /\ b \notin ToSet(req'[q].table)
<1> DEFINE u == req'[q].table
<1>1. b \in Held /\ b \notin ToSet(t)
  BY HeldBy DEF Exclusive
<1>2. b \notin ToSet(u)
  <2> SUFFICES ASSUME NEW i \in DOMAIN u, u[i] = b PROVE FALSE
    BY DEF ToSet
  <2>1. DOMAIN u = 1 .. Len(u) /\ Len(u) \in Nat /\ DOMAIN t = 1 .. Len(t) /\ Len(t) \in Nat
    BY DEF Grown
  <2>2. CASE i > Len(t)
    BY <1>1, <2>2 DEF Grown
  <2>3. CASE i <= Len(t)
    <3>1. i \in DOMAIN t /\ t[i] = b
      BY <2>1, <2>3 DEF Grown
    <3> QED  BY <1>1, <3>1 DEF ToSet
  <2> QED  BY <2>1, <2>2, <2>3
<1> QED  BY <1>2 DEF Exclusive

(* What a request without computed tokens starts from.                       *)
LEMMA BaseFacts ==
  ASSUME SyncUnshared, Types, Inv_Counters, Sharing, CachedIsRight, NEW r \in ReqIds,
         req[r].status \in {"waiting", "preempted"}, req[r].computed = 0
  PROVE  /\ Base(r) \in Seq(Blocks) /\ Hit(r) \in Seq(Blocks) /\ Len(Hit(r)) <= Len(Base(r))
         /\ Len(Hit(r)) * BlockSize < req[r].tokens
         /\ ToSet(Base(r)) \subseteq ToSet(req[r].table) \cup cached
         /\ Agree(r, Base(r), r, Base(r))
         /\ \A s \in ReqIds : Agree(r, Base(r), s, req[s].table)
         /\ "sync" \in Loads => Len(Hit(r)) = 0
         /\ \/ Len(Hit(r)) = 0 /\ Base(r) = req[r].table
            \/ req[r].tokens # 1 /\ Base(r) = Hit(r)
         /\ \A p \in Places(Base(r), 0, Len(Hit(r)) * BlockSize) : p \in Everything
<1> DEFINE h == Hit(r)
           t == req[r].table
<1>0. /\ t \in Seq(Blocks) /\ req[r].tokens \in Nat \ {0}
      /\ \A s \in ReqIds : req[s].table \in Seq(Blocks) /\ Len(req[s].table) \in Nat
      /\ \A s \in ReqIds : DOMAIN req[s].table = 1 .. Len(req[s].table)
  BY ReqFacts
<1>1. PICK s \in ReqIds, k \in Nat :
        /\ Family[s] = Family[r] /\ k <= Len(req[s].table)
        /\ k * BlockSize < req[r].tokens
        /\ \A i \in 1 .. k : req[s].table[i] \in cached
        /\ h = SubSeq(req[s].table, 1, k)
  BY HitFacts
<1>2. h \in Seq(Blocks) /\ Len(h) = k /\ \A i \in 1 .. k : h[i] = req[s].table[i]
  <2>1. \A i \in 1 .. k : req[s].table[i] \in Blocks
    BY <1>0, <1>1
  <2>2. /\ h \in Seq(Blocks) /\ Len(h) = IF 1 <= k THEN k - 1 + 1 ELSE 0
        /\ \A i \in 1 .. k - 1 + 1 : h[i] = req[s].table[1 + i - 1]
    BY <1>1, <2>1, SubSeqProperties
  <2>3. k - 1 + 1 = k /\ \A i \in 1 .. k : 1 + i - 1 = i
    OBVIOUS
  <2> HIDE DEF h
  <2> QED  BY <2>2, <2>3
<1> HIDE DEF h
<1>3. Base(r) = t \o h
  BY DEF Base, h
<1>4. k * BlockSize \in Nat /\ DOMAIN h = 1 .. k
  BY <1>2, Sizes
<1>5. req[r].tokens # 1 => t = <<>>
  BY DEF Inv_Counters, Counters
<1>6. CASE k = 0
  <2>1. h = <<>> /\ Base(r) = t
    BY <1>0, <1>2, <1>3, <1>6
  <2>2. Places(Base(r), 0, k * BlockSize) = {}
    <3>1. k * BlockSize = 0
      BY <1>6, Sizes
    <3>2. 0 .. 0 - 1 = {}
      OBVIOUS
    <3> QED  BY <3>1, <3>2 DEF Places
  <2>3. \A q \in ReqIds : Agree(r, t, q, req[q].table)
    BY DEF Sharing
  <2>4. 0 <= Len(t)
    BY <1>0
  <2> QED  BY <1>0, <1>1, <1>2, <1>6, <2>1, <2>2, <2>3, <2>4 DEF h
<1>7. CASE k # 0
  <2>1. req[r].tokens # 1
    <3>1. 1 * BlockSize <= k * BlockSize
      BY <1>7, Sizes, Monotone
    <3> QED  BY <1>1, <1>4, <3>1, Sizes
  <2>2. t = <<>> /\ Base(r) = h
    BY <1>2, <1>3, <1>5, <2>1
  <2>3. s # r
    BY <1>1, <1>7, <2>2
  <2>4. "sync" \notin Loads
    BY <1>1, <2>3 DEF SyncUnshared
  <2>5. ASSUME NEW q \in ReqIds PROVE Agree(r, h, q, req[q].table)
    <3>1. Agree(s, req[s].table, q, req[q].table)
      BY DEF Sharing
    <3> SUFFICES ASSUME NEW i \in 1 .. k, NEW j \in DOMAIN req[q].table, h[i] = req[q].table[j]
                 PROVE  /\ i = j /\ Family[r] = Family[q]
                        /\ \A m \in 1 .. i : h[m] = req[q].table[m]
      BY <1>4 DEF Agree
    <3>2. i \in DOMAIN req[s].table /\ req[s].table[i] = req[q].table[j]
      BY <1>0, <1>1, <1>2
    <3>3. /\ i = j /\ Family[s] = Family[q]
          /\ \A m \in 1 .. i : req[s].table[m] = req[q].table[m]
      BY <3>1, <3>2 DEF Agree
    <3>4. \A m \in 1 .. i : m \in 1 .. k
      OBVIOUS
    <3> QED  BY <1>1, <1>2, <3>3, <3>4
  <2>6. Agree(r, h, r, h)
    <3>1. Agree(s, req[s].table, s, req[s].table)
      BY DEF Sharing
    <3> SUFFICES ASSUME NEW i \in 1 .. k, NEW j \in 1 .. k, h[i] = h[j]
                 PROVE  i = j
      BY <1>4 DEF Agree
    <3>2. /\ i \in DOMAIN req[s].table /\ j \in DOMAIN req[s].table
          /\ req[s].table[i] = req[s].table[j]
      BY <1>0, <1>1, <1>2
    <3> QED  BY <3>1, <3>2 DEF Agree
  <2>7. ToSet(h) \subseteq cached
    BY <1>1, <1>2, <1>4 DEF ToSet
  <2>8. ASSUME NEW p \in Places(h, 0, k * BlockSize) PROVE p \in Everything
    <3>1. PICK n \in 0 .. k * BlockSize - 1 : p = At(h, n)
      BY DEF Places
    <3>2. n \in Nat /\ n < k * BlockSize
      BY <1>4
    <3>3. n \div BlockSize + 1 \in 1 .. k /\ n % BlockSize \in Offsets
      BY <3>2, Covered
    <3>4. h[n \div BlockSize + 1] \in cached
      BY <1>1, <1>2, <3>3
    <3> QED  BY <2>4, <3>1, <3>3, <3>4 DEF CachedIsRight, At
  <2> QED  BY <1>1, <1>2, <2>1, <2>2, <2>4, <2>5, <2>6, <2>7, <2>8 DEF h
<1> QED  BY <1>6, <1>7

-----------------------------------------------------------------------------
(* The actions.                                                              *)
LEMMA InitIInv == ASSUME Init PROVE IInv
<1>1. /\ req = [r \in ReqIds |-> [Gone(r) EXCEPT !.status = "new", !.closed = FALSE]]
      /\ out = None
  BY Zenon DEF Init
<1>2. /\ running = <<>> /\ waiting = <<>> /\ skipped = <<>> /\ num_streaming = 0
      /\ finished_ids = {} /\ received = {} /\ failed = {} /\ cached = {}
      /\ flight = <<>> /\ loading = <<>> /\ sending = {}
      /\ pc = "idle" /\ at = 1 /\ plan = <<>> /\ step_skipped = <<>>
      /\ faults = 0 /\ good = {}
  BY Zenon DEF Init
<1>3. ~tainted
  BY Zenon DEF Init
<1>4. Rows = <<>> /\ DOMAIN Rows = {} /\ DOMAIN loading = {}
  BY <1>2 DEF Rows
<1>5. ToSet(<<>>) = {} /\ IsInjective(<<>>)
  BY DEF ToSet, IsInjective
<1>6. \A r \in ReqIds :
        /\ req[r] \in Request /\ req[r].status = "new" /\ req[r].table = <<>>
        /\ req[r].computed = 0
  <2> SUFFICES ASSUME NEW r \in ReqIds
               PROVE  /\ req[r] \in Request /\ req[r].status = "new" /\ req[r].table = <<>>
                      /\ req[r].computed = 0
    OBVIOUS
  <2>1. req[r] = [status |-> "new", tokens |-> Prompt[r], prompt |-> Prompt[r], computed |-> 0,
                  table |-> <<>>, updates |-> <<>>, inputs |-> 0, closed |-> FALSE,
                  preempted |-> FALSE]
    BY <1>1 DEF Gone
  <2>2. Prompt[r] \in Nat \ {0}
    BY Sizes
  <2>3. <<>> \in Seq(Blocks) /\ <<>> \in Seq(Nat)
    OBVIOUS
  <2> QED  BY <2>1, <2>2, <2>3 DEF Request, Statuses
<1>7. None \in Output
  <2>1. <<>> \in Seq(OutRow)
    OBVIOUS
  <2>2. {} \in SUBSET (ReqIds \X {"running"}) /\ {} \in SUBSET ReqIds
    BY Zenon
  <2> QED  BY <2>1, <2>2 DEF None, Output
<1>8. Types
  <2>1. req \in [ReqIds -> Request]
    BY <1>1, <1>6
  <2>2. {} \in SUBSET ReqIds /\ cached \in SUBSET Held /\ good \in SUBSET Slots
    BY <1>2
  <2>3. /\ <<>> \in Seq(ReqIds) /\ <<>> \in Seq(BatchRow) /\ <<>> \in Seq(Seq(BatchRow))
        /\ Len(flight) <= 1
    BY <1>2
  <2>4. faults \in 0 .. MaxFaults
    BY <1>2, Sizes
  <2>5. /\ DOMAIN loading \in SUBSET ReqIds
        /\ \A r \in DOMAIN loading : loading[r] \in SUBSET Slots
    BY <1>4
  <2>6. out \in Output
    BY <1>1, <1>7
  <2>7. at \in Nat \ {0} /\ pc \in {"idle", "running", "waiting", "commit", "rows"}
    BY <1>2
  <2> QED  BY <1>2, <2>1, <2>2, <2>3, <2>4, <2>5, <2>6, <2>7, Zenon DEF Types
<1>9. Phases
  BY <1>1, <1>2 DEF Phases
<1>10. /\ out.failed = {} /\ out.done = {} /\ out.sent = {} /\ out.stopped = {}
       /\ out.rows = <<>>
  BY <1>1 DEF None
<1>11. Stopped = {} /\ DOMAIN out.rows = {}
  BY <1>10 DEF Stopped
<1>12. Queues
  <2>1. WithStatus(InQueues) = {} /\ WithStatus({"running"}) = {} /\ WithStatus({"streaming"}) = {}
    BY <1>6 DEF WithStatus, InQueues
  <2> QED  BY <1>2, <1>5, <1>11, <2>1, FS_EmptySet DEF Queues
<1>13. Inv_Counters
  BY <1>2, <1>6 DEF Inv_Counters, Counters, Live, Known
<1>14. Batch /\ RowsReadRight
  BY <1>2, <1>4 DEF Batch, RowsReadRight
<1>15. Outcome /\ OutputIsRight
  BY <1>3, <1>10, <1>11 DEF Outcome, OutputIsRight
<1>16. Transfers
  BY <1>2, <1>4, <1>6, <1>10 DEF Transfers, Moving
<1>17. Sharing
  BY <1>4, <1>6 DEF Sharing, Agree
<1>18. ComputedIsRight /\ CachedIsRight
  BY <1>2, <1>6 DEF ComputedIsRight, CachedIsRight, Live, Known
<1> QED
  BY <1>8, <1>9, <1>12, <1>13, <1>14, <1>15, <1>16, <1>17, <1>18 DEF IInv

(* The parts that speak of KV entries, when nothing is written or given away *)
LEMMA SameEntries ==
  ASSUME IInv, UNCHANGED <<req, loading, cached, good>>, Rows' = Rows
  PROVE  /\ Sharing' /\ RowsReadRight' /\ ComputedIsRight' /\ CachedIsRight'
         /\ Held' = Held
<1>0. Types /\ Inv_Counters /\ Batch /\ Sharing /\ RowsReadRight /\ ComputedIsRight /\ CachedIsRight
  BY DEF IInv
<1>1. Held' = Held
  BY DEF Held
<1>2. Sharing'
  BY <1>0, SharingFreed
<1>3. Extends({})
  BY <1>0, <1>1, RowsType, ReqFacts DEF Extends, Live, Known
<1>4. RowsReadRight'
  BY <1>0, <1>3, StaysRight DEF RowsReadRight
<1>5. ComputedIsRight'
  BY <1>0, <1>3, StaysRight DEF ComputedIsRight
<1>6. CachedIsRight'
  <2>1. \A b \in cached, o \in Offsets : <<b, o>>[1] \in Held'
    BY <1>0, <1>1 DEF Types
  <2> QED  BY <1>0, <1>3, <2>1, StaysRight DEF CachedIsRight
<1> QED  BY <1>1, <1>2, <1>4, <1>5, <1>6

LEMMA QuietStep ==
  ASSUME IInv, UNCHANGED <<req, recvs, cached, sending, out, ghosts>>, Rows' = Rows,
         recompute' = recompute, Types', Phases', Queues', Batch'
  PROVE  IInv'
<1> USE DEF recvs, ghosts
<1>1. Inv_Counters'
  BY DEF IInv, Inv_Counters, Counters, Live, Known, Alone
<1>2. Outcome'
  <2>1. Outcome /\ req' = req /\ out' = out /\ recompute' = recompute
    BY Zenon DEF IInv
  <2>2. Stopped' = Stopped /\ \A S : WithStatus(S)' = WithStatus(S)
    BY <2>1 DEF Stopped, WithStatus
  <2>3. (recompute => \A r \in out.failed : req[r].status # "remote")'
    <3>1. ASSUME recompute' PROVE \A r \in out.failed : req[r].status # "remote"
      BY <2>1, <3>1, Zenon DEF Outcome
    <3>2. ASSUME recompute' PROVE \A r \in out'.failed : req'[r].status # "remote"
      BY <2>1, <3>1, <3>2
    <3> QED  BY <3>2, Zenon
  <2>4. (\A i \in DOMAIN out.rows :
           LET r == out.rows[i].req
           IN r \notin Stopped /\ (Live(r) /\ r \notin out.failed =>
                                     req[r].status = "running" /\ req[r].computed # 0))'
    BY <2>1, <2>2 DEF Outcome, Live, Known
  <2>5. /\ \A i, j \in DOMAIN out'.rows : out'.rows[i].req = out'.rows[j].req => i = j
        /\ Stopped' \cap out'.failed = {}
        /\ Stopped' \subseteq WithStatus({"gone", "finished", "streaming", "waiting"})'
    BY <2>1, <2>2 DEF Outcome
  <2> QED  BY <2>3, <2>4, <2>5, Zenon DEF Outcome
<1>3. Transfers'
  BY DEF IInv, Transfers, Moving
<1>4. OutputIsRight'
  BY DEF IInv, OutputIsRight, Live, Known
<1> QED  BY <1>1, <1>2, <1>3, <1>4, SameEntries DEF IInv

LEMMA StartStepKeeps == ASSUME OneInFlight, IInv, StartStep PROVE IInv'
<1> USE DEF StartStep, queues, recvs, env, ghosts
<1>1. flight = <<>> /\ plan = <<>> /\ pc = "idle" /\ step_skipped = <<>>
  BY DEF IInv, Phases, Types, OneInFlight
<1>2. Rows = <<>> /\ Rows' = <<>> /\ DOMAIN Rows' = {}
  BY <1>1 DEF Rows
<1>3. Types'
  <2>1. Held' = Held
    BY DEF Held
  <2> QED  BY <2>1 DEF IInv, Types
<1>4. Phases'
  BY <1>1 DEF IInv, Phases
<1>5. Queues'
  BY <1>1 DEF IInv, Queues, WithStatus, Stopped
<1>6. Batch'
  BY <1>2 DEF Batch
<1>7. recompute' = recompute
  BY Zenon
<1> QED  BY <1>2, <1>3, <1>4, <1>5, <1>6, <1>7, QuietStep

LEMMA EndRunningKeeps == ASSUME IInv, EndRunning PROVE IInv'
<1> USE DEF EndRunning, queues, recvs, locals, env, ghosts
<1>1. Rows' = Rows
  BY DEF Rows
<1>3. Types'
  <2>1. Held' = Held
    BY DEF Held
  <2> QED  BY <2>1 DEF IInv, Types
<1>4. Phases'
  BY DEF IInv, Phases
<1>5. Queues'
  BY DEF IInv, Queues, WithStatus, Stopped
<1>6. Batch'
  BY <1>1 DEF IInv, Batch, Planned
<1>7. recompute' = recompute
  BY Zenon
<1> QED  BY <1>1, <1>3, <1>4, <1>5, <1>6, <1>7, QuietStep

LEMMA EndWaitingKeeps == ASSUME IInv, EndWaiting PROVE IInv'
<1> USE DEF EndWaiting, queues, recvs, locals, env, ghosts
<1>1. Rows' = Rows
  BY DEF Rows
<1>3. Types'
  <2>1. Held' = Held
    BY DEF Held
  <2> QED  BY <2>1 DEF IInv, Types
<1>4. Phases'
  BY DEF IInv, Phases
<1>5. Queues'
  BY DEF IInv, Queues, WithStatus, Stopped
<1>6. Batch'
  BY <1>1 DEF IInv, Batch, Planned
<1>7. recompute' = recompute
  BY Zenon
<1> QED  BY <1>1, <1>3, <1>4, <1>5, <1>6, <1>7, QuietStep

(* The head of the waiting requests.                                         *)
LEMMA PopFacts ==
  ASSUME Types, Queues, MayAdmit, Pop
  PROVE  /\ Next1 \in ReqIds /\ req[Next1].status \in InQueues
         /\ waiting' \in Seq(ReqIds) /\ skipped' \in Seq(ReqIds)
         /\ IsInjective(waiting') /\ IsInjective(skipped')
         /\ ToSet(waiting') = ToSet(waiting) \ {Next1}
         /\ ToSet(skipped') = ToSet(skipped) \ {Next1}
         /\ Next1 \notin ToSet(step_skipped)
         /\ Next1 \in ToSet(waiting) \cup ToSet(skipped)
<1>0. /\ waiting \in Seq(ReqIds) /\ skipped \in Seq(ReqIds)
      /\ IsInjective(waiting) /\ IsInjective(skipped)
      /\ ToSet(waiting) \cap ToSet(skipped) = {}
      /\ ToSet(waiting) \cap ToSet(step_skipped) = {}
      /\ ToSet(skipped) \cap ToSet(step_skipped) = {}
  BY DEF Types, Queues
<1>1. CASE skipped # <<>>
  <2>1. Next1 = Head(skipped) /\ skipped' = Tail(skipped) /\ waiting' = waiting
    BY <1>1 DEF Next1, Pop
  <2>2. /\ Next1 \in ReqIds /\ Next1 \in ToSet(skipped) /\ skipped' \in Seq(ReqIds)
        /\ ToSet(skipped) = ToSet(skipped') \cup {Next1}
        /\ IsInjective(skipped') /\ Next1 \notin ToSet(skipped')
    BY <1>0, <1>1, <2>1, PoppedSeq
  <2>3. Next1 \in WithStatus(InQueues)
    BY <2>2 DEF Queues
  <2> QED  BY <1>0, <2>1, <2>2, <2>3 DEF WithStatus
<1>2. CASE skipped = <<>>
  <2>0. waiting # <<>>
    BY <1>0, <1>2 DEF MayAdmit
  <2>1. Next1 = Head(waiting) /\ waiting' = Tail(waiting) /\ skipped' = skipped
    BY <1>2 DEF Next1, Pop
  <2>2. /\ Next1 \in ReqIds /\ Next1 \in ToSet(waiting) /\ waiting' \in Seq(ReqIds)
        /\ ToSet(waiting) = ToSet(waiting') \cup {Next1}
        /\ IsInjective(waiting') /\ Next1 \notin ToSet(waiting')
    BY <1>0, <2>0, <2>1, PoppedSeq
  <2>3. Next1 \in WithStatus(InQueues)
    BY <2>2 DEF Queues
  <2> QED  BY <1>0, <2>1, <2>2, <2>3 DEF WithStatus
<1> QED  BY <1>1, <1>2

LEMMA PassOverKeeps == ASSUME IInv, PassOver PROVE IInv'
<1> USE DEF PassOver, recvs, env, ghosts
<1> DEFINE r == Next1
<1>0. Types /\ Queues /\ MayAdmit /\ Pop
  BY DEF IInv
<1>1. /\ r \in ReqIds /\ req[r].status \in InQueues
      /\ waiting' \in Seq(ReqIds) /\ skipped' \in Seq(ReqIds)
      /\ IsInjective(waiting') /\ IsInjective(skipped')
      /\ ToSet(waiting') = ToSet(waiting) \ {r}
      /\ ToSet(skipped') = ToSet(skipped) \ {r}
      /\ r \notin ToSet(step_skipped) /\ r \in ToSet(waiting) \cup ToSet(skipped)
  BY <1>0, PopFacts
<1>2. step_skipped' = <<r>> \o step_skipped
  OBVIOUS
<1> HIDE DEF r
<1>3. /\ step_skipped' \in Seq(ReqIds) /\ ToSet(step_skipped') = ToSet(step_skipped) \cup {r}
      /\ IsInjective(step_skipped')
  BY <1>0, <1>1, <1>2, PushedSeq DEF Types, Queues
<1>4. Rows' = Rows
  BY DEF Rows
<1>5. Types'
  <2>1. Held' = Held
    BY DEF Held
  <2>2. faults' \in 0 .. MaxFaults
    BY <1>0, Sizes DEF Types
  <2> QED  BY <1>0, <1>1, <1>3, <2>1, <2>2 DEF Types
<1>6. Phases'
  BY DEF IInv, Phases, MayAdmit
<1>7. Queues'
  <2>1. /\ ToSet(waiting) \cap ToSet(skipped) = {}
        /\ ToSet(waiting) \cap ToSet(step_skipped) = {}
        /\ ToSet(skipped) \cap ToSet(step_skipped) = {}
        /\ ToSet(waiting) \cup ToSet(skipped) \cup ToSet(step_skipped) = WithStatus(InQueues)
    BY <1>0 DEF Queues
  <2>2. \A S : WithStatus(S)' = WithStatus(S)
    BY DEF WithStatus
  <2>3. Stopped' = Stopped
    BY DEF Stopped
  <2>4. /\ ToSet(waiting') \cap ToSet(skipped') = {}
        /\ ToSet(waiting') \cap ToSet(step_skipped') = {}
        /\ ToSet(skipped') \cap ToSet(step_skipped') = {}
        /\ ToSet(waiting') \cup ToSet(skipped') \cup ToSet(step_skipped') = WithStatus(InQueues)
    BY <1>1, <1>3, <2>1
  <2> QED  BY <1>0, <1>1, <1>3, <2>2, <2>3, <2>4 DEF Queues, InQueues
<1>8. Batch'
  BY <1>4 DEF IInv, Batch, Planned
<1>9. recompute' = recompute
  BY Zenon
<1> QED  BY <1>4, <1>5, <1>6, <1>7, <1>8, <1>9, QuietStep

-----------------------------------------------------------------------------
(* Steps in which a table grows.                                             *)
LEMMA NoOutput ==
  ASSUME Phases, pc # "rows"
  PROVE  /\ out = None /\ Stopped = {} /\ out.failed = {} /\ out.done = {} /\ out.sent = {}
         /\ DOMAIN out.rows = {} /\ Moving = DOMAIN loading
<1>1. out = None
  BY DEF Phases
<1>2. out.failed = {} /\ out.done = {} /\ out.sent = {} /\ out.stopped = {} /\ out.rows = <<>>
  BY <1>1 DEF None
<1> QED  BY <1>1, <1>2 DEF Stopped, Moving

(* The table t of r, or what r starts from, grows; a row of r may be added.  *)
Grows(r, t) ==
  /\ pc # "idle" /\ pc' # "idle" /\ r \in ReqIds /\ t \in Seq(Blocks) /\ Grown(t, req'[r].table)
  /\ ToSet(req[r].table) \subseteq ToSet(t) /\ ToSet(t) \subseteq ToSet(req[r].table) \cup cached
  /\ Agree(r, t, r, t) /\ \A s \in ReqIds : Agree(r, t, s, req[s].table)
  /\ \A s \in ReqIds \ {r} : req'[s] = req[s]
  /\ out' = out /\ good' = good
  /\ received' \ {r} = received \ {r} /\ failed' \ {r} = failed \ {r}
  /\ cached \subseteq cached' /\ cached' \subseteq cached \cup ToSet(req'[r].table)
  /\ DOMAIN loading \subseteq DOMAIN loading'
  /\ \A s \in DOMAIN loading \ {r} : loading'[s] = loading[s]
  /\ \A i \in DOMAIN Rows : Rows[i].req # r

AddsRow(r, row) ==
  row \in BatchRow /\ row.req = r /\ row.table = req'[r].table /\ Rows' = Append(Rows, row)

LEMMA RowsAfter ==
  ASSUME Types, NEW r, NEW row, AddsRow(r, row)
  PROVE  /\ Rows' \in Seq(BatchRow) /\ Len(Rows') = Len(Rows) + 1
         /\ DOMAIN Rows' = 1 .. Len(Rows) + 1 /\ DOMAIN Rows \subseteq DOMAIN Rows'
         /\ \A i \in DOMAIN Rows : Rows'[i] = Rows[i]
         /\ \A i \in DOMAIN Rows' : i \in DOMAIN Rows \/ i = Len(Rows) + 1
         /\ Rows'[Len(Rows) + 1] = row
<1>1. Rows \in Seq(BatchRow) /\ Len(Rows) \in Nat /\ DOMAIN Rows = 1 .. Len(Rows)
  BY RowsType
<1>2. /\ Append(Rows, row) \in Seq(BatchRow) /\ Len(Append(Rows, row)) = Len(Rows) + 1
      /\ \A i \in 1 .. Len(Rows) : Append(Rows, row)[i] = Rows[i]
      /\ Append(Rows, row)[Len(Rows) + 1] = row
  BY <1>1, AppendProperties DEF AddsRow
<1>3. Rows' = Append(Rows, row)
  BY DEF AddsRow
<1> QED  BY <1>1, <1>2, <1>3

LEMMA GrowthFacts ==
  ASSUME IInv, NEW r, NEW t, Grows(r, t), Rows' = Rows \/ \E row : AddsRow(r, row)
  PROVE  /\ Sharing' /\ Extends({r}) /\ Held \subseteq Held' /\ cached' \in SUBSET Held'
         /\ \A s \in ReqIds \ {r} : Counters(s)'
         /\ \A s \in DOMAIN loading \ {r} : \A p \in loading[s] :
              Exclusive(p[1], s)' /\ \A i \in DOMAIN Rows' : p[1] \notin ToSet(Rows'[i].table)
         /\ \A i \in DOMAIN Rows : Planned(Rows[i])'
<1>0. /\ Types /\ Phases /\ Inv_Counters /\ Batch /\ Sharing /\ RowsReadRight
      /\ ComputedIsRight /\ CachedIsRight /\ Transfers /\ r \in ReqIds
      /\ t \in Seq(Blocks) /\ pc # "idle"
  BY DEF IInv, Grows
<1> DEFINE u == req'[r].table
<1>1. /\ Rows' \in Seq(BatchRow) /\ DOMAIN Rows \subseteq DOMAIN Rows'
      /\ \A i \in DOMAIN Rows : Rows'[i] = Rows[i]
      /\ \A i \in DOMAIN Rows' : i \in DOMAIN Rows \/ (Rows'[i].req = r /\ Rows'[i].table = u)
  <2>1. CASE Rows' = Rows
    BY <1>0, <2>1, RowsType
  <2>2. CASE \E row : AddsRow(r, row)
    <3>1. PICK row : AddsRow(r, row)
      BY <2>2
    <3>2. row.req = r /\ row.table = u
      BY <3>1 DEF AddsRow
    <3> QED  BY <1>0, <3>1, <3>2, RowsAfter
  <2> QED  BY <2>1, <2>2
<1>2. Sharing'
  <2>1. \A i \in DOMAIN Rows' :
           \/ i \in DOMAIN Rows /\ Rows'[i] = Rows[i] /\ Rows[i].req # r
           \/ Rows'[i].req = r /\ Rows'[i].table = req'[r].table
    BY <1>1 DEF Grows
  <2>2. \A s \in ReqIds \ {r} : req'[s].table = req[s].table
    BY DEF Grows
  <2>3. /\ Grown(t, req'[r].table) /\ Agree(r, t, r, t)
        /\ \A s \in ReqIds : Agree(r, t, s, req[s].table)
    BY DEF Grows
  <2> QED  BY <1>0, <2>1, <2>2, <2>3, SharingGrown
<1>3. ToSet(t) \subseteq ToSet(u)
  BY DEF Grows, Grown, ToSet
<1>4. Held \subseteq Held'
  <2>1. \A s \in ReqIds : ToSet(req[s].table) \subseteq ToSet(req'[s].table)
    BY <1>3 DEF Grows
  <2> QED  BY <2>1, HeldBy, HeldByNext
<1>5. cached' \in SUBSET Held'
  BY <1>0, <1>4, HeldByNext DEF Grows, Types
<1>6. Extends({r})
  <2>1. \A i \in DOMAIN Rows, b \in Held' : b \in ToSet(Rows[i].table) => b \in Held
    BY <1>0, RowBlocks
  <2>2. ASSUME NEW s \in ReqIds \ {r}, Live(s)'
        PROVE  /\ Live(s) /\ req'[s].table = req[s].table
               /\ req'[s].computed \in Nat /\ req'[s].computed <= req[s].computed
               /\ s \in DOMAIN loading => s \in DOMAIN loading' /\ loading'[s] = loading[s]
    <3>1. req'[s] = req[s] /\ req[s].computed \in Nat
      BY <1>0, ReqFacts DEF Grows
    <3>2. s \in DOMAIN loading => s \in DOMAIN loading' /\ loading'[s] = loading[s]
      BY DEF Grows
    <3> QED  BY <2>2, <3>1, <3>2 DEF Live, Known
  <2>3. good' = good
    BY DEF Grows
  <2> QED  BY <1>1, <2>1, <2>2, <2>3 DEF Extends
<1>7. ASSUME NEW b, NEW s \in ReqIds \ {r}, Exclusive(b, s)
      PROVE  Exclusive(b, s)' /\ b \notin ToSet(u)
  <2>1. \A q \in ReqIds \ {r} : req'[q].table = req[q].table
    BY DEF Grows
  <2>2. /\ ToSet(t) \subseteq ToSet(req[r].table) \cup cached
        /\ cached' \subseteq cached \cup ToSet(req'[r].table) /\ Grown(t, req'[r].table)
    BY DEF Grows
  <2>3. r \in ReqIds \ {s} /\ s \in ReqIds
    BY <1>0
  <2> QED  BY <1>0, <1>7, <2>1, <2>2, <2>3, ExclusiveGrown
<1>8. ASSUME NEW s \in ReqIds \ {r} PROVE Counters(s)'
  <2>1. Counters(s)
    BY <1>0 DEF Inv_Counters
  <2>2. Alone(s) => Alone(s)'
    <3>1. req'[s] = req[s] /\ s \in ReqIds
      BY DEF Grows
    <3> SUFFICES ASSUME Alone(s) PROVE Alone(s)'
      OBVIOUS
    <3>2. Exclusive(req[s].table[1], s)
      BY <3>1, AloneIsExclusive
    <3>3. Exclusive(req[s].table[1], s)'
      <4>1. \A b : Exclusive(b, s) => (Exclusive(b, s)' /\ b \notin ToSet(u))
        BY <1>7
      <4>2. /\ req[s].table[1] \notin cached' /\ req[s].table[1] \notin ToSet(u)
        BY <3>2, <4>1 DEF Exclusive
      <4>3. \A q \in ReqIds \ {s} : req[s].table[1] \notin ToSet(req'[q].table)
        BY <3>2, <4>1 DEF Exclusive
      <4>4. req[s].table[1] \in ToSet(req'[s].table)
        BY <3>1, <3>2 DEF Exclusive
      <4> QED  BY <3>1, <4>2, <4>3, <4>4 DEF Exclusive
    <3>4. Len(req'[s].table) = 1
      BY <3>1 DEF Alone
    <3> QED  BY <3>1, <3>3, <3>4 DEF Alone, Exclusive
  <2>3. /\ req'[s] = req[s] /\ out' = out
        /\ s \in failed' <=> s \in failed
        /\ s \in received' <=> s \in received
    BY DEF Grows
  <2>4. Live(s)' => Live(s)
    BY <2>3 DEF Live, Known
  <2> QED  BY <2>1, <2>2, <2>3, <2>4 DEF Counters
<1>9. ASSUME NEW s \in DOMAIN loading \ {r}, NEW p \in loading[s]
      PROVE  Exclusive(p[1], s)' /\ \A i \in DOMAIN Rows' : p[1] \notin ToSet(Rows'[i].table)
  <2>1. Exclusive(p[1], s) /\ \A i \in DOMAIN Rows : p[1] \notin ToSet(Rows[i].table)
    BY <1>0 DEF Transfers, Exclusive
  <2>2. s \in ReqIds \ {r}
    BY <1>0 DEF Types
  <2>3. Exclusive(p[1], s)' /\ p[1] \notin ToSet(u)
    BY <1>7, <2>1, <2>2
  <2> QED  BY <1>1, <2>1, <2>3
<1>10. ASSUME NEW i \in DOMAIN Rows PROVE Planned(Rows[i])'
  <2>1. Planned(Rows[i]) /\ Rows[i].req \in ReqIds /\ Rows[i].req # r
    BY <1>0, RowsType DEF Batch, Grows
  <2>2. req'[Rows[i].req] = req[Rows[i].req]
    BY <2>1 DEF Grows
  <2> QED
    BY <1>0, <1>1, <2>1, <2>2 DEF Planned, Grows, Places, At
<1> QED  BY <1>2, <1>4, <1>5, <1>6, <1>8, <1>9, <1>10

(* A row is added that reads what is right by then, or what it loads.        *)
LEMMA RowAdded ==
  ASSUME IInv, NEW r, NEW t, NEW row, Grows(r, t), AddsRow(r, row),
         pc # "rows", pc' # "rows", loading' = loading, sending' = sending, tainted' = tainted,
         received' = received, failed' = failed,
         req[r].status \in {"running", "waiting", "preempted"},
         req'[r].status = "running", req'[r].computed = row.start,
         row.start + row.new <= Len(row.table) * BlockSize,
         row.start + row.new <= req'[r].tokens,
         row.load # {} => "sync" \in Loads,
         row.load \subseteq Places(row.table, 0, row.start),
         \A p \in Places(row.table, 0, row.start) : p \in Everything \/ p \in row.load,
         cached' \subseteq cached \cup Full(row.table, row.start + row.new),
         req' \in [ReqIds -> Request]
  PROVE  /\ Inv_Counters' /\ Outcome' /\ Transfers' /\ Sharing' /\ RowsReadRight'
         /\ ComputedIsRight' /\ CachedIsRight' /\ OutputIsRight'
         /\ cached' \in SUBSET Held'
         /\ \A i, j \in DOMAIN Rows' : Rows'[i].req = Rows'[j].req => i = j
         /\ \A i \in DOMAIN Rows' : Planned(Rows[i])'
<1>0. /\ Types /\ Phases /\ Inv_Counters /\ Batch /\ Sharing /\ RowsReadRight
      /\ ComputedIsRight /\ CachedIsRight /\ Transfers /\ OutputIsRight
  BY DEF IInv
<1>1. /\ r \in ReqIds /\ pc # "idle" /\ pc' # "idle" /\ out' = out
      /\ good' = good
      /\ \A s \in ReqIds \ {r} : req'[s] = req[s]
      /\ \A i \in DOMAIN Rows : Rows[i].req # r
  BY DEF Grows
<1>2. /\ row \in BatchRow /\ row.req = r /\ row.table = req'[r].table
      /\ row.start \in Nat /\ row.new \in Nat \ {0} /\ row.table \in Seq(Blocks)
      /\ row.load \in SUBSET Slots
  BY DEF AddsRow, BatchRow
<1>3. /\ Rows' \in Seq(BatchRow) /\ Len(Rows') = Len(Rows) + 1
      /\ DOMAIN Rows' = 1 .. Len(Rows) + 1 /\ DOMAIN Rows \subseteq DOMAIN Rows'
      /\ \A i \in DOMAIN Rows : Rows'[i] = Rows[i]
      /\ \A i \in DOMAIN Rows' : i \in DOMAIN Rows \/ i = Len(Rows) + 1
      /\ Rows'[Len(Rows) + 1] = row
  BY <1>0, RowsAfter
<1>4. Len(Rows) \in Nat /\ DOMAIN Rows = 1 .. Len(Rows) /\ Len(Rows) + 1 \in DOMAIN Rows'
  BY <1>0, <1>3, RowsType
<1>5. /\ Sharing' /\ Extends({r}) /\ Held \subseteq Held' /\ cached' \in SUBSET Held'
      /\ \A s \in ReqIds \ {r} : Counters(s)'
      /\ \A s \in DOMAIN loading \ {r} : \A p \in loading[s] :
           Exclusive(p[1], s)' /\ \A i \in DOMAIN Rows' : p[1] \notin ToSet(Rows'[i].table)
      /\ \A i \in DOMAIN Rows : Planned(Rows[i])'
  BY GrowthFacts
<1>6. /\ \A p \in Everything : p[1] \in Held' => p \in Everything'
      /\ \A i \in DOMAIN Rows : \A p \in Places(Rows[i].table, 0, Rows[i].start) :
           p[1] \in Held' => p \in Coming(i)'
      /\ \A s \in ReqIds \ {r} : Live(s)' =>
           \A p \in Places(req'[s].table, 0, req'[s].computed) :
             p \in Everything' \/ (s \in DOMAIN loading' /\ p \in loading'[s])
  BY <1>0, <1>5, StaysRight
<1>7. ASSUME NEW k, k = Len(Rows) + 1, NEW p, p \in Everything \/ p \in row.load
      PROVE  p \in Everything' /\ p \in Coming(k)'
  <2>1. \/ p \in good'
        \/ \E j \in DOMAIN Rows' : p \in Rows'[j].load
        \/ \E j \in DOMAIN Rows' : j < k /\ p \in Written(Rows'[j])
    <3>1. CASE p \in row.load
      BY <1>3, <1>4, <3>1
    <3>2. CASE p \in Everything
      <4>1. \A j \in DOMAIN Rows : j < Len(Rows) + 1
        BY <1>4
      <4>2. \/ p \in good
            \/ \E j \in DOMAIN Rows : p \in Rows[j].load
            \/ \E j \in DOMAIN Rows : p \in Written(Rows[j])
        BY <1>0, <3>2, EverythingIn
      <4> QED  BY <1>1, <1>3, <1>7, <4>1, <4>2
    <3> QED  BY <1>7, <3>1, <3>2
  <2>2. p \in Everything'
    BY <1>3, <2>1, EverythingInNext
  <2>3. p \in Coming(k)'
    BY <2>1 DEF Coming, Written, Places, At
  <2> QED  BY <2>2, <2>3
<1>8. RowsReadRight'
  <2>1. ASSUME NEW i \in DOMAIN Rows', NEW p \in Places(Rows'[i].table, 0, Rows'[i].start),
               p[1] \in Held'
        PROVE  p \in Coming(i)'
    <3>1. CASE i \in DOMAIN Rows
      BY <1>3, <1>6, <2>1, <3>1
    <3>2. CASE i = Len(Rows) + 1
      BY <1>3, <1>7, <2>1, <3>2
    <3> QED  BY <1>3, <3>1, <3>2
  <2> QED  BY <2>1 DEF RowsReadRight, Places, At
<1>9. ComputedIsRight'
  <2>1. \A p \in Places(req'[r].table, 0, req'[r].computed) : p \in Everything'
    BY <1>2, <1>7
  <2> QED  BY <1>6, <2>1 DEF ComputedIsRight, Places, At
<1>10. CachedIsRight'
  <2> SUFFICES ASSUME "sync" \notin Loads, NEW b \in cached', NEW o \in Offsets
               PROVE  <<b, o>> \in Everything'
    BY DEF CachedIsRight
  <2>1. CASE b \in cached
    <3>1. <<b, o>> \in Everything /\ <<b, o>>[1] \in Held'
      BY <1>0, <1>5, <2>1 DEF CachedIsRight, Types
    <3> QED  BY <1>6, <3>1
  <2>2. CASE b \in Full(row.table, row.start + row.new)
    <3>1. row.start + row.new \in Nat
      BY <1>2
    <3>2. <<b, o>> \in Places(row.table, 0, row.start + row.new)
      BY <1>2, <2>2, <3>1, FullFacts
    <3>3. \/ <<b, o>> \in Places(row.table, 0, row.start)
          \/ <<b, o>> \in Written(row)
      <4>1. PICK p \in 0 .. (row.start + row.new) - 1 : <<b, o>> = At(row.table, p)
        BY <3>2 DEF Places
      <4>2. p \in 0 .. row.start - 1 \/ p \in row.start .. (row.start + row.new) - 1
        BY <1>2, <4>1
      <4> QED  BY <4>1, <4>2 DEF Places, Written
    <3>4. CASE <<b, o>> \in Written(row)
      BY <1>3, <1>4, <3>4, EverythingInNext
    <3> QED  BY <1>7, <3>3, <3>4
  <2> QED  BY <2>1, <2>2
<1>11. r \notin failed \cup received /\ r \notin DOMAIN loading
  <2>1. req[r].status \notin {"remote", "finished"}
    OBVIOUS
  <2>2. Counters(r)
    BY <1>0, <1>1 DEF Inv_Counters
  <2> QED  BY <1>0, <2>1, <2>2 DEF Counters, Transfers, Moving
<1>12. Inv_Counters'
  <2>1. Counters(r)'
    <3>1. /\ req'[r].computed <= req'[r].tokens
          /\ req'[r].computed <= Len(req'[r].table) * BlockSize
      <4>1. req'[r] \in Request
        BY <1>1
      <4>2. req'[r].tokens \in Nat /\ Len(req'[r].table) * BlockSize \in Nat
        BY <4>1, Sizes DEF Request
      <4> QED  BY <1>2, <4>2
    <3> QED  BY <1>1, <1>11, <3>1 DEF Counters
  <2> QED  BY <1>5, <2>1 DEF Inv_Counters
<1>13. \A i \in DOMAIN Rows' : Planned(Rows[i])'
  <2>1. ASSUME NEW i, i = Len(Rows) + 1 PROVE Planned(Rows[i])'
    <3>1. Rows'[i] = row
      BY <1>3, <2>1
    <3> QED  BY <1>1, <1>2, <3>1 DEF Planned, Places, At
  <2> QED  BY <1>3, <1>5, <2>1
<1>14. \A i, j \in DOMAIN Rows' : Rows'[i].req = Rows'[j].req => i = j
  BY <1>0, <1>1, <1>2, <1>3 DEF Batch
<1>15. /\ out = None /\ Stopped = {} /\ out.failed = {} /\ out.done = {} /\ out.sent = {}
       /\ DOMAIN out.rows = {} /\ Moving = DOMAIN loading
  BY <1>0, NoOutput
<1>16. Stopped' = {} /\ Moving' = DOMAIN loading
  BY <1>1, <1>15 DEF Stopped, Moving
<1>17. Outcome' /\ OutputIsRight'
  BY <1>0, <1>1, <1>15, <1>16 DEF Outcome, OutputIsRight
<1>18. Transfers'
  <2>1. /\ \A s \in DOMAIN loading : req'[s].status \in {"remote", "finished"} /\ s \notin received'
        /\ \A s \in sending : req'[s].status = "finished"
    <3>1. \A s \in DOMAIN loading : s \in ReqIds \ {r}
      BY <1>0, <1>11 DEF Types
    <3>2. \A s \in sending : s \in ReqIds \ {r}
      BY <1>0, <1>15 DEF Types, Transfers
    <3> QED  BY <1>0, <1>1, <1>15, <3>1, <3>2 DEF Transfers
  <2>2. \A s \in ReqIds :
          /\ req'[s].status = "finished" => s \in sending \cup DOMAIN loading
          /\ req'[s].status = "remote" => s \in received \cup DOMAIN loading
    BY <1>0, <1>1, <1>15 DEF Transfers
  <2>3. \A s \in DOMAIN loading : \A p \in loading[s] :
       /\ p[1] \in ToSet(req'[s].table) /\ p[1] \notin cached'
       /\ \A q \in ReqIds \ {s} : p[1] \notin ToSet(req'[q].table)
       /\ \A i \in DOMAIN Rows' : p[1] \notin ToSet(Rows'[i].table)
    <3> SUFFICES ASSUME NEW s \in DOMAIN loading, NEW p \in loading[s]
                 PROVE  Exclusive(p[1], s)' /\ \A i \in DOMAIN Rows' : p[1] \notin ToSet(Rows'[i].table)
      BY DEF Exclusive
    <3> QED  BY <1>5, <1>11
  <2>4. sending \cap DOMAIN loading = {}
    BY <1>0, <1>15 DEF Transfers
  <2>5. out'.sent = {} /\ out'.done = {}
    BY <1>1, <1>15
  <2> QED  BY <1>1, <1>16, <2>1, <2>2, <2>3, <2>4, <2>5 DEF Transfers
<1> QED  BY <1>5, <1>8, <1>9, <1>10, <1>12, <1>13, <1>14, <1>17, <1>18

LEMMA ChunkedFacts ==
  ASSUME NEW n \in Nat
  PROVE  Chunked(n) \in Nat /\ Chunked(n) <= n /\ (n # 0 => Chunked(n) # 0)
BY Sizes DEF Chunked

(* What a request that does not load has computed is right.                  *)
LEMMA GrownIsRight ==
  ASSUME IInv, NEW r \in ReqIds, req[r].status \in {"running", "waiting", "preempted"},
         NEW u, Grown(req[r].table, u)
  PROVE  \A p \in Places(u, 0, req[r].computed) : p \in Everything
<1>0. Types /\ Inv_Counters /\ Transfers /\ ComputedIsRight
  BY DEF IInv
<1>1. /\ req[r].table \in Seq(Blocks) /\ req[r].computed \in Nat /\ Len(req[r].table) \in Nat
      /\ DOMAIN req[r].table = 1 .. Len(req[r].table)
  BY <1>0, ReqFacts
<1>2. Live(r) /\ r \notin DOMAIN loading
  BY <1>0 DEF Transfers, Moving, Live, Known
<1>3. req[r].computed <= Len(req[r].table) * BlockSize
  BY <1>0, <1>2 DEF Inv_Counters, Counters
<1>4. /\ u \in Seq(Blocks) /\ Len(req[r].table) <= Len(u)
      /\ \A i \in 1 .. Len(req[r].table) : req[r].table[i] = u[i]
  BY <1>1 DEF Grown
<1>5. Places(req[r].table, 0, req[r].computed) = Places(u, 0, req[r].computed)
  BY <1>1, <1>3, <1>4, SamePlaces
<1> QED  BY <1>0, <1>2, <1>5 DEF ComputedIsRight

LEMMA ScheduleRunningKeeps == ASSUME IInv, ScheduleRunning PROVE IInv'
<1>0. /\ Types /\ Phases /\ Queues /\ Inv_Counters /\ Batch /\ Outcome /\ Transfers /\ Sharing
      /\ RowsReadRight /\ ComputedIsRight /\ CachedIsRight /\ OutputIsRight
  BY DEF IInv
<1> DEFINE r == running[at]
           n == Chunked(req[r].tokens - req[r].computed)
           upto == req[r].computed + n
           t == req[r].table
           u == Extended(t, upto + Lookahead)
           row == Row(r, u, req[r].computed, n, {})
<1>1. /\ pc = "running" /\ pc' = "running" /\ at <= Len(running) /\ at' = at + 1
      /\ flight' = flight /\ step_skipped' = step_skipped /\ out' = out
      /\ running' = running /\ waiting' = waiting /\ skipped' = skipped
      /\ num_streaming' = num_streaming /\ finished_ids' = finished_ids
      /\ received' = received /\ failed' = failed /\ loading' = loading
      /\ sending' = sending /\ faults' = faults /\ good' = good
  BY DEF ScheduleRunning, queues, recvs, env, ghosts
<1>2. tainted' = tainted
  BY Zenon DEF ScheduleRunning, ghosts
<1>3. /\ n > 0 => Fits(t, upto + Lookahead)
      /\ n = 0 => req' = req /\ plan' = plan /\ cached' = cached
      /\ n # 0 => /\ req' = [req EXCEPT ![r].table = u]
                  /\ plan' = Append(plan, row)
                  /\ cached' = cached \cup Full(u, upto)
  BY DEF ScheduleRunning
<1>4. /\ at \in Nat \ {0} /\ running \in Seq(ReqIds) /\ at \in DOMAIN running
      /\ DOMAIN running = 1 .. Len(running)
  BY <1>0, <1>1 DEF Types
<1>5. /\ out = None /\ Stopped = {} /\ DOMAIN out.rows = {}
  BY <1>0, <1>1, NoOutput
<1>6. r \in ReqIds /\ req[r].status = "running"
  <2>1. r \in ReqIds /\ r \in ToSet(running)
    BY <1>4 DEF ToSet
  <2> QED  BY <1>0, <1>5, <2>1 DEF Queues, WithStatus
<1>7. flight = <<>> /\ Rows = plan /\ Rows' = plan'
  BY <1>0, <1>1 DEF Phases, Rows
<1>8. /\ req[r].tokens \in Nat \ {0} /\ req[r].computed \in Nat /\ t \in Seq(Blocks)
      /\ req[r].computed <= req[r].tokens
  <2>1. Live(r)
    BY <1>6 DEF Live, Known
  <2> QED  BY <1>0, <1>6, <2>1, ReqFacts DEF Inv_Counters, Counters
<1>9. n \in Nat /\ n <= req[r].tokens - req[r].computed
  <2>1. req[r].tokens - req[r].computed \in Nat
    BY <1>8
  <2> QED  BY <2>1, ChunkedFacts
<1>10. upto \in Nat /\ upto <= req[r].tokens /\ upto + Lookahead \in Nat
  BY <1>8, <1>9, Sizes
<1>11. \A i \in DOMAIN Rows : \E j \in DOMAIN running : j < at /\ running[j] = Rows[i].req
  BY <1>0, <1>1 DEF Batch
<1>12. Phases'
  BY <1>0, <1>1, <1>5, <1>7 DEF Phases
<1> HIDE DEF n, r
<1>13. CASE n = 0
  <2>1. req' = req /\ plan' = plan /\ cached' = cached /\ Rows' = Rows
    BY <1>3, <1>7, <1>13
  <2>2. Held' = Held
    BY <2>1 DEF Held
  <2>3. Types'
    <3>1. at' \in Nat \ {0}
      BY <1>1, <1>4
    <3> QED  BY <1>0, <1>1, <2>1, <2>2, <3>1 DEF Types
  <2>4. Queues'
    BY <1>0, <1>1, <2>1 DEF Queues, Stopped, WithStatus
  <2>5. Batch'
    <3>1. \A i \in DOMAIN Rows' : \E j \in DOMAIN running' : j < at' /\ running'[j] = Rows'[i].req
      BY <1>1, <1>4, <1>11, <2>1
    <3>2. \A i \in DOMAIN Rows' : Planned(Rows[i])'
      BY <1>0, <1>1, <2>1 DEF Batch, Planned, Places, At
    <3> QED  BY <1>0, <2>1, <3>1, <3>2 DEF Batch
  <2>6. UNCHANGED <<req, recvs, cached, sending, out, ghosts>>
    BY <1>1, <1>2, <2>1, Zenon DEF recvs, ghosts
  <2>7. recompute' = recompute
    BY Zenon DEF ScheduleRunning, env
  <2> QED  BY <1>12, <2>1, <2>3, <2>4, <2>5, <2>6, <2>7, QuietStep
<1>14. CASE n # 0
  <2>1. Fits(t, upto + Lookahead) /\ n \in Nat \ {0}
    BY <1>3, <1>9, <1>14
  <2>2. req' = [req EXCEPT ![r].table = u] /\ plan' = Append(plan, row) /\ cached' = cached \cup Full(u, upto)
    BY <1>3, <1>14
  <2>3. Grown(t, u) /\ upto + Lookahead <= Len(u) * BlockSize /\ u \in Seq(Blocks) /\ Len(u) \in Nat
    BY <1>8, <1>10, <2>1, ExtendedFacts DEF Grown
  <2>4. /\ req' \in [ReqIds -> Request] /\ req'[r] = [req[r] EXCEPT !.table = u]
        /\ \A s \in ReqIds \ {r} : req'[s] = req[s]
    <3>1. req \in [ReqIds -> Request]
      BY <1>0 DEF Types
    <3>2. req[r] \in Request /\ [req[r] EXCEPT !.table = u] \in Request
      BY <1>6, <2>3, <3>1 DEF Request
    <3> HIDE DEF u
    <3> QED  BY <1>6, <2>2, <3>1, <3>2
  <2>5. /\ req'[r].table = u /\ req'[r].status = "running" /\ req'[r].computed = req[r].computed
        /\ req'[r].tokens = req[r].tokens
    BY <1>0, <1>6, <2>4, ReqFacts DEF Request
  <2>6. /\ row.req = r /\ row.table = u /\ row.start = req[r].computed /\ row.new = n
        /\ row.load = {} /\ row \in BatchRow
    <3>1. (req[r].computed + n >= req[r].tokens) \in BOOLEAN
      OBVIOUS
    <3> HIDE DEF u
    <3> QED  BY <1>6, <1>8, <2>1, <2>3, <3>1 DEF Row, BatchRow
  <2> HIDE DEF t, u, row
  <2>7. Full(u, upto) \in SUBSET ToSet(u)
    BY <1>10, <2>3, FullFacts
  <2>8. \A i \in DOMAIN Rows : Rows[i].req # r
    <3>1. IsInjective(running)
      BY <1>0 DEF Queues
    <3> QED  BY <1>4, <1>11, <3>1 DEF IsInjective, r
  <2>9. Grows(r, t)
    <3>1. \A s \in ReqIds : Agree(r, t, s, req[s].table)
      BY <1>0, <1>6 DEF Sharing, t
    <3>2. Agree(r, t, r, t)
      BY <1>6, <3>1 DEF t
    <3> QED
      BY <1>1, <1>6, <1>8, <2>2, <2>3, <2>4, <2>5, <2>7, <2>8, <3>1, <3>2 DEF Grows, t
  <2>10. AddsRow(r, row)
    BY <1>7, <2>2, <2>5, <2>6 DEF AddsRow
  <2>11. \A p \in Places(row.table, 0, row.start) : p \in Everything
    BY <1>6, <2>3, <2>6, GrownIsRight DEF t
  <2>12. row.start + row.new <= Len(row.table) * BlockSize
    <3>1. Len(u) * BlockSize \in Nat
      BY <2>3, Sizes
    <3>2. upto = row.start + row.new
      BY <2>6
    <3> QED  BY <1>10, <2>3, <2>6, <3>1, <3>2, Sizes
  <2>13. /\ Inv_Counters' /\ Outcome' /\ Transfers' /\ Sharing' /\ RowsReadRight'
         /\ ComputedIsRight' /\ CachedIsRight' /\ OutputIsRight'
         /\ cached' \in SUBSET Held'
         /\ \A i, j \in DOMAIN Rows' : Rows'[i].req = Rows'[j].req => i = j
         /\ \A i \in DOMAIN Rows' : Planned(Rows[i])'
    <3>1. row.start + row.new <= req'[r].tokens
      BY <1>10, <2>5, <2>6
    <3>2. row.load \subseteq Places(row.table, 0, row.start)
      BY <2>6
    <3>3. cached' \subseteq cached \cup Full(row.table, row.start + row.new)
      BY <2>2, <2>6
    <3>4. pc # "rows" /\ pc' # "rows" /\ req[r].status \in {"running", "waiting", "preempted"}
      BY <1>1, <1>6
    <3> QED
      BY <1>1, <1>2, <2>4, <2>5, <2>6, <2>9, <2>10, <2>11, <2>12, <3>1, <3>2, <3>3, <3>4, RowAdded
  <2>14. plan' \in Seq(BatchRow) /\ Rows' \in Seq(BatchRow)
    BY <1>0, <1>7, <2>10, RowsAfter
  <2>15. Types'
    <3>1. at' \in Nat \ {0}
      BY <1>1, <1>4
    <3> QED  BY <1>0, <1>1, <2>4, <2>13, <2>14, <3>1 DEF Types
  <2>16. Queues'
    <3>1. \A s \in ReqIds : req'[s].status = req[s].status
      BY <1>6, <2>4, <2>5
    <3>2. \A S : WithStatus(S)' = WithStatus(S)
      BY <3>1 DEF WithStatus
    <3>3. \A s \in ToSet(waiting) : s \in ReqIds
      BY <1>0 DEF Types, ToSet
    <3> QED  BY <1>0, <1>1, <3>1, <3>2, <3>3 DEF Queues, Stopped
  <2>17. Batch'
    <3>1. \A i \in DOMAIN Rows' : \E j \in DOMAIN running' : j < at' /\ running'[j] = Rows'[i].req
      <4>1. ASSUME NEW i \in DOMAIN Rows
            PROVE  \E j \in DOMAIN running' : j < at' /\ running'[j] = Rows'[i].req
        BY <1>0, <1>1, <1>4, <1>11, <2>10, RowsAfter
      <4>2. ASSUME NEW i, i = Len(Rows) + 1
            PROVE  \E j \in DOMAIN running' : j < at' /\ running'[j] = Rows'[i].req
        BY <1>0, <1>1, <1>4, <2>6, <2>10, <4>2, RowsAfter DEF r
      <4> QED  BY <1>0, <2>10, <4>1, <4>2, RowsAfter
    <3> QED  BY <2>13, <3>1 DEF Batch
  <2> QED  BY <1>12, <2>13, <2>15, <2>16, <2>17 DEF IInv
<1> QED  BY <1>13, <1>14

LEMMA StatusChanged ==
  ASSUME NEW r \in ReqIds, \A s \in ReqIds \ {r} : req'[s].status = req[s].status
  PROVE  \A S : WithStatus(S)' = IF req'[r].status \in S THEN WithStatus(S) \cup {r}
                                 ELSE WithStatus(S) \ {r}
BY DEF WithStatus

(* What the requests at the head of the queues can be admitted with.         *)
LEMMA AdmissionFacts ==
  ASSUME SyncUnshared, IInv, NEW r \in ReqIds, req[r].status \in {"waiting", "preempted"},
         NEW e \in SyncOffers(r)
  PROVE  LET a == Admission(r, e)
         IN /\ a.table \in Seq(Blocks) /\ a.start \in Nat /\ a.new \in Nat \ {0}
            /\ e \in Nat /\ e <= a.start /\ (e # 0 => "sync" \in Loads)
            /\ a.upto \in Nat /\ a.start + a.new <= a.upto
            /\ a.start + a.new <= req[r].tokens
            /\ ToSet(req[r].table) \subseteq ToSet(a.table)
            /\ ToSet(a.table) \subseteq ToSet(req[r].table) \cup cached
            /\ Agree(r, a.table, r, a.table)
            /\ \A s \in ReqIds : Agree(r, a.table, s, req[s].table)
            /\ \A u : Grown(a.table, u) =>
                 \A p \in Places(u, 0, a.start) :
                   p \in Everything \/ p \in Places(u, a.start - e, a.start)
<1> DEFINE a == Admission(r, e)
<1>0. /\ Types /\ Inv_Counters /\ Sharing /\ CachedIsRight
  BY DEF IInv
<1>1. /\ req[r].tokens \in Nat \ {0} /\ req[r].computed \in Nat /\ req[r].table \in Seq(Blocks)
      /\ req[r].computed < req[r].tokens
      /\ req[r].computed = 0 /\ req[r].tokens # 1 => req[r].table = <<>>
  BY <1>0, ReqFacts DEF Inv_Counters, Counters
<1>2. CASE req[r].computed > 0
  <2> DEFINE n == Chunked(req[r].tokens - req[r].computed)
  <2>1. e = 0
    BY <1>2 DEF SyncOffers
  <2>2. n \in Nat \ {0} /\ n <= req[r].tokens - req[r].computed
    <3>1. req[r].tokens - req[r].computed \in Nat \ {0}
      BY <1>1
    <3> QED  BY <3>1, ChunkedFacts
  <2>3. a = [table |-> req[r].table, start |-> req[r].computed, new |-> n,
             upto |-> req[r].computed + n + Lookahead]
    BY <1>2 DEF Admission
  <2>4. /\ Agree(r, req[r].table, r, req[r].table)
        /\ \A s \in ReqIds : Agree(r, req[r].table, s, req[s].table)
    BY <1>0 DEF Sharing
  <2>5. \A u : Grown(req[r].table, u) => \A p \in Places(u, 0, req[r].computed) : p \in Everything
    BY GrownIsRight
  <2> HIDE DEF n, a
  <2>6. /\ a.upto \in Nat /\ a.start + a.new <= a.upto /\ a.start + a.new <= req[r].tokens
    BY <1>1, <2>2, <2>3, Sizes
  <2> QED  BY <1>1, <2>1, <2>2, <2>3, <2>4, <2>5, <2>6 DEF a
<1>3. CASE ~(req[r].computed > 0)
  <2> DEFINE k == Len(Hit(r))
             local == k * BlockSize
             n == Chunked(req[r].tokens - (local + e))
  <2>0. req[r].computed = 0
    BY <1>1, <1>3
  <2>1. /\ Base(r) \in Seq(Blocks) /\ Hit(r) \in Seq(Blocks) /\ k <= Len(Base(r))
        /\ local < req[r].tokens
        /\ ToSet(Base(r)) \subseteq ToSet(req[r].table) \cup cached
        /\ Agree(r, Base(r), r, Base(r))
        /\ \A s \in ReqIds : Agree(r, Base(r), s, req[s].table)
        /\ \/ k = 0 /\ Base(r) = req[r].table
           \/ req[r].tokens # 1 /\ Base(r) = Hit(r)
        /\ \A p \in Places(Base(r), 0, local) : p \in Everything
    BY <1>0, <2>0, BaseFacts
  <2>2. k \in Nat /\ local \in Nat
    BY <2>1, Sizes
  <2>3. e \in Nat /\ local + e < req[r].tokens /\ (e # 0 => "sync" \in Loads)
    BY <1>3, <2>1, <2>2, Sizes DEF SyncOffers, Offers
  <2>4. n \in Nat \ {0} /\ n <= req[r].tokens - (local + e)
    <3>1. req[r].tokens - (local + e) \in Nat \ {0}
      BY <1>1, <2>2, <2>3
    <3> QED  BY <3>1, ChunkedFacts
  <2>5. a = [table |-> Base(r), start |-> local + e, new |-> n, upto |-> local + e + n + 0]
    BY <1>3 DEF Admission
  <2>6. ToSet(req[r].table) \subseteq ToSet(Base(r))
    <3>1. ToSet(<<>>) = {}
      BY DEF ToSet
    <3> QED  BY <1>1, <2>0, <2>1, <3>1
  <2>7. ASSUME NEW u, Grown(Base(r), u), NEW p \in Places(u, 0, local + e)
        PROVE  p \in Everything \/ p \in Places(u, local, local + e)
    <3>1. PICK m \in 0 .. (local + e) - 1 : p = At(u, m)
      BY <2>7 DEF Places
    <3>2. CASE m < local
      <4>1. p \in Places(u, 0, local)
        BY <2>2, <3>1, <3>2 DEF Places
      <4>2. u \in Seq(Blocks) /\ Len(Base(r)) <= Len(u) /\ Len(Base(r)) \in Nat
            /\ \A i \in 1 .. Len(Base(r)) : Base(r)[i] = u[i]
        BY <2>1, <2>7 DEF Grown
      <4>3. local <= Len(Base(r)) * BlockSize
        BY <2>1, <2>2, <4>2, Sizes, Monotone
      <4>4. Places(Base(r), 0, local) = Places(u, 0, local)
        <5> HIDE DEF local
        <5> QED  BY <2>1, <2>2, <4>2, <4>3, SamePlaces
      <4> QED  BY <2>1, <4>1, <4>4
    <3>3. CASE m >= local
      BY <2>2, <2>3, <3>1, <3>3 DEF Places
    <3> QED  BY <2>2, <3>1, <3>2, <3>3
  <2> HIDE DEF n, a, local, k
  <2>8. /\ a.upto \in Nat /\ a.start + a.new <= a.upto /\ a.start + a.new <= req[r].tokens
        /\ a.start - e = local /\ a.start \in Nat /\ e <= a.start
    BY <1>1, <2>2, <2>3, <2>4, <2>5
  <2> QED  BY <2>1, <2>3, <2>4, <2>5, <2>6, <2>7, <2>8 DEF a
<1> QED  BY <1>1, <1>2, <1>3

LEMMA AdmitKeeps == ASSUME SyncUnshared, IInv, Admit PROVE IInv'
<1>0. /\ Types /\ Phases /\ Queues /\ Inv_Counters /\ Batch /\ Outcome /\ Transfers /\ Sharing
      /\ RowsReadRight /\ ComputedIsRight /\ CachedIsRight /\ OutputIsRight
  BY DEF IInv
<1> DEFINE r == Next1
<1>1. /\ pc = "waiting" /\ pc' = "waiting" /\ at' = at
      /\ flight' = flight /\ step_skipped' = step_skipped /\ out' = out
      /\ num_streaming' = num_streaming /\ finished_ids' = finished_ids
      /\ received' = received /\ failed' = failed /\ loading' = loading
      /\ sending' = sending /\ faults' = faults /\ good' = good
      /\ MayAdmit /\ ~Blocked(r) /\ Pop
  BY DEF Admit, MayAdmit, recvs, env, ghosts
<1>2. tainted' = tainted
  BY Zenon DEF Admit, ghosts
<1>3. PICK e \in SyncOffers(r) :
        LET a == Admission(r, e)
            table == Extended(a.table, a.upto)
        IN /\ Fits(a.table, a.upto)
           /\ req' = [req EXCEPT ![r].status = "running", ![r].table = table,
                                 ![r].computed = a.start]
           /\ plan' = Append(plan, Row(r, table, a.start, a.new,
                                       Places(table, a.start - e, a.start)))
           /\ running' = Append(running, r)
           /\ cached' = cached \cup Full(table, a.start + a.new)
  BY Zenon DEF Admit
<1>4. /\ r \in ReqIds /\ req[r].status \in InQueues
      /\ waiting' \in Seq(ReqIds) /\ skipped' \in Seq(ReqIds)
      /\ IsInjective(waiting') /\ IsInjective(skipped')
      /\ ToSet(waiting') = ToSet(waiting) \ {r}
      /\ ToSet(skipped') = ToSet(skipped) \ {r}
      /\ r \notin ToSet(step_skipped) /\ r \in ToSet(waiting) \cup ToSet(skipped)
  BY <1>0, <1>1, PopFacts
<1> HIDE DEF r
<1>5. req[r].status \in {"waiting", "preempted"}
  BY <1>1, <1>4 DEF Blocked, InQueues
<1> DEFINE a == Admission(r, e)
           t == a.table
           u == Extended(t, a.upto)
           load == Places(u, a.start - e, a.start)
           row == Row(r, u, a.start, a.new, load)
<1>6. /\ t \in Seq(Blocks) /\ a.start \in Nat /\ a.new \in Nat \ {0}
      /\ e \in Nat /\ e <= a.start /\ (e # 0 => "sync" \in Loads)
      /\ a.upto \in Nat /\ a.start + a.new <= a.upto
      /\ a.start + a.new <= req[r].tokens
      /\ ToSet(req[r].table) \subseteq ToSet(t)
      /\ ToSet(t) \subseteq ToSet(req[r].table) \cup cached
      /\ Agree(r, t, r, t)
      /\ \A s \in ReqIds : Agree(r, t, s, req[s].table)
      /\ \A v : Grown(t, v) =>
           \A p \in Places(v, 0, a.start) :
             p \in Everything \/ p \in Places(v, a.start - e, a.start)
  BY <1>4, <1>5, AdmissionFacts
<1>7. /\ Fits(t, a.upto)
      /\ req' = [req EXCEPT ![r].status = "running", ![r].table = u, ![r].computed = a.start]
      /\ plan' = Append(plan, row)
      /\ running' = Append(running, r)
      /\ cached' = cached \cup Full(u, a.start + a.new)
  BY <1>3
<1> HIDE DEF a
<1>8. Grown(t, u) /\ a.upto <= Len(u) * BlockSize /\ u \in Seq(Blocks) /\ Len(u) \in Nat
  BY <1>6, <1>7, ExtendedFacts DEF Grown
<1>9. /\ out = None /\ Stopped = {} /\ DOMAIN out.rows = {}
  BY <1>0, <1>1, NoOutput
<1>10. flight = <<>> /\ Rows = plan /\ Rows' = plan'
  BY <1>0, <1>1 DEF Phases, Rows
<1> HIDE DEF t, u, load, row
<1>11. /\ req' \in [ReqIds -> Request]
       /\ req'[r] = [req[r] EXCEPT !.status = "running", !.table = u, !.computed = a.start]
       /\ \A s \in ReqIds \ {r} : req'[s] = req[s]
  <2>1. req \in [ReqIds -> Request]
    BY <1>0 DEF Types
  <2>2. [req[r] EXCEPT !.status = "running", !.table = u, !.computed = a.start] \in Request
    BY <1>4, <1>6, <1>8, <2>1 DEF Request, Statuses
  <2> QED  BY <1>4, <1>7, <2>1, <2>2
<1>12. /\ req'[r].table = u /\ req'[r].status = "running" /\ req'[r].computed = a.start
       /\ req'[r].tokens = req[r].tokens
  BY <1>0, <1>4, <1>11, ReqFacts DEF Request
<1>13. a.start + a.new <= Len(u) * BlockSize /\ a.start + a.new \in Nat /\ a.start <= Len(u) * BlockSize
  <2>1. Len(u) * BlockSize \in Nat
    BY <1>8, Sizes
  <2> QED  BY <1>6, <1>8, <2>1
<1>14. load \in SUBSET Slots
  <2>1. a.start - e \in Nat
    BY <1>6
  <2> QED  BY <1>6, <1>8, <1>13, <2>1, PlacesFacts DEF load
<1>15. /\ row.req = r /\ row.table = u /\ row.start = a.start /\ row.new = a.new
       /\ row.load = load /\ row \in BatchRow
  <2>1. (a.start + a.new >= req[r].tokens) \in BOOLEAN
    OBVIOUS
  <2> QED  BY <1>4, <1>6, <1>8, <1>14, <2>1 DEF Row, BatchRow, row
<1>16. Full(u, a.start + a.new) \in SUBSET ToSet(u)
  BY <1>8, <1>13, FullFacts
<1>17. \A i \in DOMAIN Rows : Rows[i].req # r
  BY <1>0, <1>1, <1>5, RowBlocks
<1>18. Grows(r, t)
  BY <1>1, <1>4, <1>6, <1>7, <1>8, <1>11, <1>12, <1>16, <1>17 DEF Grows
<1>19. AddsRow(r, row)
  BY <1>7, <1>10, <1>12, <1>15 DEF AddsRow
<1>20. \A p \in Places(row.table, 0, row.start) : p \in Everything \/ p \in row.load
  BY <1>6, <1>8, <1>15 DEF load
<1>21. /\ row.load # {} => "sync" \in Loads
       /\ row.load \subseteq Places(row.table, 0, row.start)
  <2>1. CASE e = 0
    <3>1. load = {}
      <4>1. a.start - e = a.start /\ a.start .. a.start - 1 = {}
        BY <1>6, <2>1
      <4> QED  BY <4>1 DEF load, Places
    <3> QED  BY <1>15, <3>1
  <2>2. CASE e # 0
    <3>1. a.start - e .. a.start - 1 \subseteq 0 .. a.start - 1
      BY <1>6
    <3>2. load \subseteq Places(u, 0, a.start)
      BY <3>1 DEF load, Places
    <3> QED  BY <1>6, <1>15, <2>2, <3>2
  <2> QED  BY <2>1, <2>2
<1>22. /\ Inv_Counters' /\ Outcome' /\ Transfers' /\ Sharing' /\ RowsReadRight'
       /\ ComputedIsRight' /\ CachedIsRight' /\ OutputIsRight'
       /\ cached' \in SUBSET Held'
       /\ \A i, j \in DOMAIN Rows' : Rows'[i].req = Rows'[j].req => i = j
       /\ \A i \in DOMAIN Rows' : Planned(Rows[i])'
  <2>1. row.start + row.new <= req'[r].tokens /\ row.start + row.new <= Len(row.table) * BlockSize
    BY <1>6, <1>12, <1>13, <1>15
  <2>2. cached' \subseteq cached \cup Full(row.table, row.start + row.new)
    BY <1>7, <1>15
  <2>3. pc # "rows" /\ pc' # "rows" /\ req[r].status \in {"running", "waiting", "preempted"}
    BY <1>1, <1>5
  <2>4. req'[r].computed = row.start
    BY <1>12, <1>15
  <2> QED
    BY <1>1, <1>2, <1>11, <1>12, <1>18, <1>19, <1>20, <1>21, <2>1, <2>2, <2>3, <2>4, RowAdded
<1>23. plan' \in Seq(BatchRow)
  BY <1>0, <1>10, <1>19, RowsAfter
<1>24. r \notin ToSet(running) /\ running \in Seq(ReqIds) /\ IsInjective(running)
  BY <1>0, <1>5, <1>9 DEF Queues, WithStatus, Types
<1>25. /\ running' \in Seq(ReqIds) /\ ToSet(running') = ToSet(running) \cup {r}
       /\ IsInjective(running')
  BY <1>4, <1>7, <1>24, AppendedSeq
<1>26. Types'
  BY <1>0, <1>1, <1>4, <1>11, <1>22, <1>23, <1>25 DEF Types
<1>27. Phases'
  BY <1>0, <1>1, <1>9, <1>10 DEF Phases
<1>28. Queues'
  <2>1. /\ WithStatus(InQueues)' = WithStatus(InQueues) \ {r}
        /\ WithStatus({"running"})' = WithStatus({"running"}) \cup {r}
        /\ WithStatus({"streaming"})' = WithStatus({"streaming"}) \ {r}
    <3>1. \A s \in ReqIds \ {r} : req'[s].status = req[s].status
      BY <1>11
    <3> QED  BY <1>4, <1>12, <3>1, StatusChanged DEF InQueues
  <2>2. WithStatus({"streaming"})' = WithStatus({"streaming"})
    BY <1>5, <2>1 DEF WithStatus
  <2>3. Stopped' = {}
    BY <1>1, <1>9 DEF Stopped
  <2>4. \A s \in ToSet(waiting') : req'[s].status # "remote"
    <3>1. \A s \in ToSet(waiting) : s \in ReqIds
      BY <1>0 DEF Types, ToSet
    <3> QED  BY <1>0, <1>4, <1>11, <3>1 DEF Queues
  <2>5. /\ ToSet(waiting) \cap ToSet(skipped) = {}
        /\ ToSet(waiting) \cap ToSet(step_skipped) = {}
        /\ ToSet(skipped) \cap ToSet(step_skipped) = {}
        /\ ToSet(waiting) \cup ToSet(skipped) \cup ToSet(step_skipped) = WithStatus(InQueues)
        /\ ToSet(running) = WithStatus({"running"})
        /\ num_streaming = Cardinality(WithStatus({"streaming"})) /\ IsInjective(step_skipped)
    BY <1>0, <1>9 DEF Queues
  <2>6. /\ ToSet(waiting') \cap ToSet(skipped') = {}
        /\ ToSet(waiting') \cap ToSet(step_skipped') = {}
        /\ ToSet(skipped') \cap ToSet(step_skipped') = {}
        /\ ToSet(waiting') \cup ToSet(skipped') \cup ToSet(step_skipped') = WithStatus(InQueues)'
        /\ ToSet(running') = WithStatus({"running"})' \cup Stopped'
    BY <1>1, <1>4, <1>25, <2>1, <2>3, <2>5
  <2> QED  BY <1>1, <1>4, <1>25, <2>2, <2>4, <2>5, <2>6 DEF Queues, InQueues
<1>29. Batch'
  BY <1>1, <1>22 DEF Batch
<1> QED  BY <1>22, <1>26, <1>27, <1>28, <1>29 DEF IInv

LEMMA StartLoadKeeps == ASSUME SyncUnshared, IInv, StartLoad PROVE IInv'
<1>0. /\ Types /\ Phases /\ Queues /\ Inv_Counters /\ Batch /\ Outcome /\ Transfers /\ Sharing
      /\ RowsReadRight /\ ComputedIsRight /\ CachedIsRight /\ OutputIsRight
  BY DEF IInv
<1> DEFINE head == Next1
<1>r. PICK r : r = head
  OBVIOUS
<1> DEFINE k == Len(Hit(r))
           local == k * BlockSize
           t == Base(r)
<1>1. /\ pc = "waiting" /\ pc' = "waiting" /\ at' = at /\ plan' = plan
      /\ flight' = flight /\ out' = out /\ running' = running
      /\ num_streaming' = num_streaming /\ finished_ids' = finished_ids
      /\ received' = received /\ failed' = failed /\ cached' = cached
      /\ sending' = sending /\ faults' = faults /\ good' = good
      /\ MayAdmit /\ ~Blocked(r) /\ req[r].computed = 0 /\ Pop
  BY <1>r DEF StartLoad, MayAdmit, env, ghosts
<1>2. tainted' = tainted
  BY Zenon DEF StartLoad, ghosts
<1>3. PICK e \in Offers(head, Len(Hit(head)) * BlockSize, "async") :
        LET at0 == Len(Hit(head)) * BlockSize
            table == Extended(Base(head), at0 + e)
        IN /\ Fits(Base(head), at0 + e)
           /\ req' = [req EXCEPT ![head].status = "remote", ![head].table = table,
                                 ![head].computed = at0 + e]
           /\ loading' = [q \in DOMAIN loading \cup {head} |->
                            IF q = head THEN Places(table, at0, at0 + e) ELSE loading[q]]
           /\ step_skipped' = <<head>> \o step_skipped
  BY Zenon DEF StartLoad
<1>4. /\ r \in ReqIds /\ req[r].status \in InQueues
      /\ waiting' \in Seq(ReqIds) /\ skipped' \in Seq(ReqIds)
      /\ IsInjective(waiting') /\ IsInjective(skipped')
      /\ ToSet(waiting') = ToSet(waiting) \ {r}
      /\ ToSet(skipped') = ToSet(skipped) \ {r}
      /\ r \notin ToSet(step_skipped) /\ r \in ToSet(waiting) \cup ToSet(skipped)
  BY <1>0, <1>1, <1>r, PopFacts
<1> HIDE DEF head
<1>5. req[r].status \in {"waiting", "preempted"}
  BY <1>1, <1>4 DEF Blocked, InQueues
<1> DEFINE u == Extended(t, local + e)
           load == Places(u, local, local + e)
<1>6. /\ e \in Offers(r, local, "async") /\ Fits(t, local + e)
      /\ req' = [req EXCEPT ![r].status = "remote", ![r].table = u, ![r].computed = local + e]
      /\ loading' = [q \in DOMAIN loading \cup {r} |-> IF q = r THEN load ELSE loading[q]]
      /\ step_skipped' = <<r>> \o step_skipped
  BY <1>3, <1>r
<1>7. /\ t \in Seq(Blocks) /\ Hit(r) \in Seq(Blocks) /\ k <= Len(t)
      /\ local < req[r].tokens
      /\ ToSet(t) \subseteq ToSet(req[r].table) \cup cached
      /\ Agree(r, t, r, t)
      /\ \A s \in ReqIds : Agree(r, t, s, req[s].table)
      /\ \/ k = 0 /\ t = req[r].table
         \/ req[r].tokens # 1 /\ t = Hit(r)
      /\ \A p \in Places(t, 0, local) : p \in Everything
  BY <1>0, <1>1, <1>4, <1>5, BaseFacts
<1>8. k \in Nat /\ local \in Nat /\ (k = 0 => local = 0)
  BY <1>7, Sizes
<1>9. e \in Nat \ {0} /\ local + e <= req[r].tokens /\ local + e \in Nat
  BY <1>6, <1>8, Sizes DEF Offers
<1> HIDE DEF t
<1>10. /\ Grown(t, u) /\ local + e <= Len(u) * BlockSize /\ u \in Seq(Blocks) /\ Len(u) \in Nat
       /\ Len(u) = Len(t) \/ Len(u) = BlocksFor(local + e)
  BY <1>6, <1>7, <1>9, ExtendedFacts DEF Grown
<1>11. /\ req[r].tokens \in Nat \ {0} /\ req[r].table \in Seq(Blocks)
       /\ req[r].tokens # 1 => req[r].table = <<>>
       /\ req[r].tokens = 1 => req[r].table = <<>> \/ Alone(r)
       /\ r \notin failed \cup received
  BY <1>0, <1>1, <1>4, <1>5, ReqFacts DEF Inv_Counters, Counters
<1>12. /\ out = None /\ Stopped = {} /\ DOMAIN out.rows = {} /\ Moving = DOMAIN loading
       /\ out.failed = {} /\ out.done = {} /\ out.sent = {}
  BY <1>0, <1>1, NoOutput
<1>13. flight = <<>> /\ Rows = plan /\ Rows' = Rows
  BY <1>0, <1>1 DEF Phases, Rows
<1> HIDE DEF u, load, local
<1>14. /\ req' \in [ReqIds -> Request]
       /\ req'[r] = [req[r] EXCEPT !.status = "remote", !.table = u, !.computed = local + e]
       /\ \A s \in ReqIds \ {r} : req'[s] = req[s]
  <2>1. req \in [ReqIds -> Request]
    BY <1>0 DEF Types
  <2>2. [req[r] EXCEPT !.status = "remote", !.table = u, !.computed = local + e] \in Request
    BY <1>4, <1>9, <1>10, <2>1 DEF Request, Statuses
  <2> QED  BY <1>4, <1>6, <2>1, <2>2
<1>15. /\ req'[r].table = u /\ req'[r].status = "remote" /\ req'[r].computed = local + e
       /\ req'[r].tokens = req[r].tokens
  BY <1>0, <1>4, <1>14, ReqFacts DEF Request
<1>16. r \notin DOMAIN loading /\ r \notin sending
  BY <1>0, <1>5, <1>12 DEF Transfers
<1>17. /\ DOMAIN loading' = DOMAIN loading \cup {r} /\ loading'[r] = load
       /\ \A s \in DOMAIN loading : loading'[s] = loading[s]
  BY <1>6, <1>16
<1>18. ToSet(req[r].table) \subseteq ToSet(t)
  <2>1. ToSet(<<>>) = {}
    BY DEF ToSet
  <2> QED  BY <1>7, <1>11, <2>1
<1>19. \A i \in DOMAIN Rows : Rows[i].req # r
  BY <1>0, <1>1, <1>5, RowBlocks
<1>20. Grows(r, t)
  BY <1>1, <1>4, <1>7, <1>10, <1>14, <1>15, <1>17, <1>18, <1>19 DEF Grows
<1>21. /\ Sharing' /\ Extends({r}) /\ Held \subseteq Held' /\ cached' \in SUBSET Held'
       /\ \A s \in ReqIds \ {r} : Counters(s)'
       /\ \A s \in DOMAIN loading \ {r} : \A p \in loading[s] :
            Exclusive(p[1], s)' /\ \A i \in DOMAIN Rows' : p[1] \notin ToSet(Rows'[i].table)
       /\ \A i \in DOMAIN Rows : Planned(Rows[i])'
  BY <1>13, <1>20, GrowthFacts
<1>22. /\ \A p \in Everything : p[1] \in Held' => p \in Everything'
       /\ \A i \in DOMAIN Rows : \A p \in Places(Rows[i].table, 0, Rows[i].start) :
            p[1] \in Held' => p \in Coming(i)'
       /\ \A s \in ReqIds \ {r} : Live(s)' =>
            \A p \in Places(req'[s].table, 0, req'[s].computed) :
              p \in Everything' \/ (s \in DOMAIN loading' /\ p \in loading'[s])
  BY <1>0, <1>21, StaysRight
(* What r loads into is its own.                                             *)
<1>23. ASSUME NEW m \in local .. (local + e) - 1
       PROVE  LET i == m \div BlockSize + 1
              IN /\ i \in DOMAIN u
                 /\ i > Len(t) \/ (i = 1 /\ Len(t) = 1 /\ Alone(r) /\ u[1] = req[r].table[1])
  <2> DEFINE i == m \div BlockSize + 1
  <2>1. m \in Nat /\ m < Len(u) * BlockSize
    <3>1. Len(u) * BlockSize \in Nat
      BY <1>10, Sizes
    <3> QED  BY <1>8, <1>9, <1>10, <3>1
  <2>2. i \in 1 .. Len(u) /\ m \div BlockSize \in Nat
    BY <1>10, <2>1, Covered
  <2>3. CASE t = <<>>
    <3>1. Len(t) = 0
      BY <2>3
    <3> QED  BY <1>10, <2>2, <3>1
  <2>4. CASE t # <<>>
    <3>1. CASE k = 0 /\ t = req[r].table
      <4>1. req[r].tokens = 1 /\ Alone(r) /\ Len(t) = 1
        BY <1>11, <2>4, <3>1 DEF Alone
      <4>2. m = 0
        BY <1>8, <1>9, <3>1, <4>1
      <4>3. i = 1
        BY <4>2, Sizes, PositionOf, <2>1, <2>2, Covered
      <4>4. u[1] = t[1]
        <5>1. 1 \in DOMAIN t
          BY <1>7, <4>1
        <5> QED  BY <1>10, <5>1 DEF Grown
      <4> QED  BY <1>10, <2>2, <3>1, <4>1, <4>3, <4>4
    <3>2. CASE t = Hit(r)
      <4>1. Len(t) = k
        BY <3>2
      <4>2. m >= k * BlockSize
        BY <1>8, <1>9 DEF local
      <4>3. k <= m \div BlockSize
        <5>1. (k * BlockSize) \div BlockSize = k
          <6>1. 0 \in Offsets
            BY Sizes DEF Offsets
          <6>2. (k * BlockSize + 0) \div BlockSize = k
            BY <1>8, <6>1, PositionOf
          <6>3. k * BlockSize + 0 = k * BlockSize
            BY <1>8, Sizes
          <6> QED  BY <6>2, <6>3
        <5>2. k * BlockSize \in Nat
          BY <1>8, Sizes
        <5> QED  BY <2>1, <4>2, <5>1, <5>2, BlockOrder
      <4> QED  BY <1>8, <1>10, <2>2, <4>1, <4>3
    <3> QED  BY <1>7, <3>1, <3>2
  <2> QED  BY <2>3, <2>4
<1>24. ASSUME NEW b, NEW i \in DOMAIN u, b = u[i],
              i > Len(t) \/ (i = 1 /\ Alone(r) /\ u[1] = req[r].table[1])
       PROVE  Exclusive(b, r)' /\ \A j \in DOMAIN Rows' : b \notin ToSet(Rows'[j].table)
  <2>1. b \in ToSet(req'[r].table)
    BY <1>15, <1>24 DEF ToSet
  <2>2. b \notin cached /\ \A s \in ReqIds \ {r} : b \notin ToSet(req[s].table)
    <3>1. CASE i > Len(t)
      <4>1. b \notin Held
        BY <1>10, <1>24, <3>1 DEF Grown
      <4> QED  BY <1>0, <4>1, HeldBy DEF Types
    <3>2. CASE i = 1 /\ Alone(r) /\ u[1] = req[r].table[1]
      BY <1>24, <3>2 DEF Alone
    <3> QED  BY <1>24, <3>1, <3>2
  <2>3. Exclusive(b, r)'
    <3>1. \A s \in ReqIds \ {r} : b \notin ToSet(req'[s].table)
      BY <1>14, <2>2
    <3> QED  BY <1>1, <2>1, <2>2, <3>1 DEF Exclusive
  <2>4. \A j \in DOMAIN Rows' : b \notin ToSet(Rows'[j].table)
    BY <1>0, <1>1, <1>13, <1>19, <2>2, RowBlocks
  <2> QED  BY <2>3, <2>4
<1>25. ASSUME NEW p \in load
       PROVE  /\ p \in Slots
              /\ Exclusive(p[1], r)' /\ \A j \in DOMAIN Rows' : p[1] \notin ToSet(Rows'[j].table)
  <2>1. PICK m \in local .. (local + e) - 1 : p = At(u, m)
    BY DEF load, Places
  <2>2. p[1] = u[m \div BlockSize + 1]
    BY <2>1 DEF At
  <2>3. p \in Slots
    BY <1>8, <1>9, <1>10, PlacesFacts DEF load
  <2> QED  BY <1>23, <1>24, <2>2, <2>3
<1>26. ComputedIsRight'
  <2>1. ASSUME NEW p \in Places(u, 0, local + e)
        PROVE  p \in Everything' \/ (r \in DOMAIN loading' /\ p \in loading'[r])
    <3>1. PICK m \in 0 .. (local + e) - 1 : p = At(u, m)
      BY <2>1 DEF Places
    <3>2. CASE m < local
      <4>1. p \in Places(u, 0, local)
        BY <1>8, <3>1, <3>2 DEF Places
      <4>2. /\ Len(t) <= Len(u) /\ Len(t) \in Nat
            /\ \A i \in 1 .. Len(t) : t[i] = u[i]
        BY <1>7, <1>10 DEF Grown
      <4>3. local <= Len(t) * BlockSize
        BY <1>7, <1>8, <4>2, Sizes, Monotone DEF local
      <4>4. Places(t, 0, local) = Places(u, 0, local)
        BY <1>7, <1>8, <1>10, <4>2, <4>3, SamePlaces
      <4>5. p \in Everything /\ p[1] \in ToSet(t)
        BY <1>7, <1>8, <4>1, <4>3, <4>4, PlacesFacts
      <4>6. p[1] \in Held'
        <5>1. p[1] \in ToSet(req[r].table) \/ p[1] \in cached
          BY <1>7, <4>5
        <5> QED  BY <1>0, <1>4, <1>21, <5>1, HeldBy DEF Types
      <4> QED  BY <1>22, <4>5, <4>6
    <3>3. CASE m >= local
      BY <1>8, <1>9, <1>17, <3>1, <3>3 DEF Places, load
    <3> QED  BY <1>8, <3>1, <3>2, <3>3
  <2> QED  BY <1>15, <1>22, <2>1 DEF ComputedIsRight, Places, At
<1>27. RowsReadRight'
  BY <1>13, <1>22 DEF RowsReadRight, Places, At
<1>28. CachedIsRight'
  <2> SUFFICES ASSUME "sync" \notin Loads, NEW b \in cached', NEW o \in Offsets
               PROVE  <<b, o>> \in Everything'
    BY DEF CachedIsRight
  <2>1. <<b, o>> \in Everything /\ <<b, o>>[1] \in Held'
    BY <1>0, <1>1, <1>21 DEF CachedIsRight
  <2> QED  BY <1>22, <2>1
<1>29. Inv_Counters'
  <2>1. req[r].tokens = 1 => Alone(r)'
    <3> SUFFICES ASSUME req[r].tokens = 1 PROVE Alone(r)'
      OBVIOUS
    <3>1. k = 0 /\ t = req[r].table /\ local + e = 1 /\ local = 0
      BY <1>7, <1>8, <1>9
    <3>2. Len(t) = 0 \/ (Len(t) = 1 /\ Alone(r))
      BY <1>11, <3>1 DEF Alone
    <3>3. Len(u) # 0
      BY <1>10, <3>1, Sizes
    <3>4. Len(u) = 1
      BY <1>10, <3>1, <3>2, <3>3, OneBlock
    <3>5. 1 \in DOMAIN u
      BY <1>10, <3>4
    <3>6. Len(t) = 1 => u[1] = req[r].table[1]
      BY <1>7, <1>10, <3>1 DEF Grown
    <3>7. PICK b : b = u[1]
      OBVIOUS
    <3>8. Exclusive(b, r)'
      <4>1. 1 > Len(t) \/ (1 = 1 /\ Alone(r) /\ u[1] = req[r].table[1])
        BY <3>2, <3>6
      <4> QED  BY <1>24, <3>5, <3>7, <4>1
    <3> QED  BY <1>15, <3>4, <3>7, <3>8 DEF Alone, Exclusive
  <2>2. Counters(r)'
    BY <1>1, <1>8, <1>9, <1>10, <1>11, <1>15, <2>1 DEF Counters
  <2> QED  BY <1>21, <2>2 DEF Inv_Counters
<1>30. Transfers'
  <2>1. Moving' = DOMAIN loading'
    BY <1>1, <1>12 DEF Moving
  <2>2. \A s \in DOMAIN loading' : req'[s].status \in {"remote", "finished"} /\ s \notin received'
    <3>1. \A s \in DOMAIN loading : s \in ReqIds \ {r}
      BY <1>0, <1>16 DEF Types
    <3> QED  BY <1>0, <1>1, <1>11, <1>12, <1>14, <1>15, <1>17, <3>1 DEF Transfers
  <2>3. \A s \in sending : req'[s].status = "finished"
    <3>1. \A s \in sending : s \in ReqIds \ {r}
      BY <1>0, <1>16 DEF Types
    <3> QED  BY <1>0, <1>14, <3>1 DEF Transfers
  <2>4. \A s \in ReqIds :
          /\ req'[s].status = "finished" => s \in sending \cup DOMAIN loading'
          /\ req'[s].status = "remote" => s \in received \cup DOMAIN loading'
    BY <1>0, <1>12, <1>14, <1>15, <1>17 DEF Transfers
  <2>5. \A s \in DOMAIN loading' : \A p \in loading'[s] :
       /\ p[1] \in ToSet(req'[s].table) /\ p[1] \notin cached'
       /\ \A q \in ReqIds \ {s} : p[1] \notin ToSet(req'[q].table)
       /\ \A i \in DOMAIN Rows' : p[1] \notin ToSet(Rows'[i].table)
    <3> SUFFICES ASSUME NEW s \in DOMAIN loading', NEW p \in loading'[s]
                 PROVE  Exclusive(p[1], s)' /\ \A i \in DOMAIN Rows' : p[1] \notin ToSet(Rows'[i].table)
      BY DEF Exclusive
    <3>1. CASE s = r
      BY <1>17, <1>25, <3>1
    <3>2. CASE s # r
      BY <1>17, <1>21, <3>2
    <3> QED  BY <3>1, <3>2
  <2>6. sending \cap DOMAIN loading' = {}
    BY <1>0, <1>12, <1>16, <1>17 DEF Transfers
  <2>7. out'.sent = {} /\ out'.done = {}
    BY <1>1, <1>12
  <2> QED  BY <1>1, <2>1, <2>2, <2>3, <2>4, <2>5, <2>6, <2>7 DEF Transfers
<1>31. /\ step_skipped' \in Seq(ReqIds) /\ ToSet(step_skipped') = ToSet(step_skipped) \cup {r}
       /\ IsInjective(step_skipped')
  BY <1>0, <1>4, <1>6, PushedSeq DEF Types, Queues
<1>32. Types'
  <2>1. DOMAIN loading' \in SUBSET ReqIds /\ \A s \in DOMAIN loading' : loading'[s] \in SUBSET Slots
    BY <1>0, <1>4, <1>17, <1>25 DEF Types
  <2> QED  BY <1>0, <1>1, <1>4, <1>14, <1>21, <1>31, <2>1 DEF Types
<1>33. Phases'
  BY <1>0, <1>1, <1>12 DEF Phases
<1>34. Queues'
  <2>1. /\ WithStatus(InQueues)' = WithStatus(InQueues) \cup {r}
        /\ WithStatus({"running"})' = WithStatus({"running"}) \ {r}
        /\ WithStatus({"streaming"})' = WithStatus({"streaming"}) \ {r}
    <3>1. \A s \in ReqIds \ {r} : req'[s].status = req[s].status
      BY <1>14
    <3> QED  BY <1>4, <1>15, <3>1, StatusChanged DEF InQueues
  <2>2. /\ WithStatus({"streaming"})' = WithStatus({"streaming"})
        /\ WithStatus({"running"})' = WithStatus({"running"})
        /\ WithStatus(InQueues)' = WithStatus(InQueues)
    BY <1>4, <1>5, <2>1 DEF WithStatus
  <2>3. Stopped' = Stopped
    BY <1>1 DEF Stopped
  <2>4. \A s \in ToSet(waiting') : req'[s].status # "remote"
    <3>1. \A s \in ToSet(waiting) : s \in ReqIds
      BY <1>0 DEF Types, ToSet
    <3> QED  BY <1>0, <1>4, <1>14, <3>1 DEF Queues
  <2>5. /\ ToSet(waiting) \cap ToSet(skipped) = {}
        /\ ToSet(waiting) \cap ToSet(step_skipped) = {}
        /\ ToSet(skipped) \cap ToSet(step_skipped) = {}
        /\ ToSet(waiting) \cup ToSet(skipped) \cup ToSet(step_skipped) = WithStatus(InQueues)
    BY <1>0 DEF Queues
  <2>6. /\ ToSet(waiting') \cap ToSet(skipped') = {}
        /\ ToSet(waiting') \cap ToSet(step_skipped') = {}
        /\ ToSet(skipped') \cap ToSet(step_skipped') = {}
        /\ ToSet(waiting') \cup ToSet(skipped') \cup ToSet(step_skipped') = WithStatus(InQueues)
    BY <1>4, <1>31, <2>5
  <2> QED  BY <1>0, <1>1, <1>4, <1>31, <2>2, <2>3, <2>4, <2>6 DEF Queues, InQueues
<1>35. Batch'
  BY <1>0, <1>1, <1>13, <1>21 DEF Batch
<1>36. Outcome' /\ OutputIsRight'
  BY <1>0, <1>1, <1>2, <1>12 DEF Outcome, OutputIsRight, Stopped
<1> QED
  BY <1>21, <1>26, <1>27, <1>28, <1>29, <1>30, <1>32, <1>33, <1>34, <1>35, <1>36 DEF IInv

-----------------------------------------------------------------------------
(* Steps in which tables stay or are freed.                                  *)
Frees(S) ==
  /\ S \in SUBSET ReqIds /\ Rows' = Rows /\ loading' = loading
  /\ \/ Free(S)
     \/ (\A s \in S : req[s].table = <<>>) /\ cached' = cached /\ good' = good
  /\ \A s \in S : req'[s].table = <<>> /\ (Live(s)' => req'[s].computed = 0)
  /\ \A s \in ReqIds \ S :
       /\ req'[s].table = req[s].table
       /\ Live(s)' => Live(s) /\ req'[s].computed \in Nat /\ req'[s].computed <= req[s].computed

LEMMA FreeFacts ==
  ASSUME IInv, NEW S, Frees(S)
  PROVE  /\ Held' \subseteq Held /\ cached' \in SUBSET Held' /\ cached' \subseteq cached
         /\ good' \in SUBSET good
         /\ Sharing' /\ RowsReadRight' /\ ComputedIsRight' /\ CachedIsRight'
         /\ \A s \in ReqIds \ S : Alone(s) => Alone(s)'
         /\ \A s \in DOMAIN loading \ S : \A p \in loading[s] :
              Exclusive(p[1], s)' /\ \A i \in DOMAIN Rows' : p[1] \notin ToSet(Rows'[i].table)
<1>0. /\ Types /\ Inv_Counters /\ Batch /\ Sharing /\ RowsReadRight /\ ComputedIsRight
      /\ CachedIsRight /\ Transfers /\ S \in SUBSET ReqIds /\ Rows' = Rows /\ loading' = loading
  BY DEF IInv, Frees
<1>1. /\ \A s \in S : req'[s].table = <<>>
      /\ \A s \in ReqIds \ S : req'[s].table = req[s].table
  BY DEF Frees
<1>2. /\ Held' \subseteq Held
      /\ cached' \in SUBSET Held' /\ cached' \in SUBSET cached
      /\ good' \in SUBSET good /\ \A p \in good : p[1] \in Held' => p \in good'
      /\ \A s \in ReqIds : req'[s].table = req[s].table \/ req'[s].table = <<>>
      /\ \A s \in ReqIds : ToSet(req'[s].table) \subseteq ToSet(req[s].table)
  <2>1. CASE Free(S)
    BY <1>0, <1>1, <2>1, FreedFacts
  <2>2. CASE (\A s \in S : req[s].table = <<>>) /\ cached' = cached /\ good' = good
    <3>1. \A s \in ReqIds : req'[s].table = req[s].table
      BY <1>1, <2>2
    <3>2. Held' = Held
      BY <3>1, HeldBy, HeldByNext
    <3> QED  BY <1>0, <2>2, <3>1, <3>2 DEF Types
  <2> QED  BY <2>1, <2>2 DEF Frees
<1>3. Sharing'
  BY <1>0, <1>2, SharingFreed
<1>4. Extends(S)
  <2>1. ASSUME NEW s \in ReqIds \ S, Live(s)'
        PROVE  /\ Live(s) /\ req'[s].table = req[s].table
               /\ req'[s].computed \in Nat /\ req'[s].computed <= req[s].computed
    BY <2>1 DEF Frees
  <2>2. Rows' \in Seq(BatchRow)
    BY <1>0, RowsType
  <2> QED  BY <1>0, <1>2, <2>1, <2>2 DEF Extends
<1>5. /\ \A p \in Everything : p[1] \in Held' => p \in Everything'
      /\ \A i \in DOMAIN Rows : \A p \in Places(Rows[i].table, 0, Rows[i].start) :
           p[1] \in Held' => p \in Coming(i)'
      /\ \A s \in ReqIds \ S : Live(s)' =>
           \A p \in Places(req'[s].table, 0, req'[s].computed) :
             p \in Everything' \/ (s \in DOMAIN loading' /\ p \in loading'[s])
  BY <1>0, <1>4, StaysRight
<1>6. RowsReadRight'
  BY <1>0, <1>5 DEF RowsReadRight, Places, At
<1>7. ComputedIsRight'
  <2>1. ASSUME NEW s \in S, Live(s)' PROVE Places(req'[s].table, 0, req'[s].computed) = {}
    <3>1. req'[s].computed = 0 /\ 0 .. 0 - 1 = {}
      BY <2>1 DEF Frees
    <3> QED  BY <3>1 DEF Places
  <2> QED  BY <1>5, <2>1 DEF ComputedIsRight, Places, At
<1>8. CachedIsRight'
  <2> SUFFICES ASSUME "sync" \notin Loads, NEW b \in cached', NEW o \in Offsets
               PROVE  <<b, o>> \in Everything'
    BY DEF CachedIsRight
  <2>1. <<b, o>> \in Everything /\ <<b, o>>[1] \in Held'
    BY <1>0, <1>2 DEF CachedIsRight
  <2> QED  BY <1>5, <2>1
<1>9. ASSUME NEW s \in ReqIds \ S, NEW b, Exclusive(b, s) PROVE Exclusive(b, s)'
  BY <1>1, <1>2, <1>9, ExclusiveKept
<1>10. ASSUME NEW s \in ReqIds \ S, Alone(s) PROVE Alone(s)'
  <2>1. Len(req[s].table) = 1 /\ Exclusive(req[s].table[1], s)
    BY <1>10, AloneIsExclusive
  <2>2. PICK b : b = req[s].table[1]
    OBVIOUS
  <2>3. Exclusive(b, s)'
    BY <1>9, <2>1, <2>2
  <2>4. req'[s].table = req[s].table
    BY <1>1
  <2> QED  BY <2>1, <2>2, <2>3, <2>4 DEF Alone, Exclusive
<1>11. ASSUME NEW s \in DOMAIN loading \ S, NEW p \in loading[s]
       PROVE  Exclusive(p[1], s)' /\ \A i \in DOMAIN Rows' : p[1] \notin ToSet(Rows'[i].table)
  <2>1. Exclusive(p[1], s) /\ \A i \in DOMAIN Rows : p[1] \notin ToSet(Rows[i].table)
    BY <1>0 DEF Transfers, Exclusive
  <2>2. s \in ReqIds \ S
    BY <1>0 DEF Types
  <2> QED  BY <1>0, <1>9, <2>1, <2>2
<1> QED  BY <1>2, <1>3, <1>6, <1>7, <1>8, <1>10, <1>11

(* The requests that stay as they are keep their counters.                   *)
LEMMA CountersKept ==
  ASSUME NEW s \in ReqIds, Counters(s), req'[s] = req[s], Alone(s) => Alone(s)',
         s \in failed' <=> s \in failed, s \in received' => s \in received,
         s \in out.failed => s \in out'.failed
  PROVE  Counters(s)'
<1>1. Live(s)' => Live(s)
  BY DEF Live, Known
<1> QED  BY <1>1 DEF Counters

LEMMA PreemptedRequest ==
  ASSUME NEW rec \in Request, NEW x \in BOOLEAN
  PROVE  [rec EXCEPT !.status = "preempted", !.computed = 0, !.table = <<>>,
                     !.preempted = x] \in Request
<1>1. <<>> \in Seq(Blocks) /\ "preempted" \in Statuses
  BY DEF Statuses
<1> QED  BY <1>1 DEF Request

LEMMA PreemptKeeps == ASSUME IInv, Preempt PROVE IInv'
<1>0. /\ Types /\ Phases /\ Queues /\ Inv_Counters /\ Batch /\ Outcome /\ Transfers /\ Sharing
      /\ RowsReadRight /\ ComputedIsRight /\ CachedIsRight /\ OutputIsRight
  BY DEF IInv
<1>1. /\ pc = "running" /\ pc' \in {"running", "commit"} /\ at <= Len(running) /\ at' = at
      /\ plan' = plan /\ flight' = flight /\ step_skipped' = step_skipped /\ out' = out
      /\ skipped' = skipped
      /\ num_streaming' = num_streaming /\ finished_ids' = finished_ids
      /\ received' = received /\ failed' = failed /\ loading' = loading
      /\ sending' = sending /\ faults' = faults
  BY DEF Preempt, recvs, env
<1>2. tainted' = tainted
  BY Zenon DEF Preempt
<1>3. PICK v : v = Last(running)
  OBVIOUS
<1>4. /\ req' = [req EXCEPT ![v].status = "preempted", ![v].computed = 0,
                           ![v].table = <<>>, ![v].preempted = TRUE]
      /\ Free({v}) /\ running' = Front(running) /\ waiting' = <<v>> \o waiting
  BY <1>3, Zenon DEF Preempt
<1>5. /\ at \in Nat \ {0} /\ running \in Seq(ReqIds) /\ at \in DOMAIN running
      /\ DOMAIN running = 1 .. Len(running) /\ IsInjective(running) /\ running # <<>>
  BY <1>0, <1>1 DEF Types, Queues
<1>6. /\ v \in ReqIds /\ v \in ToSet(running) /\ v = running[Len(running)]
      /\ running' \in Seq(ReqIds) /\ Len(running') = Len(running) - 1
      /\ \A i \in 1 .. Len(running) - 1 : running'[i] = running[i]
      /\ ToSet(running) = ToSet(running') \cup {v}
      /\ IsInjective(running') /\ v \notin ToSet(running')
  BY <1>3, <1>4, <1>5, CutSeq
<1>7. /\ out = None /\ Stopped = {} /\ DOMAIN out.rows = {} /\ Moving = DOMAIN loading
      /\ out.failed = {} /\ out.done = {} /\ out.sent = {}
  BY <1>0, <1>1, NoOutput
<1>8. req[v].status = "running"
  BY <1>0, <1>6, <1>7 DEF Queues, WithStatus
<1>9. Rows' = Rows /\ flight = <<>>
  BY <1>0, <1>1 DEF Rows, Phases
<1>10. /\ req' \in [ReqIds -> Request]
       /\ req'[v] = [req[v] EXCEPT !.status = "preempted", !.computed = 0, !.table = <<>>,
                                   !.preempted = TRUE]
       /\ \A s \in ReqIds \ {v} : req'[s] = req[s]
  <2>1. req \in [ReqIds -> Request]
    BY <1>0 DEF Types
  <2>2. [req[v] EXCEPT !.status = "preempted", !.computed = 0, !.table = <<>>,
                       !.preempted = TRUE] \in Request
    <3>1. req[v] \in Request /\ TRUE \in BOOLEAN
      BY <1>6, <2>1
    <3> QED  BY <3>1, PreemptedRequest, Zenon
  <2> QED  BY <1>4, <1>6, <2>1, <2>2
<1>11. /\ req'[v].table = <<>> /\ req'[v].status = "preempted" /\ req'[v].computed = 0
       /\ req'[v].tokens = req[v].tokens /\ req[v].tokens \in Nat \ {0}
  BY <1>0, <1>6, <1>10, ReqFacts DEF Request
<1>12. \A i \in DOMAIN Rows :
         /\ Rows[i].req # v
         /\ \E j \in DOMAIN running' : j < at /\ running'[j] = Rows[i].req
  <2> SUFFICES ASSUME NEW i \in DOMAIN Rows
               PROVE  /\ Rows[i].req # v
                      /\ \E j \in DOMAIN running' : j < at /\ running'[j] = Rows[i].req
    OBVIOUS
  <2>1. PICK j \in DOMAIN running : j < at /\ running[j] = Rows[i].req
    BY <1>0, <1>1 DEF Batch
  <2>2. j \in 1 .. Len(running) - 1
    BY <1>1, <1>5, <2>1
  <2>3. DOMAIN running' = 1 .. Len(running')
    BY <1>6
  <2>4. j \in DOMAIN running' /\ running'[j] = Rows[i].req
    BY <1>6, <2>1, <2>2, <2>3
  <2> QED  BY <1>6, <2>1, <2>4 DEF ToSet
<1>13. Frees({v})
  <2>1. ASSUME NEW s \in ReqIds \ {v}, Live(s)'
        PROVE  Live(s) /\ req'[s].computed \in Nat /\ req'[s].computed <= req[s].computed
    BY <1>0, <1>10, <2>1, ReqFacts DEF Live, Known
  <2> QED  BY <1>1, <1>4, <1>6, <1>9, <1>10, <1>11, <2>1 DEF Frees
<1>14. /\ Held' \subseteq Held /\ cached' \in SUBSET Held' /\ cached' \subseteq cached
       /\ good' \in SUBSET good
       /\ Sharing' /\ RowsReadRight' /\ ComputedIsRight' /\ CachedIsRight'
       /\ \A s \in ReqIds \ {v} : Alone(s) => Alone(s)'
       /\ \A s \in DOMAIN loading \ {v} : \A p \in loading[s] :
            Exclusive(p[1], s)' /\ \A i \in DOMAIN Rows' : p[1] \notin ToSet(Rows'[i].table)
  BY <1>13, FreeFacts
<1>15. /\ v \notin DOMAIN loading /\ v \notin failed \cup received
       /\ req[v].status # "remote" /\ v \notin sending
  BY <1>0, <1>6, <1>7, <1>8 DEF Transfers, Inv_Counters, Counters
<1>16. Inv_Counters'
  <2>1. ASSUME NEW s \in ReqIds \ {v} PROVE Counters(s)'
    BY <1>0, <1>1, <1>10, <1>14, CountersKept DEF Inv_Counters
  <2>2. Counters(v)'
    BY <1>1, <1>11, <1>15, Sizes DEF Counters
  <2> QED  BY <2>1, <2>2 DEF Inv_Counters
<1>17. Batch'
  <2>1. ASSUME NEW i \in DOMAIN Rows PROVE Planned(Rows[i])'
    <3>1. Planned(Rows[i]) /\ Rows[i].req \in ReqIds /\ Rows[i].req # v
      BY <1>0, <1>12, RowsType DEF Batch
    <3>2. req'[Rows[i].req] = req[Rows[i].req]
      BY <1>10, <3>1
    <3> QED  BY <1>1, <1>9, <3>1, <3>2 DEF Planned, Places, At
  <2> QED  BY <1>0, <1>1, <1>9, <1>12, <2>1 DEF Batch
<1>18. Transfers'
  <2>1. Moving' = DOMAIN loading
    BY <1>1, <1>7 DEF Moving
  <2>2. /\ \A s \in DOMAIN loading : req'[s].status \in {"remote", "finished"} /\ s \notin received
        /\ \A s \in sending : req'[s].status = "finished"
    <3>1. \A s \in DOMAIN loading \cup sending : s \in ReqIds \ {v}
      BY <1>0, <1>15 DEF Types
    <3> QED  BY <1>0, <1>7, <1>10, <3>1 DEF Transfers
  <2>3. \A s \in ReqIds :
          /\ req'[s].status = "finished" => s \in sending \cup DOMAIN loading
          /\ req'[s].status = "remote" => s \in received \cup DOMAIN loading
    BY <1>0, <1>7, <1>10, <1>11 DEF Transfers
  <2>4. \A s \in DOMAIN loading : \A p \in loading[s] :
       /\ p[1] \in ToSet(req'[s].table) /\ p[1] \notin cached'
       /\ \A q \in ReqIds \ {s} : p[1] \notin ToSet(req'[q].table)
       /\ \A i \in DOMAIN Rows' : p[1] \notin ToSet(Rows'[i].table)
    <3> SUFFICES ASSUME NEW s \in DOMAIN loading, NEW p \in loading[s]
                 PROVE  Exclusive(p[1], s)' /\ \A i \in DOMAIN Rows' : p[1] \notin ToSet(Rows'[i].table)
      BY DEF Exclusive
    <3> QED  BY <1>14, <1>15
  <2>5. sending \cap DOMAIN loading = {} /\ out'.sent = {} /\ out'.done = {}
    BY <1>0, <1>1, <1>7 DEF Transfers
  <2> QED  BY <1>1, <2>1, <2>2, <2>3, <2>4, <2>5 DEF Transfers
<1>19. /\ waiting \in Seq(ReqIds) /\ IsInjective(waiting) /\ v \notin ToSet(waiting)
  BY <1>0, <1>8 DEF Types, Queues, WithStatus, InQueues
<1>20. /\ waiting' \in Seq(ReqIds) /\ ToSet(waiting') = ToSet(waiting) \cup {v}
       /\ IsInjective(waiting')
  BY <1>4, <1>6, <1>19, PushedSeq
<1>21. Types'
  BY <1>0, <1>1, <1>6, <1>10, <1>14, <1>20 DEF Types
<1>22. Phases'
  BY <1>0, <1>1, <1>7, <1>9 DEF Phases
<1>23. Queues'
  <2>1. /\ WithStatus(InQueues)' = WithStatus(InQueues) \cup {v}
        /\ WithStatus({"running"})' = WithStatus({"running"}) \ {v}
        /\ WithStatus({"streaming"})' = WithStatus({"streaming"}) \ {v}
    <3>1. \A s \in ReqIds \ {v} : req'[s].status = req[s].status
      BY <1>10
    <3> QED  BY <1>6, <1>11, <3>1, StatusChanged DEF InQueues
  <2>2. WithStatus({"streaming"})' = WithStatus({"streaming"})
    BY <1>8, <2>1 DEF WithStatus
  <2>3. Stopped' = {}
    BY <1>1, <1>7 DEF Stopped
  <2>4. \A s \in ToSet(waiting') : req'[s].status # "remote"
    <3>1. \A s \in ToSet(waiting) : s \in ReqIds
      BY <1>0 DEF Types, ToSet
    <3> QED  BY <1>0, <1>10, <1>11, <1>20, <3>1 DEF Queues
  <2>5. /\ ToSet(waiting) \cap ToSet(skipped) = {}
        /\ ToSet(waiting) \cap ToSet(step_skipped) = {}
        /\ ToSet(skipped) \cap ToSet(step_skipped) = {}
        /\ ToSet(waiting) \cup ToSet(skipped) \cup ToSet(step_skipped) = WithStatus(InQueues)
        /\ v \notin WithStatus(InQueues)
        /\ ToSet(running) = WithStatus({"running"})
    BY <1>0, <1>7, <1>8 DEF Queues, WithStatus, InQueues
  <2>6. /\ ToSet(waiting') \cap ToSet(skipped) = {}
        /\ ToSet(waiting') \cap ToSet(step_skipped) = {}
        /\ ToSet(waiting') \cup ToSet(skipped) \cup ToSet(step_skipped) = WithStatus(InQueues)'
        /\ ToSet(running') = WithStatus({"running"})'
    <3>1. v \notin ToSet(waiting) /\ v \notin ToSet(skipped) /\ v \notin ToSet(step_skipped)
      BY <2>5
    <3>2. ToSet(waiting') \cup ToSet(skipped) \cup ToSet(step_skipped) = WithStatus(InQueues)'
      BY <1>20, <2>1, <2>5
    <3>3. ToSet(running') = WithStatus({"running"})'
      <4>1. ToSet(running') = ToSet(running) \ {v}
        BY <1>6
      <4> QED  BY <2>1, <2>5, <4>1
    <3> QED  BY <1>20, <2>5, <3>1, <3>2, <3>3
  <2> QED  BY <1>0, <1>1, <1>6, <1>20, <2>2, <2>3, <2>4, <2>5, <2>6 DEF Queues, InQueues
<1>24. Outcome' /\ OutputIsRight'
  BY <1>0, <1>1, <1>2, <1>7 DEF Outcome, OutputIsRight, Stopped
<1> QED  BY <1>14, <1>16, <1>17, <1>18, <1>21, <1>22, <1>23, <1>24 DEF IInv

LEMMA PromoteKeeps == ASSUME IInv, Promote PROVE IInv'
<1>0. /\ Types /\ Phases /\ Queues /\ Inv_Counters /\ Batch /\ Outcome /\ Transfers /\ Sharing
      /\ RowsReadRight /\ ComputedIsRight /\ CachedIsRight /\ OutputIsRight
  BY DEF IInv
<1>r. PICK r : r = Next1
  OBVIOUS
<1> DEFINE lost == r \in failed /\ req[r].computed = 0
           status == IF req[r].preempted THEN "preempted" ELSE "waiting"
           computed == IF r \in failed THEN req[r].computed ELSE LastToken(r)
           table == IF lost THEN <<>> ELSE req[r].table
<1>1. /\ pc = "waiting" /\ pc' = "waiting" /\ at' = at
      /\ plan' = plan /\ flight' = flight /\ step_skipped' = step_skipped /\ out' = out
      /\ running' = running /\ waiting' = waiting /\ skipped' = skipped
      /\ num_streaming' = num_streaming /\ finished_ids' = finished_ids
      /\ loading' = loading /\ sending' = sending /\ faults' = faults
      /\ MayAdmit /\ Promotable(Next1)
  BY DEF Promote, MayAdmit, queues, locals, env
<1>2. tainted' = tainted
  BY Zenon DEF Promote
<1>3. req[r].status = "remote" /\ r \in received
  BY <1>1, <1>r DEF Promotable
<1>4. /\ req' = [req EXCEPT
             ![Next1].status = IF req[Next1].preempted THEN "preempted" ELSE "waiting",
             ![Next1].computed = IF Next1 \in failed THEN @ ELSE LastToken(Next1),
             ![Next1].table = IF Next1 \in failed /\ req[Next1].computed = 0 THEN <<>> ELSE @]
      /\ IF Next1 \in failed /\ req[Next1].computed = 0 THEN Free({Next1})
         ELSE /\ cached' = cached \cup Full(req[Next1].table, req[Next1].computed)
              /\ UNCHANGED good
      /\ received' = received \ {Next1}
      /\ failed' = failed \ {Next1}
  BY Zenon DEF Promote
<1>5. r \in ReqIds
  BY <1>0, <1>3 DEF Types
<1>6. /\ req' = [req EXCEPT ![r].status = status, ![r].computed = computed, ![r].table = table]
      /\ lost => Free({r})
      /\ ~lost => cached' = cached \cup Full(req[r].table, req[r].computed) /\ good' = good
      /\ received' = received \ {r} /\ failed' = failed \ {r}
  <2> DEFINE head == Next1
  <2> HIDE DEF head
  <2>1. r = head
    BY <1>r DEF head
  <2>2. /\ req' = [req EXCEPT
             ![head].status = IF req[head].preempted THEN "preempted" ELSE "waiting",
             ![head].computed = IF head \in failed THEN @ ELSE LastToken(head),
             ![head].table = IF head \in failed /\ req[head].computed = 0 THEN <<>> ELSE @]
        /\ IF head \in failed /\ req[head].computed = 0 THEN Free({head})
           ELSE /\ cached' = cached \cup Full(req[head].table, req[head].computed)
                /\ UNCHANGED good
        /\ received' = received \ {head}
        /\ failed' = failed \ {head}
    BY <1>4, Zenon DEF head
  <2>3. /\ req' = [req EXCEPT
             ![r].status = IF req[r].preempted THEN "preempted" ELSE "waiting",
             ![r].computed = IF r \in failed THEN @ ELSE LastToken(r),
             ![r].table = IF r \in failed /\ req[r].computed = 0 THEN <<>> ELSE @]
        /\ IF r \in failed /\ req[r].computed = 0 THEN Free({r})
           ELSE /\ cached' = cached \cup Full(req[r].table, req[r].computed)
                /\ UNCHANGED good
        /\ received' = received \ {r}
        /\ failed' = failed \ {r}
    BY <2>1, <2>2, Zenon
  <2>4. req \in [ReqIds -> Request] /\ req[r] \in Request
    BY <1>0, <1>5 DEF Types
  <2> QED  BY <1>5, <2>3, <2>4 DEF Request
<1>7. /\ out = None /\ Stopped = {} /\ DOMAIN out.rows = {} /\ Moving = DOMAIN loading
      /\ out.failed = {} /\ out.done = {} /\ out.sent = {}
  BY <1>0, <1>1, NoOutput
<1>8. /\ req[r].tokens \in Nat \ {0} /\ req[r].computed \in Nat /\ req[r].table \in Seq(Blocks)
      /\ Len(req[r].table) \in Nat
      /\ req[r].computed <= req[r].tokens
      /\ req[r].computed <= Len(req[r].table) * BlockSize
      /\ req[r].tokens = 1 => req[r].table = <<>> \/ Alone(r)
      /\ r \in failed => req[r].computed < req[r].tokens
      /\ r \notin failed => req[r].computed # 0
  <2>1. Live(r)
    BY <1>3, <1>5 DEF Live, Known
  <2> QED  BY <1>0, <1>3, <1>5, <1>7, <2>1, ReqFacts DEF Inv_Counters, Counters
<1>9. /\ computed \in Nat /\ computed < req[r].tokens /\ computed <= req[r].computed
      /\ table \in Seq(Blocks) /\ status \in {"waiting", "preempted"}
      /\ computed = 0 /\ req[r].tokens # 1 => lost
      /\ ~lost /\ req[r].tokens = 1 => req[r].computed = 1
  BY <1>8 DEF LastToken
<1> HIDE DEF computed, table, status
<1>10. /\ req' \in [ReqIds -> Request]
       /\ req'[r] = [req[r] EXCEPT !.status = status, !.computed = computed, !.table = table]
       /\ \A s \in ReqIds \ {r} : req'[s] = req[s]
  <2>1. req \in [ReqIds -> Request]
    BY <1>0 DEF Types
  <2>2. [req[r] EXCEPT !.status = status, !.computed = computed, !.table = table] \in Request
    BY <1>5, <1>9, <2>1 DEF Request, Statuses
  <2> QED  BY <1>5, <1>6, <2>1, <2>2
<1>11. /\ req'[r].table = table /\ req'[r].status = status /\ req'[r].computed = computed
       /\ req'[r].tokens = req[r].tokens
  BY <1>0, <1>5, <1>10, ReqFacts DEF Request
<1>12. Rows' = Rows /\ \A i \in DOMAIN Rows : Rows[i].req # r
  BY <1>0, <1>1, <1>3, RowBlocks DEF Rows
<1>13. /\ r \notin DOMAIN loading /\ r \notin sending
  BY <1>0, <1>3, <1>7 DEF Transfers
<1>14. /\ Sharing' /\ RowsReadRight' /\ ComputedIsRight' /\ CachedIsRight' /\ cached' \in SUBSET Held'
       /\ good' \in SUBSET good
       /\ \A s \in ReqIds \ {r} : Counters(s)'
       /\ \A s \in DOMAIN loading \ {r} : \A p \in loading[s] :
            Exclusive(p[1], s)' /\ \A i \in DOMAIN Rows' : p[1] \notin ToSet(Rows'[i].table)
  <2>1. CASE lost
    <3>1. table = <<>> /\ Free({r}) /\ computed = 0
      BY <1>6, <1>9, <2>1 DEF table
    <3>2. Frees({r})
      <4>1. ASSUME NEW s \in ReqIds \ {r}, Live(s)'
            PROVE  Live(s) /\ req'[s].computed \in Nat /\ req'[s].computed <= req[s].computed
        BY <1>0, <1>10, <4>1, ReqFacts DEF Live, Known
      <4> QED  BY <1>1, <1>5, <1>10, <1>11, <1>12, <3>1, <4>1 DEF Frees
    <3>3. /\ Sharing' /\ RowsReadRight' /\ ComputedIsRight' /\ CachedIsRight' /\ cached' \in SUBSET Held'
          /\ good' \in SUBSET good
          /\ \A s \in ReqIds \ {r} : Alone(s) => Alone(s)'
          /\ \A s \in DOMAIN loading \ {r} : \A p \in loading[s] :
               Exclusive(p[1], s)' /\ \A i \in DOMAIN Rows' : p[1] \notin ToSet(Rows'[i].table)
      BY <3>2, FreeFacts
    <3>4. ASSUME NEW s \in ReqIds \ {r} PROVE Counters(s)'
      <4>1. s \in ReqIds /\ req'[s] = req[s] /\ Counters(s) /\ (Alone(s) => Alone(s)')
        BY <1>0, <1>10, <3>3 DEF Inv_Counters
      <4>2. /\ s \in failed' <=> s \in failed
            /\ s \in received' => s \in received
            /\ s \in out.failed => s \in out'.failed
        BY <1>1, <1>6
      <4> QED  BY <4>1, <4>2, CountersKept
    <3> QED  BY <3>3, <3>4
  <2>2. CASE ~lost
    <3>1. /\ table = req[r].table /\ good' = good
          /\ cached' = cached \cup Full(req[r].table, req[r].computed)
      BY <1>6, <2>2 DEF table
    <3>2. Grown(table, table)
      BY <1>9 DEF Grown
    <3>3. Full(req[r].table, req[r].computed) \in SUBSET ToSet(req[r].table)
      BY <1>8, FullFacts
    <3>4. /\ Agree(r, table, r, table)
          /\ \A s \in ReqIds : Agree(r, table, s, req[s].table)
      BY <1>0, <1>5, <3>1 DEF Sharing
    <3>5. Grows(r, table)
      <4>1. received' \ {r} = received \ {r} /\ failed' \ {r} = failed \ {r}
        BY <1>6
      <4> QED  BY <1>1, <1>5, <1>9, <1>10, <1>11, <1>12, <3>1, <3>2, <3>3, <3>4, <4>1 DEF Grows
    <3>6. /\ Sharing' /\ Extends({r}) /\ Held \subseteq Held' /\ cached' \in SUBSET Held'
          /\ \A s \in ReqIds \ {r} : Counters(s)'
          /\ \A s \in DOMAIN loading \ {r} : \A p \in loading[s] :
               Exclusive(p[1], s)' /\ \A i \in DOMAIN Rows' : p[1] \notin ToSet(Rows'[i].table)
      BY <1>12, <3>5, GrowthFacts
    <3>7. /\ \A p \in Everything : p[1] \in Held' => p \in Everything'
          /\ \A i \in DOMAIN Rows : \A p \in Places(Rows[i].table, 0, Rows[i].start) :
               p[1] \in Held' => p \in Coming(i)'
          /\ \A s \in ReqIds \ {r} : Live(s)' =>
               \A p \in Places(req'[s].table, 0, req'[s].computed) :
                 p \in Everything' \/ (s \in DOMAIN loading' /\ p \in loading'[s])
      BY <1>0, <3>6, StaysRight
    <3>8. ASSUME NEW p \in Places(req[r].table, 0, req[r].computed) PROVE p \in Everything'
      <4>1. Live(r)
        BY <1>3, <1>5 DEF Live, Known
      <4>2. p \in Everything
        BY <1>0, <1>5, <1>13, <4>1 DEF ComputedIsRight
      <4>3. p[1] \in ToSet(req[r].table)
        BY <1>8, PlacesFacts
      <4> QED  BY <1>5, <3>6, <3>7, <4>2, <4>3, HeldBy
    <3>9. ComputedIsRight'
      <4>1. \A p \in Places(req'[r].table, 0, req'[r].computed) :
              p \in Places(req[r].table, 0, req[r].computed)
        BY <1>8, <1>9, <1>11, <3>1 DEF Places
      <4> QED  BY <3>7, <3>8, <4>1 DEF ComputedIsRight, Places, At
    <3>10. RowsReadRight'
      BY <1>12, <3>7 DEF RowsReadRight, Places, At
    <3>11. CachedIsRight'
      <4> SUFFICES ASSUME "sync" \notin Loads, NEW b \in cached', NEW o \in Offsets
                   PROVE  <<b, o>> \in Everything'
        BY DEF CachedIsRight
      <4>1. CASE b \in cached
        <5>1. <<b, o>> \in Everything /\ <<b, o>>[1] \in Held'
          BY <1>0, <3>6, <4>1 DEF CachedIsRight
        <5> QED  BY <3>7, <5>1
      <4>2. CASE b \in Full(req[r].table, req[r].computed)
        BY <1>8, <3>8, <4>2, FullFacts
      <4> QED  BY <3>1, <4>1, <4>2
    <3> QED  BY <3>1, <3>6, <3>9, <3>10, <3>11
  <2> QED  BY <2>1, <2>2
<1>15. Inv_Counters'
  <2>1. req[r].tokens = 1 => table = <<>> \/ Alone(r)'
    <3> SUFFICES ASSUME req[r].tokens = 1, table # <<>> PROVE Alone(r)'
      OBVIOUS
    <3>1. ~lost /\ table = req[r].table
      BY DEF table
    <3>2. Alone(r) /\ req[r].computed = 1
      BY <1>8, <1>9, <3>1
    <3>3. cached' = cached
      BY <1>6, <1>8, <3>1, <3>2, NothingFull
    <3> QED  BY <1>10, <1>11, <3>1, <3>2, <3>3 DEF Alone
  <2>2. table = <<>> => computed = 0
    <3>1. CASE lost
      BY <1>9, <3>1
    <3>2. CASE ~lost
      <4> SUFFICES ASSUME table = <<>> PROVE computed = 0
        OBVIOUS
      <4>1. Len(req[r].table) = 0
        BY <3>2 DEF table
      <4>2. 0 * BlockSize = 0
        BY Sizes
      <4> QED  BY <1>8, <1>9, <4>1, <4>2
    <3> QED  BY <3>1, <3>2
  <2>3. computed = 0 /\ req[r].tokens # 1 => table = <<>>
    BY <1>9 DEF table
  <2>4. computed <= Len(table) * BlockSize
    <3>1. CASE lost
      <4>1. computed = 0 /\ Len(table) * BlockSize \in Nat
        BY <1>9, <3>1, Sizes
      <4> QED  BY <4>1
    <3>2. CASE ~lost
      <4>1. table = req[r].table /\ Len(req[r].table) * BlockSize \in Nat
        BY <1>8, <3>2, Sizes DEF table
      <4> QED  BY <1>8, <1>9, <4>1
    <3> QED  BY <3>1, <3>2
  <2>5. r \notin failed' \cup received'
    BY <1>6
  <2>6. Counters(r)'
    BY <1>1, <1>8, <1>9, <1>11, <2>1, <2>3, <2>4, <2>5 DEF Counters
  <2> QED  BY <1>14, <2>6 DEF Inv_Counters
<1>16. Batch'
  <2>1. ASSUME NEW i \in DOMAIN Rows PROVE Planned(Rows[i])'
    <3>1. Planned(Rows[i]) /\ Rows[i].req \in ReqIds /\ Rows[i].req # r
      BY <1>0, <1>12, RowsType DEF Batch
    <3>2. req'[Rows[i].req] = req[Rows[i].req]
      BY <1>10, <3>1
    <3> QED  BY <1>1, <1>12, <3>1, <3>2 DEF Planned, Places, At
  <2> QED  BY <1>0, <1>1, <1>12, <2>1 DEF Batch
<1>17. Transfers'
  <2>1. Moving' = DOMAIN loading
    BY <1>1, <1>7 DEF Moving
  <2>2. /\ \A s \in DOMAIN loading : req'[s].status \in {"remote", "finished"} /\ s \notin received'
        /\ \A s \in sending : req'[s].status = "finished"
    <3>1. \A s \in DOMAIN loading \cup sending : s \in ReqIds \ {r}
      BY <1>0, <1>13 DEF Types
    <3> QED  BY <1>0, <1>6, <1>7, <1>10, <3>1 DEF Transfers
  <2>3. \A s \in ReqIds :
          /\ req'[s].status = "finished" => s \in sending \cup DOMAIN loading
          /\ req'[s].status = "remote" => s \in received' \cup DOMAIN loading
    BY <1>0, <1>6, <1>7, <1>9, <1>10, <1>11 DEF Transfers
  <2>4. \A s \in DOMAIN loading : \A p \in loading[s] :
       /\ p[1] \in ToSet(req'[s].table) /\ p[1] \notin cached'
       /\ \A q \in ReqIds \ {s} : p[1] \notin ToSet(req'[q].table)
       /\ \A i \in DOMAIN Rows' : p[1] \notin ToSet(Rows'[i].table)
    <3> SUFFICES ASSUME NEW s \in DOMAIN loading, NEW p \in loading[s]
                 PROVE  Exclusive(p[1], s)' /\ \A i \in DOMAIN Rows' : p[1] \notin ToSet(Rows'[i].table)
      BY DEF Exclusive
    <3> QED  BY <1>13, <1>14
  <2>5. sending \cap DOMAIN loading = {} /\ out'.sent = {} /\ out'.done = {}
    BY <1>0, <1>1, <1>7 DEF Transfers
  <2> QED  BY <1>1, <2>1, <2>2, <2>3, <2>4, <2>5 DEF Transfers
<1>18. Types'
  BY <1>0, <1>1, <1>6, <1>10, <1>14 DEF Types
<1>19. Phases'
  BY <1>0, <1>1, <1>7 DEF Phases
<1>20. Queues'
  <2>1. /\ WithStatus(InQueues)' = WithStatus(InQueues) \cup {r}
        /\ WithStatus({"running"})' = WithStatus({"running"}) \ {r}
        /\ WithStatus({"streaming"})' = WithStatus({"streaming"}) \ {r}
    <3>1. \A s \in ReqIds \ {r} : req'[s].status = req[s].status
      BY <1>10
    <3> QED  BY <1>5, <1>9, <1>11, <3>1, StatusChanged DEF InQueues
  <2>2. /\ WithStatus(InQueues)' = WithStatus(InQueues)
        /\ WithStatus({"running"})' = WithStatus({"running"})
        /\ WithStatus({"streaming"})' = WithStatus({"streaming"})
    BY <1>3, <1>5, <2>1 DEF WithStatus, InQueues
  <2>3. Stopped' = Stopped
    BY <1>1 DEF Stopped
  <2>4. \A s \in ToSet(waiting') : req'[s].status # "remote"
    <3>1. \A s \in ToSet(waiting) : s \in ReqIds
      BY <1>0 DEF Types, ToSet
    <3> QED  BY <1>0, <1>1, <1>9, <1>10, <1>11, <3>1 DEF Queues
  <2> QED  BY <1>0, <1>1, <2>2, <2>3, <2>4 DEF Queues, InQueues
<1>21. Outcome' /\ OutputIsRight'
  BY <1>0, <1>1, <1>2, <1>7 DEF Outcome, OutputIsRight, Stopped
<1> QED  BY <1>14, <1>15, <1>16, <1>17, <1>18, <1>19, <1>20, <1>21 DEF IInv

-----------------------------------------------------------------------------
(* The step is handed to the engine.                                         *)
LEMMA CommitStepKeeps == ASSUME IInv, CommitStep PROVE IInv'
<1>0. /\ Types /\ Phases /\ Queues /\ Inv_Counters /\ Batch /\ Outcome /\ Transfers /\ Sharing
      /\ RowsReadRight /\ ComputedIsRight /\ CachedIsRight /\ OutputIsRight
  BY DEF IInv
<1>1. /\ pc = "commit" /\ pc' = "idle" /\ at' = 1 /\ plan' = <<>> /\ step_skipped' = <<>>
      /\ flight' = Append(flight, plan) /\ skipped' = Reverse(step_skipped) \o skipped
      /\ finished_ids' = {} /\ out' = out /\ running' = running /\ waiting' = waiting
      /\ num_streaming' = num_streaming /\ received' = received /\ failed' = failed
      /\ loading' = loading /\ cached' = cached /\ sending' = sending
      /\ faults' = faults /\ good' = good
      /\ req' = [r \in ReqIds |->
           IF \E i \in DOMAIN plan : plan[i].req = r
           THEN [req[r] EXCEPT
                   !.computed = @ + plan[CHOOSE i \in DOMAIN plan : plan[i].req = r].new]
           ELSE req[r]]
  BY DEF CommitStep, recvs, env, ghosts
<1>2. tainted' = tainted
  BY Zenon DEF CommitStep, ghosts
<1>3. flight = <<>> /\ Rows = plan
  BY <1>0, <1>1 DEF Phases, Rows
<1>4. /\ plan \in Seq(BatchRow) /\ flight' = <<plan>> /\ Rows' = plan /\ Rows' = Rows
      /\ flight' \in Seq(Seq(BatchRow)) /\ Len(flight') = 1
  <2>1. plan \in Seq(BatchRow)
    BY <1>0 DEF Types
  <2>2. flight' = <<plan>>
    BY <1>1, <1>3
  <2> QED  BY <1>3, <2>1, <2>2 DEF Rows
<1>5. /\ out = None /\ Stopped = {} /\ DOMAIN out.rows = {} /\ Moving = DOMAIN loading
      /\ out.failed = {} /\ out.done = {} /\ out.sent = {}
  BY <1>0, <1>1, NoOutput
<1> DEFINE X == {r \in ReqIds : \E i \in DOMAIN Rows : Rows[i].req = r}
<1>6. ASSUME NEW i \in DOMAIN Rows
      PROVE  LET r == Rows[i].req
             IN /\ r \in ReqIds /\ req[r].status = "running" /\ req[r].table = Rows[i].table
                /\ req[r].computed = Rows[i].start
                /\ Rows[i].start \in Nat /\ Rows[i].new \in Nat \ {0}
                /\ Rows[i].start + Rows[i].new <= req[r].tokens
                /\ Rows[i].start + Rows[i].new <= Len(Rows[i].table) * BlockSize
                /\ req'[r] = [req[r] EXCEPT !.computed = Rows[i].start + Rows[i].new]
  <2> DEFINE r == Rows[i].req
  <2>1. /\ r \in ReqIds /\ Planned(Rows[i]) /\ Rows[i].start \in Nat /\ Rows[i].new \in Nat \ {0}
    BY <1>0, RowsType DEF Batch
  <2>2. /\ req[r].status = "running" /\ req[r].table = Rows[i].table
        /\ req[r].computed = Rows[i].start
        /\ Rows[i].start + Rows[i].new <= req[r].tokens
        /\ Rows[i].start + Rows[i].new <= Len(Rows[i].table) * BlockSize
    BY <1>1, <2>1 DEF Planned
  <2>3. (CHOOSE j \in DOMAIN Rows : Rows[j].req = r) = i
    <3>1. \A j \in DOMAIN Rows : Rows[j].req = r <=> j = i
      BY <1>0 DEF Batch
    <3> HIDE DEF r
    <3> QED  BY <3>1
  <2> HIDE DEF r
  <2>4. req'[r] = [req[r] EXCEPT !.computed = @ + Rows[i].new]
    BY <1>1, <1>3, <2>1, <2>3 DEF r
  <2>5. req'[r] = [req[r] EXCEPT !.computed = Rows[i].start + Rows[i].new]
    <3>1. req[r] \in Request
      BY <1>0, <2>1 DEF Types
    <3> QED  BY <2>2, <2>4, <3>1 DEF Request
  <2> QED  BY <2>1, <2>2, <2>5 DEF r
<1>7. \A r \in ReqIds \ X : req'[r] = req[r]
  BY <1>1, <1>3
<1>8. \A r \in X : \E i \in DOMAIN Rows : Rows[i].req = r
  OBVIOUS
<1> HIDE DEF X
<1>9. ASSUME NEW r \in ReqIds
      PROVE  /\ req'[r] \in Request /\ req'[r].status = req[r].status
             /\ req'[r].table = req[r].table /\ req'[r].tokens = req[r].tokens
             /\ r \in X => /\ req[r].status = "running"
                           /\ req'[r].computed <= req[r].tokens
                           /\ req'[r].computed <= Len(req[r].table) * BlockSize
             /\ r \notin X => req'[r] = req[r]
  <2>1. req[r] \in Request
    BY <1>0 DEF Types
  <2>2. CASE r \notin X
    BY <1>7, <2>1, <2>2
  <2>3. CASE r \in X
    <3>1. PICK i \in DOMAIN Rows : Rows[i].req = r
      BY <1>8, <2>3
    <3>2. /\ req[r].status = "running" /\ req[r].table = Rows[i].table
          /\ Rows[i].start + Rows[i].new <= req[r].tokens
          /\ Rows[i].start + Rows[i].new <= Len(Rows[i].table) * BlockSize
          /\ req'[r] = [req[r] EXCEPT !.computed = Rows[i].start + Rows[i].new]
          /\ Rows[i].start + Rows[i].new \in Nat
      BY <1>6, <3>1
    <3> QED  BY <2>1, <2>3, <3>2 DEF Request
  <2> QED  BY <2>2, <2>3
<1>10. Held' = Held /\ \A s \in ReqIds : Live(s)' <=> Live(s)
  BY <1>9, HeldBy, HeldByNext DEF Live, Known
<1>11. Extends(X)
  <2>1. Rows' \in Seq(BatchRow)
    BY <1>4
  <2>2. \A r \in ReqIds \ X : req'[r] = req[r] /\ req[r].computed \in Nat
    BY <1>0, <1>7, ReqFacts
  <2>3. good' = good /\ loading' = loading /\ Rows' = Rows /\ Held' = Held
    BY <1>1, <1>4, <1>10
  <2>4. ASSUME NEW r \in ReqIds \ X, Live(r)'
        PROVE  /\ Live(r) /\ req'[r].table = req[r].table
               /\ req'[r].computed \in Nat /\ req'[r].computed <= req[r].computed
    BY <1>10, <2>2, <2>4
  <2> QED  BY <2>1, <2>3, <2>4 DEF Extends
<1>12. /\ \A p \in Everything : p[1] \in Held' => p \in Everything'
       /\ \A i \in DOMAIN Rows : \A p \in Places(Rows[i].table, 0, Rows[i].start) :
            p[1] \in Held' => p \in Coming(i)'
       /\ \A s \in ReqIds \ X : Live(s)' =>
            \A p \in Places(req'[s].table, 0, req'[s].computed) :
              p \in Everything' \/ (s \in DOMAIN loading' /\ p \in loading'[s])
  BY <1>0, <1>11, StaysRight
<1>13. Sharing'
  BY <1>0, <1>4, <1>9, SharingFreed
<1>14. RowsReadRight'
  BY <1>4, <1>12 DEF RowsReadRight, Places, At
<1>15. CachedIsRight'
  <2> SUFFICES ASSUME "sync" \notin Loads, NEW b \in cached', NEW o \in Offsets
               PROVE  <<b, o>> \in Everything'
    BY DEF CachedIsRight
  <2>1. <<b, o>> \in Everything /\ <<b, o>>[1] \in Held'
    BY <1>0, <1>1, <1>10 DEF CachedIsRight, Types
  <2> QED  BY <1>12, <2>1
<1>16. ComputedIsRight'
  <2>1. ASSUME NEW r \in X, NEW p \in Places(req'[r].table, 0, req'[r].computed)
        PROVE  p \in Everything'
    <3>1. PICK i \in DOMAIN Rows : Rows[i].req = r
      BY <1>8
    <3>2. /\ r \in ReqIds /\ req[r].status = "running" /\ req[r].table = Rows[i].table
          /\ req[r].computed = Rows[i].start /\ Rows[i].start \in Nat /\ Rows[i].new \in Nat
          /\ req'[r] = [req[r] EXCEPT !.computed = Rows[i].start + Rows[i].new]
      BY <1>6, <3>1
    <3>3. req'[r].computed = Rows[i].start + Rows[i].new /\ req'[r].table = Rows[i].table
      BY <1>0, <3>2, ReqFacts DEF Request
    <3>4. PICK m \in 0 .. (Rows[i].start + Rows[i].new) - 1 : p = At(Rows[i].table, m)
      BY <2>1, <3>3 DEF Places
    <3>5. CASE m < Rows[i].start
      <4>1. p \in Places(req[r].table, 0, req[r].computed)
        BY <3>2, <3>4, <3>5 DEF Places
      <4>2. Live(r) /\ r \notin DOMAIN loading
        BY <1>0, <1>5, <3>2 DEF Live, Known, Transfers
      <4>3. p \in Everything
        BY <1>0, <3>2, <4>1, <4>2 DEF ComputedIsRight
      <4>4. req[r].table \in Seq(Blocks) /\ req[r].computed <= Len(req[r].table) * BlockSize
        BY <1>0, <3>2, <4>2, ReqFacts DEF Inv_Counters, Counters
      <4>5. p[1] \in ToSet(req[r].table)
        BY <3>2, <4>1, <4>4, PlacesFacts
      <4> QED  BY <1>10, <1>12, <3>2, <4>3, <4>5, HeldBy
    <3>6. CASE m >= Rows[i].start
      <4>1. p \in Written(Rows'[i])
        BY <1>4, <3>2, <3>4, <3>6 DEF Written, Places
      <4> QED  BY <1>4, <4>1, EverythingInNext
    <3> QED  BY <3>2, <3>4, <3>5, <3>6
  <2> QED  BY <1>12, <2>1 DEF ComputedIsRight, Places, At
<1>17. Inv_Counters'
  <2> SUFFICES ASSUME NEW s \in ReqIds PROVE Counters(s)'
    BY DEF Inv_Counters
  <2>1. Counters(s)
    BY <1>0 DEF Inv_Counters
  <2>2. Alone(s) => Alone(s)'
    BY <1>1, <1>9 DEF Alone
  <2>3. CASE s \notin X
    BY <1>1, <1>9, <2>1, <2>2, <2>3, CountersKept
  <2>4. CASE s \in X
    BY <1>1, <1>9, <2>1, <2>4 DEF Counters
  <2> QED  BY <2>3, <2>4
<1>18. Batch'
  <2>1. ASSUME NEW i \in DOMAIN Rows PROVE Planned(Rows[i])'
    <3>1. Planned(Rows[i])
      BY <1>0 DEF Batch
    <3>2. /\ req'[Rows[i].req].status = "running" /\ req'[Rows[i].req].table = Rows[i].table
          /\ req'[Rows[i].req].computed = Rows[i].start + Rows[i].new
      <4>1. Rows[i].req \in ReqIds /\ req[Rows[i].req] \in Request
        BY <1>0, <1>6 DEF Types
      <4> QED  BY <1>6, <4>1 DEF Request
    <3> QED  BY <1>1, <1>4, <3>1, <3>2 DEF Planned, Places, At
  <2> QED  BY <1>0, <1>1, <1>4, <2>1 DEF Batch
<1>19. Transfers'
  <2>1. Moving' = DOMAIN loading
    BY <1>1, <1>5 DEF Moving
  <2>2. \A s \in DOMAIN loading \cup sending : s \in ReqIds
    BY <1>0 DEF Types
  <2>3. \A s \in ReqIds : req'[s].status = req[s].status /\ req'[s].table = req[s].table
    BY <1>9
  <2>4. \A s \in DOMAIN loading : \A p \in loading[s] :
       /\ p[1] \in ToSet(req'[s].table) /\ p[1] \notin cached
       /\ \A q \in ReqIds \ {s} : p[1] \notin ToSet(req'[q].table)
       /\ \A i \in DOMAIN Rows : p[1] \notin ToSet(Rows[i].table)
    BY <1>0, <2>2, <2>3 DEF Transfers
  <2> QED  BY <1>0, <1>1, <1>4, <1>5, <2>1, <2>2, <2>3, <2>4 DEF Transfers
<1>20. /\ skipped' \in Seq(ReqIds) /\ ToSet(skipped') = ToSet(step_skipped) \cup ToSet(skipped)
       /\ IsInjective(skipped')
  BY <1>0, <1>1, ReversedSeq DEF Types, Queues
<1>21. Types'
  <2>1. req' \in [ReqIds -> Request]
    <3>1. DOMAIN req' = ReqIds /\ req' = [r \in ReqIds |-> req'[r]]
      BY <1>1
    <3> QED  BY <1>9, <3>1
  <2>2. {} \in SUBSET ReqIds /\ <<>> \in Seq(ReqIds) /\ <<>> \in Seq(BatchRow)
    OBVIOUS
  <2> QED  BY <1>0, <1>1, <1>4, <1>10, <1>20, <2>1, <2>2 DEF Types
<1>22. Phases'
  BY <1>0, <1>1, <1>5 DEF Phases
<1>23. Queues'
  <2>1. \A S : WithStatus(S)' = WithStatus(S)
    BY <1>9 DEF WithStatus
  <2>2. Stopped' = Stopped
    BY <1>1 DEF Stopped
  <2>3. ToSet(<<>>) = {} /\ IsInjective(<<>>)
    BY DEF ToSet, IsInjective
  <2>4. \A s \in ToSet(waiting) : req'[s].status # "remote"
    <3>1. \A s \in ToSet(waiting) : s \in ReqIds
      BY <1>0 DEF Types, ToSet
    <3> QED  BY <1>0, <1>9, <3>1 DEF Queues
  <2> QED  BY <1>0, <1>1, <1>20, <2>1, <2>2, <2>3, <2>4 DEF Queues, InQueues
<1>24. Outcome' /\ OutputIsRight'
  BY <1>0, <1>1, <1>2, <1>5 DEF Outcome, OutputIsRight, Stopped
<1> QED
  BY <1>13, <1>14, <1>15, <1>16, <1>17, <1>18, <1>19, <1>21, <1>22, <1>23, <1>24 DEF IInv

-----------------------------------------------------------------------------
(* Requests that leave queues, and what is counted of them.                  *)
LEMMA WithoutFacts ==
  ASSUME NEW q \in Seq(ReqIds), NEW S
  PROVE  /\ Without(q, S) \in Seq(ReqIds) /\ ToSet(Without(q, S)) = ToSet(q) \ S
         /\ IsInjective(q) => IsInjective(Without(q, S))
<1>1. Without(q, S) = FlattenSeq(Singles(q, S))
  BY DEF Without, Singles
<1>2. Without(q, S) \in Seq(ReqIds) /\ KeepsOrder(q, S, Without(q, S), Len(q))
  BY <1>1, FlattenKeeps
<1> QED  BY <1>2, KeptElements

LEMMA CountedFacts ==
  ASSUME NEW E \in SUBSET ReqIds, num_streaming = Cardinality(WithStatus({"streaming"})),
         num_streaming' = num_streaming - Counted(E),
         WithStatus({"streaming"})' = WithStatus({"streaming"}) \ E
  PROVE  num_streaming' = Cardinality(WithStatus({"streaming"})')
<1> DEFINE W == WithStatus({"streaming"})
<1>1. IsFiniteSet(W)
  BY Sizes, FS_Subset DEF WithStatus
<1>2. Cardinality(W \ E) = Cardinality(W) - Cardinality(W \cap E)
  BY <1>1, FS_Difference
<1>3. Counted(E) = Cardinality(W \cap E)
  <2>1. {r \in E : req[r].status = "streaming"} = W \cap E
    BY DEF WithStatus
  <2> QED  BY <2>1 DEF Counted
<1> QED  BY <1>2, <1>3

LEMMA StreamingCount ==
  ASSUME NEW r \in ReqIds, num_streaming = Cardinality(WithStatus({"streaming"}))
  PROVE  /\ num_streaming \in Nat
         /\ req[r].status # "streaming" =>
              Cardinality(WithStatus({"streaming"}) \cup {r}) = num_streaming + 1
<1>1. IsFiniteSet(WithStatus({"streaming"}))
  BY Sizes, FS_Subset DEF WithStatus
<1>2. r \in WithStatus({"streaming"}) <=> req[r].status = "streaming"
  BY DEF WithStatus
<1> QED  BY <1>1, <1>2, FS_AddElement, FS_CardinalityType

(* A request arrives.                                                        *)
LEMMA AddRequestKeeps == ASSUME IInv, NEW r \in ReqIds, AddRequest(r) PROVE IInv'
<1>0. /\ Types /\ Phases /\ Queues /\ Inv_Counters /\ Batch /\ Outcome /\ Transfers /\ Sharing
      /\ RowsReadRight /\ ComputedIsRight /\ CachedIsRight /\ OutputIsRight
  BY DEF IInv
<1>1. /\ pc = "idle" /\ pc' = "idle" /\ at' = at /\ plan' = plan /\ flight' = flight
      /\ step_skipped' = step_skipped /\ out' = out /\ running' = running /\ skipped' = skipped
      /\ num_streaming' = num_streaming /\ finished_ids' = finished_ids
      /\ received' = received /\ failed' = failed /\ loading' = loading
      /\ cached' = cached /\ good' = good
      /\ sending' = sending /\ faults' = faults
      /\ req[r].status = "new" /\ req' = [req EXCEPT ![r].status = "waiting"]
      /\ waiting' = Append(waiting, r)
  BY DEF AddRequest, recvs, locals, env, ghosts
<1>2. tainted' = tainted
  BY Zenon DEF AddRequest, ghosts
<1>3. /\ out = None /\ Stopped = {} /\ DOMAIN out.rows = {} /\ Moving = DOMAIN loading
      /\ out.failed = {} /\ out.done = {} /\ out.sent = {}
  BY <1>0, <1>1, NoOutput
<1>4. Rows' = Rows
  BY <1>1 DEF Rows
<1>5. req[r].table = <<>> /\ req[r].computed = 0 /\ req[r].tokens \in Nat \ {0}
  BY <1>0, <1>1, ReqFacts DEF Inv_Counters, Counters
<1>6. /\ req' \in [ReqIds -> Request]
      /\ req'[r].status = "waiting" /\ req'[r].table = <<>> /\ req'[r].computed = 0
      /\ req'[r].tokens = req[r].tokens
      /\ \A s \in ReqIds \ {r} : req'[s] = req[s]
  <2>1. req \in [ReqIds -> Request]
    BY <1>0 DEF Types
  <2>2. req'[r] = [req[r] EXCEPT !.status = "waiting"] /\ req[r] \in Request
    BY <1>1, <2>1
  <2>3. req'[r] \in Request
    BY <2>2 DEF Request, Statuses
  <2> QED  BY <1>1, <1>5, <2>1, <2>2, <2>3 DEF Request
<1>7. Frees({r})
  <2>1. ASSUME NEW s \in ReqIds \ {r}, Live(s)'
        PROVE  Live(s) /\ req'[s].computed \in Nat /\ req'[s].computed <= req[s].computed
    BY <1>0, <1>6, <2>1, ReqFacts DEF Live, Known
  <2> QED  BY <1>1, <1>4, <1>5, <1>6, <2>1 DEF Frees
<1>8. /\ Held' \subseteq Held /\ cached' \in SUBSET Held' /\ cached' \subseteq cached
      /\ good' \in SUBSET good
      /\ Sharing' /\ RowsReadRight' /\ ComputedIsRight' /\ CachedIsRight'
      /\ \A s \in ReqIds \ {r} : Alone(s) => Alone(s)'
      /\ \A s \in DOMAIN loading \ {r} : \A p \in loading[s] :
           Exclusive(p[1], s)' /\ \A i \in DOMAIN Rows' : p[1] \notin ToSet(Rows'[i].table)
  BY <1>0, <1>7, FreeFacts
<1>9. r \notin DOMAIN loading /\ r \notin failed \cup received /\ r \notin sending
  BY <1>0, <1>1, <1>3 DEF Transfers, Inv_Counters, Counters
<1>10. Inv_Counters'
  <2>1. ASSUME NEW s \in ReqIds \ {r} PROVE Counters(s)'
    BY <1>0, <1>1, <1>6, <1>8, CountersKept DEF Inv_Counters
  <2>2. Counters(r)'
    BY <1>1, <1>5, <1>6, <1>9, Sizes DEF Counters
  <2> QED  BY <2>1, <2>2 DEF Inv_Counters
<1>11. Batch'
  <2>1. ASSUME NEW i \in DOMAIN Rows PROVE Planned(Rows[i])'
    <3>1. Planned(Rows[i]) /\ Rows[i].req \in ReqIds
      BY <1>0, RowsType DEF Batch
    <3>2. Rows[i].req # r
      BY <1>1, <3>1 DEF Planned
    <3>3. req'[Rows[i].req] = req[Rows[i].req]
      BY <1>6, <3>1, <3>2
    <3> QED  BY <1>1, <1>4, <3>1, <3>3 DEF Planned, Places, At
  <2> QED  BY <1>0, <1>1, <1>4, <2>1 DEF Batch
<1>12. Transfers'
  <2>1. Moving' = DOMAIN loading
    BY <1>1, <1>3 DEF Moving
  <2>2. \A s \in DOMAIN loading \cup sending : s \in ReqIds \ {r} /\ req'[s] = req[s]
    BY <1>0, <1>6, <1>9 DEF Types
  <2>3. /\ \A s \in DOMAIN loading : req'[s].status \in {"remote", "finished"} /\ s \notin received
        /\ \A s \in sending : req'[s].status = "finished"
    BY <1>0, <1>3, <2>2 DEF Transfers
  <2>4. \A s \in ReqIds :
          /\ req'[s].status = "finished" => s \in sending \cup DOMAIN loading
          /\ req'[s].status = "remote" => s \in received \cup DOMAIN loading
    BY <1>0, <1>3, <1>6 DEF Transfers
  <2>5. \A s \in DOMAIN loading : \A p \in loading[s] :
       /\ p[1] \in ToSet(req'[s].table) /\ p[1] \notin cached'
       /\ \A q \in ReqIds \ {s} : p[1] \notin ToSet(req'[q].table)
       /\ \A i \in DOMAIN Rows' : p[1] \notin ToSet(Rows'[i].table)
    <3> SUFFICES ASSUME NEW s \in DOMAIN loading, NEW p \in loading[s]
                 PROVE  Exclusive(p[1], s)' /\ \A i \in DOMAIN Rows' : p[1] \notin ToSet(Rows'[i].table)
      BY DEF Exclusive
    <3> QED  BY <1>8, <1>9
  <2>6. sending \cap DOMAIN loading = {} /\ out'.sent = {} /\ out'.done = {}
    BY <1>0, <1>1, <1>3 DEF Transfers
  <2> QED  BY <1>1, <2>1, <2>3, <2>4, <2>5, <2>6 DEF Transfers
<1>13. /\ waiting \in Seq(ReqIds) /\ IsInjective(waiting) /\ r \notin ToSet(waiting)
       /\ r \notin ToSet(skipped) /\ r \notin ToSet(step_skipped)
  BY <1>0, <1>1 DEF Types, Queues, WithStatus, InQueues
<1>14. /\ waiting' \in Seq(ReqIds) /\ ToSet(waiting') = ToSet(waiting) \cup {r}
       /\ IsInjective(waiting')
  BY <1>1, <1>13, AppendedSeq
<1>15. Types'
  BY <1>0, <1>1, <1>6, <1>8, <1>14 DEF Types
<1>16. Phases'
  BY <1>0, <1>1 DEF Phases
<1>17. Queues'
  <2>1. /\ WithStatus(InQueues)' = WithStatus(InQueues) \cup {r}
        /\ WithStatus({"running"})' = WithStatus({"running"}) \ {r}
        /\ WithStatus({"streaming"})' = WithStatus({"streaming"}) \ {r}
    <3>1. \A s \in ReqIds \ {r} : req'[s].status = req[s].status
      BY <1>6
    <3> QED  BY <1>6, <3>1, StatusChanged DEF InQueues
  <2>2. /\ WithStatus({"streaming"})' = WithStatus({"streaming"})
        /\ WithStatus({"running"})' = WithStatus({"running"})
    BY <1>1, <2>1 DEF WithStatus
  <2>3. Stopped' = {}
    BY <1>1, <1>3 DEF Stopped
  <2>4. \A s \in ToSet(waiting') : req'[s].status # "remote"
    <3>1. \A s \in ToSet(waiting) : s \in ReqIds
      BY <1>0 DEF Types, ToSet
    <3> QED  BY <1>0, <1>6, <1>14, <3>1 DEF Queues
  <2>5. /\ ToSet(waiting) \cap ToSet(skipped) = {}
        /\ ToSet(waiting) \cap ToSet(step_skipped) = {}
        /\ ToSet(waiting) \cup ToSet(skipped) \cup ToSet(step_skipped) = WithStatus(InQueues)
    BY <1>0 DEF Queues
  <2>6. /\ ToSet(waiting') \cap ToSet(skipped) = {}
        /\ ToSet(waiting') \cap ToSet(step_skipped) = {}
        /\ ToSet(waiting') \cup ToSet(skipped) \cup ToSet(step_skipped) = WithStatus(InQueues)'
    BY <1>13, <1>14, <2>1, <2>5
  <2> QED  BY <1>0, <1>1, <1>3, <1>14, <2>2, <2>3, <2>4, <2>6 DEF Queues, InQueues
<1>18. Outcome' /\ OutputIsRight'
  BY <1>0, <1>1, <1>2, <1>3 DEF Outcome, OutputIsRight, Stopped
<1> QED  BY <1>8, <1>10, <1>11, <1>12, <1>15, <1>16, <1>17, <1>18 DEF IInv

-----------------------------------------------------------------------------
(* The requests E end, and those of G leave self.requests.                   *)
Ends(E, G) ==
  /\ E \in SUBSET ReqIds /\ G \in SUBSET ReqIds
  /\ \A s \in E : Live(s)
  /\ \A s \in G \ E : req[s].status = "finished"
  /\ req' = [s \in ReqIds |-> IF s \in G THEN Gone(s)
                              ELSE IF s \in E THEN Ended(s, TRUE) ELSE req[s]]
  /\ Free(G) /\ Rows' = Rows /\ loading' = loading

LEMMA EndedFacts ==
  ASSUME IInv, NEW E, NEW G, Ends(E, G)
  PROVE  /\ req' \in [ReqIds -> Request] /\ Frees(G)
         /\ \A s \in G : req'[s].status = "gone" /\ req'[s].table = <<>> /\ req'[s].computed = 0
         /\ \A s \in E \ G : req'[s].status = "finished" /\ req'[s].table = req[s].table
         /\ \A s \in ReqIds \ (E \cup G) : req'[s] = req[s]
         /\ \A s \in E \cup G : ~Live(s)'
<1>0. Types /\ E \in SUBSET ReqIds /\ G \in SUBSET ReqIds
  BY DEF IInv, Ends
<1>1. \A s \in ReqIds : req'[s] = IF s \in G THEN Gone(s)
                                  ELSE IF s \in E THEN Ended(s, TRUE) ELSE req[s]
  BY DEF Ends
<1>2. \A s \in ReqIds : req[s] \in Request
  BY <1>0 DEF Types
<1>3. ASSUME NEW s \in G
      PROVE  /\ req'[s] \in Request /\ req'[s].status = "gone" /\ req'[s].table = <<>>
             /\ req'[s].computed = 0
  <2>1. req'[s] = [status |-> "gone", tokens |-> Prompt[s], prompt |-> Prompt[s],
                   computed |-> 0, table |-> <<>>, updates |-> <<>>, inputs |-> 0,
                   closed |-> TRUE, preempted |-> FALSE]
    BY <1>0, <1>1 DEF Gone
  <2>2. Prompt[s] \in Nat \ {0}
    BY <1>0, Sizes
  <2>3. <<>> \in Seq(Blocks) /\ <<>> \in Seq(Nat)
    OBVIOUS
  <2> QED  BY <2>1, <2>2, <2>3 DEF Request, Statuses
<1>4. ASSUME NEW s \in E \ G
      PROVE  /\ req'[s] \in Request /\ req'[s].status = "finished"
             /\ req'[s].table = req[s].table
  <2>1. req'[s] = [req[s] EXCEPT !.status = "finished"] /\ req[s] \in Request
    BY <1>0, <1>1, <1>2 DEF Ended
  <2> QED  BY <2>1 DEF Request, Statuses
<1>5. \A s \in ReqIds \ (E \cup G) : req'[s] = req[s]
  BY <1>1
<1>6. req' \in [ReqIds -> Request]
  <2>1. DOMAIN req' = ReqIds /\ req' = [s \in ReqIds |-> req'[s]]
    BY DEF Ends
  <2>2. \A s \in ReqIds : req'[s] \in Request
    BY <1>2, <1>3, <1>4, <1>5
  <2> QED  BY <2>1, <2>2
<1>7. \A s \in E \cup G : ~Live(s)'
  BY <1>3, <1>4 DEF Live, Known
<1>8. Frees(G)
  <2>1. \A s \in ReqIds \ G : req'[s].table = req[s].table
    BY <1>4, <1>5
  <2>2. ASSUME NEW s \in ReqIds \ G, Live(s)'
        PROVE  Live(s) /\ req'[s].computed \in Nat /\ req'[s].computed <= req[s].computed
    <3>1. req'[s] = req[s]
      BY <1>5, <1>7, <2>2
    <3> QED  BY <1>0, <2>2, <3>1, ReqFacts DEF Live, Known
  <2> QED  BY <1>0, <1>3, <2>1, <2>2 DEF Frees, Ends
<1> QED  BY <1>3, <1>4, <1>5, <1>6, <1>7, <1>8

(* Requests end outside a step, or with the last of an output.               *)
LEMMA EndedKeeps ==
  ASSUME IInv, NEW E, NEW G, Ends(E, G), pc \in {"idle", "rows"}, pc' = "idle",
         plan' = plan, flight' = flight, out' = None, at' = at, faults' = faults,
         step_skipped' = step_skipped, tainted' = tainted,
         running' = Without(running, Stopped \cup E), waiting' = Without(waiting, E),
         skipped' = Without(skipped, E), num_streaming' = num_streaming - Counted(E),
         finished_ids' \in SUBSET ReqIds, received' \in SUBSET ReqIds,
         sending' \in SUBSET ReqIds, failed' = failed \ E,
         G \cap DOMAIN loading = {}, sending' \cap DOMAIN loading = {},
         \A s \in received' : s \notin E \cup G /\ s \notin DOMAIN loading
                                /\ req[s].status = "remote",
         \A s \in sending' : s \notin G /\ (s \in E \/ req[s].status = "finished"),
         \A s \in ReqIds \ G : s \in E \/ req[s].status = "finished" =>
                                 s \in sending' \cup DOMAIN loading,
         \A s \in ReqIds \ (E \cup G) : req[s].status = "remote" =>
              s \in received' \cup DOMAIN loading /\ s \notin out.failed
  PROVE  IInv'
<1>0. /\ Types /\ Phases /\ Queues /\ Inv_Counters /\ Batch /\ Outcome /\ Transfers /\ Sharing
      /\ RowsReadRight /\ ComputedIsRight /\ CachedIsRight /\ OutputIsRight
  BY DEF IInv
<1>1. /\ E \in SUBSET ReqIds /\ G \in SUBSET ReqIds /\ Rows' = Rows /\ loading' = loading
      /\ \A s \in E : Live(s)
      /\ \A s \in G \ E : req[s].status = "finished"
  BY DEF Ends
<1>2. /\ req' \in [ReqIds -> Request] /\ Frees(G)
      /\ \A s \in G : req'[s].status = "gone" /\ req'[s].table = <<>> /\ req'[s].computed = 0
      /\ \A s \in E \ G : req'[s].status = "finished" /\ req'[s].table = req[s].table
      /\ \A s \in ReqIds \ (E \cup G) : req'[s] = req[s]
      /\ \A s \in E \cup G : ~Live(s)'
  BY EndedFacts
<1>3. /\ Held' \subseteq Held /\ cached' \in SUBSET Held' /\ cached' \subseteq cached
      /\ good' \in SUBSET good
      /\ Sharing' /\ RowsReadRight' /\ ComputedIsRight' /\ CachedIsRight'
      /\ \A s \in ReqIds \ G : Alone(s) => Alone(s)'
      /\ \A s \in DOMAIN loading \ G : \A p \in loading[s] :
           Exclusive(p[1], s)' /\ \A i \in DOMAIN Rows' : p[1] \notin ToSet(Rows'[i].table)
  BY <1>2, FreeFacts
<1>4. /\ out'.failed = {} /\ out'.done = {} /\ out'.sent = {} /\ out'.stopped = {}
      /\ out'.rows = <<>>
  BY DEF None
<1>5. Stopped' = {} /\ DOMAIN out'.rows = {} /\ Moving' = DOMAIN loading
  BY <1>1, <1>4 DEF Stopped, Moving
<1>6. \A s \in failed : s \in ReqIds /\ req[s].status = "remote"
  BY <1>0 DEF Types, Inv_Counters, Counters
<1>7. \A s \in failed' : s \in failed /\ s \notin E /\ s \notin G
  BY <1>1, <1>6
<1>8. Inv_Counters'
  <2> SUFFICES ASSUME NEW s \in ReqIds PROVE Counters(s)'
    BY DEF Inv_Counters
  <2>1. Counters(s)
    BY <1>0 DEF Inv_Counters
  <2>2. CASE s \in G
    BY <1>2, <1>7, <2>2 DEF Counters
  <2>3. CASE s \in E \ G
    BY <1>2, <1>7, <2>3 DEF Counters
  <2>4. CASE s \notin E \cup G
    <3>1. req'[s] = req[s] /\ (Live(s)' => Live(s)) /\ (Alone(s) => Alone(s)')
      BY <1>2, <1>3, <2>4 DEF Live, Known
    <3>2. s \in failed' <=> s \in failed
      BY <1>7, <2>4
    <3>3. s \in received' => req[s].status = "remote"
      OBVIOUS
    <3>4. req[s].status = "remote" => s \notin out.failed
      BY <2>4
    <3> QED  BY <2>1, <3>1, <3>2, <3>3, <3>4 DEF Counters
  <2> QED  BY <2>2, <2>3, <2>4
<1>9. Batch'
  <2>1. ASSUME NEW i \in DOMAIN Rows PROVE Planned(Rows[i])'
    <3>1. Planned(Rows[i]) /\ Rows[i].req \in ReqIds
      BY <1>0, RowsType DEF Batch
    <3>2. pc = "idle"
      BY <1>0, <2>1 DEF Phases, Rows
    <3>3. /\ req'[Rows[i].req].status \in {"running", "finished", "gone"}
          /\ req'[Rows[i].req].status = "running" => req'[Rows[i].req] = req[Rows[i].req]
      BY <1>2, <3>1, <3>2 DEF Planned
    <3> QED  BY <1>1, <3>1, <3>2, <3>3 DEF Planned, Places, At
  <2> QED  BY <1>0, <1>1, <2>1 DEF Batch
<1>10. Transfers'
  <2>1. \A s \in DOMAIN loading : s \in ReqIds /\ s \notin G
    BY <1>0 DEF Types
  <2>2. \A s \in DOMAIN loading : req'[s].status \in {"remote", "finished"} /\ s \notin received'
    <3>1. \A s \in DOMAIN loading : req[s].status \in {"remote", "finished"}
      BY <1>0 DEF Transfers, Moving
    <3> QED  BY <1>2, <2>1, <3>1
  <2>3. \A s \in sending' : req'[s].status = "finished"
    BY <1>2
  <2>4. \A s \in ReqIds :
          /\ req'[s].status = "finished" => s \in sending' \cup DOMAIN loading
          /\ req'[s].status = "remote" => s \in received' \cup DOMAIN loading
    <3> SUFFICES ASSUME NEW s \in ReqIds
                 PROVE  /\ req'[s].status = "finished" => s \in sending' \cup DOMAIN loading
                        /\ req'[s].status = "remote" => s \in received' \cup DOMAIN loading
      OBVIOUS
    <3>1. CASE s \in G
      BY <1>2, <3>1
    <3>2. CASE s \in E \ G
      BY <1>2, <3>2
    <3>3. CASE s \notin E \cup G
      BY <1>2, <3>3
    <3> QED  BY <3>1, <3>2, <3>3
  <2>5. \A s \in DOMAIN loading : \A p \in loading[s] :
       /\ p[1] \in ToSet(req'[s].table) /\ p[1] \notin cached'
       /\ \A q \in ReqIds \ {s} : p[1] \notin ToSet(req'[q].table)
       /\ \A i \in DOMAIN Rows' : p[1] \notin ToSet(Rows'[i].table)
    <3> SUFFICES ASSUME NEW s \in DOMAIN loading, NEW p \in loading[s]
                 PROVE  Exclusive(p[1], s)' /\ \A i \in DOMAIN Rows' : p[1] \notin ToSet(Rows'[i].table)
      BY DEF Exclusive
    <3> QED  BY <1>3, <2>1
  <2> QED  BY <1>1, <1>4, <1>5, <2>2, <2>3, <2>4, <2>5 DEF Transfers
<1>11. /\ running' \in Seq(ReqIds) /\ waiting' \in Seq(ReqIds) /\ skipped' \in Seq(ReqIds)
       /\ ToSet(running') = ToSet(running) \ (Stopped \cup E)
       /\ ToSet(waiting') = ToSet(waiting) \ E /\ ToSet(skipped') = ToSet(skipped) \ E
       /\ IsInjective(running') /\ IsInjective(waiting') /\ IsInjective(skipped')
  BY <1>0, WithoutFacts DEF Types, Queues
<1>12. Types'
  <2>1. None \in Output
    <3>1. <<>> \in Seq(OutRow)
      OBVIOUS
    <3>2. {} \in SUBSET (ReqIds \X {"running"}) /\ {} \in SUBSET ReqIds
      BY Zenon
    <3> QED  BY <3>1, <3>2 DEF None, Output
  <2>2. failed' \in SUBSET ReqIds /\ good' \in SUBSET Slots
    BY <1>0, <1>3 DEF Types
  <2> QED  BY <1>0, <1>1, <1>2, <1>3, <1>11, <2>1, <2>2 DEF Types
<1>13. Phases'
  BY <1>0 DEF Phases
<1>14. step_skipped = <<>> /\ ToSet(step_skipped) = {}
  BY <1>0 DEF Phases, ToSet
<1>15. ASSUME NEW S, S \cap {"finished", "gone"} = {} PROVE WithStatus(S)' = WithStatus(S) \ E
  <2>1. \A s \in E \cup G : req'[s].status \in {"finished", "gone"}
    BY <1>2
  <2>2. \A s \in G \ E : req[s].status = "finished"
    BY <1>1
  <2> QED  BY <1>1, <1>2, <1>15, <2>1, <2>2 DEF WithStatus
<1>16. Queues'
  <2>1. /\ WithStatus(InQueues)' = WithStatus(InQueues) \ E
        /\ WithStatus({"running"})' = WithStatus({"running"}) \ E
        /\ WithStatus({"streaming"})' = WithStatus({"streaming"}) \ E
    BY <1>15 DEF InQueues
  <2>2. num_streaming' = Cardinality(WithStatus({"streaming"})')
    BY <1>0, <1>1, <2>1, CountedFacts DEF Queues
  <2>3. ToSet(running') = WithStatus({"running"})'
    <3>1. ToSet(running) = WithStatus({"running"}) \cup Stopped
      BY <1>0 DEF Queues
    <3>2. WithStatus({"running"}) \cap Stopped = {}
      BY <1>0 DEF Outcome, WithStatus
    <3> QED  BY <1>11, <2>1, <3>1, <3>2
  <2>4. \A s \in ToSet(waiting') : req'[s].status # "remote"
    <3>1. \A s \in ToSet(waiting) : s \in ReqIds /\ req[s].status # "remote"
      BY <1>0 DEF Types, ToSet, Queues
    <3> QED  BY <1>2, <1>11, <3>1
  <2>5. /\ ToSet(waiting') \cap ToSet(skipped') = {}
        /\ ToSet(waiting') \cup ToSet(skipped') = WithStatus(InQueues)'
    <3>1. /\ ToSet(waiting) \cap ToSet(skipped) = {}
          /\ ToSet(waiting) \cup ToSet(skipped) = WithStatus(InQueues)
      BY <1>0, <1>14 DEF Queues
    <3> QED  BY <1>11, <2>1, <3>1
  <2> QED  BY <1>0, <1>5, <1>11, <1>14, <2>2, <2>3, <2>4, <2>5 DEF Queues, InQueues
<1>17. Outcome' /\ OutputIsRight'
  BY <1>0, <1>4, <1>5 DEF Outcome, OutputIsRight
<1> QED  BY <1>3, <1>8, <1>9, <1>10, <1>12, <1>13, <1>16, <1>17 DEF IInv

LEMMA DelayFacts == \A S, d : d \in Delays(S) => d \in SUBSET S
<1> SUFFICES ASSUME NEW S, NEW d \in Delays(S) PROVE d \in SUBSET S
  OBVIOUS
<1>1. CASE Sends
  BY <1>1, Zenon DEF Delays
<1>2. CASE ~Sends
  BY <1>2, Zenon DEF Delays
<1> QED  BY <1>1, <1>2

(* One request ends.                                                         *)
LEMMA EndsOne ==
  ASSUME Types, NEW r \in ReqIds, NEW delayed \in SUBSET {r}, Live(r),
         req' = [req EXCEPT ![r] = Ended(r, r \in delayed)], Free({r} \ delayed),
         Rows' = Rows, loading' = loading
  PROVE  Ends({r}, {r} \ delayed)
<1> DEFINE G == {r} \ delayed
<1>1. req' = [s \in ReqIds |-> IF s \in G THEN Gone(s)
                               ELSE IF s \in {r} THEN Ended(s, TRUE) ELSE req[s]]
  <2>1. DOMAIN req = ReqIds
    BY DEF Types
  <2>2. req' = [s \in ReqIds |-> IF s = r THEN Ended(r, r \in delayed) ELSE req[s]]
    BY <2>1
  <2>3. CASE r \in delayed
    <3>1. Ended(r, r \in delayed) = Ended(r, TRUE)
      BY <2>3 DEF Ended
    <3>2. req' = [s \in ReqIds |-> IF s = r THEN Ended(s, TRUE) ELSE req[s]]
      BY <2>2, <3>1
    <3>3. G = {}
      BY <2>3
    <3> HIDE DEF G
    <3> QED  BY <3>2, <3>3
  <2>4. CASE r \notin delayed
    <3>1. Ended(r, r \in delayed) = Gone(r)
      BY <2>4 DEF Ended
    <3>2. req' = [s \in ReqIds |-> IF s = r THEN Gone(s) ELSE req[s]]
      BY <2>2, <3>1
    <3>3. G = {r}
      BY <2>4
    <3> HIDE DEF G
    <3> QED  BY <3>2, <3>3
  <2> QED  BY <2>3, <2>4
<1> QED  BY <1>1 DEF Ends

LEMMA FinishKeeps ==
  ASSUME IInv, NEW r \in ReqIds, pc = "idle", Live(r), FinishRequest(r),
         UNCHANGED <<loading, flight, pc, locals, env>>, tainted' = tainted
  PROVE  IInv'
<1>0. /\ Types /\ Phases /\ Queues /\ Inv_Counters /\ Batch /\ Outcome /\ Transfers /\ Sharing
  BY DEF IInv
<1>1. /\ pc' = "idle" /\ at' = at /\ plan' = plan /\ step_skipped' = step_skipped
      /\ out' = out /\ faults' = faults /\ loading' = loading /\ flight' = flight
  BY DEF locals, env
<1>2. /\ out = None /\ Stopped = {} /\ Moving = DOMAIN loading
      /\ out.failed = {} /\ out.done = {} /\ out.sent = {}
  BY <1>0, NoOutput
<1>3. PICK delayed \in IF DelaysFree(r) THEN {{r}} ELSE Delays({r}) :
        /\ req' = [req EXCEPT ![r] = Ended(r, r \in delayed)]
        /\ Free({r} \ delayed)
        /\ running' = Without(running, {r})
        /\ waiting' = Without(waiting, {r}) /\ skipped' = Without(skipped, {r})
        /\ num_streaming' = num_streaming - Counted({r})
        /\ finished_ids' = finished_ids \cup {r}
        /\ received' = received \ {r} /\ failed' = failed \ {r}
        /\ sending' = IF DelaysFree(r) THEN sending ELSE sending \cup delayed
  BY Zenon DEF FinishRequest
<1>4. delayed \in SUBSET {r} /\ (DelaysFree(r) => delayed = {r})
  BY DelayFacts
<1> DEFINE G == {r} \ delayed
<1>5. Rows' = Rows
  BY <1>1 DEF Rows
<1>6. Ends({r}, G)
  BY <1>0, <1>1, <1>3, <1>4, <1>5, EndsOne
<1>7. r \in DOMAIN loading => DelaysFree(r)
  BY <1>0, <1>2 DEF Transfers, DelaysFree, Live
<1>8. DelaysFree(r) => r \in DOMAIN loading
  BY <1>0, <1>2 DEF Transfers, DelaysFree
<1>9. sending \in SUBSET ReqIds /\ r \notin sending /\ sending \cap DOMAIN loading = {}
  BY <1>0, <1>2 DEF Types, Transfers, Live
<1>10. /\ sending' \subseteq sending \cup delayed
       /\ ~DelaysFree(r) => sending' = sending \cup delayed
       /\ DelaysFree(r) => sending' = sending
       /\ sending \subseteq sending'
  BY <1>3
<1>11. G \cap DOMAIN loading = {} /\ sending' \cap DOMAIN loading = {} /\ sending' \in SUBSET ReqIds
  BY <1>4, <1>7, <1>9, <1>10
<1>12. \A s \in received : s \in ReqIds /\ s \notin DOMAIN loading /\ req[s].status = "remote"
  BY <1>0, <1>2 DEF Types, Transfers, Inv_Counters, Counters
<1>13. \A s \in received' : /\ s \notin {r} \cup G /\ s \notin DOMAIN loading
                            /\ req[s].status = "remote"
  BY <1>3, <1>12
<1>14. \A s \in sending' : s \notin G /\ (s \in {r} \/ req[s].status = "finished")
  BY <1>0, <1>4, <1>9, <1>10 DEF Transfers
<1>15. \A s \in ReqIds \ G : s \in {r} \/ req[s].status = "finished" =>
                               s \in sending' \cup DOMAIN loading
  <2>1. \A s \in ReqIds : req[s].status = "finished" => s \in sending \cup DOMAIN loading
    BY <1>0, <1>2 DEF Transfers
  <2>2. r \notin G => r \in sending' \cup DOMAIN loading
    BY <1>4, <1>8, <1>10
  <2> QED  BY <1>10, <2>1, <2>2
<1>16. \A s \in ReqIds \ ({r} \cup G) : req[s].status = "remote" =>
         s \in received' \cup DOMAIN loading /\ s \notin out.failed
  BY <1>0, <1>2, <1>3 DEF Transfers
<1>17. running' = Without(running, Stopped \cup {r})
  BY <1>2, <1>3
<1>18. received' \in SUBSET ReqIds /\ finished_ids' \in SUBSET ReqIds
  BY <1>0, <1>3 DEF Types
<1>19. /\ waiting' = Without(waiting, {r}) /\ skipped' = Without(skipped, {r})
       /\ num_streaming' = num_streaming - Counted({r}) /\ failed' = failed \ {r}
  BY <1>3
<1> HIDE DEF G
<1>20. PICK E : E = {r}
  OBVIOUS
<1>21. pc \in {"idle", "rows"} /\ out' = None
  BY <1>1, <1>2
<1>22. /\ Ends(E, G) /\ running' = Without(running, Stopped \cup E)
       /\ waiting' = Without(waiting, E) /\ skipped' = Without(skipped, E)
       /\ num_streaming' = num_streaming - Counted(E) /\ failed' = failed \ E
  BY <1>6, <1>17, <1>19, <1>20
<1>23. /\ \A s \in received' : s \notin E \cup G /\ s \notin DOMAIN loading
                                /\ req[s].status = "remote"
       /\ \A s \in sending' : s \notin G /\ (s \in E \/ req[s].status = "finished")
       /\ \A s \in ReqIds \ G : s \in E \/ req[s].status = "finished" =>
                                 s \in sending' \cup DOMAIN loading
       /\ \A s \in ReqIds \ (E \cup G) : req[s].status = "remote" =>
              s \in received' \cup DOMAIN loading /\ s \notin out.failed
  BY <1>13, <1>14, <1>15, <1>16, <1>20
<1> QED
  BY <1>1, <1>11, <1>18, <1>21, <1>22, <1>23, EndedKeeps

LEMMA AbortKeeps == ASSUME IInv, NEW r \in ReqIds, Abort(r) PROVE IInv'
<1>1. pc = "idle" /\ Live(r) /\ FinishRequest(r) /\ UNCHANGED <<loading, flight, pc, locals, env>>
  BY DEF Abort
<1>2. tainted' = tainted
  BY Zenon DEF Abort
<1> QED  BY <1>1, <1>2, FinishKeeps

(* Requests whose load failed, and transfers that are over.                  *)
LEMMA EndOutputKeeps == ASSUME IInv, EndOutput PROVE IInv'
<1>0. /\ Types /\ Phases /\ Queues /\ Inv_Counters /\ Batch /\ Outcome /\ Transfers /\ Sharing
  BY DEF IInv
<1> DEFINE fail == IF recompute THEN {} ELSE {r \in out.failed : Live(r)}
           held == {r \in fail : DelaysFree(r)}
           over == TransfersOver(held)
           was(S) == {r \in ReqIds : \E s \in S : <<r, s>> \in out.stopped}
<1>1. /\ pc = "rows" /\ pc' = "idle" /\ at' = at /\ plan' = plan
      /\ step_skipped' = step_skipped
      /\ out' = None /\ faults' = faults /\ loading' = loading /\ flight' = flight
  BY DEF EndOutput, env
<1>2. tainted' = tainted
  BY Zenon DEF EndOutput
<1>3. PICK delayed \in Delays(fail \ held) :
        LET freed == (fail \ (held \cup delayed)) \cup over
        IN /\ running' = Without(running, was({"running"}) \cup fail)
           /\ waiting' = Without(waiting, was({"preempted", "waiting"}) \cup fail)
           /\ skipped' = Without(skipped, fail)
           /\ num_streaming' = num_streaming - Counted(fail)
           /\ req' = [r \in ReqIds |-> IF r \in freed THEN Gone(r)
                                       ELSE IF r \in fail THEN Ended(r, TRUE) ELSE req[r]]
           /\ Free(freed)
           /\ finished_ids' = finished_ids \cup fail
           /\ received' = (received \ fail) \cup (out.done \ over)
           /\ failed' = failed \ fail
           /\ sending' = sending \cup delayed
  BY Zenon DEF EndOutput
<1>4. delayed \in SUBSET (fail \ held)
  BY DelayFacts
<1>5. /\ fail \in SUBSET ReqIds /\ (\A r \in fail : Live(r))
      /\ \A r \in out.failed : r \in fail \/ ~Live(r) \/ req[r].status # "remote"
  <2>0. out.failed \in SUBSET ReqIds
    BY <1>0 DEF Types, Output
  <2>1. CASE recompute
    <3>1. fail = {}
      BY <2>1, Zenon
    <3>2. \A r \in out.failed : req[r].status # "remote"
      BY <1>0, <2>1, Zenon DEF Outcome
    <3> HIDE DEF fail
    <3> QED  BY <3>1, <3>2
  <2>2. CASE ~recompute
    <3>1. fail = {r \in out.failed : Live(r)}
      BY <2>2, Zenon
    <3> HIDE DEF fail
    <3> QED  BY <2>0, <3>1
  <2> QED  BY <2>1, <2>2, Zenon
<1> HIDE DEF fail
<1>6. held = {r \in fail : DelaysFree(r)}
  OBVIOUS
<1> HIDE DEF held
<1>7. over = out.sent \cup {r \in out.done : r \in held \/ req[r].status = "finished"}
  BY DEF TransfersOver
<1> HIDE DEF over
<1> DEFINE G == (fail \ (held \cup delayed)) \cup over
<1>8. /\ was({"running"}) = Stopped /\ was({"preempted", "waiting"}) = {}
  <2>1. out.stopped \in SUBSET (ReqIds \X {"running"})
    BY <1>0 DEF Types, Output
  <2>2. was({"running"}) = Stopped
    <3>1. \A r \in ReqIds : r \in Stopped <=> <<r, "running">> \in out.stopped
      BY <2>1 DEF Stopped
    <3>2. \A r \in was({"running"}) : r \in ReqIds /\ <<r, "running">> \in out.stopped
      OBVIOUS
    <3>3. \A r \in ReqIds : <<r, "running">> \in out.stopped => r \in was({"running"})
      OBVIOUS
    <3>4. Stopped \subseteq ReqIds
      BY <2>1 DEF Stopped
    <3> QED  BY <3>1, <3>2, <3>3, <3>4
  <2>3. was({"preempted", "waiting"}) = {}
    BY <2>1
  <2> QED  BY <2>2, <2>3
<1> HIDE DEF was
<1>9. Rows' = Rows
  BY <1>1 DEF Rows
<1>10. /\ out.done \in SUBSET ReqIds /\ out.sent \in SUBSET ReqIds /\ DOMAIN loading \in SUBSET ReqIds
       /\ received \in SUBSET ReqIds /\ failed \in SUBSET ReqIds /\ sending \in SUBSET ReqIds
       /\ finished_ids \in SUBSET ReqIds
  BY <1>0 DEF Types, Output
<1>11. /\ \A r \in DOMAIN loading \cup out.done :
            req[r].status \in {"remote", "finished"} /\ r \notin received
       /\ DOMAIN loading \cap out.done = {} /\ sending \cap out.sent = {}
       /\ (sending \cup out.sent) \cap (DOMAIN loading \cup out.done) = {}
       /\ \A r \in sending \cup out.sent : req[r].status = "finished"
       /\ \A r \in ReqIds : req[r].status = "finished" =>
            r \in sending \cup out.sent \cup DOMAIN loading \cup out.done
       /\ \A r \in ReqIds : req[r].status = "remote" =>
            r \in received \cup DOMAIN loading \cup out.done
  BY <1>0 DEF Transfers, Moving
<1>12. \A r \in fail : /\ r \in held <=> (req[r].status = "remote" /\ r \notin received)
                       /\ req[r].status # "finished"
  BY <1>5, <1>6 DEF DelaysFree, Live
<1>13. \A r \in over : r \in ReqIds /\ (r \in held \/ req[r].status = "finished")
  BY <1>7, <1>10, <1>11
<1>14. held \subseteq fail
  BY <1>6
<1>15. \A r \in over : r \notin DOMAIN loading /\ r \notin sending
  BY <1>7, <1>11
<1>16. \A r \in fail \ held : r \notin DOMAIN loading \cup out.done
  BY <1>11, <1>12
<1>17. Ends(fail, G)
  <2>1. G \in SUBSET ReqIds
    BY <1>5, <1>13
  <2>2. \A s \in G \ fail : req[s].status = "finished"
    BY <1>13, <1>14
  <2> QED  BY <1>1, <1>3, <1>5, <1>9, <2>1, <2>2 DEF Ends
<1>18. G \cap DOMAIN loading = {} /\ sending' \cap DOMAIN loading = {} /\ sending' \in SUBSET ReqIds
  BY <1>3, <1>4, <1>5, <1>10, <1>11, <1>15, <1>16
<1>19. received' = (received \ fail) \cup (out.done \ over)
  BY <1>3
<1>20. \A s \in received' : /\ s \notin fail \cup G /\ s \notin DOMAIN loading
                            /\ req[s].status = "remote"
  <2> SUFFICES ASSUME NEW s \in received'
               PROVE  /\ s \notin fail \cup G /\ s \notin DOMAIN loading
                      /\ req[s].status = "remote"
    OBVIOUS
  <2>1. CASE s \in received \ fail
    <3>1. req[s].status = "remote"
      BY <1>0, <1>10, <2>1 DEF Inv_Counters, Counters
    <3>2. s \notin over
      BY <1>13, <1>14, <2>1, <3>1
    <3> QED  BY <1>11, <2>1, <3>1, <3>2
  <2>2. CASE s \in out.done \ over
    <3>1. s \notin held /\ req[s].status = "remote" /\ s \notin received
      BY <1>7, <1>11, <2>2
    <3>2. s \notin fail
      BY <1>12, <3>1
    <3> QED  BY <1>11, <2>2, <3>1, <3>2
  <2> QED  BY <1>19, <2>1, <2>2
<1>21. \A s \in sending' : s \notin G /\ (s \in fail \/ req[s].status = "finished")
  <2> SUFFICES ASSUME NEW s \in sending'
               PROVE  s \notin G /\ (s \in fail \/ req[s].status = "finished")
    OBVIOUS
  <2>1. CASE s \in sending
    <3>1. req[s].status = "finished" /\ s \notin over
      BY <1>11, <1>15, <2>1
    <3> QED  BY <1>12, <3>1
  <2>2. CASE s \in delayed
    <3>1. s \in fail /\ s \notin held
      BY <1>4, <2>2
    <3>2. s \notin over
      BY <1>12, <1>13, <3>1
    <3> QED  BY <2>2, <3>1, <3>2
  <2> QED  BY <1>3, <2>1, <2>2
<1>22. \A s \in ReqIds \ G : s \in fail \/ req[s].status = "finished" =>
                               s \in sending' \cup DOMAIN loading
  <2> SUFFICES ASSUME NEW s \in ReqIds \ G, s \in fail \/ req[s].status = "finished"
               PROVE  s \in sending' \cup DOMAIN loading
    OBVIOUS
  <2>1. s \notin over
    OBVIOUS
  <2>2. CASE s \in fail
    <3>1. CASE s \in held
      <4>1. s \notin out.done
        BY <1>7, <2>1, <3>1
      <4> QED  BY <1>11, <1>12, <2>2, <3>1, <4>1
    <3>2. CASE s \notin held
      <4>1. s \in delayed
        BY <2>2, <3>2
      <4> QED  BY <1>3, <4>1
    <3> QED  BY <3>1, <3>2
  <2>3. CASE req[s].status = "finished"
    <3>1. s \notin out.sent /\ s \notin out.done
      BY <1>7, <2>1, <2>3
    <3> QED  BY <1>3, <1>11, <2>3, <3>1
  <2> QED  BY <2>2, <2>3
<1>23. \A s \in ReqIds \ (fail \cup G) : req[s].status = "remote" =>
         s \in received' \cup DOMAIN loading /\ s \notin out.failed
  <2> SUFFICES ASSUME NEW s \in ReqIds \ (fail \cup G), req[s].status = "remote"
               PROVE  s \in received' \cup DOMAIN loading /\ s \notin out.failed
    OBVIOUS
  <2>1. s \notin out.failed
    BY <1>5 DEF Live, Known
  <2>2. s \notin over
    OBVIOUS
  <2> QED  BY <1>11, <1>19, <2>1, <2>2
<1>24. /\ running' = Without(running, Stopped \cup fail)
       /\ waiting' = Without(waiting, fail) /\ skipped' = Without(skipped, fail)
  <2>1. {} \cup fail = fail
    OBVIOUS
  <2> QED  BY <1>3, <1>8, <2>1
<1>25. received' \in SUBSET ReqIds /\ finished_ids' \in SUBSET ReqIds
  BY <1>3, <1>5, <1>10, <1>19
<1>26. num_streaming' = num_streaming - Counted(fail) /\ failed' = failed \ fail
  BY <1>3
<1> HIDE DEF G
<1> QED
  BY <1>1, <1>2, <1>17, <1>18, <1>20, <1>21, <1>22, <1>23, <1>24, <1>25, <1>26, EndedKeeps

-----------------------------------------------------------------------------
(* A request goes on with the blocks and the computed tokens it has.         *)
Updates(r, rec) ==
  /\ r \in ReqIds /\ rec \in Request /\ req' = [req EXCEPT ![r] = rec]
  /\ rec.table = req[r].table /\ rec.computed = req[r].computed
  /\ Live(r) /\ rec.status \notin {"new", "gone", "finished"}
  /\ \/ rec.status = req[r].status /\ rec.tokens = req[r].tokens
     \/ /\ {rec.status, req[r].status} \subseteq {"running", "streaming", "waiting"}
        /\ rec.computed # 0 /\ rec.computed <= rec.tokens
        /\ rec.status = "waiting" => rec.computed < rec.tokens
  /\ pc = "rows" \/ rec.status = req[r].status \/ req[r].status = "streaming"
  /\ Rows' = Rows /\ loading' = loading /\ cached' = cached /\ good' = good
  /\ received' = received /\ failed' = failed /\ sending' = sending
  /\ pc \in {"idle", "rows"} /\ pc' = pc
  /\ out'.failed = out.failed /\ out'.done = out.done /\ out'.sent = out.sent

LEMMA UpdatedFacts ==
  ASSUME IInv, NEW r, NEW rec, Updates(r, rec)
  PROVE  /\ req' \in [ReqIds -> Request] /\ req'[r] = rec
         /\ \A s \in ReqIds \ {r} : req'[s] = req[s]
         /\ Held' = Held /\ Inv_Counters' /\ Batch' /\ Transfers' /\ Sharing'
         /\ RowsReadRight' /\ ComputedIsRight' /\ CachedIsRight'
<1>0. /\ Types /\ Phases /\ Queues /\ Inv_Counters /\ Batch /\ Outcome /\ Transfers /\ Sharing
  BY DEF IInv
<1>1. /\ r \in ReqIds /\ rec \in Request /\ rec.table = req[r].table
      /\ rec.computed = req[r].computed /\ Live(r)
      /\ Rows' = Rows /\ loading' = loading /\ cached' = cached /\ good' = good
      /\ received' = received /\ failed' = failed /\ sending' = sending
      /\ pc \in {"idle", "rows"} /\ pc' = pc
      /\ out'.failed = out.failed /\ out'.done = out.done /\ out'.sent = out.sent
      /\ rec.status \notin {"new", "gone", "finished"}
  BY DEF Updates
<1>2. /\ req' \in [ReqIds -> Request] /\ req'[r] = rec
      /\ \A s \in ReqIds \ {r} : req'[s] = req[s]
  <2>1. req \in [ReqIds -> Request]
    BY <1>0 DEF Types
  <2> QED  BY <1>1, <2>1 DEF Updates
<1>3. \A s \in ReqIds : req'[s].table = req[s].table /\ req'[s].computed = req[s].computed
  BY <1>1, <1>2
<1>4. Frees({})
  <2>1. ASSUME NEW s \in ReqIds, Live(s)'
        PROVE  Live(s) /\ req'[s].computed \in Nat /\ req'[s].computed <= req[s].computed
    BY <1>0, <1>1, <1>2, <1>3, <2>1, ReqFacts DEF Live, Known
  <2> QED  BY <1>1, <1>3, <2>1 DEF Frees
<1>5. /\ Sharing' /\ RowsReadRight' /\ ComputedIsRight' /\ CachedIsRight'
      /\ \A s \in ReqIds : Alone(s) => Alone(s)'
      /\ \A s \in DOMAIN loading : \A p \in loading[s] :
           Exclusive(p[1], s)' /\ \A i \in DOMAIN Rows' : p[1] \notin ToSet(Rows'[i].table)
  BY <1>4, FreeFacts
<1>6. Held' = Held
  BY <1>3, HeldBy, HeldByNext
<1>7. /\ rec.tokens \in Nat \ {0} /\ rec.computed \in Nat /\ rec.status \in Statuses
  BY <1>1 DEF Request
<1>8. Counters(r)'
  <2>1. Counters(r)
    BY <1>0, <1>1 DEF Inv_Counters
  <2>2. CASE rec.status = req[r].status /\ rec.tokens = req[r].tokens
    BY <1>1, <1>2, <1>5, <2>1, <2>2 DEF Counters, Live, Known
  <2>3. CASE /\ {rec.status, req[r].status} \subseteq {"running", "streaming", "waiting"}
             /\ rec.computed # 0 /\ rec.computed <= rec.tokens
             /\ rec.status = "waiting" => rec.computed < rec.tokens
    <3>1. rec.status = "waiting" => rec.tokens # 1
      BY <1>7, <2>3
    <3> QED  BY <1>1, <1>2, <1>7, <2>1, <2>3, <3>1 DEF Counters, Live, Known
  <2> QED  BY <2>2, <2>3 DEF Updates
<1>9. Inv_Counters'
  <2>1. ASSUME NEW s \in ReqIds \ {r} PROVE Counters(s)'
    BY <1>0, <1>1, <1>2, <1>5, CountersKept DEF Inv_Counters
  <2> QED  BY <1>8, <2>1 DEF Inv_Counters
<1>10. Batch'
  <2>1. ASSUME NEW i \in DOMAIN Rows PROVE Planned(Rows[i])'
    <3>1. Planned(Rows[i]) /\ Rows[i].req \in ReqIds
      BY <1>0, RowsType DEF Batch
    <3>2. pc = "idle"
      BY <1>0, <1>1, <2>1 DEF Phases, Rows
    <3>3. Rows[i].req = r => rec.status = "running"
      BY <1>1, <3>1, <3>2 DEF Planned, Updates, Live, Known
    <3>4. /\ req'[Rows[i].req].status \in {"running", "finished", "gone"}
          /\ req'[Rows[i].req].status = "running" => req[Rows[i].req].status = "running"
      <4>1. CASE Rows[i].req = r
        <5>1. req[r].status = "running"
          BY <1>1, <3>1, <3>2, <4>1 DEF Planned, Live, Known
        <5> QED  BY <1>2, <3>3, <4>1, <5>1
      <4>2. CASE Rows[i].req # r
        BY <1>2, <3>1, <3>2, <4>2 DEF Planned
      <4> QED  BY <4>1, <4>2
    <3> QED  BY <1>1, <1>3, <3>1, <3>2, <3>4 DEF Planned, Places, At
  <2> QED  BY <1>0, <1>1, <2>1 DEF Batch
<1>11. Transfers'
  <2>1. Moving' = Moving
    BY <1>1 DEF Moving
  <2>2. req[r].status # "finished" /\ (req[r].status = "remote" <=> rec.status = "remote")
    BY <1>1 DEF Updates, Live
  <2>3. /\ \A s \in ReqIds : req'[s].status = "finished" <=> req[s].status = "finished"
        /\ \A s \in ReqIds : req'[s].status = "remote" <=> req[s].status = "remote"
    BY <1>1, <1>2, <2>2
  <2>4. Moving \subseteq ReqIds /\ sending \cup out.sent \subseteq ReqIds
    BY <1>0 DEF Types, Moving, Output
  <2>5. \A s \in DOMAIN loading : \A p \in loading[s] :
       /\ p[1] \in ToSet(req'[s].table) /\ p[1] \notin cached'
       /\ \A q \in ReqIds \ {s} : p[1] \notin ToSet(req'[q].table)
       /\ \A i \in DOMAIN Rows' : p[1] \notin ToSet(Rows'[i].table)
    BY <1>5 DEF Exclusive
  <2>6. /\ \A s \in Moving : req'[s].status \in {"remote", "finished"} /\ s \notin received
        /\ \A s \in sending \cup out.sent : req'[s].status = "finished"
    BY <1>0, <2>3, <2>4 DEF Transfers
  <2>7. /\ \A s \in ReqIds : req'[s].status = "finished" => s \in sending \cup out.sent \cup Moving
        /\ \A s \in ReqIds : req'[s].status = "remote" => s \in received \cup Moving
        /\ DOMAIN loading \cap out.done = {} /\ sending \cap out.sent = {}
        /\ (sending \cup out.sent) \cap Moving = {}
    BY <1>0, <2>3 DEF Transfers
  <2> QED  BY <1>1, <2>1, <2>5, <2>6, <2>7 DEF Transfers
<1> QED  BY <1>2, <1>5, <1>6, <1>9, <1>10, <1>11

(* The records of a session.                                                 *)
LEMMA LesserOf == \A a, b \in Nat : b <= a => Min({a, b}) = b
BY DEF Min

LEMMA GreaterOf == \A a \in Int : Max({0, a}) \in Nat
<1> SUFFICES ASSUME NEW a \in Int PROVE Max({0, a}) \in Nat
  OBVIOUS
<1>1. CASE a <= 0
  BY <1>1 DEF Max
<1>2. CASE a > 0
  BY <1>2 DEF Max
<1> QED  BY <1>1, <1>2

LEMMA SessionFacts ==
  ASSUME NEW r, NEW rec \in Request, NEW len \in Nat \ {0}, rec.computed <= rec.tokens
  PROVE  LET next == AsSession(r, rec, len)
         IN /\ next \in Request /\ next.status = "waiting" /\ next.table = rec.table
            /\ next.computed = rec.computed /\ next.computed < next.tokens
<1> DEFINE kept == Min({rec.tokens, rec.computed})
           prompt == (rec.prompt + Max({0, kept - rec.prompt})) + len
<1>1. rec.tokens \in Nat /\ rec.computed \in Nat /\ rec.prompt \in Nat
  BY DEF Request
<1>2. kept = rec.computed
  BY <1>1, LesserOf
<1> HIDE DEF kept
<1>3. prompt \in Nat
  BY <1>1, <1>2, GreaterOf
<1> HIDE DEF prompt
<1>4. AsSession(r, rec, len) = [rec EXCEPT !.status = "waiting", !.tokens = kept + len,
                                           !.prompt = prompt]
  BY DEF AsSession, kept, prompt
<1>5. kept + len \in Nat \ {0} /\ rec.computed < kept + len
  BY <1>1, <1>2
<1> QED  BY <1>3, <1>4, <1>5 DEF Request, Statuses

WithInput(rec, n, x) == [rec EXCEPT !.inputs = n, !.closed = x]

LEMMA InputRecorded ==
  ASSUME NEW rec \in Request, NEW n \in Nat, NEW x \in BOOLEAN
  PROVE  LET next == WithInput(rec, n, x)
         IN /\ next \in Request /\ next.status = rec.status /\ next.table = rec.table
            /\ next.tokens = rec.tokens /\ next.computed = rec.computed
            /\ next.updates = rec.updates
BY Zenon DEF WithInput, Request

(* The client of a session sends an input, or ends it.                       *)
LEMMA SendInputKeeps ==
  ASSUME IInv, NEW r \in ReqIds, NEW len \in Inputs \cup {0}, SendInput(r, len)
  PROVE  IInv'
<1>0. /\ Types /\ Phases /\ Queues /\ Inv_Counters /\ Batch /\ Outcome /\ Transfers /\ Sharing
      /\ OutputIsRight
  BY DEF IInv
<1> DEFINE closes == len = 0
           rec == [req[r] EXCEPT !.inputs = @ + 1, !.closed = closes]
<1>1. /\ pc = "idle" /\ pc' = pc /\ at' = at /\ plan' = plan /\ flight' = flight
      /\ step_skipped' = step_skipped /\ out' = out /\ loading' = loading /\ faults' = faults
      /\ Live(r) /\ UNCHANGED <<loading, flight, pc, locals, env>>
  BY DEF SendInput, locals, env
<1>2. tainted' = tainted
  BY Zenon DEF SendInput
<1>3. IF req[r].status # "streaming"
      THEN /\ req' = [req EXCEPT ![r] = [rec EXCEPT !.updates = Append(@, len)]]
           /\ UNCHANGED <<queues, num_streaming, finished_ids, received, failed>>
           /\ UNCHANGED <<cached, sending, good>>
      ELSE IF len > 0
      THEN /\ req' = [req EXCEPT ![r] = AsSession(r, rec, len)]
           /\ num_streaming' = num_streaming - Counted({r})
           /\ UNCHANGED <<queues, finished_ids, received, failed, cached, sending, good>>
      ELSE FinishRequest(r)
  BY Zenon DEF SendInput
<1>4. req[r] \in Request /\ len \in Nat /\ req[r].inputs + 1 \in Nat /\ closes \in BOOLEAN
  <2>1. req[r] \in Request
    BY <1>0 DEF Types
  <2> QED  BY <2>1, Sizes DEF Request
<1>5. /\ rec \in Request /\ rec.status = req[r].status /\ rec.table = req[r].table
      /\ rec.tokens = req[r].tokens /\ rec.computed = req[r].computed
      /\ rec.updates = req[r].updates
  <2>1. rec = WithInput(req[r], req[r].inputs + 1, closes)
    BY DEF WithInput
  <2> HIDE DEF rec, closes
  <2> QED  BY <1>4, <2>1, InputRecorded
<1> HIDE DEF rec, closes
<1>6. Rows' = Rows
  BY <1>1 DEF Rows
<1>7. Stopped' = Stopped /\ Stopped = {} /\ DOMAIN out.rows = {}
  BY <1>0, <1>1, NoOutput DEF Stopped
<1>8. ASSUME NEW next, Updates(r, next), UNCHANGED <<queues, finished_ids>>,
             next.status # "remote" \/ req[r].status = "remote",
             num_streaming' = Cardinality(WithStatus({"streaming"})'),
             {next.status, req[r].status} \subseteq InQueues \/ next.status = req[r].status
      PROVE  IInv'
  <2>1. /\ req' \in [ReqIds -> Request] /\ req'[r] = next
        /\ \A s \in ReqIds \ {r} : req'[s] = req[s]
        /\ Held' = Held /\ Inv_Counters' /\ Batch' /\ Transfers' /\ Sharing'
        /\ RowsReadRight' /\ ComputedIsRight' /\ CachedIsRight'
    BY <1>8, UpdatedFacts
  <2>2. /\ running' = running /\ waiting' = waiting /\ skipped' = skipped
        /\ finished_ids' = finished_ids
    BY <1>8 DEF queues
  <2>3. /\ cached' = cached /\ good' = good
        /\ received' = received /\ failed' = failed /\ sending' = sending
    BY <1>8 DEF Updates
  <2>4. Types'
    BY <1>0, <1>1, <2>1, <2>2, <2>3 DEF Types
  <2>5. Phases'
    BY <1>0, <1>1 DEF Phases
  <2>6. Queues'
    <3>1. /\ WithStatus(InQueues)' = WithStatus(InQueues)
          /\ WithStatus({"running"})' = WithStatus({"running"})
      <4>1. /\ \A s \in ReqIds : req'[s].status \in InQueues <=> req[s].status \in InQueues
            /\ \A s \in ReqIds : req'[s].status = "running" <=> req[s].status = "running"
        BY <1>8, <2>1 DEF InQueues
      <4> QED  BY <4>1 DEF WithStatus, InQueues
    <3>2. \A s \in ToSet(waiting) : req'[s].status # "remote"
      <4>1. \A s \in ToSet(waiting) : s \in ReqIds /\ req[s].status # "remote"
        BY <1>0 DEF Types, ToSet, Queues
      <4> QED  BY <1>8, <2>1, <4>1
    <3> QED  BY <1>0, <1>1, <1>7, <1>8, <2>2, <3>1, <3>2 DEF Queues, InQueues
  <2>7. Outcome' /\ OutputIsRight'
    <3>1. out' = None /\ out.failed = {} /\ out.stopped = {}
      BY <1>0, <1>1, NoOutput DEF None
    <3> QED  BY <1>0, <1>1, <1>2, <1>7, <3>1 DEF Outcome, OutputIsRight
  <2> QED  BY <2>1, <2>4, <2>5, <2>6, <2>7 DEF IInv
<1>9. CASE req[r].status # "streaming"
  <2> DEFINE next == [rec EXCEPT !.updates = Append(@, len)]
  <2>1. /\ req' = [req EXCEPT ![r] = next] /\ UNCHANGED <<queues, finished_ids>>
        /\ num_streaming' = num_streaming
        /\ received' = received /\ failed' = failed
        /\ cached' = cached /\ sending' = sending /\ good' = good
    BY <1>3, <1>9
  <2>2. /\ next \in Request /\ next.status = req[r].status /\ next.table = req[r].table
        /\ next.tokens = req[r].tokens /\ next.computed = req[r].computed
    <3>1. Append(rec.updates, len) \in Seq(Nat)
      BY <1>4, <1>5 DEF Request
    <3>2. next = [rec EXCEPT !.updates = Append(rec.updates, len)]
      OBVIOUS
    <3> HIDE DEF next
    <3> QED  BY <1>5, <3>1, <3>2, Zenon DEF Request
  <2> HIDE DEF next
  <2>3. Updates(r, next)
    BY <1>1, <1>6, <2>1, <2>2 DEF Updates, Live, Known
  <2>4. WithStatus({"streaming"})' = WithStatus({"streaming"})
    <3>1. \A s \in ReqIds : req'[s].status = req[s].status
      BY <1>0, <2>1, <2>2 DEF Types
    <3> QED  BY <3>1 DEF WithStatus
  <2> QED  BY <1>0, <1>8, <2>1, <2>2, <2>3, <2>4 DEF Queues
<1>10. CASE req[r].status = "streaming" /\ len > 0
  <2> DEFINE next == AsSession(r, rec, len)
  <2>1. /\ req' = [req EXCEPT ![r] = next] /\ UNCHANGED <<queues, finished_ids>>
        /\ num_streaming' = num_streaming - Counted({r})
        /\ received' = received /\ failed' = failed
        /\ cached' = cached /\ sending' = sending /\ good' = good
    BY <1>3, <1>10
  <2>2. req[r].computed # 0 /\ req[r].computed <= req[r].tokens
    BY <1>0, <1>1, <1>10 DEF Inv_Counters, Counters
  <2>3. /\ next \in Request /\ next.status = "waiting" /\ next.table = req[r].table
        /\ next.computed = req[r].computed /\ next.computed < next.tokens
    BY <1>4, <1>5, <1>10, <2>2, SessionFacts
  <2> HIDE DEF next
  <2>4. next.computed <= next.tokens
    BY <2>3 DEF Request
  <2>5. Updates(r, next)
    BY <1>1, <1>6, <1>10, <2>1, <2>2, <2>3, <2>4 DEF Updates
  <2>6. WithStatus({"streaming"})' = WithStatus({"streaming"}) \ {r}
    <3>1. \A s \in ReqIds \ {r} : req'[s].status = req[s].status
      BY <1>0, <2>1 DEF Types
    <3>2. req'[r].status = "waiting"
      BY <1>0, <2>1, <2>3 DEF Types
    <3> QED  BY <3>1, <3>2, StatusChanged
  <2>7. num_streaming' = Cardinality(WithStatus({"streaming"})')
    BY <1>0, <2>1, <2>6, CountedFacts DEF Queues
  <2> QED  BY <1>8, <1>10, <2>1, <2>3, <2>5, <2>7 DEF InQueues
<1>11. CASE req[r].status = "streaming" /\ ~(len > 0)
  BY <1>1, <1>2, <1>3, <1>11, FinishKeeps
<1> QED  BY <1>9, <1>10, <1>11

-----------------------------------------------------------------------------
(* The rows of an output.                                                    *)
NextRow(r, X) ==
  /\ out.rows # <<>> /\ r = Head(out.rows).req
  /\ out' = [out EXCEPT !.rows = Tail(out.rows), !.stopped = out.stopped \cup X]

LEMMA RowTaken ==
  ASSUME Types, NEW r, NEW X \in SUBSET (ReqIds \X {"running"}), NextRow(r, X)
  PROVE  /\ r \in ReqIds /\ out' \in Output
         /\ out'.failed = out.failed /\ out'.done = out.done /\ out'.sent = out.sent
         /\ out'.stopped = out.stopped \cup X
         /\ \A i \in DOMAIN out'.rows :
              \E j \in DOMAIN out.rows : j # 1 /\ j = i + 1 /\ out'.rows[i] = out.rows[j]
         /\ 1 \in DOMAIN out.rows /\ out.rows[1].req = r
<1>1. /\ out \in Output /\ out.rows \in Seq(OutRow) /\ out.rows # <<>>
      /\ out.stopped \in SUBSET (ReqIds \X {"running"})
  BY DEF Types, Output, NextRow
<1>2. /\ Head(out.rows) = out.rows[1] /\ 1 \in DOMAIN out.rows /\ out.rows[1] \in OutRow
      /\ Tail(out.rows) \in Seq(OutRow)
      /\ \A i \in DOMAIN Tail(out.rows) :
           /\ i + 1 \in DOMAIN out.rows /\ i + 1 # 1
           /\ Tail(out.rows)[i] = out.rows[i + 1]
  BY <1>1
<1>3. /\ out'.rows = Tail(out.rows) /\ out'.stopped = out.stopped \cup X
      /\ out'.failed = out.failed /\ out'.done = out.done /\ out'.sent = out.sent
      /\ out' \in Output
  <2>1. out' = [out EXCEPT !.rows = Tail(out.rows), !.stopped = out.stopped \cup X]
    BY DEF NextRow
  <2>2. out.stopped \cup X \in SUBSET (ReqIds \X {"running"})
    BY <1>1
  <2> QED  BY <1>1, <1>2, <2>1, <2>2 DEF Output
<1>4. r = out.rows[1].req /\ r \in ReqIds
  BY <1>2 DEF NextRow, OutRow
<1> QED  BY <1>2, <1>3, <1>4

LEMMA OutcomeStep ==
  ASSUME IInv, NEW r, NEW X \in SUBSET (ReqIds \X {"running"}), NextRow(r, X),
         \A s \in ReqIds \ {r} : req'[s] = req[s],
         req'[r].status = "remote" => req[r].status = "remote",
         X = {} \/ /\ X = {<<r, "running">>} /\ r \notin out.failed
                   /\ req'[r].status \in {"gone", "finished", "streaming", "waiting"},
         recompute' = recompute, ~tainted'
  PROVE  /\ Outcome' /\ OutputIsRight' /\ out' \in Output
         /\ Stopped' = IF X = {} THEN Stopped ELSE Stopped \cup {r}
<1>0. Types /\ Outcome
  BY DEF IInv
<1>1. /\ r \in ReqIds /\ out' \in Output
      /\ out'.failed = out.failed /\ out'.done = out.done /\ out'.sent = out.sent
      /\ out'.stopped = out.stopped \cup X
      /\ \A i \in DOMAIN out'.rows :
           \E j \in DOMAIN out.rows : j # 1 /\ j = i + 1 /\ out'.rows[i] = out.rows[j]
      /\ 1 \in DOMAIN out.rows /\ out.rows[1].req = r
  BY <1>0, RowTaken
<1>2. Stopped' = IF X = {} THEN Stopped ELSE Stopped \cup {r}
  <2>1. CASE X = {}
    BY <1>1, <2>1 DEF Stopped
  <2>2. CASE X = {<<r, "running">>}
    <3>1. out'.stopped = out.stopped \cup {<<r, "running">>} /\ X # {}
      BY <1>1, <2>2
    <3>2. Stopped' = {s[1] : s \in out.stopped \cup {<<r, "running">>}}
      BY <3>1 DEF Stopped
    <3>3. <<r, "running">>[1] = r
      OBVIOUS
    <3> QED  BY <3>1, <3>2, <3>3, Zenon DEF Stopped
  <2> QED  BY <2>1, <2>2
<1>3. out \in Output /\ \A j \in DOMAIN out.rows : out.rows[j].req \in ReqIds
  <2>1. out \in Output
    BY <1>0 DEF Types
  <2>2. out.rows \in Seq(OutRow)
    BY <2>1 DEF Output
  <2>3. \A j \in DOMAIN out.rows : out.rows[j].req \in ReqIds
    <3>1. \A j \in DOMAIN out.rows : out.rows[j] \in OutRow
      BY <2>2
    <3> QED  BY <3>1 DEF OutRow
  <2> QED  BY <2>1, <2>3
<1>4. \A i \in DOMAIN out'.rows :
        \E j \in DOMAIN out.rows :
          /\ j = i + 1 /\ out'.rows[i] = out.rows[j] /\ out.rows[j].req # r
          /\ out.rows[j].req \in ReqIds
          /\ req'[out.rows[j].req] = req[out.rows[j].req]
  <2> SUFFICES ASSUME NEW i \in DOMAIN out'.rows
               PROVE  \E j \in DOMAIN out.rows :
          /\ j = i + 1 /\ out'.rows[i] = out.rows[j] /\ out.rows[j].req # r
          /\ out.rows[j].req \in ReqIds
          /\ req'[out.rows[j].req] = req[out.rows[j].req]
    OBVIOUS
  <2>1. PICK j \in DOMAIN out.rows : j # 1 /\ j = i + 1 /\ out'.rows[i] = out.rows[j]
    BY <1>1
  <2>2. out.rows[j].req # r
    BY <1>0, <1>1, <2>1 DEF Outcome
  <2>3. req'[out.rows[j].req] = req[out.rows[j].req]
    BY <1>3, <2>2
  <2> QED  BY <1>3, <2>1, <2>2, <2>3
<1>5. Outcome'
  <2>1. \A i, j \in DOMAIN out'.rows : out'.rows[i].req = out'.rows[j].req => i = j
    <3> SUFFICES ASSUME NEW i \in DOMAIN out'.rows, NEW j \in DOMAIN out'.rows,
                        out'.rows[i].req = out'.rows[j].req
                 PROVE  i = j
      OBVIOUS
    <3>1. out'.rows \in Seq(OutRow) /\ DOMAIN out'.rows \subseteq Nat
      BY <1>1 DEF Output
    <3>2. i + 1 = j + 1 /\ i \in Nat /\ j \in Nat
      BY <1>0, <1>4, <3>1 DEF Outcome
    <3> QED  BY <3>2
  <2>2. \A i \in DOMAIN out'.rows :
          LET s == out'.rows[i].req
          IN /\ s \notin Stopped'
             /\ (s \in ReqIds /\ req'[s].status \notin {"new", "gone", "finished"}
                  /\ s \notin out'.failed) =>
                req'[s].status = "running" /\ req'[s].computed # 0
    <3> SUFFICES ASSUME NEW i \in DOMAIN out'.rows, NEW s, s = out'.rows[i].req
                 PROVE  /\ s \notin Stopped'
                        /\ (s \in ReqIds /\ req'[s].status \notin {"new", "gone", "finished"}
                             /\ s \notin out'.failed) =>
                           req'[s].status = "running" /\ req'[s].computed # 0
      OBVIOUS
    <3>1. PICK j \in DOMAIN out.rows :
          /\ out'.rows[i] = out.rows[j] /\ out.rows[j].req # r
          /\ req'[out.rows[j].req] = req[out.rows[j].req]
      BY <1>4
    <3>2. s = out.rows[j].req /\ s # r /\ req'[s] = req[s]
      BY <3>1
    <3>3. /\ s \notin Stopped
          /\ Live(s) /\ s \notin out.failed =>
               req[s].status = "running" /\ req[s].computed # 0
      BY <1>0, <3>2 DEF Outcome
    <3> QED  BY <1>1, <1>2, <3>2, <3>3 DEF Live, Known
  <2>3. Stopped' \cap out'.failed = {}
    BY <1>0, <1>1, <1>2 DEF Outcome
  <2>4. Stopped' \subseteq WithStatus({"gone", "finished", "streaming", "waiting"})'
    <3> SUFFICES ASSUME NEW s \in Stopped'
                 PROVE  s \in ReqIds /\ req'[s].status \in {"gone", "finished", "streaming", "waiting"}
      BY DEF WithStatus
    <3>1. CASE s = r /\ X # {}
      BY <1>1, <3>1
    <3>2. CASE s \in Stopped
      <4>1. s \in ReqIds /\ req[s].status \in {"gone", "finished", "streaming", "waiting"}
        BY <1>0, <3>2 DEF Outcome, WithStatus
      <4>2. s # r
        BY <1>0, <1>1, <3>2 DEF Outcome
      <4> QED  BY <4>1, <4>2
    <3> QED  BY <1>2, <3>1, <3>2
  <2>5. recompute' => \A s \in out'.failed : req'[s].status # "remote"
    <3>1. out.failed \in SUBSET ReqIds
      BY <1>3 DEF Output
    <3>2. CASE recompute
      <4>1. \A s \in out.failed : req[s].status # "remote"
        BY <1>0, <3>2, Zenon DEF Outcome
      <4>2. \A s \in out'.failed : req'[s].status # "remote"
        BY <1>1, <3>1, <4>1
      <4> QED  BY <4>2
    <3>3. CASE ~recompute
      BY <3>3, Zenon
    <3> QED  BY <3>2, <3>3, Zenon
  <2> QED  BY <2>1, <2>2, <2>3, <2>4, <2>5 DEF Outcome, Live, Known
<1>6. OutputIsRight'
  <2>1. \A j \in DOMAIN out.rows :
          Live(out.rows[j].req) /\ out.rows[j].req \notin out.failed => out.rows[j].ok
    BY Zenon DEF IInv, OutputIsRight
  <2>2. \A i \in DOMAIN out'.rows :
          (/\ out'.rows[i].req \in ReqIds
           /\ req'[out'.rows[i].req].status \notin {"new", "gone", "finished"}
           /\ out'.rows[i].req \notin out'.failed) => out'.rows[i].ok
    <3> SUFFICES ASSUME NEW i \in DOMAIN out'.rows, NEW s, s = out'.rows[i].req,
                        s \in ReqIds, req'[s].status \notin {"new", "gone", "finished"},
                        s \notin out'.failed
                 PROVE  out'.rows[i].ok
      BY Zenon
    <3>1. PICK j \in DOMAIN out.rows :
            /\ out'.rows[i] = out.rows[j]
            /\ req'[out.rows[j].req] = req[out.rows[j].req]
      BY <1>4
    <3>2. s = out.rows[j].req /\ req'[s] = req[s]
      BY <3>1
    <3>3. Live(s) /\ s \notin out.failed
      BY <1>1, <3>2 DEF Live, Known
    <3>4. out.rows[j].ok
      BY <2>1, <3>2, <3>3, Zenon
    <3> QED  BY <3>1, <3>4, Zenon
  <2>3. \A s : s \in Known' <=> s \in ReqIds /\ req'[s].status \notin {"new", "gone"}
    BY DEF Known
  <2> QED  BY <2>2, <2>3 DEF OutputIsRight, Live
<1> QED  BY <1>1, <1>2, <1>5, <1>6

LEMMA OutputRowKeeps == ASSUME IInv, OutputRow PROVE IInv'
<1>0. /\ Types /\ Phases /\ Queues /\ Inv_Counters /\ Batch /\ Outcome /\ Transfers /\ Sharing
      /\ RowsReadRight /\ ComputedIsRight /\ CachedIsRight /\ OutputIsRight
  BY DEF IInv
<1> DEFINE row == Head(out.rows)
           rest == [out EXCEPT !.rows = Tail(@)]
           rec == [req[row.req] EXCEPT !.tokens = @ + 1]
<1>1. /\ pc = "rows" /\ out.rows # <<>> /\ pc' = pc /\ at' = at /\ plan' = plan
      /\ flight' = flight /\ step_skipped' = step_skipped /\ running' = running
      /\ received' = received /\ failed' = failed /\ loading' = loading /\ faults' = faults
  BY DEF OutputRow, recvs, env
<1>2. recompute' = recompute
  BY Zenon DEF OutputRow, env
<1>r. PICK r : r = row.req
  OBVIOUS
<1>3. \/ /\ r \in out.failed \/ ~Live(r) \/ ~row.samples
         /\ out' = rest
         /\ UNCHANGED <<req, waiting, skipped, num_streaming, finished_ids, cached>>
         /\ UNCHANGED <<sending, ghosts>>
      \/ /\ r \notin out.failed /\ Live(r)
         /\ tainted' = (tainted \/ ~row.ok)
         /\ \/ /\ Stop(r, rec)
               /\ out' = [rest EXCEPT !.stopped = @ \cup {<<r, req[r].status>>}]
            \/ /\ req' = [req EXCEPT ![r] = rec] /\ out' = rest
               /\ UNCHANGED <<waiting, skipped, num_streaming, finished_ids, cached>>
               /\ UNCHANGED <<sending, good>>
  BY <1>r, Zenon DEF OutputRow
<1>4. flight = <<>> /\ plan = <<>> /\ Rows = <<>> /\ Rows' = <<>> /\ step_skipped = <<>>
  BY <1>0, <1>1 DEF Phases, Rows
<1>5. /\ out \in Output /\ out.rows \in Seq(OutRow) /\ 1 \in DOMAIN out.rows
      /\ row = out.rows[1]
      /\ out.stopped \in SUBSET (ReqIds \X {"running"}) /\ req \in [ReqIds -> Request]
  <2>1. out \in Output /\ req \in [ReqIds -> Request]
    BY <1>0 DEF Types
  <2> QED  BY <1>1, <2>1 DEF Output
<1>6. rest = [out EXCEPT !.rows = Tail(out.rows), !.stopped = out.stopped \cup {}]
  BY <1>5 DEF Output
<1>7. r \in ReqIds /\ r = out.rows[1].req
  <2>1. out.rows[1] \in OutRow
    BY <1>5
  <2> QED  BY <1>5, <1>r, <2>1 DEF OutRow
<1> DEFINE Updated == [req[r] EXCEPT !.tokens = @ + 1]
<1>8. rec = Updated
  BY <1>r
<1>9. CASE /\ out' = rest /\ tainted' = tainted
           /\ UNCHANGED <<req, waiting, skipped, num_streaming, finished_ids, cached, sending, good>>
  <2> DEFINE X == {}
  <2>1. NextRow(r, X)
    BY <1>1, <1>6, <1>9, <1>r DEF NextRow
  <2>2. X \in SUBSET (ReqIds \X {"running"}) /\ X = {}
    OBVIOUS
  <2>3. req' = req /\ waiting' = waiting /\ skipped' = skipped /\ num_streaming' = num_streaming
        /\ finished_ids' = finished_ids /\ cached' = cached /\ sending' = sending /\ good' = good
    BY <1>9
  <2>4. ~tainted'
    BY <1>0, <1>9, Zenon DEF OutputIsRight
  <2> HIDE DEF X
  <2>5. /\ Outcome' /\ OutputIsRight' /\ out' \in Output
        /\ Stopped' = IF X = {} THEN Stopped ELSE Stopped \cup {r}
    BY <1>2, <2>1, <2>2, <2>3, <2>4, OutcomeStep
  <2>6. /\ Sharing' /\ RowsReadRight' /\ ComputedIsRight' /\ CachedIsRight' /\ Held' = Held
    BY <1>1, <1>4, <2>3, SameEntries
  <2>7. out'.failed = out.failed /\ out'.done = out.done /\ out'.sent = out.sent
    BY <1>0, <2>1, <2>2, RowTaken
  <2>8. Types'
    BY <1>0, <1>1, <2>3, <2>5, <2>6 DEF Types
  <2>9. Phases'
    BY <1>0, <1>1 DEF Phases
  <2>10. Queues'
    <3>1. Stopped' = Stopped
      BY <2>2, <2>5
    <3> QED  BY <1>0, <1>1, <2>3, <3>1 DEF Queues, WithStatus
  <2>11. Inv_Counters'
    <3>1. \A s \in ReqIds : Alone(s)' <=> Alone(s)
      BY <2>3 DEF Alone
    <3>2. \A s \in ReqIds : Live(s)' <=> Live(s)
      BY <2>3 DEF Live, Known
    <3> QED  BY <1>0, <1>1, <2>3, <2>7, <3>1, <3>2, CountersKept DEF Inv_Counters
  <2>12. Batch'
    BY <1>1, <1>4 DEF Batch
  <2>13. Transfers'
    <3>1. Moving' = Moving
      BY <1>1, <2>7 DEF Moving
    <3> QED  BY <1>0, <1>1, <1>4, <2>3, <2>7, <3>1 DEF Transfers
  <2> QED  BY <2>5, <2>6, <2>8, <2>9, <2>10, <2>11, <2>12, <2>13 DEF IInv
<1> HIDE DEF rec, rest, Updated
<1>10. ASSUME r \notin out.failed, Live(r), tainted' = (tainted \/ ~row.ok)
       PROVE  ~tainted'
  <2>1. out.rows[1].ok
    BY <1>0, <1>5, <1>7, <1>10, Zenon DEF OutputIsRight
  <2>2. row.ok
    BY <1>5, <2>1, Zenon
  <2>3. ~tainted
    BY <1>0, Zenon DEF OutputIsRight
  <2> QED  BY <1>10, <2>2, <2>3, Zenon
<1>11. ASSUME r \notin out.failed, Live(r)
       PROVE  /\ req[r].status = "running" /\ req[r].computed # 0
              /\ Updated \in Request /\ Updated.status = "running"
              /\ Updated.table = req[r].table /\ Updated.computed = req[r].computed
              /\ Updated.tokens = req[r].tokens + 1 /\ Updated.updates = req[r].updates
              /\ req[r].computed <= req[r].tokens
              /\ req[r].tokens \in Nat /\ req[r].computed \in Nat
  <2>1. req[r].status = "running" /\ req[r].computed # 0
    BY <1>0, <1>5, <1>7, <1>11 DEF Outcome
  <2>2. req[r].computed <= req[r].tokens
    BY <1>0, <1>7, <1>11 DEF Inv_Counters, Counters
  <2>3. req[r] \in Request
    BY <1>5, <1>7
  <2>4. /\ req[r].tokens \in Nat /\ req[r].computed \in Nat /\ req[r].tokens + 1 \in Nat \ {0}
    BY <2>3 DEF Request
  <2>5. PICK n \in Nat \ {0} : n = req[r].tokens + 1
    BY <2>4
  <2>6. Updated = [req[r] EXCEPT !.tokens = n]
    BY <2>5 DEF Updated
  <2>7. /\ Updated \in Request /\ Updated.tokens = n /\ Updated.status = req[r].status
        /\ Updated.table = req[r].table /\ Updated.computed = req[r].computed
        /\ Updated.updates = req[r].updates
    BY <2>3, <2>6 DEF Request
  <2> QED  BY <2>1, <2>2, <2>4, <2>5, <2>7
<1>12. CASE /\ r \notin out.failed /\ Live(r) /\ tainted' = (tainted \/ ~row.ok)
            /\ req' = [req EXCEPT ![r] = rec] /\ out' = rest
            /\ UNCHANGED <<waiting, skipped, num_streaming, finished_ids, cached, sending, good>>
  <2>0. r \notin out.failed /\ Live(r) /\ ~tainted'
    BY <1>10, <1>12, Zenon
  <2>1. /\ req' = [req EXCEPT ![r] = Updated] /\ out' = rest
        /\ waiting' = waiting /\ skipped' = skipped /\ num_streaming' = num_streaming
        /\ finished_ids' = finished_ids /\ cached' = cached /\ sending' = sending /\ good' = good
    BY <1>8, <1>12
  <2> DEFINE X == {}
  <2>2. NextRow(r, X)
    BY <1>1, <1>6, <1>r, <2>1 DEF NextRow
  <2>3. X \in SUBSET (ReqIds \X {"running"}) /\ X = {}
    OBVIOUS
  <2> HIDE DEF X
  <2>4. out'.failed = out.failed /\ out'.done = out.done /\ out'.sent = out.sent
    BY <1>0, <2>2, <2>3, RowTaken
  <2>5. Updates(r, Updated)
    BY <1>1, <1>4, <1>7, <1>11, <2>0, <2>1, <2>4 DEF Updates
  <2>6. /\ req' \in [ReqIds -> Request] /\ req'[r] = Updated
        /\ \A s \in ReqIds \ {r} : req'[s] = req[s]
        /\ Held' = Held /\ Inv_Counters' /\ Batch' /\ Transfers' /\ Sharing'
        /\ RowsReadRight' /\ ComputedIsRight' /\ CachedIsRight'
    BY <2>5, UpdatedFacts
  <2>7. \A s \in ReqIds : req'[s].status = req[s].status
    BY <1>11, <2>0, <2>6
  <2>8. /\ Outcome' /\ OutputIsRight' /\ out' \in Output
        /\ Stopped' = IF X = {} THEN Stopped ELSE Stopped \cup {r}
    BY <1>2, <1>7, <2>0, <2>2, <2>3, <2>6, <2>7, OutcomeStep
  <2>9. Types'
    BY <1>0, <1>1, <2>1, <2>6, <2>8 DEF Types
  <2>10. Phases'
    BY <1>0, <1>1 DEF Phases
  <2>11. Queues'
    <3>1. Stopped' = Stopped
      BY <2>3, <2>8
    <3>2. \A S : WithStatus(S)' = WithStatus(S)
      BY <2>7 DEF WithStatus
    <3>3. \A s \in ToSet(waiting) : req'[s].status # "remote"
      <4>1. \A s \in ToSet(waiting) : s \in ReqIds
        BY <1>0 DEF Types, ToSet
      <4> QED  BY <1>0, <2>7, <4>1 DEF Queues
    <3> QED  BY <1>0, <1>1, <2>1, <3>1, <3>2, <3>3 DEF Queues, InQueues
  <2> QED  BY <2>6, <2>8, <2>9, <2>10, <2>11 DEF IInv
<1>13. CASE /\ r \notin out.failed /\ Live(r) /\ tainted' = (tainted \/ ~row.ok)
            /\ Stop(r, rec)
            /\ out' = [rest EXCEPT !.stopped = @ \cup {<<r, req[r].status>>}]
  <2>0. r \notin out.failed /\ Live(r) /\ ~tainted'
    BY <1>10, <1>13, Zenon
  <2>1. Stop(r, Updated)
    BY <1>8, <1>13
  <2> DEFINE X == {<<r, "running">>}
  <2>2. out' = [out EXCEPT !.rows = Tail(out.rows), !.stopped = out.stopped \cup X]
    <3>1. out' = [rest EXCEPT !.stopped = rest.stopped \cup X]
      BY <1>11, <1>13, <2>0
    <3>2. rest.stopped = out.stopped /\ rest = [out EXCEPT !.rows = Tail(out.rows)]
      BY <1>5 DEF rest, Output
    <3> QED  BY <1>5, <3>1, <3>2 DEF Output
  <2>3. NextRow(r, X)
    BY <1>1, <1>r, <2>2 DEF NextRow
  <2>4. X \in SUBSET (ReqIds \X {"running"}) /\ X # {} /\ X = {<<r, "running">>}
    BY <1>7
  <2> HIDE DEF X
  <2>5. out'.failed = out.failed /\ out'.done = out.done /\ out'.sent = out.sent
    BY <1>0, <2>3, <2>4, RowTaken
  <2>6. /\ req[r].status = "running" /\ req[r].computed # 0
        /\ Updated \in Request /\ Updated.status = "running"
        /\ Updated.table = req[r].table /\ Updated.computed = req[r].computed
        /\ Updated.tokens = req[r].tokens + 1 /\ Updated.updates = req[r].updates
        /\ req[r].computed <= req[r].tokens
        /\ req[r].tokens \in Nat /\ req[r].computed \in Nat
    BY <1>11, <2>0
  <2>7. /\ r \notin failed \cup received /\ r \notin Moving /\ r \notin sending \cup out.sent
        /\ r \notin ToSet(waiting) /\ r \notin ToSet(skipped) /\ r \notin Stopped
        /\ r \notin WithStatus(InQueues)
    <3>1. r \notin failed \cup received
      BY <1>0, <1>7, <2>6 DEF Inv_Counters, Counters
    <3>2. r \notin Moving /\ r \notin sending \cup out.sent
      BY <1>0, <2>6 DEF Transfers
    <3>3. r \notin WithStatus(InQueues) /\ r \notin ToSet(waiting) /\ r \notin ToSet(skipped)
      BY <1>0, <2>6 DEF Queues, WithStatus, InQueues
    <3>4. r \notin Stopped
      BY <1>0, <2>6 DEF Outcome, WithStatus
    <3> QED  BY <3>1, <3>2, <3>3, <3>4
  <2>8. \/ \E delayed \in Delays({r}) :
             /\ req' = [req EXCEPT ![r] = Ended(r, r \in delayed)]
             /\ sending' = sending \cup delayed
             /\ Free({r} \ delayed)
             /\ finished_ids' = finished_ids \cup {r}
             /\ UNCHANGED <<waiting, skipped, num_streaming>>
        \/ \E next \in Request :
             /\ req' = [req EXCEPT ![r] = next]
             /\ next.table = req[r].table /\ next.computed = req[r].computed
             /\ UNCHANGED <<sending, cached, good, finished_ids>>
             /\ \/ /\ next.status = "streaming" /\ next.computed <= next.tokens
                   /\ skipped' = Append(skipped, r) /\ num_streaming' = num_streaming + 1
                   /\ UNCHANGED waiting
                \/ /\ next.status = "waiting" /\ next.computed < next.tokens
                   /\ waiting' = Append(waiting, r) /\ UNCHANGED <<skipped, num_streaming>>
    <3> DEFINE over == r \notin Resumable \/ (Updated.updates # <<>> /\ Head(Updated.updates) = 0)
               last == Updated.updates = <<>>
               waits == [Updated EXCEPT !.status = "streaming"]
               popped == [Updated EXCEPT !.updates = Tail(@)]
               goes == AsSession(r, popped, Head(Updated.updates))
               next == IF Updated.updates = <<>> THEN waits ELSE goes
    <3>1. CASE over
      BY <2>1, <3>1, Zenon DEF Stop
    <3>2. CASE ~over
      <4>1. /\ req' = [req EXCEPT ![r] = next]
            /\ IF next.status = "streaming"
               THEN /\ skipped' = Append(skipped, r) /\ num_streaming' = num_streaming + 1
                    /\ UNCHANGED waiting
               ELSE waiting' = Append(waiting, r) /\ UNCHANGED <<skipped, num_streaming>>
            /\ UNCHANGED <<sending, cached, good, finished_ids>>
        BY <2>1, <3>2, Zenon DEF Stop
      <4>2. CASE last
        <5>1. next = waits
          BY <4>2
        <5>2. /\ waits \in Request /\ waits.status = "streaming" /\ waits.table = req[r].table
              /\ waits.computed = req[r].computed /\ waits.computed <= waits.tokens
          BY <2>6 DEF Request, Statuses
        <5> HIDE DEF next, waits
        <5>3. /\ next \in Request /\ next.status = "streaming" /\ next.table = req[r].table
              /\ next.computed = req[r].computed /\ next.computed <= next.tokens
          BY <5>1, <5>2
        <5>4. /\ req' = [req EXCEPT ![r] = next]
              /\ skipped' = Append(skipped, r) /\ num_streaming' = num_streaming + 1
              /\ UNCHANGED waiting /\ UNCHANGED <<sending, cached, good, finished_ids>>
          BY <4>1, <5>3
        <5> QED  BY <5>3, <5>4, Zenon
      <4>3. CASE ~last
        <5>1. next = goes
          BY <4>3
        <5>2. /\ Updated.updates \in Seq(Nat) /\ Head(Updated.updates) \in Nat \ {0}
              /\ Tail(Updated.updates) \in Seq(Nat)
          <6>1. Updated.updates \in Seq(Nat) /\ Updated.updates # <<>>
            BY <2>6, <4>3 DEF Request
          <6>2. Head(Updated.updates) # 0
            BY <3>2, <6>1
          <6> QED  BY <6>1, <6>2, HeadTailProperties
        <5>3. /\ popped \in Request /\ popped.computed = req[r].computed
              /\ popped.tokens = req[r].tokens + 1 /\ popped.table = req[r].table
          BY <2>6, <5>2 DEF Request
        <5>4. popped.computed <= popped.tokens
          BY <2>6, <5>3
        <5> HIDE DEF popped
        <5>5. /\ goes \in Request /\ goes.status = "waiting" /\ goes.table = req[r].table
              /\ goes.computed = req[r].computed /\ goes.computed < goes.tokens
          BY <5>2, <5>3, <5>4, SessionFacts
        <5> HIDE DEF next, goes
        <5> QED  BY <4>1, <5>1, <5>5
      <4> QED  BY <4>2, <4>3
    <3> QED  BY <3>1, <3>2
  <2>9. /\ sending \in SUBSET ReqIds /\ finished_ids \in SUBSET ReqIds
        /\ waiting \in Seq(ReqIds) /\ skipped \in Seq(ReqIds)
        /\ IsInjective(waiting) /\ IsInjective(skipped)
        /\ ToSet(waiting) \cap ToSet(skipped) = {}
        /\ ToSet(step_skipped) = {} /\ IsInjective(step_skipped)
        /\ ToSet(waiting) \cup ToSet(skipped) = WithStatus(InQueues)
        /\ ToSet(running) = WithStatus({"running"}) \cup Stopped /\ IsInjective(running)
        /\ num_streaming = Cardinality(WithStatus({"streaming"}))
        /\ \A s \in ToSet(waiting) : s \in ReqIds /\ req[s].status # "remote"
    <3>1. ToSet(<<>>) = {}
      BY DEF ToSet
    <3>2. \A s \in ToSet(waiting) : s \in ReqIds
      BY <1>0 DEF Types, ToSet
    <3>3. /\ sending \in SUBSET ReqIds /\ finished_ids \in SUBSET ReqIds
          /\ waiting \in Seq(ReqIds) /\ skipped \in Seq(ReqIds)
      BY <1>0 DEF Types
    <3> QED  BY <1>0, <1>4, <3>1, <3>2, <3>3 DEF Queues
  <2>10. Moving' = Moving
    BY <1>1, <2>5 DEF Moving
  <2>11. ASSUME \A s \in ReqIds \ {r} : req'[s].status = req[s].status,
                req'[r].status # "running"
         PROVE  WithStatus({"running"})' = WithStatus({"running"}) \ {r}
    BY <1>7, <2>11, StatusChanged
  <2>12. ASSUME NEW delayed \in Delays({r}),
                req' = [req EXCEPT ![r] = Ended(r, r \in delayed)],
                sending' = sending \cup delayed, Free({r} \ delayed),
                finished_ids' = finished_ids \cup {r},
                UNCHANGED <<waiting, skipped, num_streaming>>
         PROVE  IInv'
    <3> DEFINE G == {r} \ delayed
    <3>1. delayed \in SUBSET {r}
      BY DelayFacts
    <3>2. Ends({r}, G)
      BY <1>0, <1>1, <1>4, <1>7, <2>0, <2>12, <3>1, EndsOne
    <3>3. G \subseteq {r} /\ (r \in delayed <=> r \notin G)
      OBVIOUS
    <3> HIDE DEF G
    <3>4. PICK E : E = {r}
      OBVIOUS
    <3>5. /\ req' \in [ReqIds -> Request] /\ Frees(G)
          /\ \A s \in G : req'[s].status = "gone" /\ req'[s].table = <<>> /\ req'[s].computed = 0
          /\ \A s \in E \ G : req'[s].status = "finished" /\ req'[s].table = req[s].table
          /\ \A s \in ReqIds \ (E \cup G) : req'[s] = req[s]
      BY <3>2, <3>4, EndedFacts
    <3>6. /\ \A s \in ReqIds \ {r} : req'[s] = req[s]
          /\ r \in G => req'[r].status = "gone" /\ req'[r].table = <<>> /\ req'[r].computed = 0
          /\ r \notin G => req'[r].status = "finished" /\ req'[r].table = req[r].table
      BY <1>7, <3>3, <3>4, <3>5
    <3>7. /\ Held' \subseteq Held /\ cached' \in SUBSET Held' /\ cached' \subseteq cached
          /\ good' \in SUBSET good
          /\ Sharing' /\ RowsReadRight' /\ ComputedIsRight' /\ CachedIsRight'
          /\ \A s \in ReqIds \ G : Alone(s) => Alone(s)'
          /\ \A s \in DOMAIN loading \ G : \A p \in loading[s] :
               Exclusive(p[1], s)' /\ \A i \in DOMAIN Rows' : p[1] \notin ToSet(Rows'[i].table)
      BY <3>5, FreeFacts
    <3>8. req'[r].status \in {"gone", "finished"}
      BY <3>6
    <3>9. Inv_Counters'
      <4>1. ASSUME NEW s \in ReqIds \ {r} PROVE Counters(s)'
        BY <1>0, <1>1, <2>5, <3>3, <3>6, <3>7, CountersKept DEF Inv_Counters
      <4>2. Counters(r)'
        BY <1>1, <2>7, <3>6, <3>8 DEF Counters, Live, Known
      <4> QED  BY <4>1, <4>2 DEF Inv_Counters
    <3>10. Batch'
      BY <1>1, <1>4 DEF Batch
    <3>11. Transfers'
      <4>1. \A s \in Moving \cup sending \cup out.sent : s \in ReqIds /\ s # r /\ req'[s] = req[s]
        <5>1. Moving \subseteq ReqIds /\ sending \cup out.sent \subseteq ReqIds
          BY <1>0, <1>5 DEF Types, Moving, Output
        <5> QED  BY <2>7, <3>6, <5>1
      <4>2. /\ \A s \in Moving : req'[s].status \in {"remote", "finished"} /\ s \notin received
            /\ \A s \in sending \cup out.sent : req'[s].status = "finished"
        BY <1>0, <4>1 DEF Transfers
      <4>3. r \in delayed => req'[r].status = "finished"
        BY <3>3, <3>6
      <4>4. \A s \in sending' \cup out.sent : req'[s].status = "finished"
        BY <2>12, <3>1, <4>2, <4>3
      <4>5. /\ DOMAIN loading \cap out.done = {} /\ sending' \cap out.sent = {}
            /\ (sending' \cup out.sent) \cap Moving = {}
        <5>1. delayed \cap Moving = {} /\ delayed \cap out.sent = {}
          BY <2>7, <3>1
        <5>2. /\ DOMAIN loading \cap out.done = {} /\ sending \cap out.sent = {}
              /\ (sending \cup out.sent) \cap Moving = {}
          BY <1>0 DEF Transfers
        <5> QED  BY <2>12, <5>1, <5>2
      <4>6. \A s \in ReqIds :
              /\ req'[s].status = "finished" => s \in sending' \cup out.sent \cup Moving
              /\ req'[s].status = "remote" => s \in received \cup Moving
        <5> SUFFICES ASSUME NEW s \in ReqIds
                     PROVE  /\ req'[s].status = "finished" => s \in sending' \cup out.sent \cup Moving
                            /\ req'[s].status = "remote" => s \in received \cup Moving
          OBVIOUS
        <5>1. CASE s = r
          BY <2>12, <3>3, <3>6, <3>8, <5>1
        <5>2. CASE s # r
          <6>1. req'[s] = req[s] /\ sending \subseteq sending'
            BY <2>12, <3>6, <5>2
          <6> QED  BY <1>0, <6>1 DEF Transfers
        <5> QED  BY <5>1, <5>2
      <4>7. \A s \in DOMAIN loading : \A p \in loading[s] :
           /\ p[1] \in ToSet(req'[s].table) /\ p[1] \notin cached'
           /\ \A q \in ReqIds \ {s} : p[1] \notin ToSet(req'[q].table)
           /\ \A i \in DOMAIN Rows' : p[1] \notin ToSet(Rows'[i].table)
        <5> SUFFICES ASSUME NEW s \in DOMAIN loading, NEW p \in loading[s]
                     PROVE  /\ Exclusive(p[1], s)'
                            /\ \A i \in DOMAIN Rows' : p[1] \notin ToSet(Rows'[i].table)
          BY DEF Exclusive
        <5>1. s \notin G
          BY <3>3, <4>1 DEF Moving
        <5> QED  BY <3>7, <5>1
      <4> QED  BY <1>1, <2>5, <2>10, <4>2, <4>4, <4>5, <4>6, <4>7 DEF Transfers
    <3>12. /\ Outcome' /\ OutputIsRight' /\ out' \in Output
           /\ Stopped' = IF X = {} THEN Stopped ELSE Stopped \cup {r}
      BY <1>2, <2>0, <2>3, <2>4, <3>6, <3>8, OutcomeStep
    <3>13. Types'
      <4>1. sending' \in SUBSET ReqIds /\ finished_ids' \in SUBSET ReqIds
        BY <1>7, <2>9, <2>12, <3>1
      <4>2. good' \in SUBSET Slots /\ waiting' = waiting /\ skipped' = skipped
        BY <1>0, <2>12, <3>7 DEF Types
      <4> QED  BY <1>0, <1>1, <3>5, <3>7, <3>12, <4>1, <4>2 DEF Types
    <3>14. Phases'
      BY <1>0, <1>1 DEF Phases
    <3>15. Queues'
      <4>1. \A s \in ReqIds \ {r} : req'[s].status = req[s].status
        BY <3>6
      <4>2. WithStatus({"running"})' = WithStatus({"running"}) \ {r}
        BY <2>11, <3>8, <4>1
      <4>3. /\ WithStatus(InQueues)' = WithStatus(InQueues) \ {r}
            /\ WithStatus({"streaming"})' = WithStatus({"streaming"}) \ {r}
        BY <1>7, <3>8, <4>1, StatusChanged DEF InQueues
      <4>4. /\ WithStatus(InQueues)' = WithStatus(InQueues)
            /\ WithStatus({"streaming"})' = WithStatus({"streaming"})
        BY <2>6, <2>7, <4>3 DEF WithStatus
      <4>5. ToSet(running) = WithStatus({"running"})' \cup Stopped'
        <5>1. r \in WithStatus({"running"})
          BY <1>7, <2>6 DEF WithStatus
        <5> QED  BY <2>4, <2>9, <3>12, <4>2, <5>1
      <4>6. \A s \in ToSet(waiting) : req'[s].status # "remote"
        BY <2>7, <2>9, <3>6
      <4> QED  BY <1>1, <1>4, <2>9, <2>12, <4>4, <4>5, <4>6 DEF Queues, InQueues
    <3> QED  BY <3>7, <3>9, <3>10, <3>11, <3>12, <3>13, <3>14, <3>15 DEF IInv
  <2>13. ASSUME NEW next \in Request, req' = [req EXCEPT ![r] = next],
                next.table = req[r].table, next.computed = req[r].computed,
                UNCHANGED <<sending, cached, good, finished_ids>>,
                \/ /\ next.status = "streaming" /\ next.computed <= next.tokens
                   /\ skipped' = Append(skipped, r) /\ num_streaming' = num_streaming + 1
                   /\ UNCHANGED waiting
                \/ /\ next.status = "waiting" /\ next.computed < next.tokens
                   /\ waiting' = Append(waiting, r) /\ UNCHANGED <<skipped, num_streaming>>
         PROVE  IInv'
    <3>1. next.status \in {"streaming", "waiting"} /\ next.computed <= next.tokens
      BY <2>13 DEF Request
    <3>2. Updates(r, next)
      BY <1>1, <1>4, <1>7, <2>0, <2>5, <2>6, <2>13, <3>1 DEF Updates
    <3>3. /\ req' \in [ReqIds -> Request] /\ req'[r] = next
          /\ \A s \in ReqIds \ {r} : req'[s] = req[s]
          /\ Held' = Held /\ Inv_Counters' /\ Batch' /\ Transfers' /\ Sharing'
          /\ RowsReadRight' /\ ComputedIsRight' /\ CachedIsRight'
      BY <3>2, UpdatedFacts
    <3>4. /\ Outcome' /\ OutputIsRight' /\ out' \in Output
          /\ Stopped' = IF X = {} THEN Stopped ELSE Stopped \cup {r}
      BY <1>2, <2>0, <2>3, <2>4, <3>1, <3>3, OutcomeStep
    <3>5. /\ waiting' \in Seq(ReqIds) /\ skipped' \in Seq(ReqIds)
          /\ IsInjective(waiting') /\ IsInjective(skipped')
          /\ \/ /\ next.status = "streaming" /\ num_streaming' = num_streaming + 1
                /\ ToSet(skipped') = ToSet(skipped) \cup {r} /\ ToSet(waiting') = ToSet(waiting)
             \/ /\ next.status = "waiting" /\ num_streaming' = num_streaming
                /\ ToSet(waiting') = ToSet(waiting) \cup {r} /\ ToSet(skipped') = ToSet(skipped)
      <4>1. /\ Append(skipped, r) \in Seq(ReqIds) /\ Append(waiting, r) \in Seq(ReqIds)
            /\ IsInjective(Append(skipped, r)) /\ IsInjective(Append(waiting, r))
            /\ ToSet(Append(skipped, r)) = ToSet(skipped) \cup {r}
            /\ ToSet(Append(waiting, r)) = ToSet(waiting) \cup {r}
        BY <1>7, <2>7, <2>9, AppendedSeq
      <4> QED  BY <2>9, <2>13, <4>1
    <3>6. Types'
      <4>1. /\ sending' = sending /\ finished_ids' = finished_ids
            /\ cached' = cached /\ good' = good
        BY <2>13
      <4> QED  BY <1>0, <1>1, <3>3, <3>4, <3>5, <4>1 DEF Types
    <3>7. Phases'
      BY <1>0, <1>1 DEF Phases
    <3>8. Queues'
      <4>1. \A s \in ReqIds \ {r} : req'[s].status = req[s].status
        BY <3>3
      <4>2. WithStatus({"running"})' = WithStatus({"running"}) \ {r}
        BY <2>11, <3>1, <3>3, <4>1
      <4>3. /\ WithStatus(InQueues)' = WithStatus(InQueues) \cup {r}
            /\ WithStatus({"streaming"})' = IF next.status = "streaming"
                                            THEN WithStatus({"streaming"}) \cup {r}
                                            ELSE WithStatus({"streaming"}) \ {r}
        <5>1. /\ WithStatus(InQueues)' = IF req'[r].status \in InQueues
                                         THEN WithStatus(InQueues) \cup {r}
                                         ELSE WithStatus(InQueues) \ {r}
              /\ WithStatus({"streaming"})' = IF req'[r].status \in {"streaming"}
                                              THEN WithStatus({"streaming"}) \cup {r}
                                              ELSE WithStatus({"streaming"}) \ {r}
          BY <1>7, <4>1, StatusChanged DEF InQueues
        <5>2. req'[r].status = next.status /\ next.status \in InQueues
          BY <3>1, <3>3 DEF InQueues
        <5> QED  BY <5>1, <5>2
      <4>4. num_streaming' = Cardinality(WithStatus({"streaming"})')
        <5>1. CASE next.status = "streaming"
          <6>1. Cardinality(WithStatus({"streaming"}) \cup {r}) = num_streaming + 1
            BY <1>7, <2>6, <2>9, StreamingCount
          <6> QED  BY <3>5, <4>3, <5>1, <6>1
        <5>2. CASE next.status # "streaming"
          <6>1. r \notin WithStatus({"streaming"})
            BY <2>6 DEF WithStatus
          <6> QED  BY <2>9, <3>5, <4>3, <5>2, <6>1
        <5> QED  BY <5>1, <5>2
      <4>5. ToSet(running) = WithStatus({"running"})' \cup Stopped'
        <5>1. r \in WithStatus({"running"})
          BY <1>7, <2>6 DEF WithStatus
        <5> QED  BY <2>4, <2>9, <3>4, <4>2, <5>1
      <4>6. \A s \in ToSet(waiting') : req'[s].status # "remote"
        <5>1. \A s \in ToSet(waiting') : s = r \/ s \in ToSet(waiting)
          BY <3>5
        <5> QED  BY <2>7, <2>9, <3>1, <3>3, <5>1
      <4>7. /\ ToSet(waiting') \cup ToSet(skipped') = WithStatus(InQueues)'
            /\ ToSet(waiting') \cap ToSet(skipped') = {}
        BY <2>7, <2>9, <3>5, <4>3
      <4> QED  BY <1>1, <1>4, <2>9, <3>5, <4>4, <4>5, <4>6, <4>7 DEF Queues, InQueues
    <3> QED  BY <3>3, <3>4, <3>6, <3>7, <3>8 DEF IInv
  <2> QED  BY <2>8, <2>12, <2>13
<1> QED
  <2>1. CASE /\ r \in out.failed \/ ~Live(r) \/ ~row.samples
             /\ out' = rest
             /\ UNCHANGED <<req, waiting, skipped, num_streaming, finished_ids, cached>>
             /\ UNCHANGED <<sending, ghosts>>
    <3>1. out' = rest /\ tainted' = tainted
      BY <2>1, Zenon DEF ghosts
    <3>2. UNCHANGED <<req, waiting, skipped, num_streaming, finished_ids, cached, sending, good>>
      BY <2>1 DEF ghosts
    <3> QED  BY <1>9, <3>1, <3>2, Zenon
  <2>2. CASE /\ r \notin out.failed /\ Live(r)
             /\ tainted' = (tainted \/ ~row.ok)
             /\ Stop(r, rec)
             /\ out' = [rest EXCEPT !.stopped = @ \cup {<<r, req[r].status>>}]
    BY <1>13, <2>2, Zenon
  <2>3. CASE /\ r \notin out.failed /\ Live(r)
             /\ tainted' = (tainted \/ ~row.ok)
             /\ req' = [req EXCEPT ![r] = rec] /\ out' = rest
             /\ UNCHANGED <<waiting, skipped, num_streaming, finished_ids, cached>>
             /\ UNCHANGED <<sending, good>>
    <3>1. UNCHANGED <<waiting, skipped, num_streaming, finished_ids, cached, sending, good>>
      BY <2>3
    <3> QED  BY <1>12, <2>3, <3>1, Zenon
  <2> QED  BY <1>3, <2>1, <2>2, <2>3, Zenon

-----------------------------------------------------------------------------
(* What a batch leaves behind when some of its loads fail.                   *)
Reported(invalid) ==
  invalid \subseteq {p[1] : p \in (UNION Range(loading)) \cup (UNION {row.load : row \in ToSet(Rows)})}

LEMMA SharedRow ==
  ASSUME SyncUnshared, "sync" \in Loads, Types, Sharing, NEW i \in DOMAIN Rows, NEW s \in ReqIds,
         NEW b, b \in ToSet(Rows[i].table), b \in ToSet(req[s].table)
  PROVE  Rows[i].req = s
<1>1. Agree(Rows[i].req, Rows[i].table, s, req[s].table) /\ Rows[i].req \in ReqIds
  BY RowsType DEF Sharing
<1>2. Family[Rows[i].req] = Family[s]
  BY <1>1 DEF Agree, ToSet
<1> QED  BY <1>1, <1>2 DEF SyncUnshared

LEMMA SharedBlock ==
  ASSUME SyncUnshared, "sync" \in Loads, Types, Sharing, NEW r \in ReqIds, NEW s \in ReqIds,
         NEW b, b \in ToSet(req[r].table), b \in ToSet(req[s].table)
  PROVE  r = s
<1>1. Agree(r, req[r].table, s, req[s].table)
  BY DEF Sharing
<1>2. Family[r] = Family[s]
  BY <1>1 DEF Agree, ToSet
<1> QED  BY <1>2 DEF SyncUnshared

(* The block of an asynchronous load is its request's alone; of another load *)
(* it is one that a row reads.                                               *)
LEMMA WhereInvalid ==
  ASSUME IInv, NEW invalid, Reported(invalid), NEW b \in invalid
  PROVE  \/ \E s \in DOMAIN loading :
              /\ s \in ReqIds /\ b \in ToSet(req[s].table) /\ b \notin cached
              /\ \A q \in ReqIds \ {s} : b \notin ToSet(req[q].table)
              /\ \A i \in DOMAIN Rows : b \notin ToSet(Rows[i].table)
         \/ /\ "sync" \in Loads
            /\ \E i \in DOMAIN Rows : \E m \in 0 .. Rows[i].start - 1 :
                 b = Rows[i].table[m \div BlockSize + 1]
<1>0. Types /\ Batch /\ Transfers
  BY DEF IInv
<1>1. PICK p \in (UNION Range(loading)) \cup (UNION {row.load : row \in ToSet(Rows)}) : b = p[1]
  BY DEF Reported
<1>2. CASE p \in UNION Range(loading)
  <2>1. PICK s \in DOMAIN loading : p \in loading[s]
    BY <1>2 DEF Range
  <2>2. s \in ReqIds
    BY <1>0 DEF Types
  <2> QED  BY <1>0, <1>1, <2>1, <2>2 DEF Transfers
<1>3. CASE p \in UNION {row.load : row \in ToSet(Rows)}
  <2>1. PICK i \in DOMAIN Rows : p \in Rows[i].load
    BY <1>3 DEF ToSet
  <2>2. "sync" \in Loads /\ p \in Places(Rows[i].table, 0, Rows[i].start)
    BY <1>0, <2>1 DEF Batch, Planned
  <2>3. PICK m \in 0 .. Rows[i].start - 1 : p = At(Rows[i].table, m)
    BY <2>2 DEF Places
  <2> QED  BY <1>1, <2>2, <2>3 DEF At
<1> QED  BY <1>1, <1>2, <1>3

(* A row that would read what has not been loaded.                           *)
Unsound(row, invalid) ==
  \E m \in 0 .. row.start - 1 : row.table[m \div BlockSize + 1] \in invalid

LEMMA RowPositions ==
  ASSUME Types, Batch, NEW i \in DOMAIN Rows
  PROVE  \A m \in 0 .. (Rows[i].start + Rows[i].new) - 1 :
           /\ m \in Nat /\ m \div BlockSize + 1 \in DOMAIN Rows[i].table
           /\ At(Rows[i].table, m) \in Slots
           /\ At(Rows[i].table, m)[1] = Rows[i].table[m \div BlockSize + 1]
           /\ At(Rows[i].table, m)[1] \in ToSet(Rows[i].table)
<1> SUFFICES ASSUME NEW m \in 0 .. (Rows[i].start + Rows[i].new) - 1
             PROVE  /\ m \in Nat /\ m \div BlockSize + 1 \in DOMAIN Rows[i].table
                    /\ At(Rows[i].table, m) \in Slots
                    /\ At(Rows[i].table, m)[1] = Rows[i].table[m \div BlockSize + 1]
                    /\ At(Rows[i].table, m)[1] \in ToSet(Rows[i].table)
  OBVIOUS
<1>1. /\ Rows[i].start + Rows[i].new <= Len(Rows[i].table) * BlockSize
      /\ Rows[i].start \in Nat /\ Rows[i].new \in Nat /\ Rows[i].table \in Seq(Blocks)
      /\ Len(Rows[i].table) \in Nat
  BY RowsType DEF Batch, Planned
<1>2. Len(Rows[i].table) * BlockSize \in Nat
  BY <1>1, Sizes
<1>3. m \in Nat /\ m < Len(Rows[i].table) * BlockSize
  BY <1>1, <1>2
<1> QED  BY <1>1, <1>3, PlaceFacts

LEMMA UnsoundFacts ==
  ASSUME IInv, NEW invalid, Reported(invalid), NEW i \in DOMAIN Rows, Unsound(Rows[i], invalid)
  PROVE  "sync" \in Loads
<1>1. PICK m \in 0 .. Rows[i].start - 1 : Rows[i].table[m \div BlockSize + 1] \in invalid
  BY DEF Unsound
<1>2. Types /\ Batch /\ Rows[i].start \in Nat /\ Rows[i].new \in Nat
  BY RowsType DEF IInv
<1>3. m \in 0 .. (Rows[i].start + Rows[i].new) - 1
  BY <1>2
<1>4. Rows[i].table[m \div BlockSize + 1] \in ToSet(Rows[i].table)
  BY <1>2, <1>3, RowPositions
<1> QED  BY <1>1, <1>4, WhereInvalid

(* Entries that are right if they are written: in blocks that are held,      *)
(* loaded, and not written by a row that read others.                        *)
Fine(p, invalid) ==
  /\ p[1] \in Held /\ p[1] \notin invalid
  /\ \A j \in DOMAIN Rows : Unsound(Rows[j], invalid) => p \notin Written(Rows[j])

(* A sound row reads what is fine, if what it writes is held.                *)
LEMMA ReadsFine ==
  ASSUME SyncUnshared, IInv, NEW invalid, Reported(invalid), NEW i \in DOMAIN Rows,
         ~Unsound(Rows[i], invalid),
         \/ \E p \in Written(Rows[i]) : p[1] \in Held
         \/ Rows[i].table = req[Rows[i].req].table,
         NEW q \in Places(Rows[i].table, 0, Rows[i].start)
  PROVE  Fine(q, invalid) /\ q \in Coming(i)
<1> DEFINE row == Rows[i]
<1>0. Types /\ Batch /\ Sharing /\ RowsReadRight
  BY DEF IInv
<1>1. /\ row.start \in Nat /\ row.new \in Nat /\ row.req \in ReqIds
      /\ row.table \in Seq(Blocks)
  BY <1>0, RowsType
<1>2. PICK m \in 0 .. row.start - 1 : q = At(row.table, m)
  BY DEF Places
<1>3. m \in 0 .. (row.start + row.new) - 1
  BY <1>1, <1>2
<1>4. /\ m \in Nat /\ m \div BlockSize + 1 \in DOMAIN row.table
      /\ q[1] = row.table[m \div BlockSize + 1] /\ q[1] \in ToSet(row.table)
  BY <1>0, <1>2, <1>3, RowPositions
<1>5. q[1] \in Held
  <2>1. CASE row.table = req[row.req].table
    BY <1>1, <1>4, <2>1, HeldBy
  <2>2. CASE \E p \in Written(row) : p[1] \in Held
    <3>1. PICK p \in Written(row) : p[1] \in Held
      BY <2>2
    <3>2. PICK l \in row.start .. (row.start + row.new) - 1 : p = At(row.table, l)
      BY <3>1 DEF Written, Places
    <3>3. l \in 0 .. (row.start + row.new) - 1 /\ m <= l
      BY <1>1, <1>2, <3>2
    <3>4. /\ l \in Nat /\ l \div BlockSize + 1 \in DOMAIN row.table
          /\ p[1] = row.table[l \div BlockSize + 1]
      BY <1>0, <3>2, <3>3, RowPositions
    <3>5. PICK s \in ReqIds : p[1] \in ToSet(req[s].table)
      BY <3>1, HeldBy
    <3> DEFINE k == m \div BlockSize + 1
               n == l \div BlockSize + 1
    <3>6. k \in 1 .. n
      <4>1. m \div BlockSize <= l \div BlockSize
        BY <1>4, <3>3, <3>4, BlockOrder
      <4>2. k \in Nat /\ n \in Nat /\ k \in 1 .. Len(row.table) /\ n \in 1 .. Len(row.table)
        BY <1>1, <1>4, <3>4
      <4>3. m \div BlockSize \in Int /\ l \div BlockSize \in Int
        BY <1>4, <3>4, Sizes
      <4> QED  BY <4>1, <4>2, <4>3
    <3> HIDE DEF k, n
    <3>7. PICK j \in DOMAIN req[s].table : req[s].table[j] = p[1]
      BY <3>5 DEF ToSet
    <3>8. Agree(row.req, row.table, s, req[s].table)
      BY <1>0 DEF Sharing
    <3>9. row.table[n] = req[s].table[j] /\ n \in DOMAIN row.table
      BY <3>4, <3>7 DEF n
    <3>10. n = j /\ \A h \in 1 .. n : row.table[h] = req[s].table[h]
      BY <3>8, <3>9 DEF Agree
    <3>11. row.table[k] = req[s].table[k] /\ k \in DOMAIN req[s].table
      <4>1. DOMAIN req[s].table = 1 .. Len(req[s].table)
        BY <1>0, ReqFacts
      <4> QED  BY <3>6, <3>7, <3>10, <4>1
    <3>12. q[1] \in ToSet(req[s].table)
      BY <1>4, <3>11 DEF ToSet, k
    <3> QED  BY <3>12, HeldBy
  <2> QED  BY <2>1, <2>2
<1>6. q[1] \notin invalid
  BY <1>2, <1>4 DEF Unsound
<1>7. ASSUME NEW j \in DOMAIN Rows, Unsound(Rows[j], invalid), q \in Written(Rows[j])
      PROVE  FALSE
  <2>1. "sync" \in Loads
    BY <1>7, UnsoundFacts
  <2>2. q[1] \in ToSet(Rows[j].table)
    <3>1. PICK l \in Rows[j].start .. (Rows[j].start + Rows[j].new) - 1 : q = At(Rows[j].table, l)
      BY <1>7 DEF Written, Places
    <3>2. Rows[j].start \in Nat /\ Rows[j].new \in Nat
      BY <1>0, RowsType
    <3>3. l \in 0 .. (Rows[j].start + Rows[j].new) - 1
      BY <3>1, <3>2
    <3> QED  BY <1>0, <3>1, <3>3, RowPositions
  <2>3. PICK s \in ReqIds : q[1] \in ToSet(req[s].table)
    BY <1>5, HeldBy
  <2>4. Rows[i].req = s /\ Rows[j].req = s
    BY <1>0, <1>4, <2>1, <2>2, <2>3, SharedRow
  <2>5. i = j
    BY <1>0, <2>4 DEF Batch
  <2> QED  BY <1>7, <2>5
<1>8. q \in Coming(i)
  BY <1>0, <1>5 DEF RowsReadRight
<1> QED  BY <1>5, <1>6, <1>7, <1>8 DEF Fine

(* What is right after each row of the batch.                                *)
Begins(invalid) ==
  LET loads == UNION {row.load : row \in ToSet(Rows)}
  IN {p \in good \cup loads : p \in loads => p[1] \notin invalid}

Runs(a, invalid) ==
  /\ a \in [0 .. Len(Rows) -> SUBSET Slots] /\ a[0] = Begins(invalid)
  /\ \A i \in 1 .. Len(Rows) :
       a[i] = IF RowOk(Rows[i], a[i - 1]) THEN a[i - 1] \cup Written(Rows[i])
              ELSE a[i - 1] \ Written(Rows[i])

Reports(x, a) ==
  /\ x.good = a[Len(Rows)]
  /\ x.rows = [i \in DOMAIN Rows |-> [req |-> Rows[i].req, samples |-> Rows[i].samples,
                                      ok |-> RowOk(Rows[i], a[i - 1])]]

LEMMA WrittenSlots ==
  ASSUME Types, Batch, NEW i \in DOMAIN Rows
  PROVE  Written(Rows[i]) \in SUBSET Slots
<1>1. /\ Rows[i].start + Rows[i].new <= Len(Rows[i].table) * BlockSize
      /\ Rows[i].start \in Nat /\ Rows[i].new \in Nat /\ Rows[i].table \in Seq(Blocks)
  BY RowsType DEF Batch, Planned
<1>2. Rows[i].start + Rows[i].new \in Nat
  BY <1>1
<1> QED  BY <1>1, <1>2, PlacesFacts DEF Written

LEMMA ExecutedFacts ==
  ASSUME Types, Batch, NEW invalid
  PROVE  \E a : Runs(a, invalid) /\ Reports(Executed(Rows, invalid), a)
<1> DEFINE n == Len(Rows)
           V == SUBSET Slots
           next == [i \in 1 .. n |->
                      [S \in V |-> IF RowOk(Rows[i], S) THEN S \cup Written(Rows[i])
                                   ELSE S \ Written(Rows[i])]]
           loads == UNION {row.load : row \in ToSet(Rows)}
           start == {p \in good \cup loads : p \in loads => p[1] \notin invalid}
           Eq(f) == f = [i \in 0 .. n |->
                           IF i = 0 THEN start
                           ELSE IF RowOk(Rows[i], f[i - 1]) THEN f[i - 1] \cup Written(Rows[i])
                           ELSE f[i - 1] \ Written(Rows[i])]
<1>1. n \in Nat /\ DOMAIN Rows = 1 .. n /\ \A i \in DOMAIN Rows : Written(Rows[i]) \in V
  BY RowsType, WrittenSlots
<1>2. start \in V
  <2>1. loads \in V
    BY RowsType DEF ToSet
  <2> QED  BY <2>1 DEF Types
<1>3. next \in Steps(n, V)
  <2>1. ASSUME NEW i \in 1 .. n, NEW S \in V
        PROVE  (IF RowOk(Rows[i], S) THEN S \cup Written(Rows[i]) ELSE S \ Written(Rows[i])) \in V
    BY <1>1
  <2> HIDE DEF V, n
  <2> QED  BY <2>1 DEF Steps
<1>4. PICK a : Iterates(a, n, V, start, next)
  <2> HIDE DEF next, V, n, start
  <2> QED  BY ONLY <1>1, <1>2, <1>3, Recursion
<1>5. a \in [0 .. n -> V] /\ a[0] = start /\ \A i \in 1 .. n : a[i] = next[i][a[i - 1]]
  BY <1>4 DEF Iterates
<1>6. ASSUME NEW i \in 1 .. n
      PROVE  a[i] = IF RowOk(Rows[i], a[i - 1]) THEN a[i - 1] \cup Written(Rows[i])
                    ELSE a[i - 1] \ Written(Rows[i])
  <2>1. i - 1 \in 0 .. n
    BY <1>1
  <2>2. a[i - 1] \in V /\ a[i] = next[i][a[i - 1]]
    BY <1>5, <2>1
  <2> HIDE DEF V, n
  <2> QED  BY <2>2
<1>7. Eq(a)
  <2>1. ASSUME NEW i \in 0 .. n
        PROVE  a[i] = IF i = 0 THEN start
                      ELSE IF RowOk(Rows[i], a[i - 1]) THEN a[i - 1] \cup Written(Rows[i])
                      ELSE a[i - 1] \ Written(Rows[i])
    <3>1. CASE i = 0
      BY <1>5, <3>1
    <3>2. CASE i # 0
      <4>1. i \in 1 .. n
        BY <1>1, <3>2
      <4> QED  BY <1>6, <3>2, <4>1
    <3> QED  BY <3>1, <3>2
  <2> HIDE DEF start, n, V
  <2> QED  BY <1>5, <2>1
<1> DEFINE after == CHOOSE f : Eq(f)
<1>8. Eq(after)
  <2> HIDE DEF Eq
  <2> QED  BY <1>7
<1>9. /\ Executed(Rows, invalid).good = after[n]
      /\ Executed(Rows, invalid).rows =
           [i \in DOMAIN Rows |-> [req |-> Rows[i].req, samples |-> Rows[i].samples,
                                   ok |-> RowOk(Rows[i], after[i - 1])]]
  BY DEF Executed
<1> HIDE DEF after
<1>10. /\ DOMAIN after = 0 .. n /\ after[0] = start
       /\ \A i \in 1 .. n : after[i] = IF RowOk(Rows[i], after[i - 1])
                                       THEN after[i - 1] \cup Written(Rows[i])
                                       ELSE after[i - 1] \ Written(Rows[i])
  <2>1. ASSUME NEW i \in 1 .. n
        PROVE  after[i] = IF RowOk(Rows[i], after[i - 1])
                          THEN after[i - 1] \cup Written(Rows[i])
                          ELSE after[i - 1] \ Written(Rows[i])
    <3>1. i \in 0 .. n /\ i # 0
      BY <1>1
    <3> HIDE DEF start, n
    <3> QED  BY <1>8, <3>1
  <2>2. DOMAIN after = 0 .. n /\ after[0] = start
    <3>1. 0 \in 0 .. n
      BY <1>1
    <3> HIDE DEF start, n
    <3> QED  BY <1>8, <3>1
  <2> QED  BY <2>1, <2>2
<1>11. ASSUME NEW i \in 0 .. n PROVE after[i] \in V
  <2> DEFINE T == {m \in Nat : m \in 0 .. n => after[m] \in V}
  <2>1. 0 \in T
    BY <1>2, <1>10
  <2>2. ASSUME NEW m \in Nat, m \in T PROVE m + 1 \in T
    <3> SUFFICES ASSUME m + 1 \in 0 .. n PROVE after[m + 1] \in V
      OBVIOUS
    <3>1. m + 1 \in 1 .. n /\ (m + 1) - 1 = m /\ m \in 0 .. n
      BY <1>1
    <3>2. after[m] \in V
      BY <2>2, <3>1
    <3> QED  BY <1>1, <1>10, <3>1, <3>2
  <2>3. \A m \in Nat : m \in T
    <3> HIDE DEF T
    <3> QED  BY <2>1, <2>2, Induction
  <2> QED  BY <1>1, <2>3
<1>12. after \in [0 .. n -> V]
  <2>1. after = [i \in 0 .. n |-> after[i]]
    <3> HIDE DEF start, n
    <3> QED  BY <1>8
  <2> QED  BY <1>11, <2>1
<1> QED  BY <1>9, <1>10, <1>12 DEF Runs, Reports, Begins

(* What is fine is right before the next row runs.                           *)
LEMMA RunsRight ==
  ASSUME SyncUnshared, IInv, NEW invalid, Reported(invalid), NEW a, Runs(a, invalid)
  PROVE  \A i \in 0 .. Len(Rows) : \A p \in Coming(i + 1) : Fine(p, invalid) => p \in a[i]
<1> DEFINE n == Len(Rows)
           Right(i) == \A p \in Coming(i + 1) : Fine(p, invalid) => p \in a[i]
           T == {i \in Nat : i \in 0 .. n => Right(i)}
<1>0. Types /\ Batch /\ n \in Nat /\ DOMAIN Rows = 1 .. n
  BY RowsType DEF IInv
<1>1. 0 \in T
  <2> SUFFICES ASSUME NEW p \in Coming(0 + 1), Fine(p, invalid) PROVE p \in a[0]
    OBVIOUS
  <2>1. p \in good \/ \E j \in DOMAIN Rows : p \in Rows[j].load
    BY <1>0, ComingIn
  <2>2. p[1] \notin invalid
    BY DEF Fine
  <2> QED  BY <2>1, <2>2 DEF Runs, Begins, ToSet
<1>2. ASSUME NEW m \in Nat, m \in T PROVE m + 1 \in T
  <2> SUFFICES ASSUME m + 1 \in 0 .. n, NEW p \in Coming((m + 1) + 1), Fine(p, invalid)
               PROVE  p \in a[m + 1]
    OBVIOUS
  <2> DEFINE i == m + 1
  <2>1. i \in 1 .. n /\ i - 1 = m /\ m \in 0 .. n /\ i \in DOMAIN Rows
    BY <1>0
  <2>2. Right(m)
    BY <1>2, <2>1
  <2>3. a[i] = IF RowOk(Rows[i], a[i - 1]) THEN a[i - 1] \cup Written(Rows[i])
               ELSE a[i - 1] \ Written(Rows[i])
    BY <2>1 DEF Runs
  <2>4. CASE p \in Written(Rows[i])
    <3>1. ~Unsound(Rows[i], invalid) /\ p[1] \in Held
      BY <2>1, <2>4 DEF Fine
    <3>2. \A q \in Places(Rows[i].table, 0, Rows[i].start) : Fine(q, invalid) /\ q \in Coming(i)
      <4> HIDE DEF i
      <4> QED  BY <2>1, <2>4, <3>1, ReadsFine
    <3>3. RowOk(Rows[i], a[i - 1])
      BY <2>1, <2>2, <3>2 DEF RowOk
    <3> QED  BY <2>3, <2>4, <3>3
  <2>5. CASE p \notin Written(Rows[i])
    <3>1. p \in Coming(m + 1)
      <4>1. \A j \in DOMAIN Rows : j < (m + 1) + 1 => j < m + 1 \/ j = i
        BY <1>0
      <4> QED  BY <2>5, <4>1, ComingIn
    <3>2. p \in a[i - 1]
      BY <2>1, <2>2, <3>1
    <3> QED  BY <2>3, <2>5, <3>2
  <2> QED  BY <2>4, <2>5
<1>3. \A i \in Nat : i \in T
  <2> HIDE DEF T
  <2> QED  BY <1>1, <1>2, Induction
<1> QED  BY <1>0, <1>3

(* Where the truncation of a request with blocks that failed to load starts, *)
(* its bad blocks, and what it has computed afterwards.                      *)
StartOf(r) == req[r].computed - Scheduled(r)

Bad(r, invalid) == {i \in 1 .. BlocksFor(StartOf(r)) : req[r].table[i] \in invalid}

Cut(r, invalid) ==
  IF Bad(r, invalid) = {} THEN req[r].computed ELSE Truncated(r, Bad(r, invalid))

LEMMA ScheduledFacts ==
  ASSUME Types, Batch, flight # <<>>, NEW r
  PROVE  /\ Head(flight) = Rows
         /\ (\A i \in DOMAIN Rows : Rows[i].req # r) => Scheduled(r) = 0
         /\ \A i \in DOMAIN Rows : Rows[i].req = r => Scheduled(r) = Rows[i].new
<1>1. Head(flight) = Rows
  BY DEF Rows, Types
<1> DEFINE mine == {row \in ToSet(Head(flight)) : row.req = r}
<1>2. Scheduled(r) = IF mine = {} THEN 0 ELSE (CHOOSE row \in mine : TRUE).new
  BY DEF Scheduled
<1>3. ASSUME \A i \in DOMAIN Rows : Rows[i].req # r PROVE Scheduled(r) = 0
  BY <1>1, <1>2, <1>3 DEF ToSet
<1>4. ASSUME NEW i \in DOMAIN Rows, Rows[i].req = r PROVE Scheduled(r) = Rows[i].new
  <2>1. mine = {Rows[i]}
    BY <1>1, <1>4 DEF ToSet, Batch
  <2>2. (CHOOSE row \in {Rows[i]} : TRUE) = Rows[i]
    OBVIOUS
  <2> HIDE DEF mine
  <2> QED  BY <1>2, <2>1, <2>2
<1> QED  BY <1>1, <1>3, <1>4

LEMMA StartFacts ==
  ASSUME IInv, pc = "idle", flight # <<>>, NEW r \in ReqIds, Live(r)
  PROVE  /\ StartOf(r) \in Nat /\ StartOf(r) <= req[r].computed
         /\ BlocksFor(StartOf(r)) \in Nat /\ BlocksFor(StartOf(r)) <= Len(req[r].table)
         /\ \/ StartOf(r) = req[r].computed /\ \A i \in DOMAIN Rows : Rows[i].req # r
            \/ \E i \in DOMAIN Rows : /\ Rows[i].req = r /\ StartOf(r) = Rows[i].start
                                      /\ Rows[i].table = req[r].table
                                      /\ req[r].status = "running"
                                      /\ req[r].computed = Rows[i].start + Rows[i].new
<1>0. Types /\ Batch /\ Counters(r)
  BY DEF IInv, Inv_Counters
<1>1. /\ req[r].computed \in Nat /\ Len(req[r].table) \in Nat
      /\ req[r].computed <= Len(req[r].table) * BlockSize
  BY <1>0, ReqFacts DEF Counters
<1>2. \/ StartOf(r) = req[r].computed /\ \A i \in DOMAIN Rows : Rows[i].req # r
      \/ \E i \in DOMAIN Rows : /\ Rows[i].req = r /\ StartOf(r) = Rows[i].start
                                /\ Rows[i].table = req[r].table
                                /\ req[r].status = "running"
                                /\ req[r].computed = Rows[i].start + Rows[i].new
  <2>1. CASE \A i \in DOMAIN Rows : Rows[i].req # r
    <3>1. Scheduled(r) = 0
      BY <1>0, <2>1, ScheduledFacts
    <3> QED  BY <1>1, <2>1, <3>1 DEF StartOf
  <2>2. CASE \E i \in DOMAIN Rows : Rows[i].req = r
    <3>1. PICK i \in DOMAIN Rows : Rows[i].req = r
      BY <2>2
    <3>2. Scheduled(r) = Rows[i].new
      BY <1>0, <3>1, ScheduledFacts
    <3>3. req[r].status = "running"
      BY <1>0, <3>1 DEF Batch, Planned, Live, Known
    <3>4. req[r].table = Rows[i].table /\ req[r].computed = Rows[i].start + Rows[i].new
      BY <1>0, <3>1, <3>3 DEF Batch, Planned
    <3>5. Rows[i].start \in Nat /\ Rows[i].new \in Nat
      BY <1>0, RowsType
    <3>6. StartOf(r) = Rows[i].start
      BY <3>2, <3>4, <3>5 DEF StartOf
    <3> QED  BY <3>1, <3>3, <3>4, <3>6
  <2> QED  BY <2>1, <2>2
<1>3. StartOf(r) \in Nat /\ StartOf(r) <= req[r].computed
  <2>1. \A i \in DOMAIN Rows : Rows[i].start \in Nat /\ Rows[i].new \in Nat
    BY <1>0, RowsType
  <2> QED  BY <1>1, <1>2, <2>1
<1>4. BlocksFor(StartOf(r)) \in Nat /\ BlocksFor(StartOf(r)) <= Len(req[r].table)
  <2> DEFINE n == StartOf(r)
             k == Len(req[r].table)
  <2>1. /\ BlocksFor(n) \in Nat
        /\ \A i \in Nat : i * BlockSize < n <=> i < BlocksFor(n)
    BY <1>3, BlocksForFacts
  <2>2. k \in Nat /\ k * BlockSize \in Nat /\ n <= k * BlockSize /\ n \in Nat
    BY <1>1, <1>3, Sizes
  <2> HIDE DEF n, k
  <2>3. ~(k < BlocksFor(n))
    BY <2>1, <2>2
  <2>4. BlocksFor(n) <= k
    BY <2>1, <2>2, <2>3
  <2> QED  BY <2>1, <2>4 DEF n, k
<1> QED  BY <1>2, <1>3, <1>4

(* Requests that wait for other things hold no block that failed to load,    *)
(* and what a request has computed afterwards is clear of them.              *)
LEMMA CutFacts ==
  ASSUME SyncUnshared, IInv, pc = "idle", flight # <<>>, NEW invalid, Reported(invalid),
         NEW r \in ReqIds, Live(r)
  PROVE  /\ Cut(r, invalid) \in Nat /\ Cut(r, invalid) <= req[r].computed
         /\ Bad(r, invalid) # {} => /\ Cut(r, invalid) < req[r].computed
                                    /\ req[r].status \in {"running", "remote"}
         /\ \A m \in 0 .. Cut(r, invalid) - 1 : req[r].table[m \div BlockSize + 1] \notin invalid
<1> DEFINE s == StartOf(r)
           n == BlocksFor(s)
           B == Bad(r, invalid)
           k == Len(req[r].table)
<1>0. Types /\ Batch /\ Transfers
  BY DEF IInv
<1>1. /\ req[r].computed \in Nat /\ k \in Nat /\ DOMAIN req[r].table = 1 .. k
      /\ req[r].status \in Statuses
      /\ req[r].computed <= k * BlockSize
  BY <1>0, ReqFacts DEF IInv, Inv_Counters, Counters
<1>2. s \in Nat /\ s <= req[r].computed /\ n \in Nat /\ n <= k
  BY StartFacts
<1>3. \A i \in Nat : i * BlockSize < s <=> i < n
  BY <1>2, BlocksForFacts
<1>4. B \in SUBSET (1 .. n)
  BY DEF Bad
<1>5. ASSUME NEW b \in invalid, b \in ToSet(req[r].table)
      PROVE  \/ req[r].status = "remote"
             \/ \E i \in DOMAIN Rows : \E m \in 0 .. Rows[i].start - 1 :
                  Rows[i].req = r /\ b = Rows[i].table[m \div BlockSize + 1]
  <2>1. \/ \E q \in DOMAIN loading :
              /\ q \in ReqIds /\ b \in ToSet(req[q].table) /\ b \notin cached
              /\ \A o \in ReqIds \ {q} : b \notin ToSet(req[o].table)
              /\ \A i \in DOMAIN Rows : b \notin ToSet(Rows[i].table)
        \/ /\ "sync" \in Loads
           /\ \E i \in DOMAIN Rows : \E m \in 0 .. Rows[i].start - 1 :
                b = Rows[i].table[m \div BlockSize + 1]
    BY WhereInvalid
  <2>2. ASSUME NEW q \in DOMAIN loading, q \in ReqIds,
               \A o \in ReqIds \ {q} : b \notin ToSet(req[o].table)
        PROVE  req[r].status = "remote"
    <3>1. q = r
      BY <1>5, <2>2
    <3>2. r \in Moving
      BY <3>1 DEF Moving
    <3> QED  BY <1>0, <3>2 DEF Transfers, Live
  <2>3. ASSUME "sync" \in Loads, NEW i \in DOMAIN Rows, NEW m \in 0 .. Rows[i].start - 1,
               b = Rows[i].table[m \div BlockSize + 1]
        PROVE  Rows[i].req = r
    <3>1. Rows[i].start \in Nat /\ Rows[i].new \in Nat
      BY <1>0, RowsType
    <3>2. m \in 0 .. (Rows[i].start + Rows[i].new) - 1
      BY <3>1
    <3>3. b \in ToSet(Rows[i].table)
      BY <1>0, <2>3, <3>2, RowPositions
    <3> QED  BY <1>0, <1>5, <2>3, <3>3, SharedRow DEF IInv
  <2> QED  BY <2>1, <2>2, <2>3
<1>6. CASE B = {}
  <2>1. Cut(r, invalid) = req[r].computed
    BY <1>6 DEF Cut
  <2>2. ASSUME NEW m \in 0 .. req[r].computed - 1, req[r].table[m \div BlockSize + 1] \in invalid
        PROVE  FALSE
    <3> DEFINE j == m \div BlockSize + 1
    <3>1. m \in Nat /\ m < k * BlockSize
      BY <1>1, Sizes
    <3>2. m \div BlockSize \in Nat /\ j \in 1 .. k /\ (j - 1) * BlockSize <= m
      <4> DEFINE d == m \div BlockSize
                 o == m % BlockSize
      <4>1. d + 1 \in 1 .. k /\ o \in Offsets /\ d \in Nat /\ m = d * BlockSize + o
        BY <1>1, <3>1, Covered
      <4> HIDE DEF d, o
      <4>2. o \in Nat
        BY <4>1, Sizes DEF Offsets
      <4>4. (d + 1) - 1 = d /\ d * BlockSize \in Nat
        BY <4>1, Sizes
      <4>3. d * BlockSize <= m
        BY <4>1, <4>2, <4>4
      <4> QED  BY <4>1, <4>4, <4>3 DEF d
    <3>3. req[r].table[j] \in invalid /\ req[r].table[j] \in ToSet(req[r].table)
      BY <1>1, <2>2, <3>2 DEF ToSet
    <3>4. m >= s
      <4> SUFFICES ASSUME m < s PROVE FALSE
        BY <1>2
      <4>1. (j - 1) * BlockSize < s /\ j - 1 \in Nat
        BY <1>2, <3>1, <3>2, Sizes
      <4>2. j - 1 < n
        BY <1>3, <4>1
      <4>3. j \in 1 .. n
        BY <1>2, <3>2, <4>2
      <4> HIDE DEF j
      <4> QED  BY <1>6, <3>3, <4>3 DEF Bad
    <3>5. PICK i \in DOMAIN Rows : Rows[i].req = r /\ s = Rows[i].start
                                   /\ Rows[i].table = req[r].table /\ req[r].status = "running"
      <4>1. s # req[r].computed
        BY <1>1, <1>2, <3>1, <3>4
      <4> QED  BY <4>1, StartFacts
    <3>6. PICK i2 \in DOMAIN Rows : \E m2 \in 0 .. Rows[i2].start - 1 :
            Rows[i2].req = r /\ req[r].table[j] = Rows[i2].table[m2 \div BlockSize + 1]
      BY <1>5, <3>3, <3>5
    <3>7. i2 = i
      BY <1>0, <3>5, <3>6 DEF Batch
    <3>8. PICK m2 \in 0 .. s - 1 : req[r].table[j] = req[r].table[m2 \div BlockSize + 1]
      BY <3>5, <3>6, <3>7
    <3> DEFINE j2 == m2 \div BlockSize + 1
    <3>9. m2 \in Nat /\ m2 < s /\ m2 < k * BlockSize
      <4>1. k * BlockSize \in Nat
        BY <1>1, Sizes
      <4> QED  BY <1>1, <1>2, <3>8, <4>1
    <3>10. m2 \div BlockSize \in Nat /\ (j2 - 1) * BlockSize <= m2 /\ j2 - 1 \in Nat
           /\ (j2 - 1) * BlockSize \in Nat
      BY <1>1, <3>9, Covered, Sizes DEF Offsets
    <3>11. j2 \in 1 .. n
      <4>1. (j2 - 1) * BlockSize < s
        BY <1>2, <3>9, <3>10
      <4>2. j2 - 1 < n
        BY <1>3, <3>10, <4>1
      <4> QED  BY <1>2, <3>10, <4>2
    <3>12. req[r].table[j2] \in invalid
      BY <3>3, <3>8
    <3> HIDE DEF j2, j
    <3> QED  BY <1>6, <3>11, <3>12 DEF Bad
  <2> QED  BY <1>1, <1>6, <2>1, <2>2
<1>7. CASE B # {}
  <2>1. PICK x \in B : \A y \in B : x <= y
    <3>1. B \in SUBSET Nat
      BY <1>2, <1>4
    <3> HIDE DEF B
    <3> QED  BY <1>7, <3>1, LeastNumber
  <2>2. Min(B) = x
    <3>1. \A y \in B : y \in Nat
      BY <1>2, <1>4
    <3> HIDE DEF B
    <3> QED  BY <2>1, <3>1 DEF Min
  <2>3. Cut(r, invalid) = (x - 1) * BlockSize
    BY <1>7, <2>2 DEF Cut, Truncated
  <2>4. x \in 1 .. n /\ x - 1 \in Nat
    BY <1>2, <1>4, <2>1
  <2>5. (x - 1) * BlockSize \in Nat /\ (x - 1) * BlockSize < s
    <3>1. x - 1 < n
      BY <1>2, <2>4
    <3> QED  BY <1>3, <2>4, <3>1, Sizes
  <2>6. ASSUME NEW m \in 0 .. (x - 1) * BlockSize - 1
        PROVE  req[r].table[m \div BlockSize + 1] \notin invalid
    <3> DEFINE j == m \div BlockSize + 1
    <3>1. m \in Nat /\ m < (x - 1) * BlockSize
      BY <2>5
    <3>2. j \in 1 .. x - 1
      BY <2>4, <3>1, Covered
    <3>3. j \in 1 .. n /\ ~(x <= j)
      BY <1>2, <2>4, <3>2
    <3> HIDE DEF j
    <3>4. req[r].table[j] \notin invalid
      BY <2>1, <3>3 DEF Bad
    <3> QED  BY <3>4 DEF j
  <2>7. req[r].status \in {"running", "remote"}
    <3>1. req[r].table[x] \in invalid /\ req[r].table[x] \in ToSet(req[r].table)
      <4>1. x \in 1 .. k
        BY <1>1, <1>2, <2>4
      <4> QED  BY <1>1, <2>1, <4>1 DEF Bad, ToSet
    <3>2. CASE \E i \in DOMAIN Rows : Rows[i].req = r
      BY <1>0, <3>2 DEF Batch, Planned, Live, Known
    <3> QED  BY <1>5, <3>1, <3>2
  <2> QED  BY <1>1, <1>2, <1>7, <2>3, <2>5, <2>6, <2>7
<1> QED  BY <1>6, <1>7

(* _update_requests_with_invalid_blocks: no two requests share an invalid    *)
(* block, so each is truncated at its first.                                 *)
LEMMA InvalidatedFacts ==
  ASSUME SyncUnshared, IInv, pc = "idle", flight # <<>>, NEW invalid, Reported(invalid),
         NEW q \in Seq(ReqIds), IsInjective(q), \A r \in ToSet(q) : Live(r)
  PROVE  /\ Invalidated(q, invalid).affected = {r \in ToSet(q) : Bad(r, invalid) # {}}
         /\ \A r \in Invalidated(q, invalid).affected :
              Invalidated(q, invalid).computed[r] = Cut(r, invalid)
<1>0. Types /\ Sharing /\ ToSet(q) \in SUBSET ReqIds
  <2>1. ToSet(q) \in SUBSET ReqIds
    BY DEF ToSet
  <2> QED  BY <2>1 DEF IInv
<1> DEFINE New(r) == {i \in Bad(r, invalid) : \A s \in Before(q, r) : \A j \in Bad(s, invalid) :
                        req[s].table[j] # req[r].table[i]}
           affected == {r \in ToSet(q) : Bad(r, invalid) # {}}
           computed == [r \in affected |-> IF New(r) = {} THEN StartOf(r)
                                           ELSE Truncated(r, New(r))]
<1>1. /\ Invalidated(q, invalid).affected = affected
      /\ Invalidated(q, invalid).computed = computed
  BY DEF Invalidated, Bad, StartOf
<1>2. ASSUME NEW r \in ToSet(q), NEW s \in Before(q, r) PROVE s \in ToSet(q) /\ s # r
  <2>1. PICK j \in DOMAIN q : s = q[j] /\ \E k \in DOMAIN q : j < k /\ q[k] = r
    BY <1>2 DEF Before
  <2>2. PICK k \in DOMAIN q : j < k /\ q[k] = r
    BY <2>1
  <2>3. j # k
    BY <2>1, <2>2
  <2> QED  BY <2>1, <2>2, <2>3 DEF IsInjective, ToSet
<1>3. ASSUME NEW r \in ToSet(q), NEW i \in Bad(r, invalid)
      PROVE  req[r].table[i] \in invalid /\ req[r].table[i] \in ToSet(req[r].table)
  <2>1. r \in ReqIds /\ Live(r) /\ Len(req[r].table) \in Nat
        /\ DOMAIN req[r].table = 1 .. Len(req[r].table)
    BY <1>0, ReqFacts
  <2>2. BlocksFor(StartOf(r)) \in Nat /\ BlocksFor(StartOf(r)) <= Len(req[r].table)
    BY <2>1, StartFacts
  <2>3. i \in 1 .. BlocksFor(StartOf(r)) /\ req[r].table[i] \in invalid
    BY DEF Bad
  <2>4. i \in DOMAIN req[r].table
    BY <2>1, <2>2, <2>3
  <2> QED  BY <2>3, <2>4 DEF ToSet
<1>4. ASSUME NEW r \in ToSet(q), NEW i \in Bad(r, invalid), NEW s \in Before(q, r),
             NEW j \in Bad(s, invalid), req[s].table[j] = req[r].table[i]
      PROVE  FALSE
  <2>1. s \in ToSet(q) /\ s # r /\ s \in ReqIds /\ r \in ReqIds
    BY <1>0, <1>2
  <2>2. PICK b : b = req[r].table[i]
    OBVIOUS
  <2>3. b \in invalid /\ b \in ToSet(req[r].table) /\ b \in ToSet(req[s].table)
    BY <1>3, <1>4, <2>1, <2>2
  <2>4. \/ \E o \in DOMAIN loading : \A x \in ReqIds \ {o} : b \notin ToSet(req[x].table)
        \/ "sync" \in Loads
    BY <2>3, WhereInvalid
  <2>5. CASE "sync" \in Loads
    BY <1>0, <2>1, <2>3, <2>5, SharedBlock
  <2> QED  BY <2>1, <2>3, <2>4, <2>5
<1>5. \A r \in ToSet(q) : New(r) = Bad(r, invalid)
  BY <1>4
<1>6. ASSUME NEW r \in affected PROVE computed[r] = Cut(r, invalid)
  <2>1. New(r) = Bad(r, invalid) /\ Bad(r, invalid) # {}
    BY <1>5
  <2>2. computed[r] = IF New(r) = {} THEN StartOf(r) ELSE Truncated(r, New(r))
    OBVIOUS
  <2> HIDE DEF New, computed
  <2> QED  BY <2>1, <2>2 DEF Cut
<1> HIDE DEF computed
<1> QED  BY <1>1, <1>6

(* The step that takes the output of a batch.                                *)
RightOf(r, invalid) == {p \in loading[r] : p[1] \notin invalid}
Struck(S, invalid)  == {r \in WithStatus(S) : Bad(r, invalid) # {}}

Taken(invalid, done, sent, a) ==
  /\ pc = "idle" /\ flight # <<>> /\ pc' = "rows" /\ flight' = Tail(flight)
  /\ Reported(invalid) /\ Runs(a, invalid)
  /\ done \in SUBSET DOMAIN loading /\ sent \in SUBSET sending
  /\ sending' = sending \ sent
  /\ loading' = [r \in DOMAIN loading \ done |-> RightOf(r, invalid)]
  /\ good' = a[Len(Rows)] \cup (UNION {RightOf(r, invalid) : r \in done})
  /\ req' = [r \in ReqIds |->
       [req[r] EXCEPT !.computed = IF Live(r) THEN Cut(r, invalid) ELSE req[r].computed]]
  /\ failed' = IF recompute THEN failed \cup Struck({"remote"}, invalid) ELSE failed
  /\ cached' \in SUBSET cached
  /\ out'.rows = [i \in DOMAIN Rows |-> [req |-> Rows[i].req, samples |-> Rows[i].samples,
                                         ok |-> RowOk(Rows[i], a[i - 1])]]
  /\ out' = [rows |-> out'.rows, done |-> done, sent |-> sent, stopped |-> {},
             failed |-> Struck({"running"}, invalid)
                          \cup (IF recompute THEN {} ELSE Struck({"remote"}, invalid))]
  /\ faults' \in 0 .. MaxFaults
  /\ running' = running /\ waiting' = waiting /\ skipped' = skipped
  /\ num_streaming' = num_streaming /\ finished_ids' = finished_ids
  /\ received' = received /\ at' = at /\ plan' = plan /\ step_skipped' = step_skipped
  /\ recompute' = recompute /\ tainted' = tainted

LEMMA TakeOutputStep ==
  ASSUME SyncUnshared, IInv, TakeOutput
  PROVE  \E invalid, done, sent, a : Taken(invalid, done, sent, a)
<1>0. Types /\ Phases /\ Queues /\ Batch
  BY DEF IInv
<1> DEFINE q == Without(skipped, ReqIds \ LoadingNow)
           A(x) == Invalidated(q, x)
           S(x) == Invalidated(running, x)
           E(x) == Executed(Head(flight), x)
<1>1. PICK done \in SUBSET DOMAIN loading, sent \in SUBSET sending,
           invalid \in SUBSET {p[1] : p \in (UNION Range(loading))
                                        \cup (UNION {row.load : row \in ToSet(Head(flight))})} :
        /\ invalid # {} => faults < MaxFaults
        /\ faults' = IF invalid = {} THEN faults ELSE faults + 1
        /\ sending' = sending \ sent
        /\ loading' = [r \in DOMAIN loading \ done |-> RightOf(r, invalid)]
        /\ good' = E(invalid).good \cup (UNION {RightOf(r, invalid) : r \in done})
        /\ req' = [r \in ReqIds |->
             [req[r] EXCEPT !.computed = IF r \in A(invalid).affected THEN A(invalid).computed[r]
                                         ELSE IF r \in S(invalid).affected
                                              THEN S(invalid).computed[r]
                                         ELSE @]]
        /\ failed' = IF recompute THEN failed \cup A(invalid).affected ELSE failed
        /\ cached' = IF recompute THEN cached ELSE cached \ S(invalid).evict
        /\ out' = [rows |-> E(invalid).rows, done |-> done, sent |-> sent, stopped |-> {},
                   failed |-> S(invalid).affected \cup (IF recompute THEN {} ELSE A(invalid).affected)]
  BY Zenon DEF TakeOutput, RightOf
<1>2. /\ pc = "idle" /\ flight # <<>> /\ pc' = "rows" /\ flight' = Tail(flight)
      /\ running' = running /\ waiting' = waiting /\ skipped' = skipped
      /\ num_streaming' = num_streaming /\ finished_ids' = finished_ids
      /\ received' = received /\ at' = at /\ plan' = plan /\ step_skipped' = step_skipped
      /\ recompute' = recompute /\ tainted' = tainted
  BY Zenon DEF TakeOutput, queues
<1>3. Head(flight) = Rows
  BY <1>0, <1>2, ScheduledFacts
<1>4. Reported(invalid)
  BY <1>1, <1>3 DEF Reported
<1>5. PICK a : Runs(a, invalid) /\ Reports(Executed(Rows, invalid), a)
  BY <1>0, ExecutedFacts
<1>6. /\ q \in Seq(ReqIds) /\ IsInjective(q) /\ ToSet(q) = WithStatus({"remote"})
  <2>1. /\ q \in Seq(ReqIds) /\ IsInjective(q) /\ ToSet(q) = ToSet(skipped) \ (ReqIds \ LoadingNow)
    BY <1>0, WithoutFacts DEF Types, Queues
  <2>2. step_skipped = <<>> /\ ToSet(step_skipped) = {}
    <3>1. step_skipped = <<>>
      BY <1>0, <1>2 DEF Phases
    <3> QED  BY <3>1 DEF ToSet
  <2>3. WithStatus({"remote"}) \subseteq ToSet(skipped)
    BY <1>0, <2>2 DEF Queues, WithStatus, InQueues
  <2>4. LoadingNow = WithStatus({"remote"}) /\ WithStatus({"remote"}) \subseteq ReqIds
    BY DEF LoadingNow, WithStatus
  <2>5. ToSet(skipped) \in SUBSET ReqIds
    BY <1>0 DEF Types, ToSet
  <2> HIDE DEF q
  <2> QED  BY <2>1, <2>3, <2>4, <2>5
<1>7. /\ running \in Seq(ReqIds) /\ IsInjective(running) /\ ToSet(running) = WithStatus({"running"})
  <2>1. Stopped = {}
    BY <1>0, <1>2, NoOutput
  <2> QED  BY <1>0, <2>1 DEF Types, Queues
<1>8. \A r \in WithStatus({"running", "remote"}) : r \in ReqIds /\ Live(r)
  BY DEF WithStatus, Live, Known
<1>9. /\ A(invalid).affected = Struck({"remote"}, invalid)
      /\ \A r \in A(invalid).affected : A(invalid).computed[r] = Cut(r, invalid)
  <2>1. \A r \in ToSet(q) : Live(r)
    BY <1>6, <1>8 DEF WithStatus
  <2> HIDE DEF q
  <2> QED  BY <1>2, <1>4, <1>6, <2>1, InvalidatedFacts DEF Struck
<1>10. /\ S(invalid).affected = Struck({"running"}, invalid)
       /\ \A r \in S(invalid).affected : S(invalid).computed[r] = Cut(r, invalid)
  <2>1. \A r \in ToSet(running) : Live(r)
    BY <1>7, <1>8 DEF WithStatus
  <2> QED  BY <1>2, <1>4, <1>7, <2>1, InvalidatedFacts DEF Struck
<1>11. ASSUME NEW r \in ReqIds
       PROVE  (IF r \in A(invalid).affected THEN A(invalid).computed[r]
               ELSE IF r \in S(invalid).affected THEN S(invalid).computed[r]
               ELSE req[r].computed)
              = IF Live(r) THEN Cut(r, invalid) ELSE req[r].computed
  <2> HIDE DEF A, S
  <2>1. r \in A(invalid).affected \/ r \in S(invalid).affected => Live(r)
    BY <1>8, <1>9, <1>10 DEF Struck, WithStatus
  <2>2. ASSUME Live(r), r \notin A(invalid).affected, r \notin S(invalid).affected
        PROVE  Cut(r, invalid) = req[r].computed
    <3>1. Bad(r, invalid) # {} => req[r].status \in {"running", "remote"}
      BY <1>2, <1>4, <2>2, CutFacts
    <3>2. Bad(r, invalid) = {}
      BY <1>9, <1>10, <2>2, <3>1 DEF Struck, WithStatus
    <3> QED  BY <3>2 DEF Cut
  <2> QED  BY <1>9, <1>10, <2>1, <2>2
<1>12. req' = [r \in ReqIds |->
         [req[r] EXCEPT !.computed = IF Live(r) THEN Cut(r, invalid) ELSE req[r].computed]]
  <2>1. req' = [r \in ReqIds |->
             [req[r] EXCEPT !.computed = IF r \in A(invalid).affected THEN A(invalid).computed[r]
                                         ELSE IF r \in S(invalid).affected
                                              THEN S(invalid).computed[r]
                                         ELSE req[r].computed]]
    BY <1>1
  <2> HIDE DEF A, S
  <2> QED  BY <1>11, <2>1
<1>13. faults' \in 0 .. MaxFaults
  <2>1. faults \in 0 .. MaxFaults /\ MaxFaults \in Nat
    BY <1>0, Sizes DEF Types
  <2>2. /\ invalid # {} => faults < MaxFaults
        /\ faults' = IF invalid = {} THEN faults ELSE faults + 1
    BY <1>1
  <2> QED  BY <2>1, <2>2
<1>14. E(invalid) = Executed(Rows, invalid)
  BY <1>3
<1>15. /\ good' = a[Len(Rows)] \cup (UNION {RightOf(r, invalid) : r \in done})
       /\ E(invalid).rows = [i \in DOMAIN Rows |-> [req |-> Rows[i].req, samples |-> Rows[i].samples,
                                                    ok |-> RowOk(Rows[i], a[i - 1])]]
  <2>1. good' = E(invalid).good \cup (UNION {RightOf(r, invalid) : r \in done})
    BY <1>1
  <2> HIDE DEF E
  <2> QED  BY <1>5, <1>14, <2>1 DEF Reports
<1>16. /\ out'.rows = E(invalid).rows
       /\ out' = [rows |-> out'.rows, done |-> done, sent |-> sent, stopped |-> {},
                  failed |-> Struck({"running"}, invalid)
                          \cup (IF recompute THEN {} ELSE Struck({"remote"}, invalid))]
  <2>1. out' = [rows |-> E(invalid).rows, done |-> done, sent |-> sent, stopped |-> {},
                failed |-> S(invalid).affected \cup (IF recompute THEN {} ELSE A(invalid).affected)]
    BY <1>1
  <2>2. A(invalid).affected = Struck({"remote"}, invalid)
        /\ S(invalid).affected = Struck({"running"}, invalid)
    BY <1>9, <1>10
  <2> HIDE DEF E, A, S
  <2> QED  BY <2>1, <2>2
<1>17. cached' \in SUBSET cached
  <2>1. cached' = IF recompute THEN cached ELSE cached \ S(invalid).evict
    BY <1>1
  <2> HIDE DEF S
  <2> QED  BY <2>1
<1>18. failed' = IF recompute THEN failed \cup Struck({"remote"}, invalid) ELSE failed
  <2>1. failed' = IF recompute THEN failed \cup A(invalid).affected ELSE failed
    BY <1>1
  <2>2. A(invalid).affected = Struck({"remote"}, invalid)
    BY <1>9
  <2> HIDE DEF A
  <2> QED  BY <2>1, <2>2
<1>19. sending' = sending \ sent /\ loading' = [r \in DOMAIN loading \ done |-> RightOf(r, invalid)]
       /\ done \in SUBSET DOMAIN loading /\ sent \in SUBSET sending
  BY <1>1
<1>20. out'.rows = [i \in DOMAIN Rows |-> [req |-> Rows[i].req, samples |-> Rows[i].samples,
                                           ok |-> RowOk(Rows[i], a[i - 1])]]
  <2> HIDE DEF E
  <2> QED  BY <1>15, <1>16
<1> HIDE DEF E, A, S, q
<1>21. Taken(invalid, done, sent, a)
  BY <1>2, <1>4, <1>5, <1>12, <1>13, <1>15, <1>16, <1>17, <1>18, <1>19, <1>20, Zenon DEF Taken
<1> QED  BY <1>21

LEMMA TakenFacts ==
  ASSUME SyncUnshared, IInv, NEW invalid, NEW done, NEW sent, NEW a,
         Taken(invalid, done, sent, a)
  PROVE  /\ flight' = <<>> /\ plan' = <<>> /\ Rows' = <<>> /\ DOMAIN Rows' = {}
         /\ out = None /\ Stopped = {} /\ Moving = DOMAIN loading
         /\ Held' = Held /\ \A S : WithStatus(S)' = WithStatus(S)
         /\ \A r \in ReqIds :
              /\ req'[r].status = req[r].status /\ req'[r].table = req[r].table
              /\ req'[r].tokens = req[r].tokens
              /\ ((r \in Known)' <=> r \in Known) /\ (Live(r)' <=> Live(r))
              /\ req'[r].computed = IF Live(r) THEN Cut(r, invalid) ELSE req[r].computed
              /\ req'[r].computed \in Nat
         /\ req' \in [ReqIds -> Request]
         /\ a[Len(Rows)] \in SUBSET good' /\ good' \in SUBSET Slots
         /\ Stopped' = {} /\ Moving' = DOMAIN loading
         /\ out'.done = done /\ out'.sent = sent /\ out'.stopped = {}
         /\ out'.failed = Struck({"running"}, invalid)
                            \cup (IF recompute THEN {} ELSE Struck({"remote"}, invalid))
<1>0. Types /\ Phases /\ Queues /\ Batch /\ pc = "idle" /\ flight # <<>>
  BY DEF IInv, Taken
<1>1. flight' = <<>> /\ plan' = <<>> /\ Rows' = <<>> /\ DOMAIN Rows' = {}
  <2>1. flight' = Tail(flight) /\ plan' = plan /\ plan = <<>>
    BY <1>0 DEF Taken, Phases
  <2>2. Tail(flight) = <<>>
    BY <1>0 DEF Types
  <2> QED  BY <2>1, <2>2 DEF Rows
<1>2. out = None /\ Stopped = {} /\ Moving = DOMAIN loading
  BY <1>0, NoOutput
<1>3. ASSUME NEW r \in ReqIds
      PROVE  /\ req'[r].status = req[r].status /\ req'[r].table = req[r].table
             /\ req'[r].tokens = req[r].tokens
             /\ req'[r].computed = IF Live(r) THEN Cut(r, invalid) ELSE req[r].computed
             /\ req'[r].computed \in Nat /\ req'[r] \in Request
  <2>1. req'[r] = [req[r] EXCEPT !.computed = IF Live(r) THEN Cut(r, invalid)
                                              ELSE req[r].computed]
    BY DEF Taken
  <2>2. req[r] \in Request /\ req[r].computed \in Nat
    BY <1>0, ReqFacts
  <2>3. (IF Live(r) THEN Cut(r, invalid) ELSE req[r].computed) \in Nat
    <3>1. Live(r) => Cut(r, invalid) \in Nat
      BY <1>0, CutFacts DEF Taken
    <3> QED  BY <2>2, <3>1
  <2>4. PICK c \in Nat : c = IF Live(r) THEN Cut(r, invalid) ELSE req[r].computed
    BY <2>3
  <2>5. req'[r] = [req[r] EXCEPT !.computed = c]
    BY <2>1, <2>4
  <2>6. req'[r] \in Request /\ req'[r].status = req[r].status /\ req'[r].table = req[r].table
        /\ req'[r].tokens = req[r].tokens /\ req'[r].computed = c
    BY <2>2, <2>5 DEF Request
  <2> QED  BY <2>4, <2>6
<1>4. req' \in [ReqIds -> Request]
  <2>1. DOMAIN req' = ReqIds /\ req' = [r \in ReqIds |-> req'[r]]
    BY DEF Taken
  <2> QED  BY <1>3, <2>1
<1>5. Held' = Held
  <2>1. \A b : b \in Held' <=> b \in Held
    BY <1>3, HeldBy, HeldByNext
  <2> QED  BY <2>1
<1>6. \A S : WithStatus(S)' = WithStatus(S)
  BY <1>3 DEF WithStatus
<1>7. ASSUME NEW r \in ReqIds PROVE ((r \in Known)' <=> r \in Known) /\ (Live(r)' <=> Live(r))
  BY <1>3 DEF Known, Live
<1>8. /\ out'.done = done /\ out'.sent = sent /\ out'.stopped = {}
      /\ out'.failed = Struck({"running"}, invalid)
                            \cup (IF recompute THEN {} ELSE Struck({"remote"}, invalid))
  <2>1. out' = [rows |-> out'.rows, done |-> done, sent |-> sent, stopped |-> {},
                failed |-> Struck({"running"}, invalid)
                          \cup (IF recompute THEN {} ELSE Struck({"remote"}, invalid))]
    BY Zenon DEF Taken
  <2>2. PICK F : F = Struck({"running"}, invalid)
                          \cup (IF recompute THEN {} ELSE Struck({"remote"}, invalid))
    OBVIOUS
  <2>3. out' = [rows |-> out'.rows, done |-> done, sent |-> sent, stopped |-> {}, failed |-> F]
    BY <2>1, <2>2, Zenon
  <2>4. out'.done = done /\ out'.sent = sent /\ out'.stopped = {} /\ out'.failed = F
    BY <2>3
  <2> QED  BY <2>2, <2>4
<1>9. Stopped' = {} /\ Moving' = DOMAIN loading
  <2>1. DOMAIN loading' = DOMAIN loading \ done /\ done \in SUBSET DOMAIN loading
    BY DEF Taken
  <2> QED  BY <1>8, <2>1 DEF Stopped, Moving
<1>10. a[Len(Rows)] \in SUBSET good' /\ good' \in SUBSET Slots
  <2>1. good' = a[Len(Rows)] \cup (UNION {RightOf(r, invalid) : r \in done})
        /\ Runs(a, invalid) /\ done \in SUBSET DOMAIN loading
    BY DEF Taken
  <2>2. a[Len(Rows)] \in SUBSET Slots
    <3>1. Len(Rows) \in 0 .. Len(Rows)
      BY <1>0, RowsType
    <3> QED  BY <2>1, <3>1 DEF Runs
  <2>3. \A r \in done : RightOf(r, invalid) \in SUBSET Slots
    BY <1>0, <2>1 DEF RightOf, Types
  <2> QED  BY <2>1, <2>2, <2>3
<1> QED  BY <1>1, <1>2, <1>3, <1>4, <1>5, <1>6, <1>7, <1>8, <1>9, <1>10

(* What a live request has computed is right after the batch.                *)
LEMMA TakenIsRight ==
  ASSUME SyncUnshared, IInv, NEW invalid, NEW done, NEW sent, NEW a,
         Taken(invalid, done, sent, a)
  PROVE  /\ Sharing' /\ RowsReadRight' /\ ComputedIsRight' /\ CachedIsRight'
         /\ \A i \in DOMAIN Rows :
              Live(Rows[i].req) /\ Rows[i].req \notin Struck({"running"}, invalid) =>
                RowOk(Rows[i], a[i - 1])
<1>0. /\ Types /\ Batch /\ Transfers /\ Sharing /\ ComputedIsRight /\ CachedIsRight
      /\ pc = "idle" /\ flight # <<>> /\ Reported(invalid) /\ Runs(a, invalid)
      /\ cached' \in SUBSET cached /\ done \in SUBSET DOMAIN loading
  BY DEF IInv, Taken
<1>1. /\ DOMAIN Rows' = {} /\ Rows' = <<>> /\ a[Len(Rows)] \in SUBSET good'
      /\ \A r \in ReqIds :
           /\ req'[r].table = req[r].table /\ (Live(r)' <=> Live(r))
           /\ req'[r].computed = IF Live(r) THEN Cut(r, invalid) ELSE req[r].computed
  BY TakenFacts
<1>2. Sharing' /\ RowsReadRight'
  BY <1>0, <1>1 DEF Sharing, Agree, RowsReadRight
<1>3. ASSUME NEW p \in Everything, Fine(p, invalid) PROVE p \in Everything'
  <2>1. p \in a[Len(Rows)]
    <3>1. Len(Rows) \in 0 .. Len(Rows)
      BY <1>0, RowsType
    <3> QED  BY <1>0, <1>3, <3>1, RunsRight DEF Everything
  <2>2. p \in good'
    BY <1>1, <2>1
  <2> QED  BY <2>2 DEF Everything, Coming
<1>4. ComputedIsRight'
  <2>1. SUFFICES ASSUME NEW r \in ReqIds, Live(r),
                        NEW p \in Places(req[r].table, 0, Cut(r, invalid))
                 PROVE  p \in Everything' \/ (r \in DOMAIN loading' /\ p \in loading'[r])
    BY <1>1 DEF ComputedIsRight, Places, At
  <2> DEFINE t == req[r].table
             c == Cut(r, invalid)
  <2>2. /\ c \in Nat /\ c <= req[r].computed
        /\ \A m \in 0 .. c - 1 : t[m \div BlockSize + 1] \notin invalid
    BY <1>0, <2>1, CutFacts
  <2>3. /\ t \in Seq(Blocks) /\ Len(t) \in Nat /\ req[r].computed \in Nat
        /\ req[r].computed <= Len(t) * BlockSize
    BY <1>0, <2>1, ReqFacts DEF IInv, Inv_Counters, Counters
  <2>4. PICK m \in 0 .. c - 1 : p = At(t, m)
    BY DEF Places
  <2>5. m \in Nat /\ m < c /\ m < Len(t) * BlockSize /\ m \in 0 .. req[r].computed - 1
    <3>1. Len(t) * BlockSize \in Nat
      BY <2>3, Sizes
    <3> HIDE DEF t, c
    <3> QED  BY <2>2, <2>3, <2>4, <3>1
  <2>6. p[1] = t[m \div BlockSize + 1] /\ p[1] \in ToSet(t)
    BY <2>3, <2>4, <2>5, PlaceFacts
  <2>7. p[1] \notin invalid /\ p[1] \in Held
    BY <2>2, <2>4, <2>6, HeldBy
  <2>8. p \in Everything \/ (r \in DOMAIN loading /\ p \in loading[r])
    <3>1. p \in Places(t, 0, req[r].computed)
      BY <2>4, <2>5 DEF Places
    <3> QED  BY <1>0, <2>1, <3>1 DEF ComputedIsRight
  <2>9. CASE r \in DOMAIN loading /\ p \in loading[r]
    <3>1. p \in RightOf(r, invalid)
      BY <2>7, <2>9 DEF RightOf
    <3>2. r \in done => p \in good'
      BY <3>1 DEF Taken
    <3>3. r \notin done => r \in DOMAIN loading' /\ p \in loading'[r]
      BY <2>9, <3>1 DEF Taken
    <3> QED  BY <3>2, <3>3 DEF Everything, Coming
  <2>10. CASE p \in Everything
    <3>1. ASSUME NEW j \in DOMAIN Rows, Unsound(Rows[j], invalid), p \in Written(Rows[j])
          PROVE  FALSE
      <4>1. "sync" \in Loads
        BY <1>0, <3>1, UnsoundFacts
      <4>2. Rows[j].start \in Nat /\ Rows[j].new \in Nat
        BY <1>0, RowsType
      <4>3. PICK l \in Rows[j].start .. (Rows[j].start + Rows[j].new) - 1 : p = At(Rows[j].table, l)
        BY <3>1 DEF Written, Places
      <4>4. l \in 0 .. (Rows[j].start + Rows[j].new) - 1 /\ l \in Nat /\ l >= Rows[j].start
        BY <4>2, <4>3
      <4>5. /\ At(Rows[j].table, l)[1] = Rows[j].table[l \div BlockSize + 1]
            /\ p[1] \in ToSet(Rows[j].table) /\ l \div BlockSize + 1 \in DOMAIN Rows[j].table
        BY <1>0, <4>3, <4>4, RowPositions
      <4>6. Rows[j].req = r
        BY <1>0, <2>6, <4>1, <4>5, SharedRow
      <4>7. t = Rows[j].table
        <5>1. req[r].status = "running"
          BY <1>0, <2>1, <4>6 DEF Batch, Planned, Live, Known
        <5> QED  BY <1>0, <4>6, <5>1 DEF Batch, Planned
      <4>8. PICK u \in 0 .. Rows[j].start - 1 : t[u \div BlockSize + 1] \in invalid
        BY <3>1, <4>7 DEF Unsound
      <4>9. l = m
        <5>1. At(t, l) = At(t, m)
          BY <2>4, <4>3, <4>7
        <5>2. t[l \div BlockSize + 1] = t[m \div BlockSize + 1] /\ l % BlockSize = m % BlockSize
          BY <5>1 DEF At
        <5>3. l \div BlockSize + 1 \in DOMAIN t /\ m \div BlockSize + 1 \in DOMAIN t
          BY <2>3, <2>4, <2>5, <4>5, <4>7, PlaceFacts
        <5>4. l \div BlockSize + 1 = m \div BlockSize + 1
          <6>1. Agree(r, t, r, t)
            BY <1>0 DEF Sharing
          <6> HIDE DEF t
          <6> QED  BY <5>2, <5>3, <6>1 DEF Agree
        <5>5. /\ l = (l \div BlockSize) * BlockSize + (l % BlockSize)
              /\ m = (m \div BlockSize) * BlockSize + (m % BlockSize)
              /\ l \div BlockSize \in Int /\ m \div BlockSize \in Int
          <6>1. ASSUME NEW x \in Nat
                PROVE  x = (x \div BlockSize) * BlockSize + (x % BlockSize) /\ x \div BlockSize \in Int
            BY Division, Sizes
          <6>2. l \in Nat /\ m \in Nat
            BY <2>5, <4>4
          <6> HIDE DEF c, t
          <6> QED  BY <6>1, <6>2
        <5>6. l \div BlockSize = m \div BlockSize
          BY <5>4, <5>5
        <5> QED  BY <5>2, <5>5, <5>6
      <4>10. u \in 0 .. c - 1
        <5> HIDE DEF c
        <5> QED  BY <2>2, <2>5, <4>2, <4>4, <4>8, <4>9
      <4> QED  BY <2>2, <4>8, <4>10
    <3>2. Fine(p, invalid)
      BY <2>7, <3>1 DEF Fine
    <3> QED  BY <1>3, <2>10, <3>2
  <2> QED  BY <2>8, <2>9, <2>10
<1>5. CachedIsRight'
  <2>1. SUFFICES ASSUME "sync" \notin Loads, NEW b \in cached', NEW o \in Offsets
                 PROVE  <<b, o>> \in Everything'
    BY DEF CachedIsRight, Offsets
  <2>2. b \in cached /\ <<b, o>> \in Everything /\ b \in Held
    BY <1>0, <2>1 DEF CachedIsRight, Types
  <2>3. b \notin invalid
    BY <1>0, <2>1, <2>2, WhereInvalid
  <2>4. \A j \in DOMAIN Rows : ~Unsound(Rows[j], invalid)
    BY <1>0, <2>1, UnsoundFacts
  <2>5. Fine(<<b, o>>, invalid)
    BY <2>2, <2>3, <2>4 DEF Fine
  <2> QED  BY <1>3, <2>2, <2>5
<1>6. ASSUME NEW i \in DOMAIN Rows, Live(Rows[i].req),
             Rows[i].req \notin Struck({"running"}, invalid)
      PROVE  RowOk(Rows[i], a[i - 1])
  <2>1. PICK r \in ReqIds : r = Rows[i].req
    BY <1>0, RowsType
  <2>2. req[r].status = "running"
    BY <1>0, <1>6, <2>1 DEF Batch, Planned, Live, Known
  <2>3. Rows[i].table = req[r].table /\ req[r].computed = Rows[i].start + Rows[i].new
    BY <1>0, <2>1, <2>2 DEF Batch, Planned
  <2>4. Bad(r, invalid) = {}
    BY <1>6, <2>1, <2>2 DEF Struck, WithStatus
  <2>5. Rows[i].start \in Nat /\ Rows[i].new \in Nat \ {0}
    BY <1>0, RowsType
  <2>6. ~Unsound(Rows[i], invalid)
    <3>1. Cut(r, invalid) = Rows[i].start + Rows[i].new
      BY <2>3, <2>4 DEF Cut
    <3>2. \A m \in 0 .. Cut(r, invalid) - 1 : req[r].table[m \div BlockSize + 1] \notin invalid
      BY <1>0, <1>6, <2>1, CutFacts
    <3>3. \A m \in 0 .. Rows[i].start - 1 : m \in 0 .. Cut(r, invalid) - 1
      BY <2>5, <3>1
    <3> QED  BY <2>3, <3>2, <3>3 DEF Unsound
  <2>7. \A q \in Places(Rows[i].table, 0, Rows[i].start) : Fine(q, invalid) /\ q \in Coming(i)
    BY <1>0, <2>1, <2>3, <2>6, ReadsFine
  <2>8. i - 1 \in 0 .. Len(Rows) /\ (i - 1) + 1 = i
    BY <1>0, RowsType
  <2>9. \A q \in Coming((i - 1) + 1) : Fine(q, invalid) => q \in a[i - 1]
    BY <1>0, <2>8, RunsRight
  <2> QED  BY <2>7, <2>8, <2>9 DEF RowOk
<1> QED  BY <1>2, <1>4, <1>5, <1>6

LEMMA TakenCounters ==
  ASSUME SyncUnshared, IInv, NEW invalid, NEW done, NEW sent, NEW a,
         Taken(invalid, done, sent, a), NEW r \in ReqIds
  PROVE  Counters(r)'
<1>0. /\ Types /\ Counters(r) /\ pc = "idle" /\ flight # <<>> /\ Reported(invalid)
      /\ cached' \in SUBSET cached /\ received' = received
      /\ failed' = IF recompute THEN failed \cup Struck({"remote"}, invalid) ELSE failed
  BY DEF IInv, Inv_Counters, Taken
<1>1. /\ \A s \in ReqIds : req'[s].table = req[s].table
      /\ req'[r].status = req[r].status /\ req'[r].tokens = req[r].tokens
      /\ (Live(r)' <=> Live(r))
      /\ req'[r].computed = IF Live(r) THEN Cut(r, invalid) ELSE req[r].computed
      /\ req'[r].computed \in Nat
      /\ out = None
      /\ out'.failed = Struck({"running"}, invalid)
                         \cup (IF recompute THEN {} ELSE Struck({"remote"}, invalid))
  BY TakenFacts
<1>2. out.failed = {}
  BY <1>1 DEF None
<1>3. Live(r) => /\ Cut(r, invalid) <= req[r].computed
                 /\ Bad(r, invalid) # {} => /\ Cut(r, invalid) < req[r].computed
                                            /\ req[r].status \in {"running", "remote"}
  BY <1>0, CutFacts
<1>4. /\ req[r].computed \in Nat /\ req[r].tokens \in Nat /\ Len(req[r].table) \in Nat
      /\ Len(req[r].table) * BlockSize \in Nat /\ req[r].status \in Statuses
  BY <1>0, ReqFacts, Sizes
<1>5. req'[r].computed <= req[r].computed
  BY <1>1, <1>3, <1>4
<1>6. Live(r) <=> req[r].status \notin {"new", "gone", "finished"}
  BY DEF Live, Known
<1>7. req[r].status \notin {"running", "remote"} => req'[r].computed = req[r].computed
  BY <1>1, <1>3 DEF Cut
<1>8. Alone(r) => Alone(r)'
  BY <1>0, <1>1 DEF Alone
<1>9. req[r].status \in {"new", "gone"} => req'[r].table = <<>> /\ req'[r].computed = 0
  BY <1>0, <1>1, <1>7 DEF Counters
<1>10. Live(r) => /\ req'[r].computed <= req'[r].tokens
                  /\ req'[r].computed <= Len(req'[r].table) * BlockSize
  <2>1. Live(r) => req[r].computed <= req[r].tokens
                   /\ req[r].computed <= Len(req[r].table) * BlockSize
    BY <1>0 DEF Counters
  <2>2. PICK n \in Nat : n = Len(req[r].table) * BlockSize
    BY <1>4
  <2> QED  BY <1>1, <1>4, <1>5, <2>1, <2>2
<1>11. /\ req[r].status \in {"waiting", "preempted"} => req'[r].computed < req'[r].tokens
       /\ req[r].status \in {"waiting", "preempted"} /\ req'[r].computed = 0 /\ req'[r].tokens # 1 =>
            req'[r].table = <<>>
       /\ req[r].status \in {"waiting", "preempted", "remote"} /\ req'[r].tokens = 1 =>
            req'[r].table = <<>> \/ Alone(r)'
       /\ req[r].status = "streaming" => req'[r].computed # 0
  BY <1>0, <1>1, <1>7, <1>8 DEF Counters
<1>12. req[r].status = "remote" =>
         IF r \in failed' THEN req'[r].computed < req'[r].tokens
         ELSE req'[r].computed # 0 \/ r \in out'.failed
  <2> SUFFICES ASSUME req[r].status = "remote"
               PROVE  IF r \in failed' THEN req'[r].computed < req'[r].tokens
                      ELSE req'[r].computed # 0 \/ r \in out'.failed
    OBVIOUS
  <2>1. IF r \in failed THEN req[r].computed < req[r].tokens ELSE req[r].computed # 0
    BY <1>0, <1>2 DEF Counters
  <2>2. Live(r) /\ req[r].computed <= req[r].tokens
    BY <1>0, <1>6 DEF Counters
  <2>3. CASE Bad(r, invalid) = {}
    <3>1. req'[r].computed = req[r].computed
      BY <1>1, <2>2, <2>3 DEF Cut
    <3>2. r \in failed' <=> r \in failed
      BY <1>0, <2>3 DEF Struck
    <3> QED  BY <1>1, <2>1, <3>1, <3>2
  <2>4. CASE Bad(r, invalid) # {}
    <3>1. req'[r].computed < req'[r].tokens
      BY <1>1, <1>3, <1>4, <2>2, <2>4
    <3>2. r \in Struck({"remote"}, invalid)
      BY <2>4 DEF Struck, WithStatus
    <3>3. r \in failed' \/ r \in out'.failed
      BY <1>0, <1>1, <3>2
    <3> QED  BY <3>1, <3>3
  <2> QED  BY <2>3, <2>4
<1>13. r \in failed' \cup received' => req[r].status = "remote"
  <2>1. r \in failed' => r \in failed \/ r \in WithStatus({"remote"})
    BY <1>0 DEF Struck
  <2> QED  BY <1>0, <2>1 DEF Counters, WithStatus
<1> QED  BY <1>1, <1>9, <1>10, <1>11, <1>12, <1>13 DEF Counters

LEMMA TakenTransfers ==
  ASSUME SyncUnshared, IInv, NEW invalid, NEW done, NEW sent, NEW a,
         Taken(invalid, done, sent, a)
  PROVE  Transfers'
<1>0. /\ Types /\ Transfers /\ cached' \in SUBSET cached /\ received' = received
      /\ done \in SUBSET DOMAIN loading /\ sent \in SUBSET sending
      /\ sending' = sending \ sent
      /\ loading' = [r \in DOMAIN loading \ done |-> RightOf(r, invalid)]
  BY DEF IInv, Taken
<1>1. /\ \A s \in ReqIds : req'[s].table = req[s].table /\ req'[s].status = req[s].status
      /\ out = None /\ Moving = DOMAIN loading /\ Moving' = DOMAIN loading
      /\ DOMAIN Rows' = {} /\ out'.done = done /\ out'.sent = sent
  BY TakenFacts
<1>2. /\ DOMAIN loading' = DOMAIN loading \ done
      /\ \A r \in DOMAIN loading' : r \in DOMAIN loading /\ loading'[r] \subseteq loading[r]
  BY <1>0 DEF RightOf
<1>3. out.sent = {} /\ (sending' \cup out'.sent) = sending /\ sending' \cap out'.sent = {}
  BY <1>0, <1>1 DEF None
<1>4. DOMAIN loading \in SUBSET ReqIds /\ sending \in SUBSET ReqIds
  BY <1>0 DEF Types
<1>5. \A r \in Moving' : req'[r].status \in {"remote", "finished"} /\ r \notin received'
  BY <1>0, <1>1, <1>4 DEF Transfers
<1>6. DOMAIN loading' \cap out'.done = {} /\ (sending' \cup out'.sent) \cap Moving' = {}
  BY <1>0, <1>1, <1>2, <1>3 DEF Transfers
<1>7. \A r \in DOMAIN loading' : \A p \in loading'[r] :
        /\ p[1] \in ToSet(req'[r].table) /\ p[1] \notin cached'
        /\ \A s \in ReqIds \ {r} : p[1] \notin ToSet(req'[s].table)
        /\ \A i \in DOMAIN Rows' : p[1] \notin ToSet(Rows'[i].table)
  <2> SUFFICES ASSUME NEW r \in DOMAIN loading', NEW p \in loading'[r]
               PROVE  /\ p[1] \in ToSet(req'[r].table) /\ p[1] \notin cached'
                      /\ \A s \in ReqIds \ {r} : p[1] \notin ToSet(req'[s].table)
    BY <1>1
  <2>1. r \in DOMAIN loading /\ p \in loading[r] /\ r \in ReqIds
    BY <1>2, <1>4
  <2>2. /\ p[1] \in ToSet(req[r].table) /\ p[1] \notin cached
        /\ \A s \in ReqIds \ {r} : p[1] \notin ToSet(req[s].table)
    BY <1>0, <2>1 DEF Transfers
  <2> QED  BY <1>0, <1>1, <2>1, <2>2
<1>8. /\ \A r \in sending' \cup out'.sent : req'[r].status = "finished"
      /\ \A r \in ReqIds : req'[r].status = "finished" => r \in sending' \cup out'.sent \cup Moving'
      /\ \A r \in ReqIds : req'[r].status = "remote" => r \in received' \cup Moving'
  BY <1>0, <1>1, <1>3, <1>4 DEF Transfers
<1> QED  BY <1>3, <1>5, <1>6, <1>7, <1>8 DEF Transfers, ToSet

LEMMA TakenOutput ==
  ASSUME SyncUnshared, IInv, NEW invalid, NEW done, NEW sent, NEW a,
         Taken(invalid, done, sent, a)
  PROVE  Outcome' /\ OutputIsRight' /\ out' \in Output
<1>0. /\ Types /\ Batch /\ OutputIsRight /\ pc = "idle" /\ flight # <<>> /\ Reported(invalid)
      /\ tainted' = tainted /\ recompute' = recompute
      /\ done \in SUBSET DOMAIN loading /\ sent \in SUBSET sending
  BY Zenon DEF IInv, Taken
<1>1. /\ \A s \in ReqIds : /\ (Live(s)' <=> Live(s)) /\ req'[s].status = req[s].status
                           /\ req'[s].computed = IF Live(s) THEN Cut(s, invalid)
                                                 ELSE req[s].computed
      /\ Stopped' = {} /\ out'.done = done /\ out'.sent = sent /\ out'.stopped = {}
      /\ out'.failed = Struck({"running"}, invalid)
                         \cup (IF recompute THEN {} ELSE Struck({"remote"}, invalid))
  BY TakenFacts
<1>2. out'.rows = [i \in DOMAIN Rows |-> [req |-> Rows[i].req, samples |-> Rows[i].samples,
                                         ok |-> RowOk(Rows[i], a[i - 1])]]
  BY DEF Taken
<1>3. /\ DOMAIN out'.rows = DOMAIN Rows
      /\ \A i \in DOMAIN Rows : out'.rows[i].req = Rows[i].req /\ Rows[i].req \in ReqIds
  BY <1>0, <1>2, RowsType
<1>4. \A i \in DOMAIN Rows : out'.rows[i].ok = RowOk(Rows[i], a[i - 1])
  <2> SUFFICES ASSUME NEW i \in DOMAIN Rows PROVE out'.rows[i].ok = RowOk(Rows[i], a[i - 1])
    OBVIOUS
  <2>1. out'.rows[i] = [req |-> Rows[i].req, samples |-> Rows[i].samples,
                        ok |-> RowOk(Rows[i], a[i - 1])]
    BY <1>2, Zenon
  <2>2. PICK x : x = RowOk(Rows[i], a[i - 1])
    OBVIOUS
  <2>3. out'.rows[i] = [req |-> Rows[i].req, samples |-> Rows[i].samples, ok |-> x]
    BY <2>1, <2>2, Zenon
  <2>4. out'.rows[i].ok = x
    BY <2>3
  <2> QED  BY <2>2, <2>4, Zenon
<1>5. Struck({"running"}, invalid) \subseteq out'.failed
  BY <1>1
<1>6. \A i, j \in DOMAIN out'.rows : out'.rows[i].req = out'.rows[j].req => i = j
  BY <1>0, <1>3 DEF Batch
<1>7. ASSUME NEW i \in DOMAIN Rows, NEW r \in ReqIds, r = Rows[i].req, Live(r), r \notin out'.failed
      PROVE  req'[r].status = "running" /\ req'[r].computed # 0
  <2>1. req[r].status = "running"
    BY <1>0, <1>7 DEF Batch, Planned, Live, Known
  <2>2. req[r].computed = Rows[i].start + Rows[i].new
    BY <1>0, <1>7, <2>1 DEF Batch, Planned
  <2>3. Bad(r, invalid) = {}
    BY <1>5, <1>7, <2>1 DEF Struck, WithStatus
  <2>4. Rows[i].start \in Nat /\ Rows[i].new \in Nat \ {0}
    BY <1>0, RowsType
  <2>5. req'[r].computed = Rows[i].start + Rows[i].new
    BY <1>1, <1>7, <2>2, <2>3 DEF Cut
  <2> QED  BY <1>1, <2>1, <2>4, <2>5
<1>8. ASSUME recompute, NEW r \in out'.failed PROVE r \in ReqIds /\ req'[r].status # "remote"
  <2>1. out'.failed = Struck({"running"}, invalid)
    BY <1>1, <1>8
  <2>2. r \in WithStatus({"running"})
    BY <1>8, <2>1 DEF Struck
  <2> QED  BY <1>1, <2>2 DEF WithStatus
<1>9. Outcome'
  <2>1. \A i \in DOMAIN out'.rows :
          /\ out'.rows[i].req \notin Stopped'
          /\ (Live(out.rows[i].req)' /\ out'.rows[i].req \notin out'.failed =>
               req'[out'.rows[i].req].status = "running" /\ req'[out'.rows[i].req].computed # 0)
    <3> SUFFICES ASSUME NEW i \in DOMAIN Rows
                 PROVE  Live(out.rows[i].req)' /\ out'.rows[i].req \notin out'.failed =>
                 req'[out'.rows[i].req].status = "running" /\ req'[out'.rows[i].req].computed # 0
      BY <1>1, <1>3
    <3>1. PICK r \in ReqIds : r = Rows[i].req /\ out'.rows[i].req = r
      BY <1>3
    <3>2. Live(out.rows[i].req)' => Live(r)
      BY <1>1, <3>1 DEF Live, Known
    <3> QED  BY <1>7, <3>1, <3>2
  <2>2. recompute' => \A r \in out'.failed : req'[r].status # "remote"
    BY <1>0, <1>8, Zenon
  <2>3. Stopped' \cap out'.failed = {} /\ Stopped' \subseteq WithStatus({"gone", "finished", "streaming", "waiting"})'
    BY <1>1
  <2> QED  BY <1>6, <2>1, <2>2, <2>3, Zenon DEF Outcome
<1>10. OutputIsRight'
  <2>1. ASSUME NEW i \in DOMAIN Rows, Live(out.rows[i].req)', out'.rows[i].req \notin out'.failed
        PROVE  out'.rows[i].ok
    <3>1. PICK r \in ReqIds : r = Rows[i].req /\ out'.rows[i].req = r
      BY <1>3
    <3>2. Live(r)
      BY <1>1, <2>1, <3>1 DEF Live, Known
    <3>3. RowOk(Rows[i], a[i - 1])
      BY <1>5, <2>1, <3>1, <3>2, TakenIsRight
    <3> QED  BY <1>4, <3>3, Zenon
  <2>2. ~tainted'
    BY <1>0, Zenon DEF OutputIsRight
  <2> QED  BY <1>3, <2>1, <2>2, Zenon DEF OutputIsRight
<1>11. out' \in Output
  <2>1. out'.rows \in Seq(OutRow)
    <3>1. Len(Rows) \in Nat /\ DOMAIN Rows = 1 .. Len(Rows)
      BY <1>0, RowsType
    <3>2. ASSUME NEW i \in DOMAIN Rows
          PROVE  [req |-> Rows[i].req, samples |-> Rows[i].samples,
                  ok |-> RowOk(Rows[i], a[i - 1])] \in OutRow
      <4>1. Rows[i].req \in ReqIds /\ Rows[i].samples \in BOOLEAN
        <5>1. Rows[i] \in BatchRow
          BY <1>0, RowsType
        <5> QED  BY <5>1 DEF BatchRow
      <4>2. RowOk(Rows[i], a[i - 1]) \in BOOLEAN
        BY DEF RowOk
      <4> QED  BY <4>1, <4>2, Zenon DEF OutRow
    <3> DEFINE f(i) == [req |-> Rows[i].req, samples |-> Rows[i].samples,
                        ok |-> RowOk(Rows[i], a[i - 1])]
    <3>3. out'.rows = [i \in 1 .. Len(Rows) |-> f(i)] /\ \A i \in 1 .. Len(Rows) : f(i) \in OutRow
      BY <1>2, <3>1, <3>2, Zenon
    <3> HIDE DEF f
    <3> QED  BY <3>1, <3>3
  <2>2. out'.failed \in SUBSET ReqIds
    <3>1. \A S : Struck(S, invalid) \in SUBSET ReqIds
      BY DEF Struck, WithStatus
    <3> QED  BY <1>1, <3>1
  <2>3. done \in SUBSET ReqIds /\ sent \in SUBSET ReqIds
    BY <1>0 DEF Types
  <2>4. out' = [rows |-> out'.rows, failed |-> out'.failed, done |-> out'.done, sent |-> out'.sent,
                stopped |-> out'.stopped]
    <3>1. PICK F : F = Struck({"running"}, invalid)
                            \cup (IF recompute THEN {} ELSE Struck({"remote"}, invalid))
      OBVIOUS
    <3>2. out' = [rows |-> out'.rows, done |-> done, sent |-> sent, stopped |-> {}, failed |-> F]
      BY <3>1, Zenon DEF Taken
    <3> QED  BY <3>2
  <2> QED  BY <1>1, <2>1, <2>2, <2>3, <2>4 DEF Output
<1> QED  BY <1>9, <1>10, <1>11

LEMMA TakeOutputKeeps == ASSUME SyncUnshared, IInv, TakeOutput PROVE IInv'
<1>1. PICK invalid, done, sent, a : Taken(invalid, done, sent, a)
  BY TakeOutputStep
<1>0. /\ Types /\ Phases /\ Queues /\ pc = "idle" /\ pc' = "rows"
      /\ running' = running /\ waiting' = waiting /\ skipped' = skipped
      /\ num_streaming' = num_streaming /\ finished_ids' = finished_ids
      /\ received' = received /\ at' = at /\ plan' = plan /\ step_skipped' = step_skipped
      /\ sending' = sending \ sent /\ cached' \in SUBSET cached /\ faults' \in 0 .. MaxFaults
      /\ failed' = IF recompute THEN failed \cup Struck({"remote"}, invalid) ELSE failed
      /\ loading' = [r \in DOMAIN loading \ done |-> RightOf(r, invalid)]
  BY <1>1, Zenon DEF IInv, Taken
<1>2. /\ flight' = <<>> /\ plan' = <<>> /\ DOMAIN Rows' = {} /\ Held' = Held
      /\ \A S : WithStatus(S)' = WithStatus(S)
      /\ \A r \in ReqIds : req'[r].status = req[r].status
      /\ req' \in [ReqIds -> Request] /\ good' \in SUBSET Slots /\ Stopped = {} /\ Stopped' = {}
  BY <1>1, TakenFacts
<1>3. Types'
  <2>1. failed' \in SUBSET ReqIds
    <3>1. Struck({"remote"}, invalid) \in SUBSET ReqIds
      BY DEF Struck, WithStatus
    <3> QED  BY <1>0, <3>1 DEF Types
  <2>2. DOMAIN loading' \in SUBSET ReqIds /\ \A r \in DOMAIN loading' : loading'[r] \in SUBSET Slots
    BY <1>0 DEF Types, RightOf
  <2>3. cached' \in SUBSET Held' /\ sending' \in SUBSET ReqIds
    BY <1>0, <1>2 DEF Types
  <2>4. out' \in Output
    BY <1>1, TakenOutput
  <2>5. flight' \in Seq(Seq(BatchRow)) /\ Len(flight') <= 1 /\ plan' \in Seq(BatchRow)
    BY <1>2
  <2>6. /\ running' \in Seq(ReqIds) /\ waiting' \in Seq(ReqIds)
        /\ skipped' \in Seq(ReqIds) /\ step_skipped' \in Seq(ReqIds)
        /\ received' \in SUBSET ReqIds /\ finished_ids' \in SUBSET ReqIds
        /\ at' \in Nat \ {0}
    BY <1>0 DEF Types
  <2> QED  BY <1>0, <1>2, <2>1, <2>2, <2>3, <2>4, <2>5, <2>6
           DEF Types, Slots, Offsets, Request, Statuses, Output, OutRow, BatchRow
<1>4. Phases'
  BY <1>0, <1>2 DEF Phases
<1>5. Queues'
  <2>1. \A r \in ToSet(waiting) : r \in ReqIds
    BY <1>0 DEF Types, ToSet
  <2>2. /\ ToSet(waiting) \cup ToSet(skipped) \cup ToSet(step_skipped) = WithStatus(InQueues)'
        /\ ToSet(running) = WithStatus({"running"})' \cup Stopped'
        /\ num_streaming = Cardinality(WithStatus({"streaming"})')
        /\ \A r \in ToSet(waiting) : req'[r].status # "remote"
    BY <1>0, <1>2, <2>1 DEF Queues
  <2> QED  BY <1>0, <2>2 DEF Queues, InQueues
<1>6. Inv_Counters'
  BY <1>1, TakenCounters DEF Inv_Counters
<1>7. Batch'
  BY <1>0, <1>2 DEF Batch
<1>8. Outcome' /\ OutputIsRight'
  BY <1>1, TakenOutput
<1>9. Transfers'
  BY <1>1, TakenTransfers
<1>10. Sharing' /\ RowsReadRight' /\ ComputedIsRight' /\ CachedIsRight'
  BY <1>1, TakenIsRight
<1> QED  BY <1>3, <1>4, <1>5, <1>6, <1>7, <1>8, <1>9, <1>10 DEF IInv

-----------------------------------------------------------------------------
(* Every step keeps the inductive invariant.                                 *)
LEMMA StepKeepsIInv == ASSUME OneInFlight, SyncUnshared, IInv, [Next]_vars PROVE IInv'
<1>1. CASE StartStep
  BY <1>1, StartStepKeeps
<1>2. CASE ScheduleRunning
  BY <1>2, ScheduleRunningKeeps
<1>3. CASE Preempt
  BY <1>3, PreemptKeeps
<1>4. CASE EndRunning
  BY <1>4, EndRunningKeeps
<1>5. CASE PassOver
  BY <1>5, PassOverKeeps
<1>6. CASE Promote
  BY <1>6, PromoteKeeps
<1>7. CASE StartLoad
  BY <1>7, StartLoadKeeps
<1>8. CASE Admit
  BY <1>8, AdmitKeeps
<1>9. CASE EndWaiting
  BY <1>9, EndWaitingKeeps
<1>10. CASE CommitStep
  BY <1>10, CommitStepKeeps
<1>11. CASE TakeOutput
  BY <1>11, TakeOutputKeeps
<1>12. CASE OutputRow
  BY <1>12, OutputRowKeeps
<1>13. CASE EndOutput
  BY <1>13, EndOutputKeeps
<1>14. ASSUME NEW r \in ReqIds, AddRequest(r) PROVE IInv'
  BY <1>14, AddRequestKeeps
<1>15. ASSUME NEW r \in ReqIds, Abort(r) PROVE IInv'
  BY <1>15, AbortKeeps
<1>16. ASSUME NEW r \in ReqIds, NEW n \in Inputs \cup {0}, SendInput(r, n) PROVE IInv'
  BY <1>16, SendInputKeeps
<1>17. CASE UNCHANGED vars
  <2>1. /\ req' = req /\ running' = running /\ waiting' = waiting /\ skipped' = skipped
        /\ num_streaming' = num_streaming /\ finished_ids' = finished_ids
        /\ received' = received /\ failed' = failed /\ loading' = loading
        /\ cached' = cached /\ flight' = flight /\ sending' = sending /\ pc' = pc
        /\ at' = at /\ plan' = plan /\ step_skipped' = step_skipped /\ preempted' = preempted
        /\ out' = out /\ recompute' = recompute /\ faults' = faults /\ good' = good
        /\ tainted' = tainted
    BY <1>17, Zenon DEF vars, queues, recvs, locals, env, ghosts
  <2>2. Rows' = Rows /\ Held' = Held
    BY <2>1 DEF Rows, Held
  <2>3. /\ Stopped' = Stopped /\ \A S : WithStatus(S)' = WithStatus(S)
    BY <2>1 DEF Stopped, WithStatus
  <2>4. Types' /\ Phases' /\ Queues' /\ Batch'
    <3>1. Types'
      BY <2>1, <2>2, Zenon DEF IInv, Types, Slots, Offsets, Request, Statuses, Output, OutRow, BatchRow
    <3>2. Phases'
      BY <2>1 DEF IInv, Phases
    <3>3. Queues'
      BY <2>1, <2>3 DEF IInv, Queues, InQueues
    <3>4. Batch'
      BY <2>1, <2>2 DEF IInv, Batch, Planned, Places, At
    <3> QED  BY <3>1, <3>2, <3>3, <3>4
  <2>5. IInv
    OBVIOUS
  <2> QED  BY <2>1, <2>2, <2>4, <2>5, QuietStep, Zenon DEF recvs, ghosts
<1> QED
  BY <1>1, <1>2, <1>3, <1>4, <1>5, <1>6, <1>7, <1>8, <1>9, <1>10, <1>11, <1>12, <1>13, <1>14,
     <1>15, <1>16, <1>17, Zenon DEF Next, Engine, Client

LEMMA AlwaysIInv == ASSUME OneInFlight, SyncUnshared PROVE Spec => []IInv
<1>1. Init => IInv
  BY InitIInv
<1>2. IInv /\ [Next]_vars => IInv'
  BY StepKeepsIInv
<1> QED  BY <1>1, <1>2, PTL DEF Spec

-----------------------------------------------------------------------------
(* What the invariant says of the properties.                                *)
LEMMA JoinedInjective ==
  ASSUME NEW S, NEW s \in Seq(S), NEW t \in Seq(S), IsInjective(s), IsInjective(t),
         ToSet(s) \cap ToSet(t) = {}
  PROVE  /\ s \o t \in Seq(S) /\ IsInjective(s \o t)
         /\ ToSet(s \o t) = ToSet(s) \cup ToSet(t)
<1> DEFINE u == s \o t
<1>1. /\ u \in Seq(S) /\ Len(u) = Len(s) + Len(t) /\ Len(s) \in Nat /\ Len(t) \in Nat
      /\ \A i \in 1 .. Len(u) : u[i] = IF i <= Len(s) THEN s[i] ELSE t[i - Len(s)]
  BY ConcatProperties
<1>2. DOMAIN u = 1 .. Len(u) /\ DOMAIN s = 1 .. Len(s) /\ DOMAIN t = 1 .. Len(t)
  BY <1>1
<1> HIDE DEF u
<1>3. ASSUME NEW i \in DOMAIN u, NEW j \in DOMAIN u, u[i] = u[j] PROVE i = j
  <2>1. CASE i <= Len(s) /\ j <= Len(s)
    <3>1. u[i] = s[i] /\ u[j] = s[j] /\ i \in DOMAIN s /\ j \in DOMAIN s
      BY <1>1, <1>2, <2>1
    <3> QED  BY <1>3, <3>1 DEF IsInjective
  <2>2. CASE ~(i <= Len(s)) /\ ~(j <= Len(s))
    <3>1. u[i] = t[i - Len(s)] /\ u[j] = t[j - Len(s)]
          /\ i - Len(s) \in DOMAIN t /\ j - Len(s) \in DOMAIN t
      BY <1>1, <1>2, <2>2
    <3>2. i - Len(s) = j - Len(s)
      BY <1>3, <3>1 DEF IsInjective
    <3> QED  BY <1>1, <1>2, <3>2
  <2>3. ASSUME NEW a \in DOMAIN u, NEW b \in DOMAIN u, u[a] = u[b], a <= Len(s), ~(b <= Len(s))
        PROVE  FALSE
    <3>1. u[a] = s[a] /\ u[b] = t[b - Len(s)] /\ a \in DOMAIN s /\ b - Len(s) \in DOMAIN t
      BY <1>1, <1>2, <2>3
    <3> QED  BY <2>3, <3>1 DEF ToSet
  <2> QED  BY <1>3, <2>1, <2>2, <2>3
<1>4. ToSet(u) \subseteq ToSet(s) \cup ToSet(t)
  <2> SUFFICES ASSUME NEW i \in DOMAIN u PROVE u[i] \in ToSet(s) \cup ToSet(t)
    BY DEF ToSet
  <2>1. CASE i <= Len(s)
    <3>1. u[i] = s[i] /\ i \in DOMAIN s
      BY <1>1, <1>2, <2>1
    <3> QED  BY <3>1 DEF ToSet
  <2>2. CASE ~(i <= Len(s))
    <3>1. u[i] = t[i - Len(s)] /\ i - Len(s) \in DOMAIN t
      BY <1>1, <1>2, <2>2
    <3> QED  BY <3>1 DEF ToSet
  <2> QED  BY <2>1, <2>2
<1>5. ToSet(s) \subseteq ToSet(u)
  <2> SUFFICES ASSUME NEW i \in DOMAIN s PROVE s[i] \in ToSet(u)
    BY DEF ToSet
  <2>1. i \in DOMAIN u /\ u[i] = s[i]
    BY <1>1, <1>2
  <2> QED  BY <2>1 DEF ToSet
<1>6. ToSet(t) \subseteq ToSet(u)
  <2> SUFFICES ASSUME NEW i \in DOMAIN t PROVE t[i] \in ToSet(u)
    BY DEF ToSet
  <2>1. i + Len(s) \in DOMAIN u /\ u[i + Len(s)] = t[(i + Len(s)) - Len(s)]
    BY <1>1, <1>2
  <2>2. (i + Len(s)) - Len(s) = i
    BY <1>1, <1>2
  <2> QED  BY <2>1, <2>2 DEF ToSet
<1>7. IsInjective(u)
  BY <1>3 DEF IsInjective
<1> QED  BY <1>1, <1>4, <1>5, <1>6, <1>7 DEF u

LEMMA IInvTypeOK == ASSUME IInv PROVE TypeOK
<1>0. Types /\ Queues /\ Sharing
  BY DEF IInv
<1>1. ASSUME NEW r \in ReqIds
      PROVE  /\ req[r].status \in {"new", "waiting", "preempted", "running", "remote",
                                   "streaming", "finished", "gone"}
             /\ {req[r].tokens, req[r].prompt, req[r].computed} \subseteq Nat
             /\ IsInjective(req[r].table) /\ ToSet(req[r].table) \subseteq Blocks
  <2>1. req[r] \in Request /\ ToSet(req[r].table) \subseteq Blocks
    BY <1>0, ReqFacts
  <2>2. Agree(r, req[r].table, r, req[r].table)
    BY <1>0 DEF Sharing
  <2>3. IsInjective(req[r].table)
    BY <2>2 DEF Agree, IsInjective
  <2> QED  BY <2>1, <2>3 DEF Request, Statuses
<1>2. num_streaming \in Nat
  <2>1. WithStatus({"streaming"}) \in SUBSET ReqIds
    BY DEF WithStatus
  <2>2. IsFiniteSet(WithStatus({"streaming"}))
    BY <2>1, Sizes, FS_Subset
  <2> QED  BY <1>0, <2>2, FS_CardinalityType DEF Queues
<1>3. /\ faults \in 0 .. MaxFaults
      /\ received \cup failed \cup sending \cup finished_ids \subseteq ReqIds
      /\ cached \subseteq Held /\ good \subseteq Blocks \X (0 .. BlockSize - 1)
      /\ pc \in {"idle", "running", "waiting", "commit", "rows"}
  BY <1>0 DEF Types, Slots, Offsets
<1> QED  BY <1>1, <1>2, <1>3 DEF TypeOK

LEMMA IInvQueues == ASSUME IInv PROVE QueuesAccountForRequests
<1>0. Types /\ Queues /\ Phases
  BY DEF IInv
<1>1. num_streaming = Cardinality({r \in ReqIds : req[r].status = "streaming"})
  <2>1. WithStatus({"streaming"}) = {r \in ReqIds : req[r].status = "streaming"}
    BY DEF WithStatus
  <2> QED  BY <1>0, <2>1 DEF Queues
<1>2. ASSUME pc = "idle"
      PROVE  /\ IsInjective(running \o waiting \o skipped)
             /\ ToSet(running) = {r \in Known : req[r].status = "running"}
             /\ ToSet(waiting) \cup ToSet(skipped) =
                  {r \in Known : req[r].status \in {"waiting", "preempted", "remote", "streaming"}}
  <2>1. Stopped = {} /\ ToSet(step_skipped) = {}
    <3>1. step_skipped = <<>>
      BY <1>0, <1>2 DEF Phases
    <3> QED  BY <1>0, <1>2, <3>1, NoOutput DEF ToSet
  <2>2. /\ ToSet(running) = WithStatus({"running"})
        /\ ToSet(waiting) \cup ToSet(skipped) = WithStatus(InQueues)
    BY <1>0, <2>1 DEF Queues
  <2>3. WithStatus({"running"}) \cap WithStatus(InQueues) = {}
    BY DEF WithStatus, InQueues
  <2>4. /\ running \in Seq(ReqIds) /\ waiting \in Seq(ReqIds) /\ skipped \in Seq(ReqIds)
        /\ IsInjective(running) /\ IsInjective(waiting) /\ IsInjective(skipped)
        /\ ToSet(waiting) \cap ToSet(skipped) = {}
    BY <1>0 DEF Types, Queues
  <2>5. /\ running \o waiting \in Seq(ReqIds) /\ IsInjective(running \o waiting)
        /\ ToSet(running \o waiting) = ToSet(running) \cup ToSet(waiting)
    BY <2>2, <2>3, <2>4, JoinedInjective
  <2>6. ToSet(running \o waiting) \cap ToSet(skipped) = {}
    BY <2>2, <2>3, <2>4, <2>5
  <2>7. IsInjective((running \o waiting) \o skipped)
    BY <2>4, <2>5, <2>6, JoinedInjective
  <2> QED  BY <2>2, <2>7 DEF WithStatus, InQueues, Known
<1> QED  BY <1>1, <1>2 DEF QueuesAccountForRequests

LEMMA IInvAccounted == ASSUME IInv PROVE AllAccountedFor
<1>1. ASSUME NEW r \in ReqIds
      PROVE  /\ req[r].status = "waiting" => req[r].computed < req[r].tokens
             /\ Live(r) => req[r].computed <= Len(req[r].table) * BlockSize
  BY DEF IInv, Inv_Counters, Counters
<1>2. ComputedWithinTokens
  BY <1>1 DEF ComputedWithinTokens
<1> QED  BY <1>2, IInvTypeOK, IInvQueues DEF AllAccountedFor

LEMMA IInvTransfers == ASSUME IInv PROVE TransfersOwnTheirBlocks
<1>0. Types /\ Transfers
  BY DEF IInv
<1>1. ASSUME NEW r \in DOMAIN loading
      PROVE  /\ req[r].status \in {"remote", "finished"} /\ r \notin received
             /\ \A p \in loading[r] : {q \in ReqIds : p[1] \in ToSet(req[q].table)} = {r}
  <2>1. r \in Moving /\ r \in ReqIds
    BY <1>0 DEF Moving, Types
  <2>2. req[r].status \in {"remote", "finished"} /\ r \notin received
    BY <1>0, <2>1 DEF Transfers
  <2>3. \A p \in loading[r] : /\ p[1] \in ToSet(req[r].table)
                              /\ \A s \in ReqIds \ {r} : p[1] \notin ToSet(req[s].table)
    BY <1>0 DEF Transfers
  <2>4. ASSUME NEW p \in loading[r] PROVE {q \in ReqIds : p[1] \in ToSet(req[q].table)} = {r}
    BY <2>1, <2>3
  <2> QED  BY <2>2, <2>4
<1>2. \A r \in sending : req[r].status = "finished"
  BY <1>0 DEF Transfers
<1>3. \A r \in ReqIds : req[r].status = "finished" =>
        r \in sending \cup DOMAIN loading \cup out.done \cup out.sent
  BY <1>0 DEF Transfers, Moving
<1> QED  BY <1>1, <1>2, <1>3 DEF TransfersOwnTheirBlocks

-----------------------------------------------------------------------------
(* With one batch in flight, and no prefix shared if loads may be synchronous:*)
(* every request in self.requests is in exactly one queue, once, or waits for*)
(* a transfer; the sessions that wait for input are counted; what is computed*)
(* never exceeds the tokens and the blocks there are. With two batches a     *)
(* preempted session that an older output stops is in no queue               *)
(* (scheduler.py:1541-1546).                                                 *)
THEOREM RequestsAccountedFor ==
  ASSUME OneInFlight, SyncUnshared
  PROVE  Spec => []AllAccountedFor
<1>1. IInv => AllAccountedFor
  BY IInvAccounted
<1> QED  BY <1>1, AlwaysIInv, PTL

(* With one batch in flight, and no prefix shared if loads may be synchronous:*)
(* a request whose KV entries a worker loads or stores is kept, with its     *)
(* blocks to itself, until the transfer is over.                             *)
THEOREM TransfersKeepTheirBlocks ==
  ASSUME OneInFlight, SyncUnshared
  PROVE  Spec => []TransfersOwnTheirBlocks
<1>1. IInv => TransfersOwnTheirBlocks
  BY IInvTransfers
<1> QED  BY <1>1, AlwaysIInv, PTL

(* Whatever fails to load and whenever it is reported: no token is accepted  *)
(* that was computed from KV entries that were not there. The theorem covers *)
(* two ways to run. Where all loads are asynchronous, requests may share     *)
(* prefixes, and blocks, with each other; where loads may be synchronous, no *)
(* two requests have a prefix in common: a request that shares a block which *)
(* failed to load with one that loads it again keeps it as computed          *)
(* (scheduler.py:2242-2249), and that case is not covered. In both, one      *)
(* batch is in flight.                                                       *)
THEOREM AcceptedTokensAreRight ==
  ASSUME OneInFlight, SyncUnshared
  PROVE  Spec => []AcceptedFromValidKV
<1>1. IInv => AcceptedFromValidKV
  BY Zenon DEF IInv, OutputIsRight, AcceptedFromValidKV
<1> QED  BY <1>1, AlwaysIInv, PTL
=============================================================================
