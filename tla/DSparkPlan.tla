------------------------------ MODULE DSparkPlan ------------------------------
(***************************************************************************)
(* How many of a step's draft tokens the target is asked to verify: the    *)
(* draft lengths DSparkProposer derives from the confidence head           *)
(* (_schedule_from_confidence and the planners of spec_decode/dspark.py).  *)
(*                                                                         *)
(* A confidence is a number of Unit-ths.  Survivals, products of at most   *)
(* Depth confidences, are kept exactly as numbers of Unit^Depth-ths, where *)
(* the code has floating point: a property here is one of the algorithm,   *)
(* not of its rounding.                                                    *)
(***************************************************************************)
EXTENDS Integers, FiniteSets, SequencesExt

CONSTANTS
  Requests,    \* rows of the batch, 1 .. n
  Depth,       \* num_speculative_tokens
  Unit,        \* resolution of a confidence
  Curves,      \* VLLM_DSPARK_SPS_CURVE tables: batch tokens -> steps/s
  Thresholds,  \* VLLM_DSPARK_CONFIDENCE_THRESHOLD, in Unit^Depth-ths
  NoPlan

ASSUME PlanAssumption ==
  /\ Requests = 1 .. Cardinality(Requests) /\ Requests # {}
  /\ {Depth, Unit} \subseteq Nat \ {0}
  /\ \A c \in Curves : \A n \in DOMAIN c : n \in Nat \ {0} /\ c[n] \in Nat
  /\ Thresholds \subseteq 0 .. Unit ^ Depth

VARIABLES
  rows,       \* confidence_rows
  scheduler,  \* off, threshold, hardware
  curve, threshold, early_stop,
  plan        \* the result

vars == <<rows, scheduler, curve, threshold, early_stop, plan>>

Certain == Unit ^ Depth
Rows == [Requests -> [1 .. Depth -> 0 .. Unit]]

(* cumulative_survival: the survival of each prefix of a row.              *)
Survivals(row) ==
  FoldLeft(LAMBDA s, c : Append(s, ((IF s = <<>> THEN Certain ELSE Last(s)) * c) \div Unit),
           <<>>, row)

(* _steps_per_second: the rate of the last profiled size not above n.      *)
StepsPerSecond(table, n) ==
  LET reached == {m \in DOMAIN table : m <= n}
      least(S) == CHOOSE m \in S : \A k \in S : m <= k
      most(S)  == CHOOSE m \in S : \A k \in S : k <= m
  IN IF DOMAIN table = {} THEN 1
     ELSE table[IF reached = {} THEN least(DOMAIN table) ELSE most(reached)]

(* score_prefix_lengths                                                    *)
Score(rs, lengths, table) ==
  LET expected == FoldLeft(LAMBDA e, r :
                     e + FoldLeft(+, 0, SubSeq(Survivals(rs[r]), 1, lengths[r])),
                     Cardinality(Requests) * Certain, [r \in Requests |-> r])
      tokens   == FoldLeft(+, Cardinality(Requests), lengths)
  IN [lengths |-> lengths, expected |-> expected, tokens |-> tokens,
      rate |-> expected * StepsPerSecond(table, tokens)]

(* confidence_threshold_prefix_length: stop at the first position whose    *)
(* survival is below the threshold.                                        *)
ThresholdLength(row, limit) ==
  LET s == Survivals(row)
      below == {n \in 1 .. Depth : s[n] < limit}
  IN IF below = {} THEN Depth ELSE (CHOOSE n \in below : \A m \in below : n <= m) - 1

-----------------------------------------------------------------------------
(* hardware_aware_prefix_schedule                                          *)
Candidates(rs) ==
  {c \in [survival : 1 .. Certain, request : Requests, position : 1 .. Depth] :
     Survivals(rs[c.request])[c.position] = c.survival}

Mut_Before(c, d) ==  \* mutant: ties go to the later position
  \/ c.survival > d.survival
  \/ c.survival = d.survival /\ c.request < d.request
  \/ c.survival = d.survival /\ c.request = d.request /\ c.position > d.position

(* The sort key (-survival, request, position).                            *)
Before(c, d) ==
  \/ c.survival > d.survival
  \/ c.survival = d.survival /\ c.request < d.request
  \/ c.survival = d.survival /\ c.request = d.request /\ c.position < d.position

InOrder(rs) ==
  LET C == Candidates(rs)
  IN [i \in 1 .. Cardinality(C) |->
        CHOOSE c \in C : Cardinality({d \in C : Before(d, c)}) = i - 1]

Admitted(lengths, c) == [lengths EXCEPT ![c.request] = c.position]

Mut_Visit(w, c, table, early) ==  \* mutant: no early stop
  IF c.position # w.lengths[c.request] + 1 THEN w
  ELSE LET next == [lengths  |-> Admitted(w.lengths, c),
                    expected |-> w.expected + c.survival,
                    tokens   |-> w.tokens + 1]
           rate == next.expected * StepsPerSecond(table, next.tokens)
       IN IF rate > w.best.rate
          THEN next @@ [best |-> next @@ [rate |-> rate], stopped |-> FALSE]
          ELSE next @@ [best |-> w.best, stopped |-> FALSE]

(* One iteration of the loop: admit candidate c, and keep the point it     *)
(* leads to if that is strictly faster than the best before it.            *)
Visit(w, c, table, early) ==
  IF w.stopped \/ c.position # w.lengths[c.request] + 1 THEN w
  ELSE LET next == [lengths  |-> Admitted(w.lengths, c),
                    expected |-> w.expected + c.survival,
                    tokens   |-> w.tokens + 1]
           rate == next.expected * StepsPerSecond(table, next.tokens)
       IN IF rate > w.best.rate
          THEN next @@ [best |-> next @@ [rate |-> rate], stopped |-> FALSE]
          ELSE next @@ [best |-> w.best, stopped |-> early]

HardwarePlan(rs, table, early) ==
  LET none  == [r \in Requests |-> 0]
      start == Score(rs, none, table)
      final == FoldLeft(LAMBDA w, c : Visit(w, c, table, early),
                 [lengths |-> none, expected |-> start.expected, tokens |-> start.tokens,
                  best |-> start, stopped |-> FALSE],
                 InOrder(rs))
  IN final.best

-----------------------------------------------------------------------------
(* _schedule_from_confidence                                               *)
Schedule(rs, kind, table, limit, early) ==
  IF kind = "hardware" THEN HardwarePlan(rs, table, early)
  ELSE Score(rs, [r \in Requests |-> IF kind = "off" \/ limit = 0 THEN Depth
                                     ELSE ThresholdLength(rs[r], limit)], table)

Init ==
  /\ rows \in Rows
  /\ scheduler \in {"off", "threshold", "hardware"}
  /\ curve \in (IF scheduler = "hardware" THEN Curves ELSE {<<>>})
  /\ threshold \in (IF scheduler = "threshold" THEN Thresholds ELSE {0})
  /\ early_stop \in (IF scheduler = "hardware" THEN BOOLEAN ELSE {FALSE})
  /\ plan = NoPlan

Decide ==
  /\ plan = NoPlan
  /\ plan' = Schedule(rows, scheduler, curve, threshold, early_stop)
  /\ UNCHANGED <<rows, scheduler, curve, threshold, early_stop>>

Next == Decide
Spec == Init /\ [][Next]_vars

-----------------------------------------------------------------------------
Planned(kind) == plan # NoPlan /\ scheduler = kind

Best(rs, table) ==
  LET rates == {Score(rs, l, table).rate : l \in [Requests -> 0 .. Depth]}
  IN CHOOSE x \in rates : \A y \in rates : y <= x

Sizes == Cardinality(Requests) .. Cardinality(Requests) * (Depth + 1)

(* A larger step is not faster, and (Smooth) the loss grows with the size. *)
Falling(table) ==
  \A m, n \in Sizes : m <= n => StepsPerSecond(table, n) <= StepsPerSecond(table, m)

Smooth(table) ==
  LET loss(n) == StepsPerSecond(table, n) - StepsPerSecond(table, n + 1)
  IN Falling(table) /\ \A n \in Sizes : n + 2 \in Sizes => loss(n) <= loss(n + 1)

(* Without the early stop, the greedy path contains the optimum: no choice *)
(* of prefix lengths, of the many the planner never looks at, has a higher *)
(* expected throughput, however jagged the (falling) profiled curve.       *)
ExhaustiveIsOptimal ==
  Planned("hardware") /\ ~early_stop /\ Falling(curve) => plan.rate = Best(rows, curve)

(* On a smooth curve the early stop loses nothing: throughput does not     *)
(* recover from its first drop (hardware_aware_prefix_schedule).           *)
EarlyStopSuffices ==
  Planned("hardware") /\ early_stop /\ Smooth(curve) => plan.rate = Best(rows, curve)

(* What the planner keeps incrementally along its path is what the scoring *)
(* function computes for the lengths it returns.                           *)
PlanMatchesScore ==
  Planned("hardware") => plan = Score(rows, plan.lengths, curve)

(* Whether draft n of request r is verified is decided by confidences of   *)
(* positions up to n only, which keeps confidence scheduling compatible    *)
(* with rejection sampling (confidence_threshold_prefix_length); the       *)
(* hardware planner has the property as well as long as it stops early.    *)
NonAnticipating ==
  Planned("threshold") \/ (Planned("hardware") /\ early_stop) =>
    \A r \in Requests : \A n \in 1 .. Depth - 1 : \A c \in 0 .. Unit :
      LET other == [rows EXCEPT ![r][n + 1] = c]
      IN plan.lengths[r] >= n <=>
           Schedule(other, scheduler, curve, threshold, early_stop).lengths[r] >= n

(* The hardware planner is as good as any choice of lengths, in both modes,*)
(* and reports the throughput of the lengths it returns.                   *)
PlanIsOptimal == ExhaustiveIsOptimal /\ EarlyStopSuffices /\ PlanMatchesScore
=============================================================================
