-------------------------- MODULE StickyRouter_proofs --------------------------
(* Proofs about StickyRouter, for any workers, groups, keys and threads.   *)
EXTENDS StickyRouter, DataLemmas, FiniteSetTheorems, TLAPS

(* Static backends never leave found once a round has begun.               *)
FoundStatic == pc \notin {"sleep", "dead"} => Static \subseteq found

(* What has been probed so far was found by this round, and was up in it.  *)
ProbedOk ==
  /\ ok \subseteq found /\ ok \subseteq seen_up
  /\ unprobed \subseteq found
  /\ up \subseteq seen_up

(* No steady worker has been missed: it is found, or its group is still to *)
(* be asked; once probing has begun, it is found, and probed healthy or    *)
(* still to be probed.                                                     *)
SteadyKept ==
  /\ steady \subseteq Discoverable
  /\ pc \in {"list", "describe"} =>
       \A b \in steady \ found : \E i \in at .. Len(Targets) : Targets[i] = RegionOf[b]
  /\ pc = "describe" => \A b \in steady \ Static : RegionOf[b] = Targets[at] => b \in ids
  /\ pc = "probe" => steady \subseteq found /\ steady \subseteq ok \cup unprobed

HealthyKnown == healthy \subseteq backends

IInv == TypeOK /\ FoundStatic /\ ProbedOk /\ SteadyKept /\ HealthyKnown

-----------------------------------------------------------------------------
LEMMA TargetsFacts ==
  /\ Len(Targets) \in Nat
  /\ \A i \in 1 .. Len(Targets) : Targets[i] \in Regions
  /\ \A b \in Workers \ Static : \E i \in 1 .. Len(Targets) : Targets[i] = RegionOf[b]
BY RouterAssumption DEF Regions

LEMMA Modulo == ASSUME NEW n \in Nat PROVE n % Laps \in 0 .. Laps - 1
BY RouterAssumption

LEMMA InitIInv == Init => IInv
BY RouterAssumption, TargetsFacts
DEF Init, IInv, TypeOK, FoundStatic, ProbedOk, SteadyKept, HealthyKnown, Idle

(* The environment only touches what it is made of, and the ghosts.        *)
LEMMA ObserveIInv ==
  ASSUME IInv, Observe, up' \subseteq Workers, asg' \subseteq Workers \ Static,
         running' \subseteq Workers \ Static,
         api' \subseteq Regions
  PROVE  IInv'
<1> USE DEF IInv, Observe, table, round
<1>1. TypeOK'
  BY DEF TypeOK
<1>2. FoundStatic' /\ HealthyKnown'
  BY DEF FoundStatic, HealthyKnown
<1>3. ProbedOk'
  BY DEF ProbedOk
<1>4. SteadyKept'
  <2>1. steady' \subseteq steady /\ steady' \subseteq Discoverable'
    OBVIOUS
  <2>2. UNCHANGED <<pc, at, ids, found, unprobed, ok>>
    OBVIOUS
  <2> HIDE DEF Observe
  <2> QED BY <2>1, <2>2 DEF SteadyKept
<1> QED BY <1>1, <1>2, <1>3, <1>4

LEMMA EnvironmentIInv == IInv /\ Environment => IInv'
<1> SUFFICES ASSUME IInv, Environment PROVE IInv' OBVIOUS
<1>1. /\ Observe
      /\ up' \subseteq Workers /\ asg' \subseteq Workers \ Static
      /\ running' \subseteq Workers \ Static /\ api' \subseteq Regions
  BY DEF Environment, WorkerUp, WorkerDown, Joins, Leaves, Starts, Stops, ApiFails,
     ApiWorks, IInv, TypeOK
<1> QED BY <1>1, ObserveIInv

-----------------------------------------------------------------------------
(* The end of a target's turn: nothing of it is missing from more.         *)
LEMMA NextTargetIInv ==
  ASSUME IInv, pc \in {"list", "describe"},
         NEW more, NextTarget(more),
         found \subseteq more, more \subseteq Workers,
         \A b \in steady \ Static : RegionOf[b] = Targets[at] => b \in more,
         UNCHANGED <<env, table, rr, req, ghost>>
  PROVE  IInv'
<1> USE TargetsFacts
<1>1. TypeOK'
  BY DEF IInv, TypeOK, NextTarget, env, table, ghost
<1>2. FoundStatic' /\ HealthyKnown'
  BY DEF IInv, FoundStatic, HealthyKnown, NextTarget, table
<1>3. ProbedOk'
  BY DEF IInv, ProbedOk, NextTarget, env, ghost
<1>4. ASSUME NEW b \in steady, b \notin more
      PROVE  \E i \in at + 1 .. Len(Targets) : Targets[i] = RegionOf[b]
  <2>1. b \notin found /\ b \in Workers \ Static
    BY <1>4 DEF IInv, FoundStatic, TypeOK
  <2>2. PICK i \in at .. Len(Targets) : Targets[i] = RegionOf[b]
    BY <2>1 DEF IInv, SteadyKept
  <2>3. i # at
    BY <1>4, <2>1, <2>2
  <2> QED BY <2>2, <2>3 DEF IInv, TypeOK
<1>5. at \in Nat /\ at <= Len(Targets)
  BY DEF IInv, TypeOK
<1>6. SteadyKept'
  <2>1. steady' = steady /\ Discoverable' = Discoverable /\ found' = more /\ at' = at + 1
    BY DEF NextTarget, env, ghost, Discoverable, Serving
  <2>2. steady \subseteq Discoverable
    BY DEF IInv, SteadyKept
  <2>3. CASE at = Len(Targets)
    <3>1. pc' = "probe" /\ unprobed' = more
      BY <2>3 DEF NextTarget
    <3>2. steady \subseteq more
      BY <1>4, <1>5, <2>3
    <3> QED BY <2>1, <2>2, <3>1, <3>2 DEF SteadyKept
  <2>4. CASE at # Len(Targets)
    <3>1. pc' = "list"
      BY <2>4 DEF NextTarget
    <3> QED BY <1>4, <2>1, <2>2, <3>1 DEF SteadyKept
  <2> QED BY <2>3, <2>4
<1> QED BY <1>1, <1>2, <1>3, <1>6 DEF IInv

(* The thread ends with nothing found.                                     *)
LEMMA DiesIInv == IInv /\ DiscoveryDies => IInv'
<1> SUFFICES ASSUME IInv, DiscoveryDies PROVE IInv' OBVIOUS
<1>1. TypeOK' /\ FoundStatic' /\ HealthyKnown' /\ ProbedOk'
  BY DEF IInv, TypeOK, FoundStatic, HealthyKnown, ProbedOk, DiscoveryDies, env, table, ghost
<1>2. Discoverable' = Discoverable
  BY DEF DiscoveryDies, env, Discoverable, Serving
<1>3. SteadyKept'
  BY <1>2 DEF IInv, SteadyKept, DiscoveryDies, ghost
<1> QED BY <1>1, <1>3 DEF IInv

LEMMA StartRoundIInv == IInv /\ StartRound => IInv'
<1> SUFFICES ASSUME IInv, StartRound PROVE IInv' OBVIOUS
<1> USE RouterAssumption, TargetsFacts
<1>1. Discoverable' = Discoverable /\ Discoverable \subseteq Workers
      /\ Discoverable \subseteq up
  BY DEF StartRound, env, Discoverable, Serving, IInv, TypeOK
<1>2. TypeOK'
  <2>1. Targets # <<>> => 1 <= Len(Targets)
    OBVIOUS
  <2>2. /\ pc' \in {"list", "probe"} /\ (pc' = "list" => Targets # <<>>)
        /\ at' = 1 /\ ids' = {} /\ found' = Static /\ ok' = {}
        /\ unprobed' \in {Static, {}}
        /\ seen_up' = up /\ steady' = Discoverable
        /\ UNCHANGED <<up, asg, running, api, parsed, backends, healthy, rr, req, turns>>
    BY DEF StartRound, env, table
  <2>3. at' \in 1 .. Len(Targets) + 1 /\ (pc' \in {"list", "describe"} => at' <= Len(Targets))
    BY <2>1, <2>2
  <2>4. Static \subseteq Workers
    OBVIOUS
  <2> QED BY ONLY IInv, <1>1, <2>2, <2>3, <2>4 DEF IInv, TypeOK
<1>3. FoundStatic' /\ HealthyKnown'
  BY DEF IInv, FoundStatic, HealthyKnown, StartRound, table
<1>4. ProbedOk'
  BY DEF IInv, ProbedOk, StartRound, env
<1>5. SteadyKept'
  <2>1. steady' = Discoverable /\ found' = Static /\ at' = 1
    BY DEF StartRound
  <2>2. CASE Targets = <<>>
    <3>1. Discoverable \subseteq Static
      BY <1>1, <2>2
    <3>2. pc' = "probe" /\ unprobed' = Static
      BY <2>2 DEF StartRound
    <3> QED BY <1>1, <2>1, <3>1, <3>2 DEF SteadyKept
  <2>3. CASE Targets # <<>>
    <3>1. pc' = "list"
      BY <2>3 DEF StartRound
    <3> QED BY <1>1, <2>1, <3>1 DEF SteadyKept
  <2> QED BY <2>2, <2>3
<1> QED BY <1>2, <1>3, <1>4, <1>5 DEF IInv

LEMMA ListGroupIInv == IInv /\ ListGroup => IInv'
<1> SUFFICES ASSUME IInv, ListGroup PROVE IInv' OBVIOUS
<1> DEFINE members == {b \in asg : RegionOf[b] = Targets[at]}
<1>1. /\ pc = "list"
      /\ UNCHANGED <<env, table, rr, req, ghost>>
      /\ IF members = {} THEN NextTarget(found)
         ELSE /\ ids' = members /\ pc' = "describe"
              /\ UNCHANGED <<at, found, unprobed, ok>>
  BY DEF ListGroup
<1>2. \A b \in steady \ Static : RegionOf[b] = Targets[at] => b \in members
  BY DEF IInv, SteadyKept, Discoverable, Serving
<1>3. found \subseteq Workers /\ members \subseteq Workers
  BY DEF IInv, TypeOK
<1> HIDE DEF members
<1>4. CASE members = {}
  BY <1>1, <1>2, <1>3, <1>4, NextTargetIInv
<1>5. CASE members # {}
  <2>1. ids' = members /\ pc' = "describe" /\ UNCHANGED <<at, found, unprobed, ok>>
    BY <1>1, <1>5
  <2>2. TypeOK'
    BY <1>1, <1>3, <2>1 DEF IInv, TypeOK, env, table, ghost
  <2>3. FoundStatic' /\ HealthyKnown'
    BY <1>1, <2>1 DEF IInv, FoundStatic, HealthyKnown, table
  <2>4. ProbedOk'
    BY <1>1, <2>1 DEF IInv, ProbedOk, env, ghost
  <2>5. Discoverable' = Discoverable
    BY <1>1 DEF env, Discoverable, Serving
  <2>6. SteadyKept'
    BY <1>1, <1>2, <2>1, <2>5 DEF IInv, SteadyKept, ghost
  <2> QED BY <2>2, <2>3, <2>4, <2>6 DEF IInv
<1> QED BY <1>4, <1>5

LEMMA DescribeIInv == IInv /\ DescribeInstances => IInv'
<1> SUFFICES ASSUME IInv, DescribeInstances PROVE IInv' OBVIOUS
<1>1. /\ pc = "describe" /\ NextTarget(found \cup (ids \cap running))
      /\ UNCHANGED <<env, table, rr, req, ghost>>
  BY DEF DescribeInstances
<1>2. \A b \in steady \ Static : RegionOf[b] = Targets[at] => b \in ids \cap running
  BY <1>1 DEF IInv, SteadyKept, Discoverable, Serving
<1>3. found \cup (ids \cap running) \subseteq Workers
  BY DEF IInv, TypeOK
<1> QED BY <1>1, <1>2, <1>3, NextTargetIInv

(* A target that fails has no steady worker: its API has failed.           *)
LEMMA TargetFailsIInv == IInv /\ TargetFails => IInv'
<1> SUFFICES ASSUME IInv, TargetFails PROVE IInv' OBVIOUS
<1>1. /\ pc \in {"list", "describe"} /\ NextTarget(found)
      /\ UNCHANGED <<env, table, rr, req, ghost>>
  BY DEF TargetFails
<1>2. \A b \in steady \ Static : RegionOf[b] # Targets[at]
  BY DEF TargetFails, IInv, SteadyKept, Discoverable
<1>3. found \subseteq Workers
  BY DEF IInv, TypeOK
<1> QED BY <1>1, <1>2, <1>3, NextTargetIInv

LEMMA ProbeIInv == ASSUME NEW b \in Workers PROVE IInv /\ Probe(b) => IInv'
<1> SUFFICES ASSUME IInv, Probe(b) PROVE IInv' OBVIOUS
<1>1. TypeOK' /\ FoundStatic' /\ HealthyKnown'
  BY DEF IInv, TypeOK, FoundStatic, HealthyKnown, Probe, env, table, ghost
<1>2. ProbedOk'
  BY DEF IInv, ProbedOk, Probe, env, ghost
<1>3. Discoverable' = Discoverable /\ Discoverable \subseteq up
  BY DEF Probe, env, Discoverable, Serving
<1>4. SteadyKept'
  BY <1>3 DEF IInv, SteadyKept, Probe, ghost
<1> QED BY <1>1, <1>2, <1>4 DEF IInv

LEMMA ReplaceIInv == IInv /\ Replace => IInv'
<1> SUFFICES ASSUME IInv, Replace PROVE IInv' OBVIOUS
<1>1. Discoverable' = Discoverable
  BY DEF Replace, env, Discoverable, Serving
<1>2. turns' \in [Workers -> Nat]
  BY DEF Replace, IInv, TypeOK
<1>3. TypeOK'
  BY <1>2 DEF IInv, TypeOK, Replace, env
<1>4. FoundStatic' /\ HealthyKnown' /\ ProbedOk'
  BY DEF IInv, FoundStatic, HealthyKnown, ProbedOk, Replace, env
<1>5. SteadyKept'
  BY <1>1 DEF IInv, SteadyKept, Replace
<1> QED BY <1>3, <1>4, <1>5 DEF IInv

-----------------------------------------------------------------------------
(* A handler thread changes its own request, the counter and the turns.    *)
LEMMA HandlerIInv ==
  ASSUME IInv, TypeOK', UNCHANGED <<env, table, round, seen_up, steady>>
  PROVE  IInv'
<1>1. Discoverable' = Discoverable
  BY DEF env, Discoverable, Serving
<1>2. FoundStatic' /\ HealthyKnown' /\ ProbedOk'
  BY DEF IInv, FoundStatic, HealthyKnown, ProbedOk, env, table, round
<1>3. SteadyKept'
  BY <1>1 DEF IInv, SteadyKept, round
<1> QED BY <1>2, <1>3 DEF IInv

LEMMA CountTurnType ==
  ASSUME turns \in [Workers -> Nat], NEW b \in Workers, CountTurn(b)
  PROVE  turns' \in [Workers -> Nat]
<1> DEFINE more == [turns EXCEPT ![b] = @ + 1]
<1>1. more \in [Workers -> Nat]
  OBVIOUS
<1>2. turns' = IF \A c \in Candidates : more[c] > 0
               THEN [c \in Workers |-> IF c \in Candidates THEN more[c] - 1 ELSE 0]
               ELSE more
  BY DEF CountTurn
<1> HIDE DEF more
<1>3. CASE \A c \in Candidates : more[c] > 0
  <2>1. \A c \in Workers : (IF c \in Candidates THEN more[c] - 1 ELSE 0) \in Nat
    BY <1>1, <1>3
  <2> QED BY <1>2, <1>3, <2>1
<1>4. CASE ~ \A c \in Candidates : more[c] > 0
  BY <1>1, <1>2, <1>4
<1> QED BY <1>3, <1>4

LEMMA AdmitIInv == ASSUME NEW t \in Threads PROVE IInv /\ Admit(t) => IInv'
<1> SUFFICES ASSUME IInv, Admit(t) PROVE IInv' OBVIOUS
<1> USE DEF IInv, TypeOK
<1>1. ASSUME NEW k \in Keys, AdmitKeyed(t, k) PROVE IInv'
  <2>1. req' \in [Threads -> [pc : {"idle", "send", "relay", "blocked"}, on : Workers \cup {Nobody}]]
    BY <1>1 DEF AdmitKeyed, Take, Candidates
  <2>2. TypeOK'
    BY <1>1, <2>1 DEF AdmitKeyed, NextTurn, env, table, round
  <2> QED BY <1>1, <2>2, HandlerIInv DEF AdmitKeyed
<1>2. CASE AdmitUnkeyed(t)
  <2>1. PICK b \in Candidates : Take(t, b) /\ CountTurn(b)
    BY <1>2 DEF AdmitUnkeyed
  <2>2. b \in Workers
    BY DEF Candidates
  <2>3. req' \in [Threads -> [pc : {"idle", "send", "relay", "blocked"}, on : Workers \cup {Nobody}]]
    BY <2>1, <2>2 DEF Take
  <2>4. rr' \in 0 .. Laps - 1
    <3>1. rr + 1 \in Nat
      BY RouterAssumption
    <3>2. rr' = (rr + 1) % Laps
      BY <1>2 DEF AdmitUnkeyed, NextTurn
    <3> QED BY <3>1, <3>2, Modulo
  <2>5. turns' \in [Workers -> Nat]
    BY <2>1, <2>2, CountTurnType
  <2>6. TypeOK'
    BY <1>2, <2>3, <2>4, <2>5 DEF AdmitUnkeyed, env, table, round
  <2> QED BY <1>2, <2>6, HandlerIInv DEF AdmitUnkeyed
<1>3. CASE Refuse(t)
  <2>1. TypeOK'
    BY <1>3 DEF Refuse, Done, Idle, env, table, round, ghost
  <2> QED BY <1>3, <2>1, HandlerIInv DEF Refuse, ghost
<1> QED BY <1>1, <1>2, <1>3 DEF Admit

LEMMA HandlersIInv == ASSUME NEW t \in Threads PROVE IInv /\ Handler(t) => IInv'
<1> SUFFICES ASSUME IInv, Handler(t) PROVE IInv' OBVIOUS
<1>1. UNCHANGED <<env, table, rr, round, ghost>>
  BY DEF Handler, Relay, RelayHead, RelayEnd, BackendLost,
     Client, ClientStalls, ClientReads, ClientGone
<1>2. \/ req' = [req EXCEPT ![t].pc = "relay"]
      \/ req' = [req EXCEPT ![t].pc = "blocked"]
      \/ req' = [req EXCEPT ![t] = Idle]
  BY DEF Handler, Relay, RelayHead, RelayEnd, BackendLost,
     Client, ClientStalls, ClientReads, ClientGone, Done
<1>3. req' \in [Threads -> [pc : {"idle", "send", "relay", "blocked"}, on : Workers \cup {Nobody}]]
  BY <1>2 DEF IInv, TypeOK, Idle
<1>4. TypeOK'
  BY <1>1, <1>3 DEF IInv, TypeOK, env, table, round, ghost
<1> QED BY <1>1, <1>4, HandlerIInv DEF ghost

LEMMA NextIInv == IInv /\ [Next]_vars => IInv'
<1> SUFFICES ASSUME IInv, [Next]_vars PROVE IInv' OBVIOUS
<1>1. CASE Environment
  BY <1>1, EnvironmentIInv
<1>2. CASE Discovery
  BY <1>2, StartRoundIInv, ListGroupIInv, DescribeIInv, TargetFailsIInv, ProbeIInv,
     ReplaceIInv, DiesIInv DEF Discovery
<1>3. CASE \E t \in Threads : Admit(t) \/ Handler(t)
  BY <1>3, AdmitIInv, HandlersIInv
<1>4. CASE UNCHANGED vars
  <2>1. TypeOK'
    BY <1>4 DEF IInv, TypeOK, vars, env, table, round, ghost
  <2> QED BY <1>4, <2>1, HandlerIInv DEF vars, ghost
<1> QED BY <1>1, <1>2, <1>3, <1>4 DEF Next

(* The strengthening holds in every reachable state.                        *)
THEOREM Invariance == Spec => []IInv
BY InitIInv, NextIInv, PTL DEF Spec

-----------------------------------------------------------------------------
(* The type invariant.                                                     *)
THEOREM RouterTypeCorrect == Spec => []TypeOK
<1>1. IInv => TypeOK BY DEF IInv
<1> QED BY <1>1, Invariance, PTL

(* /healthz and choose() agree on whether there is a backend.              *)
THEOREM HealthzAgrees == Spec => []HealthzMatchesChoose
<1>1. IInv => HealthzMatchesChoose
  BY DEF IInv, HealthyKnown, HealthzMatchesChoose, Candidates
<1> QED BY <1>1, Invariance, PTL

(* In every state the table, the round and the requests are well formed,   *)
(* and /healthz and choose() agree.                                        *)
THEOREM TableAlwaysSound == Spec => []TableSound
BY RouterTypeCorrect, HealthzAgrees, PTL DEF TableSound

(* Only Replace changes the table, to what this round found up.            *)
LEMMA TableChange ==
  ASSUME IInv, Next, backends' # backends \/ healthy' # healthy
  PROVE  Replace
BY DEF Next, Environment, WorkerUp, WorkerDown, Joins, Leaves, Starts, Stops,
       ApiFails, ApiWorks, Observe, Discovery, DiscoveryDies, StartRound, ListGroup, DescribeInstances, TargetFails, Probe,
       Admit, AdmitKeyed, AdmitUnkeyed, Refuse, Handler, Relay, RelayHead, RelayEnd,
       BackendLost, Client, ClientStalls, ClientReads, ClientGone, table

(* A backend that was down for a whole round is not in the table after it. *)
THEOREM DeadWorkersDropped == Spec => DeadWorkerDropped
<1>1. IInv /\ [Next]_vars =>
        [backends' # backends \/ healthy' # healthy => Candidates' \subseteq seen_up]_vars
  <2> SUFFICES ASSUME IInv, [Next]_vars, backends' # backends \/ healthy' # healthy
               PROVE  Candidates' \subseteq seen_up
    OBVIOUS
  <2>1. Replace
    BY TableChange DEF vars, table
  <2> QED BY <2>1 DEF Replace, IInv, ProbedOk, Candidates
<1> QED BY <1>1, Invariance, PTL DEF Spec, DeadWorkerDropped

(* A worker that could be found and was up for a whole round is a          *)
(* candidate after it.                                                     *)
THEOREM SteadyWorkersListed == Spec => SteadyWorkerListed
<1>1. IInv /\ [Next]_vars =>
        [pc = "probe" /\ pc' = "sleep" => steady \subseteq Candidates']_vars
  <2> SUFFICES ASSUME IInv, [Next]_vars, pc = "probe", pc' = "sleep"
               PROVE  steady \subseteq Candidates'
    OBVIOUS
  <2>1. Replace
    BY DEF Next, Environment, WorkerUp, WorkerDown, Joins, Leaves, Starts, Stops,
           ApiFails, ApiWorks, Observe, Discovery, DiscoveryDies, StartRound, ListGroup,
           DescribeInstances, TargetFails, Probe, Admit, AdmitKeyed, AdmitUnkeyed, Refuse,
           Handler, Relay, RelayHead, RelayEnd, BackendLost, Client, ClientStalls,
           ClientReads, ClientGone, round, vars
  <2> QED BY <2>1 DEF Replace, IInv, SteadyKept, Candidates
<1> QED BY <1>1, Invariance, PTL DEF Spec, SteadyWorkerListed

(* What a round publishes is what held all through it, for any workers,    *)
(* regions and failures.                                                   *)
THEOREM RoundsTellTruth == Spec => RoundTellsTruth
BY DeadWorkersDropped, SteadyWorkersListed, PTL DEF RoundTellsTruth

(* Rendezvous hashing: of two candidates in both sets, the same one is     *)
(* better for a key in both.                                               *)
LEMMA BestInBoth ==
  ASSUME NEW k \in Keys, NEW C \in SUBSET Workers, NEW D \in SUBSET Workers,
         NEW b \in D, NEW d \in C, IsBest(b, k, C), IsBest(d, k, D)
  PROVE  b = d
<1>1. Score[k][b] \in Nat /\ Score[k][d] \in Nat /\ b \in Nat /\ d \in Nat
  BY RouterAssumption DEF IsBest
<1>2. Score[k][d] <= Score[k][b] /\ Score[k][b] <= Score[k][d]
  BY DEF IsBest
<1>3. Score[k][d] = Score[k][b]
  BY <1>1, <1>2
<1>4. b <= d /\ d <= b
  BY <1>3 DEF IsBest
<1> QED BY <1>1, <1>4

(* A change of the table remaps a key only away from a backend it lost or  *)
(* to one it gained.                                                       *)
THEOREM RemapIsMinimal == Spec => MinimalRemap
<1>1. IInv /\ IInv' =>
        [\A k \in Keys : \A b, d \in Workers :
           IsBest(b, k, Candidates) /\ IsBest(d, k, Candidates') /\ b # d
             => b \notin Candidates' \/ d \notin Candidates]_vars
  <2> SUFFICES ASSUME IInv, IInv', NEW k \in Keys, NEW b \in Workers, NEW d \in Workers,
                      IsBest(b, k, Candidates), IsBest(d, k, Candidates'),
                      b \in Candidates', d \in Candidates
               PROVE  b = d
    OBVIOUS
  <2>1. Candidates \subseteq Workers /\ Candidates' \subseteq Workers
    BY DEF IInv, TypeOK, Candidates
  <2> QED BY <2>1, BestInBoth
<1> QED BY <1>1, Invariance, PTL DEF MinimalRemap

-----------------------------------------------------------------------------
(* Requests without a key are spread evenly over the candidates, for any     *)
(* number of workers, and however the table is replaced in between. The      *)
(* candidates in sorted order form a ring on which _rr is a pointer; those   *)
(* that have had one turn more than the others are the last few before it.   *)
Rank(b, C) == Cardinality({c \in C : c < b})

(* Place r is one of the k places before place p on a ring of n places.      *)
Before(r, p, k, n) == (r < p /\ p - r <= k) \/ (r >= p /\ p + n - r <= k)

TurnsBefore(k) ==
  /\ k = 0 \/ k < Cardinality(Candidates)
  /\ \A b \in Candidates :
       turns[b] = IF Before(Rank(b, Candidates), rr % Cardinality(Candidates), k,
                            Cardinality(Candidates)) THEN 1 ELSE 0
LastOnesServed == \E k \in Nat : TurnsBefore(k)

-----------------------------------------------------------------------------
(* The candidates are finitely many, and Laps is a multiple of their number. *)
LEMMA CandidatesFinite ==
  ASSUME IInv
  PROVE  /\ IsFiniteSet(Candidates) /\ Candidates \subseteq Workers
         /\ Candidates \subseteq Nat /\ Cardinality(Candidates) \in Nat
         /\ Candidates # {} => /\ Cardinality(Candidates) \in Nat \ {0}
                               /\ Laps % Cardinality(Candidates) = 0
<1>1. Candidates \subseteq Workers /\ Candidates \subseteq Nat
  BY RouterAssumption DEF IInv, TypeOK, Candidates
<1>2. /\ IsFiniteSet(Candidates)
      /\ Cardinality(Candidates) <= Cardinality(Workers)
  BY <1>1, RouterAssumption, FS_Subset
<1>3. Cardinality(Candidates) \in Nat
  BY <1>2, FS_CardinalityType
<1>4. Cardinality(Workers) \in Nat
  BY RouterAssumption, FS_CardinalityType
<1>5. Candidates # {} => Cardinality(Candidates) # 0
  BY <1>2, FS_EmptySet
<1>6. Candidates # {} => Laps % Cardinality(Candidates) = 0
  BY <1>2, <1>3, <1>4, <1>5, RouterAssumption
<1> QED  BY <1>1, <1>2, <1>3, <1>5, <1>6

(* A place on the ring for every candidate, and of its own.                  *)
LEMMA RankInRange ==
  ASSUME NEW C, C \subseteq Nat, IsFiniteSet(C), NEW b \in C
  PROVE  Rank(b, C) \in 0 .. Cardinality(C) - 1
<1> DEFINE S == {c \in C : c < b}
<1>1. S \subseteq C /\ b \notin S
  OBVIOUS
<1>2. S # C
  BY <1>1
<1>3. IsFiniteSet(S) /\ Cardinality(S) < Cardinality(C)
  BY <1>1, <1>2, FS_Subset, FS_CardinalityType
<1>4. Cardinality(S) \in Nat /\ Cardinality(C) \in Nat
  BY <1>3, FS_CardinalityType
<1> QED  BY <1>3, <1>4 DEF Rank

LEMMA RankIncreases ==
  ASSUME NEW C, C \subseteq Nat, IsFiniteSet(C), NEW b \in C, NEW d \in C, b < d
  PROVE  Rank(b, C) < Rank(d, C)
<1> DEFINE S == {c \in C : c < b}
           T == {c \in C : c < d}
<1>0. \A c \in C : c < b => c < d
  <2> SUFFICES ASSUME NEW c \in C, c < b PROVE c < d
    OBVIOUS
  <2>1. b \in Nat /\ c \in Nat /\ d \in Nat
    OBVIOUS
  <2> QED  BY <2>1
<1>1. S \subseteq T /\ b \in T /\ T \subseteq C
  BY <1>0
<1>2. b \notin S
  <2>1. b \in Nat
    OBVIOUS
  <2> QED  BY <2>1
<1>3. IsFiniteSet(T)
  BY <1>1, FS_Subset
<1>4. IsFiniteSet(S) /\ Cardinality(S) <= Cardinality(T) /\ Cardinality(S) # Cardinality(T)
  BY <1>1, <1>2, <1>3, FS_Subset
<1>5. Cardinality(S) \in Nat /\ Cardinality(T) \in Nat
  BY <1>3, <1>4, FS_CardinalityType
<1> QED  BY <1>4, <1>5 DEF Rank

LEMMA RankInjective ==
  ASSUME NEW C, C \subseteq Nat, IsFiniteSet(C), NEW b \in C, NEW d \in C, b # d
  PROVE  Rank(b, C) # Rank(d, C)
<1>1. b \in Nat /\ d \in Nat
  OBVIOUS
<1>2. b < d \/ d < b
  BY <1>1
<1>3. Cardinality(C) \in Nat
  BY FS_CardinalityType
<1>4. Rank(b, C) \in 0 .. Cardinality(C) - 1
  BY RankInRange
<1>5. Rank(d, C) \in 0 .. Cardinality(C) - 1
  BY RankInRange
<1>6. CASE b < d
  <2>1. Rank(b, C) < Rank(d, C)
    BY <1>6, RankIncreases
  <2> QED  BY <1>3, <1>4, <1>5, <2>1
<1>7. CASE d < b
  <2>1. Rank(d, C) < Rank(b, C)
    BY <1>7, RankIncreases
  <2> QED  BY <1>3, <1>4, <1>5, <2>1
<1> QED  BY <1>2, <1>6, <1>7

-----------------------------------------------------------------------------
(* The pointer moves to the next place.                                      *)
LEMMA PointerMoves ==
  ASSUME IInv, Candidates # {}
  PROVE  LET n == Cardinality(Candidates)
             p == rr % n
         IN  p \in 0 .. n - 1 /\ NextTurn(rr, FALSE) % n = IF p + 1 = n THEN 0 ELSE p + 1
<1> DEFINE n == Cardinality(Candidates)
<1>1. n \in Nat \ {0} /\ Laps % n = 0
  BY CandidatesFinite
<1>2. rr \in 0 .. Laps - 1 /\ rr \in Nat /\ Laps \in Nat \ {0}
  BY RouterAssumption DEF IInv, TypeOK
<1> HIDE DEF n
<1>3. rr % n \in 0 .. n - 1
  BY <1>1, <1>2, Division
<1>4. ((rr + 1) % Laps) % n = (rr + 1) % n
  BY <1>1, <1>2, RemainderOfMultiple
<1>5. (rr + 1) % n = IF (rr % n) + 1 = n THEN 0 ELSE (rr % n) + 1
  BY <1>1, <1>2, NextRemainder
<1> QED  BY <1>3, <1>4, <1>5 DEF NextTurn, n

Next1(p, n) == IF p + 1 = n THEN 0 ELSE p + 1

(* The ring of places: how those before the pointer change when it moves.    *)
LEMMA Places ==
  ASSUME NEW n \in Nat \ {0}, NEW p \in 0 .. n - 1, NEW k \in Nat, k < n,
         NEW r \in 0 .. n - 1
  PROVE  /\ ~Before(p, p, k, n) /\ ~Before(r, p, 0, n)
         /\ Next1(p, n) \in 0 .. n - 1
         /\ Before(p, Next1(p, n), k + 1, n)
         /\ r # p => (Before(r, p, k, n) <=> Before(r, Next1(p, n), k + 1, n))
         /\ r # p /\ k = n - 1 => Before(r, p, k, n)
BY DEF Before, Next1

(* A request without a key takes the candidate at the pointer: either there  *)
(* is one more that had its turn, or all of them have had it.                *)
LEMMA UnkeyedServes ==
  ASSUME IInv, LastOnesServed, NEW t \in Threads, AdmitUnkeyed(t)
  PROVE  LastOnesServed'
<1>1. PICK b \in Candidates : IsTurn(b, rr, Candidates) /\ CountTurn(b)
  BY DEF AdmitUnkeyed
<1>2. PICK k \in Nat : TurnsBefore(k)
  BY DEF LastOnesServed
<1> DEFINE C == Candidates
           n == Cardinality(C)
           p == rr % n
           more == [turns EXCEPT ![b] = @ + 1]
<1>3. /\ n \in Nat \ {0} /\ C \subseteq Nat /\ IsFiniteSet(C)
      /\ C \subseteq Workers /\ turns \in [Workers -> Nat]
  BY CandidatesFinite DEF IInv, TypeOK
<1>4. p \in 0 .. n - 1 /\ rr' % n = Next1(p, n)
  <2>1. rr' = NextTurn(rr, FALSE)
    BY DEF AdmitUnkeyed
  <2> QED  BY <2>1, PointerMoves DEF Next1
<1>5. C' = C
  BY DEF AdmitUnkeyed, table, Candidates
<1>6. Rank(b, C) = p
  BY <1>1 DEF IsTurn, Rank
<1>7. \A c \in C : Rank(c, C) \in 0 .. n - 1
  BY <1>3, RankInRange
<1>8. \A c \in C \ {b} : Rank(c, C) # p
  BY <1>3, <1>6, RankInjective
<1>9. /\ k < n
      /\ \A c \in C : turns[c] = IF Before(Rank(c, C), p, k, n) THEN 1 ELSE 0
  BY <1>2, <1>3 DEF TurnsBefore
<1>10. /\ C' = C
       /\ turns' = IF \A c \in C : more[c] > 0
                   THEN [c \in Workers |-> IF c \in C THEN more[c] - 1 ELSE 0] ELSE more
  BY <1>1, <1>5 DEF CountTurn
<1>11. \A c \in C : more[c] = IF c = b THEN turns[b] + 1 ELSE turns[c]
  BY <1>3
<1>12. b \in C
  BY <1>1
<1>13. \A m \in Nat :
         /\ m = 0 \/ m < n
         /\ \A c \in C : turns'[c] = IF Before(Rank(c, C), Next1(p, n), m, n) THEN 1 ELSE 0
         => TurnsBefore(m)'
  BY <1>4, <1>5 DEF TurnsBefore
<1> HIDE DEF C, n, p, more
<1>14. turns[b] = 0
  BY <1>3, <1>4, <1>6, <1>9, <1>12, Places
<1>15. CASE \A c \in C : more[c] > 0
  <2>1. \A c \in C : turns'[c] = 0
    <3> SUFFICES ASSUME NEW c \in C PROVE turns'[c] = 0
      OBVIOUS
    <3>1. turns'[c] = more[c] - 1
      BY <1>3, <1>10, <1>15 DEF C
    <3>2. turns[c] \in {0, 1}
      BY <1>9
    <3>3. more[c] = 1
      BY <1>11, <1>14, <1>15, <3>2
    <3> QED  BY <3>1, <3>3
  <2>2. \A c \in C : ~Before(Rank(c, C), Next1(p, n), 0, n)
    <3> SUFFICES ASSUME NEW c \in C PROVE ~Before(Rank(c, C), Next1(p, n), 0, n)
      OBVIOUS
    <3>1. Next1(p, n) \in 0 .. n - 1 /\ Rank(c, C) \in 0 .. n - 1
      BY <1>3, <1>4, <1>7, <1>9, Places
    <3> QED  BY <1>3, <1>9, <3>1, Places
  <2>3. TurnsBefore(0)'
    BY <1>13, <2>1, <2>2
  <2> QED  BY <2>3 DEF LastOnesServed
<1>16. CASE ~ \A c \in C : more[c] > 0
  <2>1. k # n - 1
    <3> SUFFICES ASSUME k = n - 1 PROVE \A c \in C : more[c] > 0
      BY <1>16
    <3> SUFFICES ASSUME NEW c \in C PROVE more[c] > 0
      OBVIOUS
    <3>1. CASE c = b
      BY <1>11, <1>12, <1>14, <3>1
    <3>2. CASE c # b
      <4>1. Rank(c, C) \in 0 .. n - 1 /\ Rank(c, C) # p
        BY <1>7, <1>8, <3>2
      <4>2. Before(Rank(c, C), p, k, n)
        BY <1>3, <1>4, <1>9, <4>1, Places
      <4>3. turns[c] = 1
        BY <1>9, <4>2
      <4> QED  BY <1>11, <3>2, <4>3
    <3> QED  BY <3>1, <3>2
  <2>2. k + 1 \in Nat /\ k + 1 < n
    BY <1>3, <1>9, <2>1
  <2>3. ASSUME NEW c \in C
        PROVE  turns'[c] = IF Before(Rank(c, C), Next1(p, n), k + 1, n) THEN 1 ELSE 0
    <3>1. turns'[c] = IF c = b THEN turns[b] + 1 ELSE turns[c]
      BY <1>10, <1>11, <1>16
    <3>2. CASE c = b
      <4>1. Before(p, Next1(p, n), k + 1, n)
        BY <1>3, <1>4, <1>9, Places
      <4> QED  BY <1>6, <1>14, <3>1, <3>2, <4>1
    <3>3. CASE c # b
      <4>1. Rank(c, C) \in 0 .. n - 1 /\ Rank(c, C) # p
        BY <1>7, <1>8, <3>3
      <4>2. Before(Rank(c, C), p, k, n) <=> Before(Rank(c, C), Next1(p, n), k + 1, n)
        BY <1>3, <1>4, <1>9, <4>1, Places
      <4> QED  BY <1>9, <3>1, <3>3, <4>2
    <3> QED  BY <3>2, <3>3
  <2>4. TurnsBefore(k + 1)'
    BY <1>13, <2>2, <2>3
  <2> QED  BY <2>2, <2>4 DEF LastOnesServed
<1> QED  BY <1>15, <1>16

-----------------------------------------------------------------------------
(* With no turn more than the others, no place is before the pointer.        *)
LEMMA NobodyServed ==
  ASSUME NEW C, C \subseteq Workers, NEW m \in Nat, NEW b \in C
  PROVE  ~Before(Rank(b, C), m % Cardinality(C), 0, Cardinality(C))
<1> DEFINE n == Cardinality(C)
<1>1. C \subseteq Nat /\ IsFiniteSet(C)
  BY RouterAssumption, FS_Subset
<1>2. n \in Nat \ {0}
  BY <1>1, FS_CardinalityType, FS_EmptySet
<1>3. Rank(b, C) \in 0 .. n - 1
  BY <1>1, RankInRange
<1> HIDE DEF n
<1>4. m % n \in 0 .. n - 1
  BY <1>2, Division
<1>5. ~Before(Rank(b, C), m % n, 0, n)
  BY <1>2, <1>3, <1>4, Places
<1> QED  BY <1>5 DEF n

LEMMA InitServed == Init => LastOnesServed
<1> SUFFICES ASSUME Init PROVE LastOnesServed
  OBVIOUS
<1>1. Candidates = {}
  BY DEF Init, Candidates
<1>2. TurnsBefore(0)
  BY <1>1 DEF TurnsBefore
<1> QED  BY <1>2 DEF LastOnesServed

(* The table is replaced: by one with the same candidates, and nothing is    *)
(* lost, or by one with others, and counting begins anew.                    *)
LEMMA ReplaceServes ==
  ASSUME IInv, IInv', LastOnesServed, Replace
  PROVE  LastOnesServed'
<1>1. rr' = rr /\ rr \in Nat
  BY RouterAssumption DEF IInv, TypeOK, Replace
<1>2. CASE Candidates' = Candidates
  <2>1. turns' = turns
    BY <1>2 DEF Replace
  <2> QED  BY <1>1, <1>2, <2>1 DEF LastOnesServed, TurnsBefore
<1>3. CASE Candidates' # Candidates
  <2>1. turns' = [b \in Workers |-> 0]
    BY <1>3 DEF Replace
  <2>2. Candidates' \subseteq Workers
    BY DEF IInv, TypeOK, Candidates
  <2>3. \A b \in Candidates' :
          ~Before(Rank(b, Candidates'), rr' % Cardinality(Candidates'), 0,
                  Cardinality(Candidates'))
    BY <1>1, <2>2, NobodyServed
  <2>4. TurnsBefore(0)'
    BY <2>1, <2>2, <2>3 DEF TurnsBefore
  <2> QED  BY <2>4 DEF LastOnesServed
<1> QED  BY <1>2, <1>3

(* No other step moves the pointer, the table or the turns.                  *)
LEMMA OthersServe ==
  ASSUME [Next]_vars, ~Replace, \A t \in Threads : ~AdmitUnkeyed(t)
  PROVE  UNCHANGED <<table, rr, turns>>
<1>1. CASE Environment
  BY <1>1 DEF Environment, WorkerUp, WorkerDown, Joins, Leaves, Starts, Stops,
             ApiFails, ApiWorks, Observe
<1>2. CASE Discovery
  BY <1>2 DEF Discovery, DiscoveryDies, StartRound, ListGroup, DescribeInstances, TargetFails, Probe, ghost
<1>3. ASSUME NEW t \in Threads, Admit(t) \/ Handler(t)
      PROVE  UNCHANGED <<table, rr, turns>>
  <2>1. ASSUME NEW k \in Keys, AdmitKeyed(t, k)
        PROVE  UNCHANGED <<table, rr, turns>>
    BY <2>1 DEF AdmitKeyed, NextTurn
  <2>2. CASE Refuse(t) \/ Handler(t)
    BY <2>2 DEF Refuse, Handler, Relay, RelayHead, RelayEnd, BackendLost,
     Client, ClientStalls, ClientReads, ClientGone, ghost
  <2> QED  BY <1>3, <2>1, <2>2 DEF Admit
<1>4. CASE UNCHANGED vars
  BY <1>4 DEF vars, ghost
<1> QED  BY <1>1, <1>2, <1>3, <1>4 DEF Next

LEMMA NextServes == IInv /\ IInv' /\ LastOnesServed /\ [Next]_vars => LastOnesServed'
<1> SUFFICES ASSUME IInv, IInv', LastOnesServed, [Next]_vars PROVE LastOnesServed'
  OBVIOUS
<1>1. CASE Replace
  BY <1>1, ReplaceServes
<1>2. ASSUME NEW t \in Threads, AdmitUnkeyed(t) PROVE LastOnesServed'
  BY <1>2, UnkeyedServes
<1>3. CASE ~Replace /\ \A t \in Threads : ~AdmitUnkeyed(t)
  <2>1. UNCHANGED <<table, rr, turns>>
    BY <1>3, OthersServe
  <2>2. Candidates' = Candidates
    BY <2>1 DEF table, Candidates
  <2> QED  BY <2>1, <2>2 DEF LastOnesServed, TurnsBefore
<1> QED  BY <1>1, <1>2, <1>3

(* No candidate is more than one turn ahead of another, in every state and   *)
(* for any number of workers: choose() advances _rr once per request without *)
(* a key, and not at all for one with a key.                                 *)
THEOREM TurnsAlwaysBalanced == Spec => []RoundRobinBalanced
<1>1. IInv /\ LastOnesServed => RoundRobinBalanced
  BY DEF LastOnesServed, TurnsBefore, RoundRobinBalanced
<1>2. Spec => [](IInv /\ LastOnesServed)
  BY Invariance, InitServed, NextServes, PTL DEF Spec
<1> QED  BY <1>1, <1>2, PTL
=============================================================================
