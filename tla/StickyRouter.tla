----------------------------- MODULE StickyRouter -----------------------------
(***************************************************************************)
(* The sticky router (sticky_openai_router.py): the discovery thread, the  *)
(* backend table it replaces, and the handler threads that choose a        *)
(* backend from the table and relay a request to it.                       *)
(*                                                                         *)
(* A round of discovery_loop asks AWS for each target's workers (two       *)
(* calls, either may fail), probes what it found one backend after the     *)
(* other, and replaces the table.  Workers go up and down, join and leave  *)
(* their group, and regional APIs fail and recover, between any two steps. *)
(*                                                                         *)
(* A backend is a number, and the order of the numbers is that of          *)
(* sorted(); a key is whatever sticky_key returned.                        *)
(***************************************************************************)
EXTENDS Naturals, Sequences, FiniteSets

CONSTANTS
  Workers,   \* backends, 1 .. n in sorted() order
  Static,    \* those listed in ROUTER_BACKENDS
  Targets,   \* the regions of asg_targets(), in their order
  RegionOf,  \* the region whose group a worker belongs to
  Keys,      \* sticky keys
  Score,     \* Score[k][b]: sha256(k \0 b), read as a number
  Threads,   \* handler threads
  Nobody,    \* choose() returned None; no backend
  Laps       \* modulus of the round-robin counter

Regions == {Targets[i] : i \in DOMAIN Targets}

(* _rr is unbounded, but is only ever used modulo the number of candidates,*)
(* so counting modulo a common multiple of 1 .. n is exact.                *)
ASSUME RouterAssumption ==
  /\ IsFiniteSet(Workers) /\ Workers \subseteq Nat
  /\ Static \subseteq Workers
  /\ Targets \in Seq(Regions)
  /\ RegionOf \in [Workers \ Static -> Regions]
  /\ Score \in [Keys -> [Workers -> Nat]]
  /\ Nobody \notin Workers
  /\ Laps \in Nat \ {0}
  /\ \A n \in 1 .. Cardinality(Workers) : Laps % n = 0

VARIABLES
  up,        \* workers whose /v1/models answers 2xx
  asg,       \* workers that are InService in their group
  running,   \* workers whose instance is running
  api,       \* regions whose AWS calls succeed
  parsed,    \* ROUTER_BACKENDS and AWS_ASG_TARGETS can be parsed
  backends,  \* STATE._backends
  healthy,   \* STATE._healthy
  rr,        \* STATE._rr
  pc,        \* where the discovery thread is
  at,        \* index of the target it is asking about
  ids,       \* instance_ids of that target
  found,     \* local backends
  unprobed,  \* what the list comprehension has still to probe
  ok,        \* local healthy, so far
  req,       \* per handler thread, the request it is serving
  seen_up,   \* ghost: workers up at some time since the round began
  steady,    \* ghost: workers discoverable and up ever since it began
  turns      \* ghost: round-robin picks per worker, above the minimum

env   == <<up, asg, running, api, parsed>>
table == <<backends, healthy>>
round == <<pc, at, ids, found, unprobed, ok>>
ghost == <<seen_up, steady, turns>>
vars  == <<env, table, rr, round, req, ghost>>

-----------------------------------------------------------------------------
(* BackendState.choose                                                     *)
Candidates == backends \cap healthy

(* max() over the candidates in sorted order returns the first maximum.    *)
IsBest(b, k, C) ==
  /\ b \in C
  /\ \A c \in C : Score[k][c] <= Score[k][b]
  /\ \A c \in C : Score[k][c] = Score[k][b] => b <= c

(* candidates[rr % len(candidates)]                                        *)
IsTurn(b, n, C) ==
  b \in C /\ Cardinality({c \in C : c < b}) = n % Cardinality(C)

Mut_NextTurn(n, keyed) == (n + 1) % Laps  \* mutant: keyed picks advance it

NextTurn(n, keyed) == IF keyed THEN n ELSE (n + 1) % Laps

-----------------------------------------------------------------------------
(* The environment.                                                        *)
Serving == up \cap (Static \cup (asg \cap running))
Discoverable == {b \in Serving : b \in Static \/ RegionOf[b] \in api}

Observe ==
  /\ seen_up' = seen_up \cup up'
  /\ steady' = steady \cap Discoverable'
  /\ UNCHANGED <<parsed, table, rr, round, req, turns>>

(* A worker of a group answers only while its instance is running; whether *)
(* the group has it InService is another matter.                           *)
WorkerUp(b) ==
  /\ b \notin up /\ b \in Static \cup running
  /\ up' = up \cup {b} /\ UNCHANGED <<asg, running, api>> /\ Observe
WorkerDown(b) ==
  b \in up /\ up' = up \ {b} /\ UNCHANGED <<asg, running, api>> /\ Observe
Joins(b) ==
  b \notin asg /\ asg' = asg \cup {b} /\ UNCHANGED <<up, running, api>> /\ Observe
Leaves(b) ==
  b \in asg /\ asg' = asg \ {b} /\ UNCHANGED <<up, running, api>> /\ Observe
Starts(b) ==
  /\ b \notin running /\ running' = running \cup {b}
  /\ UNCHANGED <<up, asg, api>> /\ Observe
Stops(b) ==
  /\ b \in running /\ running' = running \ {b} /\ up' = up \ {b}
  /\ UNCHANGED <<asg, api>> /\ Observe
ApiFails(r) ==
  r \in api /\ api' = api \ {r} /\ UNCHANGED <<up, asg, running>> /\ Observe
ApiWorks(r) ==
  r \notin api /\ api' = api \cup {r} /\ UNCHANGED <<up, asg, running>> /\ Observe

Environment ==
  \/ \E b \in Workers : WorkerUp(b) \/ WorkerDown(b)
  \/ \E b \in Workers \ Static : Joins(b) \/ Leaves(b) \/ Starts(b) \/ Stops(b)
  \/ \E r \in Regions : ApiFails(r) \/ ApiWorks(r)

-----------------------------------------------------------------------------
(* The discovery thread.                                                   *)
NextTarget(backendsFound) ==
  /\ found' = backendsFound
  /\ ids' = {}
  /\ IF at = Len(Targets)
     THEN pc' = "probe" /\ unprobed' = backendsFound
     ELSE pc' = "list" /\ UNCHANGED unprobed
  /\ at' = at + 1
  /\ UNCHANGED ok

(* static_backends and asg_targets parse the environment outside any try:  *)
(* an entry that is not region:group ends the thread, in its first round.  *)
DiscoveryDies ==
  /\ pc = "sleep" /\ ~parsed
  /\ pc' = "dead"
  /\ UNCHANGED <<at, ids, found, unprobed, ok>>
  /\ UNCHANGED <<env, table, rr, req, ghost>>

StartRound ==
  /\ pc = "sleep" /\ parsed
  /\ found' = Static /\ at' = 1 /\ ids' = {} /\ ok' = {}
  /\ IF Targets = <<>> THEN pc' = "probe" /\ unprobed' = Static
                       ELSE pc' = "list" /\ unprobed' = {}
  /\ seen_up' = up
  /\ steady' = Discoverable
  /\ UNCHANGED <<env, table, rr, req, turns>>

(* describe-auto-scaling-groups; without an instance there is no more to   *)
(* ask.                                                                    *)
ListGroup ==
  LET r == Targets[at]
      members == {b \in asg : RegionOf[b] = r}
  IN /\ pc = "list" /\ r \in api
     /\ IF members = {} THEN NextTarget(found)
        ELSE /\ ids' = members /\ pc' = "describe"
             /\ UNCHANGED <<at, found, unprobed, ok>>
     /\ UNCHANGED <<env, table, rr, req, ghost>>

(* describe-instances keeps those that are running, whether or not they    *)
(* are InService by now.                                                   *)
DescribeInstances ==
  /\ pc = "describe" /\ Targets[at] \in api
  /\ NextTarget(found \cup (ids \cap running))
  /\ UNCHANGED <<env, table, rr, req, ghost>>

Mut_TargetFails ==  \* mutant: one try around the loop over the targets
  /\ pc \in {"list", "describe"} /\ Targets[at] \notin api
  /\ pc' = "probe" /\ unprobed' = found /\ at' = Len(Targets) + 1 /\ ids' = {}
  /\ UNCHANGED <<found, ok>>
  /\ UNCHANGED <<env, table, rr, req, ghost>>

(* Either call fails: the target contributes no backend to this round.     *)
TargetFails ==
  /\ pc \in {"list", "describe"} /\ Targets[at] \notin api
  /\ NextTarget(found)
  /\ UNCHANGED <<env, table, rr, req, ghost>>

Mut_Probe(b) ==  \* mutant: a backend that was healthy is not probed again
  /\ pc = "probe" /\ b \in unprobed /\ \A c \in unprobed : b <= c
  /\ unprobed' = unprobed \ {b}
  /\ ok' = IF b \in up \cup healthy THEN ok \cup {b} ELSE ok
  /\ UNCHANGED <<pc, at, ids, found>>
  /\ UNCHANGED <<env, table, rr, req, ghost>>

(* is_healthy of the next backend of sorted(set(backends)).                *)
Probe(b) ==
  /\ pc = "probe" /\ b \in unprobed /\ \A c \in unprobed : b <= c
  /\ unprobed' = unprobed \ {b}
  /\ ok' = IF b \in up THEN ok \cup {b} ELSE ok
  /\ UNCHANGED <<pc, at, ids, found>>
  /\ UNCHANGED <<env, table, rr, req, ghost>>

Mut_Replace ==  \* mutant: the healthy set is merged instead of replaced
  /\ pc = "probe" /\ unprobed = {}
  /\ backends' = found /\ healthy' = healthy \cup ok
  /\ pc' = "sleep"
  /\ turns' = IF Candidates' = Candidates THEN turns ELSE [b \in Workers |-> 0]
  /\ UNCHANGED <<at, ids, found, unprobed, ok>>
  /\ UNCHANGED <<env, rr, req, seen_up, steady>>

Replace ==
  /\ pc = "probe" /\ unprobed = {}
  /\ backends' = found /\ healthy' = ok
  /\ pc' = "sleep"
  /\ turns' = IF Candidates' = Candidates THEN turns ELSE [b \in Workers |-> 0]
  /\ UNCHANGED <<at, ids, found, unprobed, ok>>
  /\ UNCHANGED <<env, rr, req, seen_up, steady>>

Discovery ==
  \/ DiscoveryDies \/ StartRound \/ ListGroup \/ DescribeInstances \/ TargetFails
  \/ \E b \in Workers : Probe(b)
  \/ Replace

-----------------------------------------------------------------------------
(* The handler threads (proxy).  A request is idle, being sent, being      *)
(* relayed, or blocked in a write to a client that does not read; on is    *)
(* the backend it was given.                                               *)
Idle == [pc |-> "idle", on |-> Nobody]

Take(t, b) == req' = [req EXCEPT ![t] = [pc |-> "send", on |-> b]]
Done(t)    == req' = [req EXCEPT ![t] = Idle]

(* Ghost: picks counted above those of the least picked candidate.         *)
CountTurn(b) ==
  LET more == [turns EXCEPT ![b] = @ + 1]
  IN turns' = IF \A c \in Candidates : more[c] > 0
              THEN [c \in Workers |-> IF c \in Candidates THEN more[c] - 1 ELSE 0]
              ELSE more

(* A keyed request: choose() gives it the best candidate for its key.      *)
AdmitKeyed(t, k) ==
  /\ req[t] = Idle
  /\ \E b \in Candidates : IsBest(b, k, Candidates) /\ Take(t, b)
  /\ rr' = NextTurn(rr, TRUE)
  /\ UNCHANGED <<env, table, round, seen_up, steady, turns>>

(* A request without a key: round robin.                                   *)
AdmitUnkeyed(t) ==
  /\ req[t] = Idle
  /\ \E b \in Candidates : IsTurn(b, rr, Candidates) /\ Take(t, b) /\ CountTurn(b)
  /\ rr' = NextTurn(rr, FALSE)
  /\ UNCHANGED <<env, table, round, seen_up, steady>>

(* No candidate: 503, and the thread is free again.                        *)
Refuse(t) ==
  /\ req[t] = Idle /\ Candidates = {}
  /\ Done(t)
  /\ UNCHANGED <<env, table, rr, round, ghost>>

(* The backend answers: its status and headers are relayed.                *)
RelayHead(t) ==
  /\ req[t].pc = "send" /\ req[t].on \in up
  /\ req' = [req EXCEPT ![t].pc = "relay"]
  /\ UNCHANGED <<env, table, rr, round, ghost>>

(* End of the backend's body.                                              *)
RelayEnd(t) ==
  /\ req[t].pc = "relay" /\ req[t].on \in up
  /\ Done(t)
  /\ UNCHANGED <<env, table, rr, round, ghost>>

Mut_BackendLost(t) ==  \* mutant: only sending is under the socket timeout
  /\ req[t].pc = "send"
  /\ Done(t)
  /\ UNCHANGED <<env, table, rr, round, ghost>>

(* The backend refuses, resets or, although it may be up, is silent for    *)
(* REQUEST_TIMEOUT: 502.                                                   *)
BackendLost(t) ==
  /\ req[t].pc \in {"send", "relay"}
  /\ Done(t)
  /\ UNCHANGED <<env, table, rr, round, ghost>>

(* The client does not read, and the buffers between are full: the write   *)
(* to it blocks, without a timeout, until the client reads or is gone.     *)
ClientStalls(t) ==
  /\ req[t].pc = "relay"
  /\ req' = [req EXCEPT ![t].pc = "blocked"]
  /\ UNCHANGED <<env, table, rr, round, ghost>>

ClientReads(t) ==
  /\ req[t].pc = "blocked"
  /\ req' = [req EXCEPT ![t].pc = "relay"]
  /\ UNCHANGED <<env, table, rr, round, ghost>>

(* The client is gone: a write to it fails.                                *)
ClientGone(t) ==
  /\ req[t].pc \in {"relay", "blocked"}
  /\ Done(t)
  /\ UNCHANGED <<env, table, rr, round, ghost>>

Relay(t) == RelayHead(t) \/ RelayEnd(t) \/ BackendLost(t)
Client(t) == ClientStalls(t) \/ ClientReads(t) \/ ClientGone(t)
Handler(t) == Relay(t) \/ Client(t)
Admit(t) == (\E k \in Keys : AdmitKeyed(t, k)) \/ AdmitUnkeyed(t) \/ Refuse(t)

-----------------------------------------------------------------------------
Init ==
  /\ asg \in SUBSET (Workers \ Static)
  /\ running \in SUBSET (Workers \ Static)
  /\ up \in SUBSET (Static \cup running)
  /\ api = Regions /\ parsed \in BOOLEAN
  /\ backends = {} /\ healthy = {} /\ rr = 0
  /\ pc = "sleep" /\ at = 1 /\ ids = {} /\ found = {} /\ unprobed = {} /\ ok = {}
  /\ req = [t \in Threads |-> Idle]
  /\ seen_up = up /\ steady = {}
  /\ turns = [b \in Workers |-> 0]

Next ==
  \/ Environment
  \/ Discovery
  \/ \E t \in Threads : Admit(t) \/ Handler(t)

Spec == Init /\ [][Next]_vars

(* The discovery thread keeps running (every probe has a timeout, and the  *)
(* AWS command line bounds its own calls).  So does a handler thread that  *)
(* waits for its backend: one that is up ends its body, for a request has  *)
(* a bound on its output, and the socket to it has a timeout.  Nothing is  *)
(* assumed of workers, groups and APIs, nor of clients: a thread whose     *)
(* client does not read may stay blocked for ever.                         *)
Fairness ==
  /\ WF_vars(Discovery)
  /\ \A t \in Threads : WF_vars(Relay(t))

FairSpec == Spec /\ Fairness

-----------------------------------------------------------------------------
(* The type invariant.                                                     *)
TypeOK ==
  /\ up \subseteq Workers /\ asg \subseteq Workers \ Static
  /\ running \subseteq Workers \ Static /\ api \subseteq Regions /\ parsed \in BOOLEAN
  /\ backends \subseteq Workers /\ healthy \subseteq Workers
  /\ rr \in 0 .. Laps - 1
  /\ pc \in {"sleep", "list", "describe", "probe", "dead"}
  /\ at \in 1 .. Len(Targets) + 1
  /\ pc \in {"list", "describe"} => at <= Len(Targets)
  /\ ids \subseteq Workers /\ found \subseteq Workers
  /\ unprobed \subseteq Workers /\ ok \subseteq Workers
  /\ req \in [Threads -> [pc : {"idle", "send", "relay", "blocked"},
                       on : Workers \cup {Nobody}]]
  /\ seen_up \subseteq Workers /\ steady \subseteq Workers
  /\ turns \in [Workers -> Nat]

(* /healthz looks at _healthy alone and choose() at _backends and _healthy:*)
(* they agree, so a load balancer that sees 200 gets no 503 from a router  *)
(* that knows no candidate, and conversely.                                *)
HealthzMatchesChoose == healthy # {} <=> Candidates # {}

(* "A missing backend causes only its assigned sessions to remap"          *)
(* (OPERATIONS.md): whatever a replacement of the table adds and removes,  *)
(* a key moves from b to d only if b is no longer a candidate or d was not *)
(* one before.                                                             *)
MinimalRemap ==
  [][\A k \in Keys : \A b, d \in Workers :
       IsBest(b, k, Candidates) /\ IsBest(d, k, Candidates') /\ b # d
         => b \notin Candidates' \/ d \notin Candidates]_vars

(* A backend that was down all through a round is out of the table at its  *)
(* end: no answer of an earlier round is carried over (is_healthy,         *)
(* discovery_loop).                                                        *)
DeadWorkerDropped ==
  [][backends' # backends \/ healthy' # healthy => Candidates' \subseteq seen_up]_vars

(* A worker that is up, in service and in a region whose API answers, all  *)
(* through a round, is a candidate at its end: the failure of another      *)
(* region, or of other workers, does not drop it.                          *)
SteadyWorkerListed ==
  [][pc = "probe" /\ pc' = "sleep" => steady \subseteq Candidates']_vars

(* Requests without a key are spread evenly over the candidates for as     *)
(* long as these stay the same, whatever keyed requests come in between.   *)
RoundRobinBalanced == \A b \in Candidates : turns[b] <= 1

(* A worker that comes up and stays up, in service and discoverable, gets  *)
(* traffic eventually, and keeps it (discovery_loop), if the configuration *)
(* can be parsed at all.                                                   *)
EventuallyListed ==
  parsed => \A b \in Workers : <>[](b \in Discoverable) => <>[](b \in Candidates)

(* A handler thread is never held by its backend (proxy): an admitted      *)
(* request ends, or finds that its client does not read, although the      *)
(* backend may vanish without closing the connection, at any point of the  *)
(* answer, or be dropped from the table meanwhile.                         *)
BackendNeverHoldsHandler ==
  \A t \in Threads : req[t].pc # "idle" ~> req[t].pc \in {"idle", "blocked"}

(* A list and a healthy set from one round, in every state.                *)
TableSound == TypeOK /\ HealthzMatchesChoose

(* A published round tells the truth about what held all through it.       *)
RoundTellsTruth == DeadWorkerDropped /\ SteadyWorkerListed
=============================================================================
