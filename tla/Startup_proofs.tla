---------------------------- MODULE Startup_proofs ----------------------------
(* Start-up. The first part is about the model registry: what a process      *)
(* believes of a model class is what is installed, for any number of         *)
(* processes, architectures, plugins and versions. An answer comes from the  *)
(* process's subprocess or from a file; a file is written by some process,   *)
(* at any time after it hashed the module, and read by any other. The        *)
(* strengthening therefore follows the inspection under way: the hash a      *)
(* process took is still that of the module, because nothing is installed    *)
(* while it lives, and what a file says is what its hash stands for.         *)
(*                                                                           *)
(* The second part is about the set-up of the KV cache, for every model,     *)
(* backend and bound: the run to measure the memory of the CUDA graphs       *)
(* leaves nothing behind, every layer is driven by the builder of its        *)
(* group, the block tables fit the cache, and no block reaches into another. *)
(*                                                                           *)
(* The third part is about what the target hands to the drafter and about    *)
(* the weights it loads, for any number of layers, rows, heads, experts and  *)
(* ranks; the last about a speculative configuration that was validated: its *)
(* acceptance rates, and the drafter it has.                                 *)
EXTENDS Startup, KVCacheSetup, DataLemmas, FiniteSetTheorems, TLAPS

IsOne(a) == Registered[a].file = Registered[a].defined_in

Domains ==
  DOMAIN inspected = Processes /\ DOMAIN query = Processes /\ DOMAIN phase = Processes

(* A process that is down remembers nothing and asks nothing.                *)
DownIsBlank ==
  \A p \in Processes :
    phase[p] = "down" => DOMAIN inspected[p] = {} /\ query[p].step = "idle"

(* The hash of an inspection under way, and the answer to be saved.          *)
UnderWayAt(p) ==
  /\ query[p].step \in {"missed", "save"} => query[p].hash = Hash(Trying(p).try)
  /\ query[p].step = "save" =>
       inspected[p][Trying(p).try] = installed[Registered[Trying(p).try].defined_in]
UnderWay == \A p \in Processes : UnderWayAt(p)

(* A file says of a class what the module with that hash says.               *)
FilesAreConsistent ==
  \A a \in DOMAIN disk : IsOne(a) => disk[a].info = disk[a].hash

IInv ==
  /\ Domains /\ DownIsBlank /\ UnderWay /\ FilesAreConsistent /\ InspectionIsCurrent

LEMMA InitIInv == Init => IInv
  BY DEF Init, RegistryInit, IInv, Domains, DownIsBlank, UnderWay, UnderWayAt,
         FilesAreConsistent, InspectionIsCurrent, Nothing, Idle, Query

(* Every step of an inspection.                                              *)
LEMMA InspectIInv ==
  ASSUME IInv, NEW p \in Processes, Inspect(p)
  PROVE  IInv'
<1> DEFINE a == Trying(p).try
<1> USE DEF IInv, Domains
<1>1. UNCHANGED <<installed, phase>> /\ Domains'
  BY DEF Inspect, Inspecting, NextCandidate, Lookup, Subprocess, Save, Answer, Remember, StepTo, Query
<1>2. phase[p] # "down"
  BY DEF Inspect, Inspecting, NextCandidate, Lookup, Subprocess, Save, DownIsBlank
<1>3. \A q \in Processes \ {p} : query'[q] = query[q] /\ inspected'[q] = inspected[q]
  BY DEF Inspect, Inspecting, NextCandidate, Lookup, Subprocess, Save, Answer, Remember, StepTo, Query
<1>4. DownIsBlank'
  BY <1>1, <1>2, <1>3, SMTT(30) DEF DownIsBlank
<1>5. UnderWayAt(p)' => UnderWay'
  BY <1>1, <1>3 DEF UnderWay, UnderWayAt, Hash, Trying
<1>6. SUFFICES UnderWayAt(p)' /\ FilesAreConsistent' /\ InspectionIsCurrent'
  BY <1>1, <1>4, <1>5
<1>7. CASE NextCandidate(p)
  <2>1. UNCHANGED <<disk, inspected>> /\ query'[p].step \notin {"missed", "save"}
    BY <1>7 DEF NextCandidate, StepTo, Query
  <2> QED
    BY <1>1, <2>1 DEF UnderWayAt, FilesAreConsistent, InspectionIsCurrent
<1>8. CASE Lookup(p)
  <2>1. UNCHANGED disk
    BY <1>8 DEF Lookup
  <2>2. FilesAreConsistent'
    BY <2>1 DEF FilesAreConsistent
  <2>3. CASE Valid(a, Hash(a)) /\ Answer(p, a, disk[a].info)
    <3>1. /\ query'[p].step = "next"
          /\ inspected'[p] = With(inspected[p], a, disk[a].info)
      BY <2>3 DEF Answer, Remember, StepTo, Query
    <3>2. IsOne(a) => disk[a].info = installed[Registered[a].file]
      BY <2>3 DEF Valid, Hash, FilesAreConsistent
    <3>3. InspectionIsCurrent'
      BY <1>1, <1>3, <3>1, <3>2 DEF InspectionIsCurrent, With, IsOne
    <3> QED  BY <2>2, <3>1, <3>3 DEF UnderWayAt
  <2>4. CASE StepTo(p, "missed", Hash(a)) /\ UNCHANGED inspected
    <3>1. /\ query'[p].step = "missed" /\ query'[p].hash = Hash(a)
          /\ query'[p].left = query[p].left
      BY <2>4 DEF StepTo, Query
    <3>2. UnderWayAt(p)'
      BY <1>1, <3>1 DEF UnderWayAt, Hash, Trying
    <3> QED  BY <1>1, <2>2, <2>4, <3>2 DEF InspectionIsCurrent
  <2> QED  BY <1>8, <2>3, <2>4 DEF Lookup
<1>9. CASE Subprocess(p)
  <2> DEFINE info == installed[Registered[a].defined_in]
  <2>1. UNCHANGED disk
    BY <1>9 DEF Subprocess
  <2>2. FilesAreConsistent'
    BY <2>1 DEF FilesAreConsistent
  <2>3. CASE StepTo(p, "save", query[p].hash) /\ Remember(p, a, info)
    <3>1. /\ query'[p].step = "save" /\ query'[p].hash = query[p].hash
          /\ query'[p].left = query[p].left
          /\ inspected'[p] = With(inspected[p], a, info)
      BY <2>3 DEF Remember, StepTo, Query
    <3>2. query[p].hash = Hash(a)
      BY <1>9 DEF Subprocess, UnderWay, UnderWayAt
    <3>3. inspected'[p][a] = info
      BY <3>1, SMTT(30) DEF With
    <3>4. UnderWayAt(p)'
      BY <1>1, <3>1, <3>2, <3>3 DEF UnderWayAt, Hash, Trying
    <3>5. InspectionIsCurrent'
      BY <1>1, <1>3, <3>1 DEF InspectionIsCurrent, With
    <3> QED  BY <2>2, <3>4, <3>5
  <2>4. CASE Answer(p, a, Failed)
    <3>1. /\ query'[p].step = "next"
          /\ inspected'[p] = With(inspected[p], a, Failed)
      BY <2>4 DEF Answer, Remember, StepTo, Query
    <3>2. InspectionIsCurrent'
      BY <1>1, <1>3, <3>1 DEF InspectionIsCurrent, With
    <3> QED  BY <2>2, <3>1, <3>2 DEF UnderWayAt
  <2> QED  BY <1>9, <2>3, <2>4 DEF Subprocess
<1>10. CASE Save(p)
  <2> DEFINE entry == [hash |-> query[p].hash, info |-> inspected[p][a]]
  <2>1. UNCHANGED inspected /\ query'[p].step = "next"
    BY <1>10 DEF Save, StepTo, Query
  <2>2. IsOne(a) => entry.info = entry.hash
    BY <1>10 DEF Save, UnderWay, UnderWayAt, Hash, IsOne
  <2>3. disk' = disk \/ disk' = With(disk, a, entry)
    BY <1>10 DEF Save
  <2>4. FilesAreConsistent'
    BY <2>2, <2>3 DEF FilesAreConsistent, With, IsOne
  <2> QED  BY <1>1, <2>1, <2>4 DEF UnderWayAt, InspectionIsCurrent
<1> QED  BY <1>7, <1>8, <1>9, <1>10 DEF Inspect, Inspecting

(* What becomes of a process without its inspection: only whether it is up.  *)
LEMMA NextIInv ==
  ASSUME IInv, [Next]_vars
  PROVE  IInv'
<1> USE DEF IInv, Domains
<1>1. ASSUME NEW p \in Processes, Start(p) PROVE IInv'
  <2>1. UNCHANGED <<installed, disk, inspected>> /\ phase'[p] # "down" /\ Domains'
    BY <1>1 DEF Start, Ask, Advance, Query
  <2>2. query'[p].step = "next"
    <3>1. PICK asks \in Requests : Ask(p, asks.target.archs, asks.target.impl)
      BY <1>1 DEF Start
    <3> QED  BY <3>1 DEF Ask, Query
  <2>3. \A q \in Processes \ {p} : query'[q] = query[q] /\ phase'[q] = phase[q]
    BY <1>1 DEF Start, Ask, Advance
  <2> QED
    BY <2>1, <2>2, <2>3 DEF DownIsBlank, UnderWay, UnderWayAt, Hash, Trying, FilesAreConsistent, InspectionIsCurrent
<1>2. ASSUME NEW p \in Processes, Inspect(p) PROVE IInv'
  BY <1>2, InspectIInv
<1>3. ASSUME NEW p \in Processes, Unsupported(p) \/ TargetInspected(p) \/ DraftInspected(p)
      PROVE  IInv'
  <2>1. phase[p] # "down"
    BY <1>3 DEF Unsupported, TargetInspected, DraftInspected, DownIsBlank
  <2>2. UNCHANGED <<installed, disk, inspected>> /\ phase'[p] # "down" /\ DOMAIN phase' = Processes
    BY <1>3 DEF Unsupported, TargetInspected, DraftInspected, Advance
  <2>3. DOMAIN query' = Processes /\ query'[p].step \in {"idle", "next"}
    <3>1. ASSUME NEW archs, NEW impl, Ask(p, archs, impl)
          PROVE  DOMAIN query' = Processes /\ query'[p].step = "next"
      BY <3>1 DEF Ask, Query
    <3>2. ASSUME query' = [query EXCEPT ![p] = Idle]
          PROVE  DOMAIN query' = Processes /\ query'[p].step = "idle"
      BY <3>2 DEF Idle, Query
    <3> QED  BY <1>3, <3>1, <3>2 DEF Unsupported, TargetInspected, DraftInspected
  <2>4. \A q \in Processes \ {p} : query'[q] = query[q] /\ phase'[q] = phase[q]
    BY <1>3 DEF Unsupported, TargetInspected, DraftInspected, Ask, Advance, Query
  <2> QED
    BY <2>1, <2>2, <2>3, <2>4
       DEF DownIsBlank, UnderWay, UnderWayAt, Hash, Trying, FilesAreConsistent, InspectionIsCurrent
<1>4. ASSUME NEW p \in Processes, LoadTarget(p) \/ LoadDrafter(p) \/ Forward(p) \/ Reload(p)
      PROVE  IInv'
  <2>1. UNCHANGED <<installed, disk, inspected, query>>
    BY <1>4 DEF LoadTarget, LoadDrafter, Forward, Reload, registryVars
  <2>2. DOMAIN phase' = Processes
        /\ \A q \in Processes : phase'[q] = "down" => phase[q] = "down"
    BY <1>4 DEF LoadTarget, LoadDrafter, Forward, Reload, Advance
  <2> QED
    BY <2>1, <2>2 DEF DownIsBlank, UnderWay, UnderWayAt, Hash, Trying, FilesAreConsistent, InspectionIsCurrent
<1>5. ASSUME NEW p \in Processes, Stop(p) PROVE IInv'
  <2>1. /\ UNCHANGED <<installed, disk>> /\ Domains'
        /\ query'[p].step = "idle" /\ DOMAIN inspected'[p] = {}
    BY <1>5 DEF Stop, Forget, Advance, Idle, Query, Nothing
  <2>2. \A q \in Processes \ {p} :
          query'[q] = query[q] /\ phase'[q] = phase[q] /\ inspected'[q] = inspected[q]
    BY <1>5 DEF Stop, Forget, Advance
  <2> QED
    BY <2>1, <2>2 DEF DownIsBlank, UnderWay, UnderWayAt, Hash, Trying, FilesAreConsistent, InspectionIsCurrent
<1>6. ASSUME NEW f \in Files, Reinstall(f) PROVE IInv'
  <2>1. UNCHANGED <<disk, inspected, query, phase>>
    BY <1>6 DEF Reinstall, Install
  <2>2. \A q \in Processes : DOMAIN inspected[q] = {} /\ query[q].step = "idle"
    BY <1>6 DEF Reinstall, DownIsBlank
  <2> QED
    BY <2>1, <2>2 DEF DownIsBlank, UnderWay, UnderWayAt, FilesAreConsistent, InspectionIsCurrent
<1>7. CASE UNCHANGED vars
  BY <1>7 DEF vars, registryVars, DownIsBlank, UnderWay, UnderWayAt, Hash, Trying, FilesAreConsistent,
              InspectionIsCurrent
<1> QED  BY <1>1, <1>2, <1>3, <1>4, <1>5, <1>6, <1>7, SMTT(30) DEF Next

(* Whatever files were written before a reinstallation, by whom, and however *)
(* inspections of several processes interleave: what a process remembers of  *)
(* a class that is defined in the hashed file is what that file holds        *)
(* (registry.py: _LazyRegisteredModel.inspect_model_cls).                    *)
THEOREM InspectionAlwaysCurrent == Spec => []InspectionIsCurrent
<1>1. IInv => InspectionIsCurrent
  BY DEF IInv
<1> QED  BY InitIInv, NextIInv, <1>1, PTL DEF Spec

-----------------------------------------------------------------------------
(* Which rank keeps an expert, for any number of ranks and experts.          *)
N == Cardinality(Ranks)

LEMMA LocalExpertsType ==
  /\ N \in Nat \ {0} /\ Experts \in Nat
  /\ LocalExperts \in Nat /\ N * LocalExperts = Experts
<1>1. N \in Nat
  BY FS_CardinalityType, WeightAssumption DEF N
<1>2. N # 0
  BY <1>1, WeightAssumption DEF N
<1>3. Experts \in Nat /\ Experts % N = 0
  BY WeightAssumption DEF N
<1>4. LocalExperts = Experts \div N
  BY DEF LocalExperts, N
<1>5. LocalExperts \in Nat /\ Experts = LocalExperts * N + (Experts % N)
  BY <1>1, <1>2, <1>3, <1>4, Division
<1>6. LocalExperts * N = N * LocalExperts
  BY <1>1, <1>5
<1> QED  BY <1>1, <1>2, <1>3, <1>5, <1>6

(* Every routed expert is kept by exactly one rank, under one of its local   *)
(* numbers: the loader's range test (_map_global_expert_id) leaves no expert *)
(* out at the boundary between two ranks and gives none to both.             *)
THEOREM EveryExpertHasOneRank ==
  ASSUME NEW e \in 0 .. Experts - 1
  PROVE  \E rank \in Ranks :
           /\ MapGlobalExpertId(rank, e) \in 0 .. LocalExperts - 1
           /\ \A other \in Ranks \ {rank} : MapGlobalExpertId(other, e) = -1
<1> DEFINE L == LocalExperts
           rank == e \div L
<1>1. N \in Nat \ {0} /\ L \in Nat /\ N * L = Experts /\ Ranks = 0 .. N - 1
  BY LocalExpertsType, WeightAssumption DEF N
<1>2. L > 0 /\ e \in Nat /\ e < N * L
  BY <1>1
<1> HIDE DEF L
<1> DEFINE rest == e % L
<1>3. rank \in Nat /\ rest \in 0 .. L - 1 /\ e = rank * L + rest
  <2>1. L \in Nat \ {0}
    BY <1>1, <1>2
  <2> QED  BY <1>2, <2>1, Division
<1> HIDE DEF rank, rest
<1>4. rank * L \in Nat
  BY <1>1, <1>3
<1>5. rank \in Ranks
  <2>1. CASE rank >= N
    <3>1. N * L <= rank * L
      BY <1>1, <1>3, <2>1, Monotone
    <3>2. N * L \in Int /\ rank * L \in Int
      BY <1>1, <1>3
    <3> QED  BY <3>1, <3>2, <1>2, <1>3
  <2> QED  BY <1>1, <1>3, <2>1
<1>6. ASSUME NEW r \in Ranks
      PROVE  /\ ExpertsStart(r) = r * L /\ ExpertsEnd(r) = r * L + L
             /\ r * L \in Nat
  BY <1>1 DEF ExpertsStart, ExpertsEnd, L
<1>7. MapGlobalExpertId(rank, e) = rest
  BY <1>1, <1>3, <1>4, <1>5, <1>6 DEF MapGlobalExpertId
<1>8. ASSUME NEW other \in Ranks \ {rank}
      PROVE  MapGlobalExpertId(other, e) = -1
  <2>1. /\ other \in Nat /\ other * L \in Nat
        /\ ExpertsStart(other) = other * L /\ ExpertsEnd(other) = other * L + L
    BY <1>1, <1>6
  <2>2. CASE other < rank
    <3>1. (other + 1) * L <= rank * L
      BY <1>1, <1>3, <2>1, <2>2, Monotone
    <3>2. (other + 1) * L = other * L + L
      BY <1>1, <2>1, Successor
    <3> QED  BY <3>1, <3>2, <2>1, <1>1, <1>3, <1>4 DEF MapGlobalExpertId
  <2>3. CASE rank < other
    <3>1. (rank + 1) * L <= other * L
      BY <1>1, <1>3, <2>1, <2>3, Monotone
    <3>2. (rank + 1) * L = rank * L + L
      BY <1>1, <1>3, Successor
    <3> QED  BY <3>1, <3>2, <2>1, <1>1, <1>3, <1>4 DEF MapGlobalExpertId
  <2> QED  BY <2>1, <2>2, <2>3, <1>3
<1> QED  BY <1>3, <1>5, <1>7, <1>8 DEF L

-----------------------------------------------------------------------------
(* The KV cache.                                                             *)

(* What each phase may still refer to. A failed set-up may leave anything    *)
(* behind but a registration; what the phases before and after the profiling *)
(* run may refer to makes the property inductive.                            *)
Quiet            == {"loaded", "profiling", "ready", "serving"}
ModelLoaded      == model \in CacheModels
RealRegistration == registered \in {Unset, "real"}
PoolTypes        == pools \in [Wrappers -> {Unset, "main", "profiling"}]
MainPools        == stage \in Quiet => \A w \in Wrappers : pools[w] # "profiling"
NoGraphs         == stage \in {"loaded", "profiling", "ready"} => graphs = {}
OwnGraphs        == stage = "serving" => \A g \in graphs : g[2] = "real"
NoCaches         == stage \in {"loaded", "down"} => DOMAIN bound = {} /\ runners = {}
OwnCaches        == stage \in {"ready", "serving"} =>
                      /\ \A n \in DOMAIN bound : bound[n][1].raw.gen = "real"
                      /\ \A r \in runners : r.gen = "real"
CacheIInv == /\ ModelLoaded /\ RealRegistration /\ PoolTypes /\ MainPools
             /\ NoGraphs /\ OwnGraphs /\ NoCaches /\ OwnCaches

-----------------------------------------------------------------------------
(* The first view of a layer is a view of the raw tensor it was made from.   *)
LEMMA UniformIsOf ==
  ASSUME NEW n, NEW num, NEW gen, NEW k
  PROVE  UniformViews(n, num, gen, k)[1].raw.gen = gen
BY DEF UniformViews, View

LEMMA AttentionIsOf ==
  ASSUME NEW n, NEW spec, NEW raw, NEW num, NEW k
  PROVE  AttentionViews(n, spec, raw, num, k)[1].raw = raw
BY DEF AttentionViews, View

LEMMA MambaIsOf ==
  ASSUME NEW spec, NEW raw, NEW num, 1 \in DOMAIN spec.states
  PROVE  MambaViews(spec, raw, num)[1].raw = raw
BY DEF MambaViews, View

LEMMA RawIsOf ==
  ASSUME NEW n, NEW num, NEW gen
  PROVE  RawTensor(n, num, gen).gen = gen
BY DEF RawTensor

LEMMA ViewsAreOf ==
  ASSUME model \in CacheModels, NEW n \in DOMAIN model.layers, NEW num, NEW gen, NEW k
  PROVE  Views(n, num, gen, k)[1].raw.gen = gen
<1>1. CASE IsAttention(Layer(n).spec)
  <2>1. Views(n, num, gen, k)
          = AttentionViews(n, Layer(n).spec, RawTensor(n, num, gen), num, k)
    BY <1>1 DEF Views
  <2>. QED
    BY <2>1, AttentionIsOf, RawIsOf
<1>2. CASE ~IsAttention(Layer(n).spec)
  <2>1. Views(n, num, gen, k) = MambaViews(Layer(n).spec, RawTensor(n, num, gen), num)
    BY <1>2 DEF Views
  <2>2. 1 \in DOMAIN Layer(n).spec.states
    <3> DEFINE states == Layer(n).spec.states
    <3>1. LayersAssumption(model)
      BY SetupAssumption
    <3>2. states \in Seq(Nat) /\ states # <<>>
      BY <1>2, <3>1 DEF LayersAssumption, IsAttention, Layer
    <3> HIDE DEF states
    <3>3. 1 \in DOMAIN states
      BY <3>2
    <3> QED  BY <3>3 DEF states
  <2>. QED
    BY <2>1, <2>2, MambaIsOf, RawIsOf
<1>. QED
  BY <1>1, <1>2

LEMMA MovedIsOf ==
  ASSUME NEW caches, NEW ags, NEW n \in DOMAIN caches
  PROVE  /\ DOMAIN HybridLayout(caches, ags) = DOMAIN caches
         /\ HybridLayout(caches, ags)[n][1].raw = caches[n][1].raw
BY DEF HybridLayout, View

(* Without an error every layer that owns a cache gets one of this set-up.   *)
LEMMA CachesAreOf ==
  ASSUME model \in CacheModels, NEW gs, NEW ags, NEW num, NEW gen,
         Owners(gs) = UNION model.tensors
  PROVE  /\ DOMAIN Caches(gs, ags, num, gen) = Owners(gs)
         /\ \A n \in Owners(gs) : Caches(gs, ags, num, gen)[n][1].raw.gen = gen
<1>1. DOMAIN Plain(gs, ags, num, gen) = Owners(gs)
  BY DEF Plain
<1>2. ASSUME NEW n \in Owners(gs)
      PROVE  Plain(gs, ags, num, gen)[n][1].raw.gen = gen
  <2>1. n \in DOMAIN model.layers
    BY SetupAssumption DEF TensorsAssumption
  <2>2. Plain(gs, ags, num, gen)[n]
          = IF UsesUniform(ags) THEN UniformViews(n, num, gen, Kernel(gs, n))
            ELSE Views(n, num, gen, Kernel(gs, n))
    BY DEF Plain
  <2>3. /\ UniformViews(n, num, gen, Kernel(gs, n))[1].raw.gen = gen
        /\ Views(n, num, gen, Kernel(gs, n))[1].raw.gen = gen
    BY <2>1, UniformIsOf, ViewsAreOf
  <2>. QED
    BY <2>2, <2>3
<1>3. CASE Moved(gs, ags)
  <2>1. Caches(gs, ags, num, gen) = HybridLayout(Plain(gs, ags, num, gen), ags)
    BY <1>3 DEF Caches
  <2>2. \A n \in Owners(gs) :
          /\ DOMAIN HybridLayout(Plain(gs, ags, num, gen), ags) = Owners(gs)
          /\ HybridLayout(Plain(gs, ags, num, gen), ags)[n][1].raw
               = Plain(gs, ags, num, gen)[n][1].raw
    BY <1>1, MovedIsOf
  <2>3. DOMAIN HybridLayout(Plain(gs, ags, num, gen), ags) = Owners(gs)
    BY <1>1 DEF HybridLayout
  <2>. QED
    BY <1>2, <2>1, <2>2, <2>3
<1>4. CASE ~Moved(gs, ags)
  BY <1>1, <1>2, <1>4 DEF Caches
<1>. QED
  BY <1>3, <1>4

-----------------------------------------------------------------------------
(* What InitializeKVCache does to the invariant, for either cache: it starts *)
(* from no graphs and a registration that is real or none, and either fails  *)
(* or binds caches of its own.                                               *)
LEMMA InitializeBinds ==
  ASSUME CacheIInv, stage = "loaded", shared = SharedLayers,
         NEW num, NEW gen \in {"profile", "real"},
         NEW next \in {"profiling", "ready"},
         InitializeKVCache(num, gen, next)
  PROVE  /\ stage' \in {"failed", next}
         /\ RealRegistration' /\ PoolTypes'
         /\ \A w \in Wrappers : pools'[w] # "profiling"
         /\ stage' = next =>
              /\ \A n \in DOMAIN bound' : bound'[n][1].raw.gen = gen
              /\ \A r \in runners' : r.gen = gen
<1>. DEFINE gs     == AllGroups
            ags    == AttnGroups(gs, eligible \cup Eligible)
            caches == Caches(gs, ags, num, gen)
<1>0. /\ ModelLoaded /\ RealRegistration /\ PoolTypes
      /\ \A w \in Wrappers : pools[w] # "profiling"
  BY DEF CacheIInv, MainPools, Quiet
<1>1. CASE Raises(gs, ags, num, gen)
  <2>1. stage' = "failed" /\ pools' = pools /\ registered' = registered
    BY <1>1 DEF InitializeKVCache
  <2>. QED
    BY <1>0, <2>1 DEF RealRegistration, PoolTypes
<1>2. CASE ~Raises(gs, ags, num, gen)
  <2>1. /\ stage' = next
        /\ pools' = NewWrapper(mode')
        /\ bound' = [n \in Owners(gs) \cup DOMAIN shared |->
                       caches[IF n \in Owners(gs) THEN n ELSE shared[n]]]
        /\ runners' = {caches[n][1].raw : n \in Owners(gs)}
        /\ registered' = IF gen = "real" THEN gen ELSE registered
    BY <1>2 DEF InitializeKVCache
  <2>2. RealRegistration'
    BY <1>0, <2>1 DEF RealRegistration
  <2>3. PoolTypes' /\ \A w \in Wrappers : pools'[w] # "profiling"
    BY <1>0, <2>1 DEF NewWrapper, PoolTypes
  <2>4. Owners(gs) = UNION model.tensors
    BY <1>2 DEF Raises
  <2>5. \A n \in Owners(gs) : caches[n][1].raw.gen = gen
    BY <1>0, <2>4, CachesAreOf DEF ModelLoaded
  <2>6. \A n \in DOMAIN shared : shared[n] \in Owners(gs)
    BY <1>0, <2>4, SetupAssumption DEF SharedLayers, ModelLayers, Layer, ModelLoaded, LayersAssumption
  <2>7. \A n \in DOMAIN bound' : bound'[n][1].raw.gen = gen
    <3>. SUFFICES ASSUME NEW n \in Owners(gs) \cup DOMAIN shared
                  PROVE  caches[IF n \in Owners(gs) THEN n ELSE shared[n]][1].raw.gen = gen
      BY <2>1
    <3>. QED
      BY <2>5, <2>6
  <2>8. \A r \in runners' : r.gen = gen
    BY <2>1, <2>5
  <2>. QED
    BY <2>1, <2>2, <2>3, <2>7, <2>8
<1>. QED
  BY <1>1, <1>2

LEMMA CacheInitIInv == CacheInit => CacheIInv
<1>. SUFFICES ASSUME CacheInit PROVE CacheIInv
  OBVIOUS
<1>1. ModelLoaded /\ RealRegistration /\ NoGraphs /\ OwnGraphs /\ OwnCaches
  BY DEF CacheInit, ModelLoaded, RealRegistration, NoGraphs, OwnGraphs, OwnCaches
<1>2. PoolTypes /\ MainPools
  BY DEF CacheInit, PoolTypes, MainPools, Unset
<1>3. NoCaches
  BY DEF CacheInit, NoCaches
<1>. QED
  BY <1>1, <1>2, <1>3 DEF CacheIInv

(* The clean-up, of the profiling run as of the runner.                      *)
LEMMA CleanupUnbinds ==
  ASSUME NEW next, Cleanup(next)
  PROVE  /\ stage' = next /\ DOMAIN bound' = {} /\ runners' = {}
         /\ model' = model /\ registered' = registered
BY DEF Cleanup, Unbound

LEMMA CacheNextIInv == CacheIInv /\ [CacheNext]_cacheVars => CacheIInv'
<1>. SUFFICES ASSUME CacheIInv, [CacheNext]_cacheVars PROVE CacheIInv'
  OBVIOUS
<1>. USE DEF Quiet, ModelLoaded, RealRegistration, PoolTypes, MainPools, NoGraphs, OwnGraphs,
             NoCaches, OwnCaches
<1>1. CASE GetKVCacheSpec
  BY <1>1 DEF GetKVCacheSpec, CacheIInv
<1>2. CASE StartProfiling
  <2>1. /\ stage' \in {"failed", "profiling"} /\ RealRegistration' /\ PoolTypes'
        /\ \A w \in Wrappers : pools'[w] # "profiling"
    BY <1>2, InitializeBinds DEF StartProfiling
  <2>2. ModelLoaded' /\ graphs' = {}
    BY <1>2 DEF StartProfiling, CacheIInv
  <2>. QED
    BY <2>1, <2>2 DEF CacheIInv
<1>3. CASE SkipProfiling
  BY <1>3, CleanupUnbinds DEF SkipProfiling, CacheIInv
<1>4. CASE CaptureForProfile
  <2>1. pools' \in [Wrappers -> {Unset, "main", "profiling"}]
    BY <1>4 DEF CaptureForProfile
  <2>. QED
    BY <1>4, <2>1 DEF CaptureForProfile, CacheIInv
<1>5. CASE EndProfiling
  <2>1. /\ pools' \in [Wrappers -> {Unset, "main", "profiling"}]
        /\ \A w \in Wrappers : pools'[w] # "profiling"
    BY <1>5 DEF EndProfiling, Unset
  <2>. QED
    BY <1>5, <2>1, CleanupUnbinds DEF EndProfiling, CacheIInv
<1>6. CASE UpdateMaxModelLen
  BY <1>6 DEF UpdateMaxModelLen, CacheIInv, layout
<1>7. CASE Initialize
  <2>1. PICK num \in NumBlocks : InitializeKVCache(num, "real", "ready")
    BY <1>7 DEF Initialize
  <2>2. /\ stage' \in {"failed", "ready"} /\ RealRegistration' /\ PoolTypes'
        /\ \A w \in Wrappers : pools'[w] # "profiling"
        /\ stage' = "ready" =>
             /\ \A n \in DOMAIN bound' : bound'[n][1].raw.gen = "real"
             /\ \A r \in runners' : r.gen = "real"
    BY <1>7, <2>1, InitializeBinds DEF Initialize
  <2>3. ModelLoaded' /\ graphs' = {}
    BY <1>7 DEF Initialize, CacheIInv
  <2>. QED
    BY <2>2, <2>3 DEF CacheIInv
<1>8. CASE CaptureModel
  BY <1>8 DEF CaptureModel, CacheIInv, layout
<1>9. CASE Shutdown
  <2>1. pools' \in [Wrappers -> {Unset, "main", "profiling"}]
    BY <1>9 DEF Shutdown, CacheIInv
  <2>. QED
    BY <1>9, <2>1, CleanupUnbinds DEF Shutdown, CacheIInv
<1>10. CASE UNCHANGED cacheVars
  BY <1>10 DEF cacheVars, layout, CacheIInv
<1>. QED
  BY <1>1, <1>2, <1>3, <1>4, <1>5, <1>6, <1>7, <1>8, <1>9, <1>10 DEF CacheNext

LEMMA CacheIInvSuffices == CacheIInv => ProfilingLeavesNothing
BY DEF CacheIInv, RealRegistration, PoolTypes, MainPools, NoGraphs, OwnGraphs, NoCaches,
       OwnCaches, Quiet, ProfilingLeavesNothing, Unset

(* Once the profiling run is over, no layer, tensor list, graph, graph pool  *)
(* or connector refers to its cache, for any model and any number of blocks. *)
THEOREM ProfilingAlwaysCleanedUp == CacheSpec => []ProfilingLeavesNothing
<1>1. CacheSpec => []CacheIInv
  BY CacheInitIInv, CacheNextIInv, PTL DEF CacheSpec
<1>. QED
  BY <1>1, CacheIInvSuffices, PTL
-----------------------------------------------------------------------------
(* Which layers a group has, and which group a layer is in.                  *)
Base == model.groups
SharedBy(i) == {n \in DOMAIN shared : shared[n] \in Base[i].names}

LEMMA GroupsOfModel ==
  ASSUME ModelLoaded
  PROVE  /\ DOMAIN Base \subseteq DOMAIN AllGroups
         /\ Len(Base) \in Nat /\ DOMAIN Base = 1 .. Len(Base)
         /\ DOMAIN AllGroups = 1 .. Len(Base) + (IF EncoderOnly = {} THEN 0 ELSE 1)
         /\ \A i \in DOMAIN Base :
              /\ AllGroups[i].spec = Base[i].spec
              /\ AllGroups[i].names = Base[i].names \cup SharedBy(i)
              /\ Base[i].spec.type # "encoder_only"
         /\ \A i \in DOMAIN AllGroups \ DOMAIN Base :
              /\ AllGroups[i].spec.type = "encoder_only"
              /\ AllGroups[i].names = EncoderOnly \cup {n \in DOMAIN shared : shared[n] \in EncoderOnly}
<1> DEFINE gs == WithEncoderOnly(Base)
           last == [names |-> EncoderOnly, spec |-> Layer(CHOOSE n \in EncoderOnly : TRUE).spec]
<1>0. /\ Base \in Seq(Range(Base)) /\ DOMAIN Base = 1 .. Len(Base) /\ Len(Base) \in Nat
      /\ \A i \in DOMAIN Base : Base[i] = [names |-> Base[i].names, spec |-> Base[i].spec]
      /\ \A i \in DOMAIN Base : Base[i].spec.type # "encoder_only"
  <2>1. GroupsAssumption(model)
    BY SetupAssumption DEF ModelLoaded
  <2>2. Base \in Seq(Range(Base))
    BY <2>1 DEF GroupsAssumption, Base
  <2>3. ASSUME NEW i \in DOMAIN Base
        PROVE  /\ Base[i] = [names |-> Base[i].names, spec |-> Base[i].spec]
               /\ Base[i].spec.type # "encoder_only"
    BY <2>1 DEF GroupsAssumption, Base
  <2> QED  BY <2>2, <2>3
<1>1. gs = IF EncoderOnly = {} THEN Base ELSE Append(Base, last)
  BY DEF WithEncoderOnly
<1>2. /\ DOMAIN gs = 1 .. Len(Base) + (IF EncoderOnly = {} THEN 0 ELSE 1)
      /\ \A i \in DOMAIN Base : i \in DOMAIN gs /\ gs[i] = Base[i]
      /\ \A i \in DOMAIN gs \ DOMAIN Base : EncoderOnly # {} /\ gs[i] = last
  <2> HIDE DEF last
  <2>1. CASE EncoderOnly = {}
    BY <1>0, <1>1, <2>1
  <2>2. CASE EncoderOnly # {}
    <3>1. PICK E : E = Range(Base) \cup {last}
      OBVIOUS
    <3>2. Base \in Seq(E) /\ last \in E
      BY <1>0, <3>1 DEF Range
    <3>3. gs = Append(Base, last)
      BY <1>1, <2>2
    <3> HIDE DEF gs
    <3>4. /\ Len(gs) = Len(Base) + 1 /\ DOMAIN gs = 1 .. Len(gs)
          /\ gs[Len(Base) + 1] = last /\ \A i \in 1 .. Len(Base) : gs[i] = Base[i]
      BY <3>2, <3>3, AppendProperties
    <3> QED  BY <1>0, <2>2, <3>4
  <2> QED  BY <2>1, <2>2
<1>3. EncoderOnly # {} => last.spec.type = "encoder_only"
  BY DEF EncoderOnly
<1> HIDE DEF gs
<1>4. AllGroups = WithShared(gs)
  BY DEF AllGroups, gs, Base
<1>5. /\ DOMAIN AllGroups = DOMAIN gs
      /\ \A i \in DOMAIN gs : AllGroups[i] = [gs[i] EXCEPT !.names = @ \cup {n \in DOMAIN shared : shared[n] \in @}]
  BY <1>4 DEF WithShared
<1>6. ASSUME NEW i \in DOMAIN Base
      PROVE  AllGroups[i].spec = Base[i].spec /\ AllGroups[i].names = Base[i].names \cup SharedBy(i)
  <2> DEFINE more == {n \in DOMAIN shared : shared[n] \in Base[i].names}
  <2>1. AllGroups[i] = [Base[i] EXCEPT !.names = @ \cup more]
    BY <1>2, <1>5
  <2> HIDE DEF more
  <2>2. Base[i] = [names |-> Base[i].names, spec |-> Base[i].spec]
    BY <1>0
  <2>3. AllGroups[i] = [names |-> Base[i].names \cup more, spec |-> Base[i].spec]
    BY <2>1, <2>2
  <2> QED  BY <2>3 DEF more, SharedBy
<1>7. ASSUME NEW i \in DOMAIN gs \ DOMAIN Base
      PROVE  /\ AllGroups[i].spec.type = "encoder_only"
             /\ AllGroups[i].names = EncoderOnly \cup {n \in DOMAIN shared : shared[n] \in EncoderOnly}
  <2> DEFINE more == {n \in DOMAIN shared : shared[n] \in EncoderOnly}
  <2>0. gs[i] = last /\ last.names = EncoderOnly
    BY <1>2
  <2>1. AllGroups[i] = [last EXCEPT !.names = EncoderOnly \cup more]
    <3> HIDE DEF last
    <3> QED  BY <1>5, <2>0
  <2>2. AllGroups[i] = [names |-> EncoderOnly \cup more, spec |-> last.spec]
    BY <2>1
  <2>3. last.spec.type = "encoder_only"
    BY <1>2, <1>3
  <2> QED  BY <2>2, <2>3
<1> QED  BY <1>0, <1>2, <1>5, <1>6, <1>7

LEMMA SharedFacts ==
  ASSUME ModelLoaded, shared = SharedLayers, Owners(AllGroups) = UNION model.tensors,
         NEW n \in DOMAIN shared
  PROVE  /\ n \in DOMAIN model.layers /\ n \notin EncoderOnly
         /\ shared[n] \in Owners(AllGroups)
         /\ \A i \in DOMAIN Base : n \notin Base[i].names
<1>1. LayersAssumption(model) /\ GroupsAssumption(model) /\ TensorsAssumption(model)
  BY SetupAssumption DEF ModelLoaded
<1>2. /\ n \in DOMAIN model.layers /\ model.layers[n].target # Unset
      /\ shared[n] = model.layers[n].target
  BY DEF SharedLayers, ModelLayers, Layer
<1>3. n \notin EncoderOnly /\ shared[n] \in UNION model.tensors
  BY <1>1, <1>2 DEF LayersAssumption, EncoderOnly, ModelLayers, Layer
<1>4. \A i \in DOMAIN Base : n \notin Base[i].names
  BY <1>1, <1>2 DEF GroupsAssumption, Base
<1> QED  BY <1>2, <1>3, <1>4

LEMMA OwnersFacts ==
  ASSUME ModelLoaded, shared = SharedLayers, Owners(AllGroups) = UNION model.tensors,
         NEW o \in Owners(AllGroups)
  PROVE  /\ o \in DOMAIN model.layers /\ o \notin EncoderOnly \cup DOMAIN shared
         /\ \E i \in DOMAIN Base : o \in Base[i].names
         /\ \A i \in DOMAIN AllGroups : o \in AllGroups[i].names =>
              i \in DOMAIN Base /\ o \in Base[i].names /\ Layer(o).spec = AllGroups[i].spec
         /\ \A i, j \in DOMAIN AllGroups :
              o \in AllGroups[i].names /\ o \in AllGroups[j].names => i = j
<1>1. LayersAssumption(model) /\ GroupsAssumption(model) /\ TensorsAssumption(model)
  BY SetupAssumption DEF ModelLoaded
<1>2. o \in DOMAIN model.layers
  BY <1>1 DEF TensorsAssumption
<1>3. /\ o \notin EncoderOnly \cup DOMAIN shared
      /\ \E i \in DOMAIN AllGroups : o \in AllGroups[i].names
  BY DEF Owners
<1>4. ASSUME NEW i \in DOMAIN AllGroups, o \in AllGroups[i].names
      PROVE  i \in DOMAIN Base /\ o \in Base[i].names /\ Layer(o).spec = AllGroups[i].spec
  <2>1. i \in DOMAIN Base /\ o \in Base[i].names
    BY <1>3, <1>4, GroupsOfModel DEF SharedBy
  <2>2. AllGroups[i].spec = Base[i].spec
    BY <2>1, GroupsOfModel
  <2> QED  BY <1>1, <2>1, <2>2 DEF GroupsAssumption, Base, Layer
<1>5. ASSUME NEW i \in DOMAIN Base, NEW j \in DOMAIN Base, o \in Base[i].names, o \in Base[j].names
      PROVE  i = j
  BY <1>1, <1>5 DEF GroupsAssumption, Base
<1> QED  BY <1>2, <1>3, <1>4, <1>5

(* Every layer is in exactly one group, one that reuses a cache in that of   *)
(* the layer it is the cache of.                                             *)
LEMMA OneGroup ==
  ASSUME ModelLoaded, shared = SharedLayers, Owners(AllGroups) = UNION model.tensors,
         NEW n \in DOMAIN model.layers
  PROVE  \E i \in DOMAIN AllGroups :
           /\ n \in AllGroups[i].names
           /\ n \in DOMAIN shared => i \in DOMAIN Base /\ shared[n] \in AllGroups[i].names
           /\ \A j \in DOMAIN AllGroups : n \in AllGroups[j].names => j = i
<1>0. LayersAssumption(model) /\ GroupsAssumption(model)
  BY SetupAssumption DEF ModelLoaded
<1>1. CASE n \in DOMAIN shared
  <2> DEFINE t == shared[n]
  <2>1. /\ n \notin EncoderOnly /\ t \in Owners(AllGroups)
        /\ \A i \in DOMAIN Base : n \notin Base[i].names
    BY <1>1, SharedFacts
  <2>2. PICK i \in DOMAIN Base : t \in Base[i].names
    BY <2>1, OwnersFacts
  <2>3. i \in DOMAIN AllGroups /\ n \in AllGroups[i].names /\ t \in AllGroups[i].names
    BY <1>1, <2>2, GroupsOfModel DEF SharedBy
  <2>4. ASSUME NEW j \in DOMAIN AllGroups, n \in AllGroups[j].names PROVE j = i
    <3>1. t \notin EncoderOnly
      BY <2>1, OwnersFacts
    <3>2. j \in DOMAIN Base
      BY <2>1, <2>4, <3>1, GroupsOfModel
    <3>3. t \in Base[j].names
      BY <2>1, <2>4, <3>2, GroupsOfModel DEF SharedBy
    <3>4. t \in AllGroups[j].names
      BY <3>2, <3>3, GroupsOfModel
    <3> QED  BY <2>1, <2>3, <3>4, OwnersFacts
  <2> QED  BY <2>2, <2>3, <2>4
<1>2. CASE n \in EncoderOnly
  <2>1. n \notin DOMAIN shared
    BY <1>2, SharedFacts
  <2>2. \A i \in DOMAIN Base : n \notin Base[i].names
    BY <1>0, <1>2 DEF GroupsAssumption, EncoderOnly, ModelLayers, Layer, Base
  <2>3. PICK i \in DOMAIN AllGroups : i \notin DOMAIN Base /\ \A j \in DOMAIN AllGroups \ DOMAIN Base : j = i
    <3>1. DOMAIN AllGroups = 1 .. Len(Base) + 1 /\ Len(Base) \in Nat /\ DOMAIN Base = 1 .. Len(Base)
      BY <1>2, GroupsOfModel
    <3> QED  BY <3>1
  <2>4. n \in AllGroups[i].names
    BY <1>2, <2>3, GroupsOfModel
  <2>5. ASSUME NEW j \in DOMAIN AllGroups, n \in AllGroups[j].names PROVE j = i
    BY <2>1, <2>2, <2>3, <2>5, GroupsOfModel DEF SharedBy
  <2> QED  BY <2>1, <2>4, <2>5
<1>3. CASE n \notin DOMAIN shared /\ n \notin EncoderOnly
  <2>1. PICK i \in DOMAIN Base : n \in Base[i].names
    <3>1. model.layers[n].target = Unset /\ model.layers[n].spec.type # "encoder_only"
      BY <1>3 DEF SharedLayers, EncoderOnly, ModelLayers, Layer
    <3> QED  BY <1>0, <3>1 DEF LayersAssumption, Base
  <2>2. i \in DOMAIN AllGroups /\ n \in AllGroups[i].names
    BY <2>1, GroupsOfModel
  <2>3. ASSUME NEW j \in DOMAIN AllGroups, n \in AllGroups[j].names PROVE j = i
    <3>1. j \in DOMAIN Base /\ n \in Base[j].names
      BY <1>3, <2>3, GroupsOfModel DEF SharedBy
    <3> QED  BY <1>0, <2>1, <3>1 DEF GroupsAssumption, Base
  <2> QED  BY <1>3, <2>2, <2>3
<1> QED  BY <1>1, <1>2, <1>3

LEMMA SameBackend ==
  ASSUME NEW early, NEW n, NEW o, BackendName(o, early) = BackendName(n, early)
  PROVE  Layer(o).backend = Layer(n).backend /\ (o \in early <=> n \in early)
<1> DEFINE a == Layer(o).backend
           b == Layer(n).backend
<1> HIDE DEF a, b
<1>1. /\ BackendName(o, early) = IF o \in early THEN <<"FastPrefill", a>> ELSE <<a>>
      /\ BackendName(n, early) = IF n \in early THEN <<"FastPrefill", b>> ELSE <<b>>
  BY DEF BackendName, a, b
<1>2. <<"FastPrefill", a>> # <<b>> /\ <<a>> # <<"FastPrefill", b>>
  OBVIOUS
<1>3. /\ <<"FastPrefill", a>> = <<"FastPrefill", b>> => a = b
      /\ <<a>> = <<b>> => a = b
  OBVIOUS
<1>4. a = b /\ (o \in early <=> n \in early)
  BY <1>1, <1>2, <1>3
<1> QED  BY <1>4 DEF a, b

(* A layer has one attention group, of layers with the same backend, number  *)
(* of heads and eligibility.                                                 *)
LEMMA OneBuilder ==
  ASSUME ModelLoaded, shared = SharedLayers, Owners(AllGroups) = UNION model.tensors,
         NEW early, NEW n \in DOMAIN model.layers
  PROVE  \E g \in UNION Range(AttnGroups(AllGroups, early)) :
           /\ {b \in UNION Range(AttnGroups(AllGroups, early)) : n \in b.names} = {g}
           /\ n \in AllGroups[g.gid].names
           /\ \A o \in g.names : /\ Layer(o).backend = Layer(n).backend
                                 /\ Layer(o).heads = Layer(n).heads
                                 /\ (o \in early <=> n \in early)
<1> DEFINE gs == AllGroups
           ags == AttnGroups(gs, early)
           key(x, i) == GroupKey(x, gs[i].spec, early)
           group(k, i) == [names |-> {x \in gs[i].names : key(x, i) = k},
                           spec |-> gs[i].spec, gid |-> i]
<1>1. /\ DOMAIN ags = DOMAIN gs
      /\ \A i \in DOMAIN gs : ags[i] = {group(k, i) : k \in {key(x, i) : x \in gs[i].names}}
  BY DEF AttnGroups
<1>2. PICK i \in DOMAIN gs : /\ n \in gs[i].names
                             /\ \A j \in DOMAIN gs : n \in gs[j].names => j = i
  BY OneGroup
<1> DEFINE g == group(key(n, i), i)
<1>3. g \in ags[i] /\ n \in g.names /\ g.gid = i
  BY <1>1, <1>2
<1>4. ASSUME NEW b \in UNION Range(ags), n \in b.names PROVE b = g
  <2>1. PICK j \in DOMAIN gs : b \in ags[j]
    BY <1>1 DEF Range
  <2>2. PICK k \in {key(x, j) : x \in gs[j].names} : b = group(k, j)
    BY <1>1, <2>1
  <2>3. n \in gs[j].names /\ key(n, j) = k
    BY <1>4, <2>2
  <2> QED  BY <1>2, <2>2, <2>3
<1>5. g \in UNION Range(ags)
  BY <1>1, <1>3 DEF Range
<1>6. {b \in UNION Range(ags) : n \in b.names} = {g}
  BY <1>3, <1>4, <1>5
<1>7. ASSUME NEW o \in g.names
      PROVE  /\ Layer(o).backend = Layer(n).backend
             /\ Layer(o).heads = Layer(n).heads
             /\ (o \in early <=> n \in early)
  <2>1. key(o, i) = key(n, i)
    BY <1>7
  <2>2. BackendName(o, early) = BackendName(n, early) /\ Layer(o).heads = Layer(n).heads
    BY <2>1 DEF GroupKey
  <2> QED  BY <2>2, SameBackend
<1> HIDE DEF g, ags
<1>8. n \in gs[g.gid].names
  BY <1>2, <1>3
<1> QED  BY <1>5, <1>6, <1>7, <1>8 DEF ags

(* The layers of all groups are the layers of the model.                     *)
LEMMA GroupsCoverLayers ==
  ASSUME ModelLoaded, shared = SharedLayers, Owners(AllGroups) = UNION model.tensors
  PROVE  DOMAIN model.layers \subseteq UNION {AllGroups[i].names : i \in DOMAIN AllGroups}
<1> SUFFICES ASSUME NEW n \in DOMAIN model.layers
             PROVE  n \in UNION {AllGroups[i].names : i \in DOMAIN AllGroups}
  OBVIOUS
<1> QED  BY OneGroup

LEMMA LeastOf ==
  ASSUME NEW S \in SUBSET Nat, NEW x \in S
  PROVE  Min(S) \in S /\ Min(S) <= x
BY LeastNumber DEF Min

(* The smallest threshold and the weakest support over all layers.           *)
LEMMA EveryBackendFits ==
  ASSUME ModelLoaded, NEW gs, NEW names,
         names = UNION {gs[i].names : i \in DOMAIN gs}, names \subseteq DOMAIN model.layers,
         NEW b \in BackendsOf(names)
  PROVE  /\ b.threshold # NoThreshold => Threshold(gs) <= b.threshold
         /\ ResolvedMode(requested, Support(gs)) = "FULL" => b.support = Everywhere
<1>1. \A c \in BackendsOf(names) : c.threshold \in Nat /\ c.support \in 0 .. Everywhere
  <2>1. LayersAssumption(model)
    BY SetupAssumption DEF ModelLoaded
  <2>2. \A n \in names : Backends[Layer(n).backend] \in Range(Backends)
    BY <2>1 DEF LayersAssumption, Layer, Range
  <2> QED  BY <2>2, SetupAssumption DEF BackendsOf
<1>2. b.threshold # NoThreshold => Threshold(gs) <= b.threshold
  <2> DEFINE wanted == {c.threshold : c \in BackendsOf(names)} \ {NoThreshold}
  <2>1. Threshold(gs) = IF wanted = {} THEN NoThreshold ELSE Min(wanted)
    BY DEF Threshold
  <2>2. wanted \subseteq Nat
    BY <1>1
  <2>3. b.threshold # NoThreshold => b.threshold \in wanted
    OBVIOUS
  <2> QED  BY <2>1, <2>2, <2>3, LeastOf
<1>3. ResolvedMode(requested, Support(gs)) = "FULL" => b.support = Everywhere
  <2> DEFINE all == {Everywhere} \cup UNION {{c.support : c \in BackendsOf(gs[i].names)} : i \in DOMAIN gs}
  <2>1. PICK i \in DOMAIN gs : b \in BackendsOf(gs[i].names)
    BY DEF BackendsOf
  <2>2. all \subseteq Nat
    <3>1. \A j \in DOMAIN gs : BackendsOf(gs[j].names) \subseteq BackendsOf(names)
      BY DEF BackendsOf
    <3>2. ASSUME NEW j \in DOMAIN gs, NEW c \in BackendsOf(gs[j].names) PROVE c.support \in Nat
      <4>1. c \in BackendsOf(names)
        BY <3>1
      <4>2. c.support \in 0 .. Everywhere
        BY <1>1, <4>1
      <4> QED  BY <4>2 DEF Everywhere
    <3>3. Everywhere \in Nat
      BY DEF Everywhere
    <3> QED  BY <3>2, <3>3
  <2>3. b.support \in all
    BY <2>1
  <2>4. Support(gs) <= b.support
    BY <2>2, <2>3, LeastOf DEF Support
  <2>5. Support(gs) \in Nat
    BY <2>2, <2>3, LeastOf DEF Support
  <2>6. b.support \in 0 .. Everywhere
    BY <1>1
  <2> QED  BY <2>4, <2>5, <2>6 DEF ResolvedMode, Everywhere
<1> QED  BY <1>2, <1>3

(* Serving starts with groups that serve their layers.                       *)
LEMMA InitializeGroups ==
  ASSUME ModelLoaded, shared = SharedLayers, shared' = shared, model' = model,
         requested' = requested, NEW num, NEW gen,
         InitializeKVCache(num, gen, "ready"), stage' = "ready"
  PROVE  GroupsServeTheirLayers'
<1> DEFINE gs    == AllGroups
           early == eligible \cup Eligible
           ags   == AttnGroups(gs, early)
           cs    == Caches(gs, ags, num, gen)
<1>1. ~Raises(gs, ags, num, gen)
  BY DEF InitializeKVCache
<1>2. /\ groups' = gs /\ eligible' = early /\ attnGroups' = ags
      /\ threshold' = Threshold(gs) /\ mode' = ResolvedMode(requested, Support(gs))
      /\ bound' = [n \in Owners(gs) \cup DOMAIN shared |->
                     cs[IF n \in Owners(gs) THEN n ELSE shared[n]]]
  BY <1>1 DEF InitializeKVCache
<1>3. Owners(gs) = UNION model.tensors
  BY <1>1 DEF Raises
<1> HIDE DEF cs, ags, early
<1>4. ASSUME NEW n \in DOMAIN model.layers
      PROVE  \E g \in UNION Range(attnGroups') :
               /\ {b \in UNION Range(attnGroups') : n \in b.names} = {g}
               /\ n \in groups'[g.gid].names
               /\ \A o \in g.names : /\ Layer(o).backend = Layer(n).backend
                                     /\ Layer(o).heads = Layer(n).heads
                                     /\ (o \in eligible' <=> n \in eligible')
  <2>1. PICK g \in UNION Range(AttnGroups(gs, early)) :
               /\ {b \in UNION Range(AttnGroups(gs, early)) : n \in b.names} = {g}
               /\ n \in gs[g.gid].names
               /\ \A o \in g.names : /\ Layer(o).backend = Layer(n).backend
                                     /\ Layer(o).heads = Layer(n).heads
                                     /\ (o \in early <=> n \in early)
    BY <1>3, OneBuilder
  <2>2. attnGroups' = AttnGroups(gs, early) /\ groups' = gs /\ eligible' = early
    BY <1>2 DEF ags
  <2> HIDE DEF gs
  <2> QED  BY <2>1, <2>2
<1>5. ASSUME NEW n \in DOMAIN shared
      PROVE  /\ (CHOOSE i \in DOMAIN gs : n \in gs[i].names)
                  = (CHOOSE i \in DOMAIN gs : shared[n] \in gs[i].names)
             /\ bound'[n] = bound'[shared[n]]
  <2>1. n \in DOMAIN model.layers /\ shared[n] \in Owners(gs)
    BY <1>3, SharedFacts
  <2>2. PICK i \in DOMAIN gs : /\ n \in gs[i].names /\ shared[n] \in gs[i].names
                               /\ \A j \in DOMAIN gs : n \in gs[j].names => j = i
    BY <1>3, <2>1, OneGroup
  <2>3. \A j \in DOMAIN gs : shared[n] \in gs[j].names => j = i
    BY <1>3, <2>1, <2>2, OwnersFacts
  <2>4. n \notin Owners(gs)
    BY DEF Owners
  <2> QED  BY <1>2, <2>1, <2>2, <2>3, <2>4
<1>6. LayersFollowTheirGroup'
  <2>1. \A n \in DOMAIN model.layers : Builders(n)' = {b \in UNION Range(attnGroups') : n \in b.names}
    BY DEF Builders
  <2>2. \A n : Layer(n)' = Layer(n)
    BY DEF Layer
  <2>3. \A n \in DOMAIN shared : GroupOf(n)' = CHOOSE i \in DOMAIN gs : n \in gs[i].names
    BY <1>2 DEF GroupOf
  <2>4. \A n \in DOMAIN shared : GroupOf(shared[n])' = CHOOSE i \in DOMAIN gs : shared[n] \in gs[i].names
    BY <1>2 DEF GroupOf
  <2>5. \A n \in DOMAIN shared : GroupOf(n)' = GroupOf(shared[n])' /\ bound'[n] = bound'[shared[n]]
    BY <1>5, <2>3, <2>4, ZenonT(40)
  <2>6. ASSUME NEW n \in DOMAIN model.layers
        PROVE  \E g \in UNION Range(attnGroups') :
                 /\ Builders(n)' = {g}
                 /\ n \in groups'[g.gid].names
                 /\ \A o \in g.names : /\ Layer(o)'.backend = Layer(n)'.backend
                                       /\ Layer(o)'.heads = Layer(n)'.heads
                                       /\ (o \in eligible' <=> n \in eligible')
    BY <1>4, <2>1, <2>2
  <2>7. ModelLayers' = DOMAIN model.layers
    BY DEF ModelLayers
  <2>8. \A n \in DOMAIN shared' : GroupOf(n)' = GroupOf(shared[n])' /\ bound'[n] = bound'[shared'[n]]
    BY <2>5
  <2> QED  BY <2>6, <2>7, <2>8 DEF LayersFollowTheirGroup
<1>7. EveryBackendCanServe'
  <2> DEFINE names == UNION {gs[i].names : i \in DOMAIN gs}
  <2>1. ASSUME NEW b \in BackendsOf(names)
        PROVE  /\ b.threshold # NoThreshold => threshold' <= b.threshold
               /\ mode' = "FULL" => b.support = Everywhere
    <3>1. names \subseteq DOMAIN model.layers
      <4>1. GroupsAssumption(model)
        BY SetupAssumption DEF ModelLoaded
      <4>2. \A i \in DOMAIN Base : Base[i].names \subseteq DOMAIN model.layers
        BY <4>1 DEF GroupsAssumption, Base
      <4>3. DOMAIN shared \subseteq DOMAIN model.layers /\ EncoderOnly \subseteq DOMAIN model.layers
        BY DEF SharedLayers, EncoderOnly, ModelLayers
      <4>4. \A i \in DOMAIN gs : gs[i].names \subseteq DOMAIN model.layers
        BY <4>2, <4>3, GroupsOfModel DEF SharedBy
      <4> QED  BY <4>4
    <3> HIDE DEF gs
    <3> QED  BY <1>2, <2>1, <3>1, EveryBackendFits
  <2>2. BackendsOf(DOMAIN model.layers) \subseteq BackendsOf(names)
    BY <1>3, GroupsCoverLayers DEF BackendsOf
  <2>3. BackendsOf(ModelLayers)' = BackendsOf(DOMAIN model.layers)
    BY DEF BackendsOf, ModelLayers, Layer
  <2> QED  BY <2>1, <2>2, <2>3 DEF EveryBackendCanServe
<1> QED  BY <1>6, <1>7 DEF GroupsServeTheirLayers

(* A step that leaves the model and the layout alone leaves the groups fit.  *)
LEMMA GroupsStay ==
  ASSUME UNCHANGED <<model, layout>>, GroupsServeTheirLayers, Serving
  PROVE  GroupsServeTheirLayers'
<1>1. /\ model' = model /\ shared' = shared /\ eligible' = eligible /\ groups' = groups
      /\ attnGroups' = attnGroups /\ threshold' = threshold /\ bound' = bound /\ mode' = mode
  BY DEF layout
<1>2. LayersFollowTheirGroup'
  BY <1>1 DEF GroupsServeTheirLayers, LayersFollowTheirGroup, ModelLayers, Builders, Layer, GroupOf
<1>3. EveryBackendCanServe'
  BY <1>1 DEF GroupsServeTheirLayers, EveryBackendCanServe, BackendsOf, ModelLayers, Layer
<1> QED  BY <1>2, <1>3 DEF GroupsServeTheirLayers

LEMMA NotServing ==
  ASSUME stage' \notin {"ready", "serving"}
  PROVE  GroupsServeTheirLayers' /\ TablesFitTheCache'
BY DEF GroupsServeTheirLayers, LayersFollowTheirGroup, EveryBackendCanServe,
       TablesFitTheCache, Serving

(* Which actions lead to serving: only the set-up of the real cache, and the *)
(* capture of the graphs, which leaves the cache alone.                      *)
LEMMA WhoServes ==
  ASSUME CacheIInv, [CacheNext]_cacheVars
  PROVE  \/ stage' \notin {"ready", "serving"}
         \/ /\ Serving /\ UNCHANGED <<model, maxLen, layout, batch>>
         \/ /\ shared = SharedLayers /\ stage = "loaded" /\ stage' = "ready"
            /\ UNCHANGED <<model, requested, maxLen, shared>>
            /\ \E num \in NumBlocks : InitializeKVCache(num, "real", "ready")
<1>1. CASE GetKVCacheSpec \/ UpdateMaxModelLen
  BY <1>1 DEF GetKVCacheSpec, UpdateMaxModelLen
<1>2. CASE StartProfiling
  BY <1>2, InitializeBinds DEF StartProfiling
<1>3. CASE SkipProfiling \/ EndProfiling \/ Shutdown
  BY <1>3, CleanupUnbinds DEF SkipProfiling, EndProfiling, Shutdown
<1>4. CASE CaptureForProfile
  BY <1>4 DEF CaptureForProfile
<1>5. CASE Initialize
  <2>1. PICK num \in NumBlocks : InitializeKVCache(num, "real", "ready")
    BY <1>5 DEF Initialize
  <2>2. stage' \in {"failed", "ready"}
    BY <1>5, <2>1, InitializeBinds DEF Initialize
  <2> QED  BY <1>5, <2>1, <2>2 DEF Initialize
<1>6. CASE CaptureModel
  BY <1>6 DEF CaptureModel, Serving
<1>7. CASE UNCHANGED cacheVars
  BY <1>7 DEF cacheVars, layout, Serving
<1> QED  BY <1>1, <1>2, <1>3, <1>4, <1>5, <1>6, <1>7 DEF CacheNext

(* While the model is served every layer is driven by one metadata builder,  *)
(* of its backend and its group, and threshold and graph mode suit all of    *)
(* them.                                                                     *)
THEOREM LayersAlwaysServed == CacheSpec => []GroupsServeTheirLayers
<1>1. CacheSpec => []CacheIInv
  BY CacheInitIInv, CacheNextIInv, PTL DEF CacheSpec
<1>2. CacheInit => GroupsServeTheirLayers
  BY DEF CacheInit, GroupsServeTheirLayers, LayersFollowTheirGroup, EveryBackendCanServe, Serving
<1>3. CacheIInv /\ GroupsServeTheirLayers /\ [CacheNext]_cacheVars => GroupsServeTheirLayers'
  <2> SUFFICES ASSUME CacheIInv, GroupsServeTheirLayers, [CacheNext]_cacheVars
               PROVE  GroupsServeTheirLayers'
    OBVIOUS
  <2>1. CASE stage' \notin {"ready", "serving"}
    BY <2>1, NotServing
  <2>2. CASE Serving /\ UNCHANGED <<model, maxLen, layout, batch>>
    BY <2>2, GroupsStay
  <2>3. ASSUME shared = SharedLayers, stage' = "ready", UNCHANGED <<model, requested, maxLen, shared>>,
               NEW num \in NumBlocks, InitializeKVCache(num, "real", "ready")
        PROVE  GroupsServeTheirLayers'
    <3>1. ModelLoaded
      BY DEF CacheIInv
    <3> QED  BY <2>3, <3>1, InitializeGroups
  <2> QED  BY <2>1, <2>2, <2>3, WhoServes
<1> QED  BY <1>1, <1>2, <1>3, PTL DEF CacheSpec

-----------------------------------------------------------------------------
(* The block tables.                                                         *)
LEMMA GreatestOf ==
  ASSUME NEW B \in Nat, NEW S \in SUBSET (1 .. B), S # {}
  PROVE  Max(S) \in S
<1> DEFINE T == {B - x : x \in S}
<1>1. T \in SUBSET Nat /\ T # {}
  <2>1. \A x \in S : B - x \in Nat
    OBVIOUS
  <2> QED  BY <2>1
<1>2. PICK t \in T : \A y \in T : t <= y
  BY <1>1, LeastNumber
<1>3. PICK x \in S : t = B - x
  BY <1>2
<1>4. ASSUME NEW y \in S PROVE x >= y
  <2>1. t <= B - y
    BY <1>2
  <2> QED  BY <1>3, <2>1
<1> QED  BY <1>4 DEF Max

LEMMA DivideMonotone ==
  ASSUME NEW a \in Nat, NEW c \in Nat, a <= c, NEW b \in Nat \ {0}
  PROVE  a \div b <= c \div b
<1> DEFINE p == a \div b
           q == c \div b
<1>1. /\ p \in Nat /\ a % b \in 0 .. b - 1 /\ a = p * b + (a % b)
      /\ q \in Nat /\ c % b \in 0 .. b - 1 /\ c = q * b + (c % b)
  BY Division
<1> HIDE DEF p, q
<1>2. SUFFICES ASSUME q < p PROVE FALSE
  BY <1>1 DEF p, q
<1>3. (q + 1) * b <= p * b /\ (q + 1) * b = q * b + b
  BY <1>1, <1>2, Monotone, Successor
<1>4. q * b \in Nat /\ p * b \in Nat
  BY <1>1
<1> QED  BY <1>1, <1>3, <1>4

LEMMA CeilDivGrows ==
  ASSUME NEW a \in Nat \ {0}, NEW c \in Nat, a <= c, NEW b \in Nat \ {0}
  PROVE  /\ CeilDiv(a, b) <= CeilDiv(c, b)
         /\ CeilDiv(a, b) \in Nat /\ CeilDiv(c, b) \in Nat /\ 1 <= CeilDiv(c, b)
<1>1. a + b - 1 \in Nat /\ c + b - 1 \in Nat /\ a + b - 1 <= c + b - 1 /\ b <= c + b - 1
  OBVIOUS
<1>2. b \div b = 1
  <2>1. 1 * b + 0 = b
    OBVIOUS
  <2>2. 0 \in 0 .. b - 1 /\ 1 \in Nat
    OBVIOUS
  <2>3. (1 * b + 0) \div b = 1
    BY <2>2, Unique
  <2> QED  BY <2>1, <2>3
<1>3. /\ (a + b - 1) \div b <= (c + b - 1) \div b
      /\ b \div b <= (c + b - 1) \div b
  BY <1>1, DivideMonotone
<1>4. (a + b - 1) \div b \in Nat /\ (c + b - 1) \div b \in Nat
  BY <1>1, Division
<1> QED  BY <1>2, <1>3, <1>4 DEF CeilDiv

(* A smaller max_model_len never needs a wider table.                        *)
LEMMA WidthShrinks ==
  ASSUME ModelLoaded, model' = model, maxLen \in Nat \ {0}, maxLen' \in Nat \ {0},
         maxLen' <= maxLen,
         NEW CONSTANT g, g.spec.block_size \in Nat \ {0},
         g.spec.type = "mamba" => g.spec.spec_blocks \in Nat
  PROVE  Width(g)' <= Width(g)
<1> DEFINE b == g.spec.block_size
<1>1. /\ CeilDiv(maxLen', b) <= CeilDiv(maxLen, b)
      /\ CeilDiv(maxLen', b) \in Nat /\ CeilDiv(maxLen, b) \in Nat
  BY CeilDivGrows
<1>2. Width(g)' = IF IsAttention(g.spec) THEN CeilDiv(maxLen', b)
                  ELSE (IF model.prefix_caching THEN CeilDiv(maxLen', b) ELSE 1) + g.spec.spec_blocks
  BY DEF Width, CeilDiv, IsAttention
<1>3. Width(g) = IF IsAttention(g.spec) THEN CeilDiv(maxLen, b)
                 ELSE (IF model.prefix_caching THEN CeilDiv(maxLen, b) ELSE 1) + g.spec.spec_blocks
  BY DEF Width
<1>4. CASE IsAttention(g.spec)
  BY <1>1, <1>2, <1>3, <1>4
<1>5. CASE ~IsAttention(g.spec)
  <2>1. g.spec.spec_blocks \in Nat
    BY <1>5 DEF IsAttention
  <2>2. PICK u, v : /\ u = (IF model.prefix_caching THEN CeilDiv(maxLen', b) ELSE 1)
                    /\ v = (IF model.prefix_caching THEN CeilDiv(maxLen, b) ELSE 1)
    OBVIOUS
  <2>3. u \in Nat /\ v \in Nat /\ u <= v
    BY <1>1, <2>2
  <2>4. Width(g)' = u + g.spec.spec_blocks /\ Width(g) = v + g.spec.spec_blocks
    BY <1>2, <1>3, <1>5, <2>2
  <2> QED  BY <2>1, <2>3, <2>4
<1> QED  BY <1>4, <1>5

(* The size that the blocks of an attention group are split into divides     *)
(* them.                                                                     *)
LEMMA KernelChosen ==
  ASSUME ModelLoaded, shared = SharedLayers, NEW i \in DOMAIN Base, IsAttention(AllGroups[i].spec)
  PROVE  LET B == AllGroups[i].spec.block_size
             k == KernelSize(AllGroups[i])
         IN  B \in Nat \ {0} /\ k \in 1 .. B /\ B % k = 0
<1> DEFINE g == AllGroups[i]
           B == g.spec.block_size
           S == {k \in 1 .. B : /\ B % k = 0
                                /\ \A b \in BackendsOf(g.names) : k \in b.sizes}
<1>0. GroupsAssumption(model)
  BY SetupAssumption DEF ModelLoaded
<1>1. g.spec = Base[i].spec /\ g.names = Base[i].names \cup SharedBy(i)
  BY GroupsOfModel
<1>2. B \in Nat \ {0}
  BY <1>0, <1>1 DEF GroupsAssumption, Base
<1>3. PICK k \in 1 .. B : /\ B % k = 0
                          /\ \A n \in DOMAIN model.layers :
                               n \in Base[i].names \/ model.layers[n].target \in Base[i].names =>
                                 k \in Backends[model.layers[n].backend].sizes
  <2>1. IsAttention(Base[i].spec) /\ g.spec.block_size = Base[i].spec.block_size
    BY <1>1
  <2>2. PICK k \in 1 .. Base[i].spec.block_size :
          /\ Base[i].spec.block_size % k = 0
          /\ \A n \in DOMAIN model.layers :
               n \in Base[i].names \/ model.layers[n].target \in Base[i].names =>
                 k \in Backends[model.layers[n].backend].sizes
    BY <1>0, <2>1 DEF GroupsAssumption, Base
  <2> HIDE DEF g
  <2> QED  BY <2>1, <2>2
<1>4. ASSUME NEW n \in g.names PROVE k \in Backends[Layer(n).backend].sizes
  <2>1. n \in DOMAIN model.layers /\ (n \in Base[i].names \/ model.layers[n].target \in Base[i].names)
    <3>1. CASE n \in Base[i].names
      BY <1>0, <3>1 DEF GroupsAssumption, Base
    <3>2. CASE n \in SharedBy(i)
      BY <3>2 DEF SharedBy, SharedLayers, ModelLayers, Layer
    <3> QED  BY <1>1, <3>1, <3>2
  <2> QED  BY <1>3, <2>1 DEF Layer
<1>5. k \in S
  BY <1>3, <1>4 DEF BackendsOf
<1>6. Max(S) \in S
  <2> HIDE DEF B
  <2> QED  BY <1>2, <1>5, GreatestOf
<1>7. KernelSize(g) = Max(S)
  BY DEF KernelSize
<1> QED  BY <1>2, <1>6, <1>7

LEMMA AttentionShape ==
  ASSUME NEW n, NEW spec, NEW raw, NEW num, NEW k
  PROVE  LET v == AttentionViews(n, spec, raw, num, k)[1]
         IN  v.raw = raw /\ v.blocks = num * (spec.block_size \div k)
BY DEF AttentionViews, View

LEMMA UniformShape ==
  ASSUME NEW n, NEW num, NEW gen, NEW k
  PROVE  LET v == UniformViews(n, num, gen, k)[1]
         IN  v.raw.num = num /\ v.blocks = num * (Layer(n).spec.block_size \div k)
BY DEF UniformViews, View

LEMMA MovedShape ==
  ASSUME NEW caches, NEW ags, NEW n \in DOMAIN caches
  PROVE  /\ HybridLayout(caches, ags)[n][1].raw = caches[n][1].raw
         /\ HybridLayout(caches, ags)[n][1].blocks = caches[n][1].blocks
BY DEF HybridLayout, View

(* The views of an attention layer split the blocks as its group says.       *)
LEMMA ViewShape ==
  ASSUME ModelLoaded, shared = SharedLayers, Owners(AllGroups) = UNION model.tensors,
         NEW ags, NEW num, NEW gen,
         NEW i \in DOMAIN AllGroups, IsAttention(AllGroups[i].spec),
         NEW o \in Owners(AllGroups), o \in AllGroups[i].names
  PROVE  LET v == Caches(AllGroups, ags, num, gen)[o][1]
         IN  /\ v.raw.num = num
             /\ v.blocks = num * (AllGroups[i].spec.block_size \div KernelSizes(AllGroups)[i])
<1> DEFINE gs == AllGroups
           k == KernelSizes(gs)[i]
           B == gs[i].spec.block_size
           ps == Plain(gs, ags, num, gen)
<1>1. /\ Layer(o).spec = gs[i].spec
      /\ \A j \in DOMAIN gs : o \in gs[j].names => j = i
  BY OwnersFacts
<1>2. Kernel(gs, o) = k
  <2>1. (CHOOSE j \in DOMAIN gs : o \in gs[j].names) = i
    BY <1>1
  <2> QED  BY <2>1 DEF Kernel
<1>3. ps[o] = IF UsesUniform(ags) THEN UniformViews(o, num, gen, k)
              ELSE AttentionViews(o, Layer(o).spec, RawTensor(o, num, gen), num, k)
  BY <1>1, <1>2 DEF Plain, Views
<1>4. RawTensor(o, num, gen).num = num
  BY DEF RawTensor
<1>5. ps[o][1].raw.num = num /\ ps[o][1].blocks = num * (B \div k)
  <2>1. CASE UsesUniform(ags)
    <3>1. ps[o] = UniformViews(o, num, gen, k)
      BY <1>3, <2>1
    <3> HIDE DEF k, gs
    <3>2. /\ UniformViews(o, num, gen, k)[1].raw.num = num
          /\ UniformViews(o, num, gen, k)[1].blocks = num * (Layer(o).spec.block_size \div k)
      BY UniformShape
    <3> HIDE DEF ps
    <3> QED  BY <1>1, <3>1, <3>2
  <2>2. CASE ~UsesUniform(ags)
    <3>1. ps[o] = AttentionViews(o, Layer(o).spec, RawTensor(o, num, gen), num, k)
      BY <1>3, <2>2
    <3> HIDE DEF k, gs
    <3>2. /\ AttentionViews(o, Layer(o).spec, RawTensor(o, num, gen), num, k)[1].raw = RawTensor(o, num, gen)
          /\ AttentionViews(o, Layer(o).spec, RawTensor(o, num, gen), num, k)[1].blocks
               = num * (Layer(o).spec.block_size \div k)
      BY AttentionShape
    <3> HIDE DEF ps
    <3> QED  BY <1>1, <1>4, <3>1, <3>2
  <2> QED  BY <2>1, <2>2
<1>6. /\ Caches(gs, ags, num, gen)[o][1].raw = ps[o][1].raw
      /\ Caches(gs, ags, num, gen)[o][1].blocks = ps[o][1].blocks
  <2>1. o \in DOMAIN ps
    BY DEF Plain
  <2> HIDE DEF ps
  <2>2. /\ HybridLayout(ps, ags)[o][1].raw = ps[o][1].raw
        /\ HybridLayout(ps, ags)[o][1].blocks = ps[o][1].blocks
    BY <2>1, MovedShape
  <2>3. Caches(gs, ags, num, gen) = IF Moved(gs, ags) THEN HybridLayout(ps, ags) ELSE ps
    BY DEF Caches, ps
  <2> QED  BY <2>2, <2>3
<1> QED  BY <1>5, <1>6

(* What the input batch may be: the one the runner was constructed with, for *)
(* max_model_len as it was then, or one made for the groups.                 *)
PlaceholderBatch(p, l) ==
  [blocks |-> <<p>>, kernels |-> <<p>>, widths |-> [i \in DOMAIN <<p>> |-> CeilDiv(l, p)]]
BlockSizes(gs) == [i \in Cached(gs) |-> gs[i].spec.block_size]
MadeForGroups ==
  /\ batch.blocks = BlockSizes(AllGroups) /\ batch.kernels = KernelSizes(AllGroups)
  /\ DOMAIN batch.widths = Cached(AllGroups)
  /\ \A i \in Cached(AllGroups) :
       batch.widths[i] \in Nat /\ batch.widths[i] >= Width(AllGroups[i])
BatchKnown ==
  /\ maxLen \in MaxLens
  /\ \/ \E p \in Placeholders, l \in MaxLens : l >= maxLen /\ batch = PlaceholderBatch(p, l)
     \/ shared = SharedLayers /\ MadeForGroups

(* The block size that the runner is constructed with is not that of a model *)
(* whose only group is of Mamba layers that hold blocks for draft tokens:    *)
(* may_reinitialize_input_batch would keep a table without room for them.    *)
RoomForDrafts ==
  \A m \in CacheModels :
    Len(m.groups) = 1 /\ m.groups[1].spec.type = "mamba" /\ m.groups[1].spec.spec_blocks # 0 =>
      m.groups[1].spec.block_size \notin Placeholders

LEMMA CachedGroups ==
  ASSUME ModelLoaded
  PROVE  /\ Cached(AllGroups) = DOMAIN Base
         /\ \A i \in DOMAIN Base :
              /\ AllGroups[i].spec.block_size \in Nat \ {0}
              /\ AllGroups[i].spec.type = "mamba" => AllGroups[i].spec.spec_blocks \in Nat
              /\ AllGroups[i].spec = Base[i].spec
<1>1. GroupsAssumption(model)
  BY SetupAssumption DEF ModelLoaded
<1>2. Cached(AllGroups) = DOMAIN Base
  BY GroupsOfModel DEF Cached
<1>3. ASSUME NEW i \in DOMAIN Base
      PROVE  /\ AllGroups[i].spec.block_size \in Nat \ {0}
             /\ AllGroups[i].spec.type = "mamba" => AllGroups[i].spec.spec_blocks \in Nat
             /\ AllGroups[i].spec = Base[i].spec
  <2>1. AllGroups[i].spec = Base[i].spec
    BY GroupsOfModel
  <2> QED  BY <1>1, <2>1 DEF GroupsAssumption, Base
<1> QED  BY <1>2, <1>3

LEMMA WidthIsNatural ==
  ASSUME maxLen \in Nat \ {0}, NEW g, g.spec.block_size \in Nat \ {0},
         g.spec.type = "mamba" => g.spec.spec_blocks \in Nat
  PROVE  Width(g) \in Nat
<1> DEFINE b == g.spec.block_size
<1>1. CeilDiv(maxLen, b) \in Nat
  BY CeilDivGrows
<1>2. CASE IsAttention(g.spec)
  BY <1>1, <1>2 DEF Width
<1>3. CASE ~IsAttention(g.spec)
  <2>1. g.spec.spec_blocks \in Nat
    BY <1>3 DEF IsAttention
  <2>2. PICK u : u = (IF model.prefix_caching THEN CeilDiv(maxLen, b) ELSE 1)
    OBVIOUS
  <2>3. Width(g) = u + g.spec.spec_blocks /\ u \in Nat
    BY <1>1, <1>3, <2>2 DEF Width
  <2> QED  BY <2>1, <2>3
<1> QED  BY <1>2, <1>3

(* The table of the runner's construction is wide enough, if it is kept.     *)
LEMMA PlaceholderIsWide ==
  ASSUME ModelLoaded, RoomForDrafts, NEW p \in Placeholders, NEW l \in MaxLens,
         maxLen \in MaxLens, l >= maxLen, BlockSizes(AllGroups) = <<p>>
  PROVE  /\ Cached(AllGroups) = {1}
         /\ CeilDiv(l, p) \in Nat /\ CeilDiv(l, p) >= Width(AllGroups[1])
<1> DEFINE g == AllGroups[1]
<1>1. Cached(AllGroups) = {1}
  <2>1. DOMAIN <<p>> = {1}
    OBVIOUS
  <2>2. DOMAIN BlockSizes(AllGroups) = Cached(AllGroups)
    BY DEF BlockSizes
  <2> QED  BY <2>1, <2>2
<1>2. g.spec.block_size = p /\ 1 \in DOMAIN Base /\ Len(Base) = 1 /\ g.spec = Base[1].spec
  <2>1. BlockSizes(AllGroups)[1] = g.spec.block_size
    BY <1>1 DEF BlockSizes
  <2>2. <<p>>[1] = p
    OBVIOUS
  <2>3. DOMAIN Base = {1} /\ DOMAIN Base = 1 .. Len(Base) /\ Len(Base) \in Nat
    BY <1>1, CachedGroups, GroupsOfModel
  <2>4. Len(Base) = 1
    BY <2>3
  <2> QED  BY <2>1, <2>2, <2>3, <2>4, CachedGroups
<1>3. maxLen \in Nat \ {0} /\ l \in Nat \ {0} /\ p \in Nat \ {0} /\ maxLen <= l
  BY SetupAssumption
<1>4. /\ CeilDiv(maxLen, p) <= CeilDiv(l, p) /\ CeilDiv(maxLen, p) \in Nat
      /\ CeilDiv(l, p) \in Nat /\ 1 <= CeilDiv(l, p)
  BY <1>3, CeilDivGrows
<1>5. CASE IsAttention(g.spec)
  <2>1. Width(g) = CeilDiv(maxLen, p)
    BY <1>2, <1>5 DEF Width
  <2> QED  BY <1>1, <1>4, <2>1
<1>6. CASE ~IsAttention(g.spec)
  <2>1. g.spec.spec_blocks = 0
    BY <1>2, <1>6 DEF RoomForDrafts, ModelLoaded, Base, IsAttention
  <2>2. PICK u : u = (IF model.prefix_caching THEN CeilDiv(maxLen, p) ELSE 1)
    OBVIOUS
  <2>3. Width(g) = u + 0
    BY <1>2, <1>6, <2>1, <2>2 DEF Width
  <2>4. u \in Nat /\ u <= CeilDiv(l, p)
    BY <1>4, <2>2
  <2> QED  BY <1>1, <1>4, <2>3, <2>4
<1> QED  BY <1>5, <1>6

LEMMA ReinitializedFits ==
  ASSUME ModelLoaded, RoomForDrafts, BatchKnown, shared = SharedLayers
  PROVE  LET b == Reinitialized(AllGroups, KernelSizes(AllGroups))
         IN  /\ b.blocks = BlockSizes(AllGroups) /\ b.kernels = KernelSizes(AllGroups)
             /\ DOMAIN b.widths = Cached(AllGroups)
             /\ \A i \in Cached(AllGroups) :
                  b.widths[i] \in Nat /\ b.widths[i] >= Width(AllGroups[i])
<1> DEFINE gs == AllGroups
           sizes == BlockSizes(gs)
           ks == KernelSizes(gs)
           b == Reinitialized(gs, ks)
<1>1. b = IF sizes = batch.blocks /\ ks = batch.kernels THEN batch
          ELSE [blocks |-> sizes, kernels |-> ks, widths |-> [i \in DOMAIN sizes |-> Width(gs[i])]]
  BY DEF Reinitialized, BlockSizes
<1>2. DOMAIN sizes = Cached(gs)
  BY DEF BlockSizes
<1>3. CASE ~(sizes = batch.blocks /\ ks = batch.kernels)
  <2>1. b = [blocks |-> sizes, kernels |-> ks, widths |-> [i \in DOMAIN sizes |-> Width(gs[i])]]
    BY <1>1, <1>3
  <2>2. \A i \in Cached(gs) : Width(gs[i]) \in Nat
    <3>1. maxLen \in Nat \ {0}
      BY SetupAssumption DEF BatchKnown
    <3>2. \A i \in Cached(gs) : /\ gs[i].spec.block_size \in Nat \ {0}
                                /\ gs[i].spec.type = "mamba" => gs[i].spec.spec_blocks \in Nat
      BY CachedGroups
    <3> HIDE DEF gs
    <3> QED  BY <3>1, <3>2, WidthIsNatural
  <2>3. /\ b.blocks = sizes /\ b.kernels = ks /\ DOMAIN b.widths = DOMAIN sizes
        /\ \A i \in DOMAIN sizes : b.widths[i] = Width(gs[i])
    <3> HIDE DEF b, gs, sizes, ks
    <3> QED  BY <2>1
  <2>4. ASSUME NEW i \in Cached(gs) PROVE b.widths[i] \in Nat /\ b.widths[i] >= Width(gs[i])
    <3>1. b.widths[i] = Width(gs[i]) /\ Width(gs[i]) \in Nat
      BY <1>2, <2>2, <2>3
    <3> QED  BY <3>1
  <2> QED  BY <1>2, <2>3, <2>4
<1>4. CASE sizes = batch.blocks /\ ks = batch.kernels
  <2>1. b = batch
    BY <1>1, <1>4
  <2>2. CASE MadeForGroups
    BY <2>1, <2>2 DEF MadeForGroups
  <2>3. ASSUME NEW p \in Placeholders, NEW l \in MaxLens, l >= maxLen, batch = PlaceholderBatch(p, l)
        PROVE  /\ DOMAIN batch.widths = Cached(gs)
               /\ \A i \in Cached(gs) : batch.widths[i] \in Nat /\ batch.widths[i] >= Width(gs[i])
    <3>1. batch.blocks = <<p>> /\ batch.widths = [i \in DOMAIN <<p>> |-> CeilDiv(l, p)]
      BY <2>3 DEF PlaceholderBatch
    <3>2. /\ Cached(gs) = {1}
          /\ CeilDiv(l, p) \in Nat /\ CeilDiv(l, p) >= Width(gs[1])
      BY <1>4, <2>3, <3>1, PlaceholderIsWide DEF BatchKnown
    <3>3. DOMAIN <<p>> = {1}
      OBVIOUS
    <3> HIDE DEF gs
    <3> QED  BY <3>1, <3>2, <3>3
  <2> QED  BY <1>4, <2>1, <2>2, <2>3 DEF BatchKnown
<1> QED  BY <1>3, <1>4

(* Serving starts with tables that fit the cache.                            *)
LEMMA InitializeTables ==
  ASSUME ModelLoaded, RoomForDrafts, BatchKnown, shared = SharedLayers,
         UNCHANGED <<model, maxLen, shared>>, NEW num \in Nat, NEW gen,
         InitializeKVCache(num, gen, "ready"), stage' = "ready"
  PROVE  TablesFitTheCache'
<1> DEFINE gs  == AllGroups
           ags == AttnGroups(gs, eligible \cup Eligible)
           cs  == Caches(gs, ags, num, gen)
<1>1. ~Raises(gs, ags, num, gen)
  BY DEF InitializeKVCache
<1>2. /\ groups' = gs /\ kernels' = KernelSizes(gs)
      /\ batch' = Reinitialized(gs, KernelSizes(gs))
      /\ bound' = [n \in Owners(gs) \cup DOMAIN shared |->
                     cs[IF n \in Owners(gs) THEN n ELSE shared[n]]]
  BY <1>1 DEF InitializeKVCache
<1>3. Owners(gs) = UNION model.tensors
  BY <1>1 DEF Raises
<1>4. /\ batch'.blocks = BlockSizes(gs) /\ batch'.kernels = KernelSizes(gs)
      /\ DOMAIN batch'.widths = Cached(gs)
      /\ \A i \in Cached(gs) : batch'.widths[i] \in Nat /\ batch'.widths[i] >= Width(gs[i])
  BY <1>2, ReinitializedFits
<1>5. DOMAIN kernels' = Cached(gs)
  BY <1>2 DEF KernelSizes
<1>6. ASSUME NEW CONSTANT i, i \in Cached(gs)
      PROVE  /\ batch'.widths[i] >= Width(groups[i])'
             /\ batch'.blocks[i] = groups'[i].spec.block_size
  <2>1. Width(groups[i])' = Width(gs[i])
    BY <1>2 DEF Width, CeilDiv, IsAttention
  <2>2. BlockSizes(gs)[i] = gs[i].spec.block_size
    BY <1>6 DEF BlockSizes
  <2> HIDE DEF gs
  <2> QED  BY <1>2, <1>4, <1>6, <2>1, <2>2
<1>7. ASSUME NEW i \in Cached(gs), NEW n \in gs[i].names \cap DOMAIN bound',
             IsAttention(gs[i].spec)
      PROVE  bound'[n][1].blocks * batch'.kernels[i] = bound'[n][1].raw.num * batch'.blocks[i]
  <2> DEFINE B == gs[i].spec.block_size
             k == KernelSizes(gs)[i]
             o == IF n \in Owners(gs) THEN n ELSE shared[n]
  <2>1. i \in DOMAIN Base /\ i \in DOMAIN gs
    BY <1>7, CachedGroups, GroupsOfModel
  <2>2. o \in Owners(gs) /\ o \in gs[i].names
    <3>1. CASE n \in Owners(gs)
      BY <1>7, <3>1
    <3>2. CASE n \notin Owners(gs)
      <4>1. n \in DOMAIN shared /\ n \in DOMAIN model.layers /\ shared[n] \in Owners(gs)
        BY <1>2, <1>3, <1>7, <3>2, SharedFacts
      <4>2. PICK j \in DOMAIN gs : /\ n \in gs[j].names /\ shared[n] \in gs[j].names
                                   /\ \A h \in DOMAIN gs : n \in gs[h].names => h = j
        BY <1>3, <4>1, OneGroup
      <4>3. j = i
        BY <1>7, <2>1, <4>2
      <4> QED  BY <3>2, <4>1, <4>2, <4>3
    <3> QED  BY <3>1, <3>2
  <2>3. bound'[n] = cs[o]
    BY <1>2, <1>7
  <2>4. cs[o][1].raw.num = num /\ cs[o][1].blocks = num * (B \div k)
    BY <1>3, <1>7, <2>1, <2>2, ViewShape
  <2>5. k = KernelSize(gs[i])
    BY <1>7 DEF KernelSizes
  <2>6. B \in Nat \ {0} /\ k \in 1 .. B /\ B % k = 0
    BY <1>7, <2>1, <2>5, KernelChosen
  <2>7. batch'.kernels[i] = k /\ batch'.blocks[i] = B
    BY <1>4, <1>7 DEF BlockSizes
  <2> HIDE DEF B, k, o, cs, gs
  <2>8. B \div k \in Nat /\ B = (B \div k) * k
    <3>1. B \in Nat /\ k \in Nat \ {0}
      BY <2>6
    <3>2. B \div k \in Nat /\ B = (B \div k) * k + (B % k)
      BY <3>1, Division
    <3>3. (B \div k) * k \in Nat
      BY <3>1, <3>2
    <3> QED  BY <2>6, <3>2, <3>3
  <2>9. (num * (B \div k)) * k = num * ((B \div k) * k)
    BY <2>6, <2>8
  <2> QED  BY <2>3, <2>4, <2>7, <2>8, <2>9
<1> HIDE DEF gs, cs, ags
<1>8. ASSUME NEW CONSTANT i, i \in DOMAIN kernels'
      PROVE  /\ batch'.widths[i] >= Width(groups[i])'
             /\ batch'.blocks[i] = groups'[i].spec.block_size
             /\ \A n \in groups'[i].names \cap DOMAIN bound' :
                  IsAttention(groups'[i].spec) =>
                    bound'[n][1].blocks * batch'.kernels[i] = bound'[n][1].raw.num * batch'.blocks[i]
  <2>1. i \in Cached(gs) /\ groups' = gs
    BY <1>2, <1>5, <1>8
  <2>2. /\ batch'.widths[i] >= Width(groups[i])'
        /\ batch'.blocks[i] = groups'[i].spec.block_size
    BY <1>6, <2>1
  <2>3. \A n \in gs[i].names \cap DOMAIN bound' :
          IsAttention(gs[i].spec) =>
            bound'[n][1].blocks * batch'.kernels[i] = bound'[n][1].raw.num * batch'.blocks[i]
    BY <1>7, <2>1
  <2> QED  BY <2>1, <2>2, <2>3
<1>9. DOMAIN batch'.widths = DOMAIN kernels'
  BY <1>4, <1>5
<1> QED  BY <1>8, <1>9 DEF TablesFitTheCache, IsAttention

LEMMA GroupsStable ==
  ASSUME model' = model, shared' = shared
  PROVE  /\ AllGroups' = AllGroups /\ SharedLayers' = SharedLayers
         /\ BlockSizes(AllGroups)' = BlockSizes(AllGroups)
         /\ KernelSizes(AllGroups)' = KernelSizes(AllGroups)
         /\ Cached(AllGroups)' = Cached(AllGroups)
<1>1. EncoderOnly' = EncoderOnly /\ SharedLayers' = SharedLayers
  BY DEF EncoderOnly, SharedLayers, ModelLayers, Layer
<1>2. AllGroups' = AllGroups
  BY <1>1 DEF AllGroups, WithShared, WithEncoderOnly, Layer
<1>3. Cached(AllGroups)' = Cached(AllGroups)
  BY <1>2 DEF Cached
<1>4. BlockSizes(AllGroups)' = BlockSizes(AllGroups)
  BY <1>2, <1>3 DEF BlockSizes
<1>5. KernelSizes(AllGroups)' = KernelSizes(AllGroups)
  BY <1>2, <1>3 DEF KernelSizes, KernelSize, BackendsOf, Layer, IsAttention
<1> QED  BY <1>1, <1>2, <1>3, <1>4, <1>5

(* A batch made for the groups stays one when max_model_len shrinks.         *)
LEMMA BatchStaysMade ==
  ASSUME ModelLoaded, MadeForGroups, UNCHANGED <<model, shared, batch>>,
         maxLen \in Nat \ {0}, maxLen' \in Nat \ {0}, maxLen' <= maxLen
  PROVE  MadeForGroups'
<1>1. /\ AllGroups' = AllGroups
      /\ BlockSizes(AllGroups)' = BlockSizes(AllGroups)
      /\ KernelSizes(AllGroups)' = KernelSizes(AllGroups)
      /\ Cached(AllGroups)' = Cached(AllGroups)
  BY GroupsStable
<1>2. ASSUME NEW CONSTANT i, i \in Cached(AllGroups)
      PROVE  batch.widths[i] \in Nat /\ batch.widths[i] >= Width(AllGroups[i])'
  <2>1. PICK g : g = AllGroups[i]
    OBVIOUS
  <2>2. Width(AllGroups[i])' = Width(g)'
    BY <1>1, <2>1 DEF Width, CeilDiv, IsAttention
  <2>3. g.spec.block_size \in Nat \ {0} /\ (g.spec.type = "mamba" => g.spec.spec_blocks \in Nat)
    BY <1>2, <2>1, CachedGroups
  <2>4. Width(g)' <= Width(g)
    BY <2>3, WidthShrinks
  <2>5. Width(g) \in Nat
    BY <2>3, WidthIsNatural
  <2>6. Width(g)' \in Nat
    <3>1. CeilDiv(maxLen', g.spec.block_size) \in Nat
      BY <2>3, CeilDivGrows
    <3>2. Width(g)' = IF IsAttention(g.spec) THEN CeilDiv(maxLen', g.spec.block_size)
                      ELSE (IF model.prefix_caching THEN CeilDiv(maxLen', g.spec.block_size) ELSE 1)
                             + g.spec.spec_blocks
      BY DEF Width, CeilDiv, IsAttention
    <3>3. CASE IsAttention(g.spec)
      BY <3>1, <3>2, <3>3
    <3>4. CASE ~IsAttention(g.spec)
      <4>1. g.spec.spec_blocks \in Nat
        BY <2>3, <3>4 DEF IsAttention
      <4>2. PICK u : u = (IF model.prefix_caching THEN CeilDiv(maxLen', g.spec.block_size) ELSE 1)
        OBVIOUS
      <4>3. Width(g)' = u + g.spec.spec_blocks /\ u \in Nat
        BY <3>1, <3>2, <3>4, <4>2
      <4> QED  BY <4>1, <4>3
    <3> QED  BY <3>3, <3>4
  <2>7. batch.widths[i] \in Nat /\ batch.widths[i] >= Width(g)
    BY <1>2, <2>1 DEF MadeForGroups
  <2> QED  BY <2>2, <2>4, <2>5, <2>6, <2>7
<1>3. \A i \in Cached(AllGroups)' : batch'.widths[i] \in Nat /\ batch'.widths[i] >= Width(AllGroups[i])'
  BY <1>1, <1>2
<1> QED  BY <1>1, <1>3 DEF MadeForGroups

(* The batch is that of the construction or made for the groups, through the *)
(* profiling run, its clean-up, and every new max_model_len.                 *)
LEMMA BatchStaysKnown ==
  ASSUME CacheIInv, RoomForDrafts, BatchKnown, [CacheNext]_cacheVars
  PROVE  BatchKnown'
<1>0. ModelLoaded /\ maxLen \in MaxLens /\ MaxLens \subseteq Nat \ {0}
  BY SetupAssumption DEF CacheIInv, BatchKnown
<1>1. ASSUME UNCHANGED <<model, shared, batch>>, maxLen' \in MaxLens, maxLen' <= maxLen
      PROVE  BatchKnown'
  <2>1. CASE shared = SharedLayers /\ MadeForGroups
    <3>1. MadeForGroups'
      BY <1>0, <1>1, <2>1, BatchStaysMade
    <3>2. shared' = SharedLayers'
      BY <1>1, <2>1, GroupsStable
    <3> QED  BY <1>1, <3>1, <3>2 DEF BatchKnown
  <2>2. ASSUME NEW p \in Placeholders, NEW l \in MaxLens, l >= maxLen, batch = PlaceholderBatch(p, l)
        PROVE  BatchKnown'
    <3>1. l >= maxLen' /\ batch' = PlaceholderBatch(p, l)
      BY <1>0, <1>1, <2>2
    <3> QED  BY <1>1, <3>1 DEF BatchKnown, PlaceholderBatch, CeilDiv
  <2> QED  BY <2>1, <2>2 DEF BatchKnown
<1>2. ASSUME shared = SharedLayers, UNCHANGED <<model, maxLen, shared>>,
             NEW num, NEW gen, NEW next, InitializeKVCache(num, gen, next)
      PROVE  BatchKnown'
  <2>1. CASE batch' = batch
    BY <1>0, <1>1, <1>2, <2>1
  <2>2. CASE batch' = Reinitialized(AllGroups, KernelSizes(AllGroups))
    <3>1. /\ batch'.blocks = BlockSizes(AllGroups) /\ batch'.kernels = KernelSizes(AllGroups)
          /\ DOMAIN batch'.widths = Cached(AllGroups)
          /\ \A i \in Cached(AllGroups) :
               batch'.widths[i] \in Nat /\ batch'.widths[i] >= Width(AllGroups[i])
      BY <1>0, <1>2, <2>2, ReinitializedFits
    <3>2. /\ AllGroups' = AllGroups /\ SharedLayers' = SharedLayers
          /\ BlockSizes(AllGroups)' = BlockSizes(AllGroups)
          /\ KernelSizes(AllGroups)' = KernelSizes(AllGroups)
          /\ Cached(AllGroups)' = Cached(AllGroups)
      BY <1>2, GroupsStable
    <3>3. ASSUME NEW CONSTANT i, i \in Cached(AllGroups)
          PROVE  Width(AllGroups[i])' = Width(AllGroups[i])
      BY <1>2, <3>2 DEF Width, CeilDiv, IsAttention
    <3>4. MadeForGroups'
      BY <3>1, <3>2, <3>3 DEF MadeForGroups
    <3> QED  BY <1>0, <1>2, <3>2, <3>4 DEF BatchKnown
  <2> QED  BY <1>2, <2>1, <2>2 DEF InitializeKVCache
<1>3. CASE GetKVCacheSpec
  <2>1. PICK p \in Placeholders, l \in MaxLens : l >= maxLen /\ batch = PlaceholderBatch(p, l)
    BY <1>3 DEF GetKVCacheSpec, BatchKnown
  <2>2. maxLen' = maxLen /\ batch' = batch
    BY <1>3 DEF GetKVCacheSpec
  <2> QED  BY <1>0, <2>1, <2>2 DEF BatchKnown, PlaceholderBatch, CeilDiv
<1>4. CASE StartProfiling
  BY <1>2, <1>4 DEF StartProfiling
<1>5. CASE SkipProfiling \/ CaptureForProfile \/ EndProfiling \/ CaptureModel \/ Shutdown
  <2>1. UNCHANGED <<model, shared, batch, maxLen>>
    BY <1>5 DEF SkipProfiling, CaptureForProfile, EndProfiling, CaptureModel, Shutdown, Cleanup, layout
  <2> QED  BY <1>0, <1>1, <2>1
<1>6. CASE UpdateMaxModelLen
  <2>1. UNCHANGED <<model, shared, batch>> /\ maxLen' \in MaxLens /\ maxLen' < maxLen
    BY <1>6 DEF UpdateMaxModelLen, layout
  <2> QED  BY <1>0, <1>1, <2>1
<1>7. CASE Initialize
  BY <1>2, <1>7 DEF Initialize
<1>8. CASE UNCHANGED cacheVars
  <2>1. UNCHANGED <<model, shared, batch, maxLen>>
    BY <1>8 DEF cacheVars, layout
  <2> QED  BY <1>0, <1>1, <2>1
<1> QED  BY <1>3, <1>4, <1>5, <1>6, <1>7, <1>8 DEF CacheNext

LEMMA TablesStay ==
  ASSUME UNCHANGED <<model, maxLen, layout, batch>>, TablesFitTheCache, Serving
  PROVE  TablesFitTheCache'
<1>1. /\ model' = model /\ maxLen' = maxLen /\ batch' = batch /\ groups' = groups
      /\ kernels' = kernels /\ bound' = bound
  BY DEF layout
<1> QED  BY <1>1 DEF TablesFitTheCache, Width, CeilDiv, IsAttention

(* A row of a block table has room for every block of the longest request,   *)
(* in every group, and splits blocks as the cache does: for every model and  *)
(* every way the engine may profile and shrink max_model_len, if the runner  *)
(* is not constructed with the block size of a model of draft-aware Mamba    *)
(* layers alone.                                                             *)
THEOREM TablesAlwaysFit ==
  ASSUME RoomForDrafts
  PROVE  CacheSpec => []TablesFitTheCache
<1>1. CacheSpec => []CacheIInv
  BY CacheInitIInv, CacheNextIInv, PTL DEF CacheSpec
<1>2. CacheInit => BatchKnown /\ TablesFitTheCache
  <2> SUFFICES ASSUME CacheInit PROVE BatchKnown /\ TablesFitTheCache
    OBVIOUS
  <2>1. PICK p \in Placeholders : batch = NewBatch(<<p>>, <<p>>)
    BY DEF CacheInit
  <2>2. batch = PlaceholderBatch(p, maxLen)
    <3>1. \A i \in DOMAIN <<p>> : <<p>>[i] = p
      OBVIOUS
    <3> QED  BY <2>1, <3>1 DEF NewBatch, PlaceholderBatch
  <2>3. maxLen \in MaxLens /\ maxLen >= maxLen
    BY SetupAssumption DEF CacheInit
  <2>4. TablesFitTheCache
    BY DEF CacheInit, TablesFitTheCache, Serving
  <2> QED  BY <2>2, <2>3, <2>4 DEF BatchKnown
<1>3. CacheIInv /\ BatchKnown /\ TablesFitTheCache /\ [CacheNext]_cacheVars
        => BatchKnown' /\ TablesFitTheCache'
  <2> SUFFICES ASSUME CacheIInv, BatchKnown, TablesFitTheCache, [CacheNext]_cacheVars
               PROVE  BatchKnown' /\ TablesFitTheCache'
    OBVIOUS
  <2>0. BatchKnown'
    BY BatchStaysKnown
  <2>1. CASE stage' \notin {"ready", "serving"}
    BY <2>0, <2>1, NotServing
  <2>2. CASE Serving /\ UNCHANGED <<model, maxLen, layout, batch>>
    BY <2>0, <2>2, TablesStay
  <2>3. ASSUME shared = SharedLayers, stage' = "ready", UNCHANGED <<model, requested, maxLen, shared>>,
               NEW num \in NumBlocks, InitializeKVCache(num, "real", "ready")
        PROVE  TablesFitTheCache'
    <3>1. ModelLoaded /\ num \in Nat
      BY SetupAssumption DEF CacheIInv
    <3> QED  BY <2>3, <3>1, InitializeTables
  <2> QED  BY <2>0, <2>1, <2>2, <2>3, WhoServes
<1> QED  BY <1>1, <1>2, <1>3, PTL DEF CacheSpec

-----------------------------------------------------------------------------
(* Where the elements of a block lie. Whatever the layout, a raw tensor of   *)
(* num blocks is cut into slots of one size Q, and the element x is one of   *)
(* the block (x \div Q) % num.                                               *)
InBlock(x, Q, num, b) == (x \div Q) % num = b

LEMMA SlotOfElement ==
  ASSUME NEW Q \in Nat \ {0}, NEW num \in Nat \ {0}, NEW b \in 0 .. num - 1,
         NEW half \in Nat, NEW r \in 0 .. Q - 1, NEW x \in Nat,
         x = (half * num + b) * Q + r
  PROVE  InBlock(x, Q, num, b)
<1>1. half * num \in Nat /\ half * num + b \in Nat
  OBVIOUS
<1>2. x \div Q = half * num + b
  BY <1>1, Unique
<1>3. (half * num + b) % num = b
  BY Unique
<1> QED  BY <1>2, <1>3 DEF InBlock

(* The element rest of kernel block k, which is one of those that block b is *)
(* split into.                                                               *)
LEMMA InKernelBlock ==
  ASSUME NEW ratio \in Nat \ {0}, NEW size \in Nat \ {0}, NEW b \in Nat,
         NEW k \in ratio * b .. ratio * b + ratio - 1, NEW rest \in 0 .. size - 1
  PROVE  \E r \in 0 .. ratio * size - 1 : k * size + rest = b * (ratio * size) + r
<1> DEFINE d == k - ratio * b
           r == d * size + rest
<1>1. ratio * b \in Nat /\ k \in Nat /\ d \in 0 .. ratio - 1 /\ k = ratio * b + d
  OBVIOUS
<1> HIDE DEF d
<1>2. k * size = (ratio * b) * size + d * size
  BY <1>1
<1>3. (ratio * b) * size = b * (ratio * size)
  BY <1>1
<1>4. (d + 1) * size <= ratio * size /\ (d + 1) * size = d * size + size
  BY <1>1, Monotone, Successor
<1>5. d * size \in Nat /\ ratio * size \in Nat /\ b * (ratio * size) \in Nat
  BY <1>1
<1>6. r \in 0 .. ratio * size - 1
  BY <1>4, <1>5
<1>7. k * size + rest = b * (ratio * size) + r
  BY <1>1, <1>2, <1>3, <1>5
<1> QED  BY <1>6, <1>7

(* A view whose elements lie within the stride of their kernel block.        *)
BlocksFirst(v, ratio) ==
  /\ v.block_stride \in Nat \ {0}
  /\ \A h \in 0 .. v.halves - 1, e \in 0 .. v.tokens * v.cell - 1 :
       v.offset + h * v.half_stride + e \in 0 .. v.block_stride - 1

LEMMA BlocksFirstSlots ==
  ASSUME NEW v, NEW ratio \in Nat \ {0}, BlocksFirst(v, ratio),
         v.offset \in Nat, v.halves \in Nat, v.half_stride \in Nat, v.tokens * v.cell \in Nat,
         NEW num \in Nat \ {0}, NEW b \in 0 .. num - 1, NEW x \in Footprint(v, b, ratio),
         NEW elements \in Nat, num * (ratio * v.block_stride) <= elements
  PROVE  x \in 0 .. elements - 1 /\ InBlock(x, ratio * v.block_stride, num, b)
<1> DEFINE Q == ratio * v.block_stride
           S == v.block_stride
<1>1. PICK h \in 0 .. v.halves - 1, k \in ratio * b .. ratio * b + ratio - 1,
           e \in 0 .. v.tokens * v.cell - 1 :
             x = v.offset + h * v.half_stride + k * v.block_stride + e
  BY DEF Footprint
<1>2. PICK rest : rest = v.offset + h * v.half_stride + e
  OBVIOUS
<1>3. rest \in 0 .. S - 1 /\ S \in Nat \ {0}
  BY <1>2 DEF BlocksFirst
<1>4. x = k * S + rest
  <2>1. h * v.half_stride \in Nat /\ k * S \in Int
    <3>1. h \in Nat /\ k \in Int
      OBVIOUS
    <3> QED  BY <1>3, <3>1
  <2> QED  BY <1>1, <1>2, <2>1
<1> HIDE DEF S
<1>5. PICK r \in 0 .. ratio * S - 1 : k * S + rest = b * (ratio * S) + r
  BY <1>3, InKernelBlock
<1>6. Q = ratio * S /\ Q \in Nat \ {0}
  BY <1>3 DEF S
<1> HIDE DEF Q
<1>7. x = b * Q + r /\ r \in 0 .. Q - 1 /\ b \in Nat
  BY <1>4, <1>5, <1>6
<1>8. b * Q \in Nat /\ x \in Nat
  BY <1>6, <1>7
<1>9. (b + 1) * Q <= num * Q /\ (b + 1) * Q = b * Q + Q
  BY <1>6, <1>7, Monotone, Successor
<1>10. num * Q <= elements /\ num * Q \in Nat
  BY <1>6 DEF S
<1>11. x \in 0 .. elements - 1
  BY <1>6, <1>7, <1>8, <1>9, <1>10
<1>12. x = (0 * num + b) * Q + r
  BY <1>7
<1>13. InBlock(x, Q, num, b)
  BY <1>6, <1>7, <1>8, <1>12, SlotOfElement
<1> QED  BY <1>11, <1>13 DEF Q

(* A view that starts with the two halves, each of them all blocks.          *)
LEMMA HalvesFirstSlots ==
  ASSUME NEW v, NEW ratio \in Nat \ {0}, NEW num \in Nat \ {0}, NEW size \in Nat \ {0},
         v.offset = 0, v.halves = 2, v.half_stride = num * ratio * size,
         v.block_stride = size, v.tokens * v.cell = size,
         NEW b \in 0 .. num - 1, NEW x \in Footprint(v, b, ratio),
         NEW elements \in Nat, 2 * num * ratio * size <= elements
  PROVE  x \in 0 .. elements - 1 /\ InBlock(x, ratio * size, num, b)
<1> DEFINE Q == ratio * size
<1>1. PICK h \in 0 .. v.halves - 1, k \in ratio * b .. ratio * b + ratio - 1,
           e \in 0 .. v.tokens * v.cell - 1 :
             x = v.offset + h * v.half_stride + k * v.block_stride + e
  BY DEF Footprint
<1>2. h \in 0 .. 1 /\ e \in 0 .. size - 1 /\ k \in Int /\ b \in Nat
  BY <1>1
<1>3. PICK r \in 0 .. ratio * size - 1 : k * size + e = b * (ratio * size) + r
  BY <1>2, InKernelBlock
<1>4. Q \in Nat \ {0} /\ Q = ratio * size
  OBVIOUS
<1>5. num * ratio * size = num * Q /\ 2 * num * ratio * size = (2 * num) * Q
  OBVIOUS
<1>6. h * (num * Q) = (h * num) * Q /\ (h * num) * Q + b * Q = (h * num + b) * Q
  BY <1>2, <1>4
<1> HIDE DEF Q
<1>7. x = h * (num * Q) + k * size + e
  <2>1. h * (num * Q) \in Nat /\ k * size \in Int
    BY <1>2, <1>4
  <2> QED  BY <1>1, <1>2, <1>5, <2>1
<1>8. x = (h * num + b) * Q + r /\ r \in 0 .. Q - 1
  <2>1. h * (num * Q) \in Nat /\ k * size \in Int /\ b * Q \in Nat
    BY <1>2, <1>4
  <2> QED  BY <1>2, <1>3, <1>4, <1>6, <1>7, <2>1
<1>9. h * num + b \in Nat /\ h * num + b + 1 <= 2 * num
  BY <1>2
<1>10. (h * num + b) * Q \in Nat /\ x \in Nat
  BY <1>4, <1>8, <1>9
<1>11. /\ (h * num + b + 1) * Q <= (2 * num) * Q
       /\ (h * num + b + 1) * Q = (h * num + b) * Q + Q
  BY <1>4, <1>9, Monotone, Successor
<1>12. x \in 0 .. elements - 1
  <2>1. (2 * num) * Q \in Nat /\ (h * num + b + 1) * Q \in Nat
    BY <1>4, <1>9
  <2> QED  BY <1>4, <1>5, <1>8, <1>10, <1>11, <2>1
<1>13. InBlock(x, Q, num, b)
  BY <1>2, <1>4, <1>8, <1>10, SlotOfElement
<1> QED  BY <1>12, <1>13 DEF Q

(* All elements of all blocks of a view are where its slots say.             *)
Slotted(v, Q, num) ==
  \A b \in 0 .. num - 1 : \A x \in Footprint(v, b, v.blocks \div num) :
    x \in 0 .. v.raw.elements - 1 /\ InBlock(x, Q, num, b)

LEMMA Ratio ==
  ASSUME NEW num \in Nat \ {0}, NEW ratio \in Nat
  PROVE  (num * ratio) \div num = ratio
<1>1. ratio * num + 0 = num * ratio
  OBVIOUS
<1>2. (ratio * num + 0) \div num = ratio
  BY Unique
<1> QED  BY <1>1, <1>2

LEMMA SameFactor ==
  ASSUME NEW n \in Nat \ {0}, NEW a \in Nat, NEW b \in Nat, a * n = b * n
  PROVE  a = b
<1>1. ASSUME NEW c \in Nat, NEW d \in Nat, c < d PROVE c * n < d * n
  <2>1. (c + 1) * n <= d * n /\ (c + 1) * n = c * n + n
    BY <1>1, Monotone, Successor
  <2>2. c * n \in Nat /\ d * n \in Nat
    OBVIOUS
  <2> QED  BY <2>1, <2>2
<1>2. a * n \in Nat /\ b * n \in Nat
  OBVIOUS
<1> QED  BY <1>1, <1>2

(* A kernel block of one or two parts of size elements, one after the other. *)
LEMMA PartsFit ==
  ASSUME NEW halves \in {1, 2}, NEW size \in Nat \ {0}, NEW h \in 0 .. halves - 1,
         NEW e \in 0 .. size - 1
  PROVE  0 + h * size + e \in 0 .. halves * size - 1
<1>1. CASE halves = 1
  <2>1. h = 0
    BY <1>1
  <2> QED  BY <1>1, <2>1
<1>2. CASE halves = 2
  <2>1. h = 0 \/ h = 1
    BY <1>2
  <2>2. 0 * size = 0 /\ 1 * size = size /\ 2 * size = size + size
    OBVIOUS
  <2> QED  BY <1>2, <2>1, <2>2
<1> QED  BY <1>1, <1>2

(* The block index first, no padding: ratio kernel blocks fill a page.       *)
LEMMA PlainSlots ==
  ASSUME NEW v, NEW halves \in {1, 2}, NEW size \in Nat \ {0}, NEW ratio \in Nat \ {0},
         NEW num \in Nat \ {0}, NEW page \in Nat \ {0},
         v.halves = halves, v.offset = 0, v.half_stride = size, v.block_stride = halves * size,
         v.tokens * v.cell = size, v.blocks = num * ratio, v.raw.elements = page * num,
         (halves * (num * ratio)) * size = page * num
  PROVE  Slotted(v, page, num)
<1> DEFINE bs == halves * size
<1>1. bs \in Nat \ {0}
  OBVIOUS
<1>2. BlocksFirst(v, ratio)
  BY <1>1, PartsFit DEF BlocksFirst
<1>3. ratio * bs = page
  <2>1. (halves * (num * ratio)) * size = (ratio * bs) * num
    OBVIOUS
  <2>2. ratio * bs \in Nat
    BY <1>1
  <2> QED  BY <2>1, <2>2, SameFactor
<1>4. v.blocks \div num = ratio
  BY Ratio
<1>5. num * (ratio * v.block_stride) <= v.raw.elements /\ v.raw.elements \in Nat
  BY <1>3
<1>6. v.offset \in Nat /\ v.halves \in Nat /\ v.half_stride \in Nat /\ v.tokens * v.cell \in Nat
  OBVIOUS
<1>7. ASSUME NEW b \in 0 .. num - 1, NEW x \in Footprint(v, b, ratio)
      PROVE  x \in 0 .. v.raw.elements - 1 /\ InBlock(x, page, num, b)
  <2>1. x \in 0 .. v.raw.elements - 1 /\ InBlock(x, ratio * v.block_stride, num, b)
    BY <1>2, <1>5, <1>6, BlocksFirstSlots
  <2> QED  BY <1>3, <2>1
<1> QED  BY <1>4, <1>7 DEF Slotted

(* The block index first, padded: as_strided allows it only if no block is   *)
(* split and a block fits its page.                                          *)
LEMMA PaddedSlots ==
  ASSUME NEW v, NEW halves \in {1, 2}, NEW size \in Nat \ {0}, NEW ratio \in Nat \ {0},
         NEW num \in Nat \ {0}, NEW page \in Nat \ {0},
         v.halves = halves, v.offset = 0, v.half_stride = size, v.block_stride = page,
         v.tokens * v.cell = size, v.blocks = num * ratio, v.raw.elements = page * num,
         0 + (halves - 1) * size + ((num * ratio) - 1) * page + size <= page * num
  PROVE  Slotted(v, page, num)
<1>1. (halves - 1) * size + size = halves * size
  OBVIOUS
<1>2. (halves - 1) * size \in Nat /\ halves * size \in Nat \ {0}
  OBVIOUS
<1>3. num * ratio \in Nat \ {0}
  OBVIOUS
<1>4. ((num * ratio) - 1) * page = (num * ratio) * page - page /\ (num * ratio) * page \in Nat
  BY <1>3
<1>5. halves * size + (num * ratio) * page - page <= page * num
  BY <1>1, <1>2, <1>4
<1>6. ratio = 1
  <2> SUFFICES ASSUME ratio >= 2 PROVE FALSE
    OBVIOUS
  <2>1. num * ratio >= num + 1
    <3>1. 2 * num <= ratio * num
      BY Monotone
    <3>2. ratio * num = num * ratio /\ 2 * num = num + num
      OBVIOUS
    <3> QED  BY <3>1, <3>2
  <2>2. (num + 1) * page <= (num * ratio) * page /\ (num + 1) * page = num * page + page
    BY <1>3, <2>1, Monotone, Successor
  <2>3. num * page = page * num /\ page * num \in Nat
    OBVIOUS
  <2> QED  BY <1>2, <1>4, <1>5, <2>2, <2>3
<1>7. halves * size <= page
  <2>1. (num * ratio) * page = page * num /\ page * num \in Nat
    BY <1>6
  <2> QED  BY <1>2, <1>5, <2>1
<1>8. ASSUME NEW h \in 0 .. halves - 1, NEW e \in 0 .. size - 1
      PROVE  0 + h * size + e \in 0 .. page - 1
  <2>1. 0 + h * size + e \in 0 .. halves * size - 1
    BY PartsFit
  <2> QED  BY <1>2, <1>7, <2>1
<1>9. BlocksFirst(v, ratio)
  BY <1>8 DEF BlocksFirst
<1>10. v.blocks \div num = ratio
  BY Ratio
<1>11. num * (ratio * v.block_stride) <= v.raw.elements /\ v.raw.elements \in Nat
  BY <1>6
<1>12. v.offset \in Nat /\ v.halves \in Nat /\ v.half_stride \in Nat /\ v.tokens * v.cell \in Nat
  OBVIOUS
<1>13. ASSUME NEW b \in 0 .. num - 1, NEW x \in Footprint(v, b, ratio)
       PROVE  x \in 0 .. v.raw.elements - 1 /\ InBlock(x, page, num, b)
  <2>1. x \in 0 .. v.raw.elements - 1 /\ InBlock(x, ratio * v.block_stride, num, b)
    BY <1>9, <1>11, <1>12, BlocksFirstSlots
  <2>2. ratio * v.block_stride = page
    BY <1>6
  <2> QED  BY <2>1, <2>2
<1> QED  BY <1>10, <1>13 DEF Slotted

(* The halves first: a slot is half a page.                                  *)
LEMMA HalvesSlots ==
  ASSUME NEW v, NEW size \in Nat \ {0}, NEW ratio \in Nat \ {0},
         NEW num \in Nat \ {0}, NEW page \in Nat \ {0},
         v.halves = 2, v.offset = 0, v.half_stride = num * ratio * size, v.block_stride = size,
         v.tokens * v.cell = size, v.blocks = num * ratio, v.raw.elements = page * num,
         (2 * (num * ratio)) * size = page * num
  PROVE  \E Q \in Nat : 2 * Q = page /\ Slotted(v, Q, num)
<1> DEFINE Q == ratio * size
<1>1. Q \in Nat \ {0}
  OBVIOUS
<1>2. 2 * Q = page
  <2>1. (2 * (num * ratio)) * size = (2 * Q) * num
    OBVIOUS
  <2>2. 2 * Q \in Nat
    BY <1>1
  <2> QED  BY <2>1, <2>2, SameFactor
<1>3. 2 * num * ratio * size <= v.raw.elements /\ v.raw.elements \in Nat
  <2>1. 2 * num * ratio * size = (2 * (num * ratio)) * size
    OBVIOUS
  <2>2. page * num \in Nat
    OBVIOUS
  <2> QED  BY <2>1, <2>2
<1>4. v.blocks \div num = ratio
  BY Ratio
<1>5. ASSUME NEW b \in 0 .. num - 1, NEW x \in Footprint(v, b, ratio)
      PROVE  x \in 0 .. v.raw.elements - 1 /\ InBlock(x, Q, num, b)
  BY <1>3, HalvesFirstSlots
<1>6. Slotted(v, Q, num)
  BY <1>4, <1>5 DEF Slotted
<1> QED  BY <1>1, <1>2, <1>6

-----------------------------------------------------------------------------
(* The layouts that the runner makes.                                        *)
Halves(spec) == IF spec.type = "mla" THEN 1 ELSE 2
Tokens(spec, k) == IF spec.storage # spec.block_size THEN spec.storage ELSE k

LEMMA AttentionFields ==
  ASSUME NEW n, NEW spec, NEW raw, NEW num, NEW k
  PROVE  LET v     == AttentionViews(n, spec, raw, num, k)[1]
             first == Backends[Layer(n).backend].block_dim
             size  == Tokens(spec, k) * spec.cell
             ratio == spec.block_size \div k
         IN  /\ v.raw = raw /\ v.halves = Halves(spec) /\ v.blocks = num * ratio
             /\ v.tokens = Tokens(spec, k) /\ v.cell = spec.cell /\ v.offset = 0
             /\ first = 0 => v.half_stride = size
             /\ first # 0 /\ ~spec.padded =>
                  v.half_stride = num * ratio * size /\ v.block_stride = size
             /\ first = 0 /\ ~spec.padded => v.block_stride = Halves(spec) * size
             /\ first = 0 /\ spec.padded => v.block_stride = spec.page
             /\ DOMAIN AttentionViews(n, spec, raw, num, k) = {1}
BY DEF AttentionViews, View, Halves, Tokens

(* The specs and the kernel block sizes that layers have.                    *)
Sized(n, k) ==
  LET spec == Layer(n).spec
  IN  /\ {spec.storage, spec.cell, spec.page} \subseteq Nat \ {0} /\ spec.padded \in BOOLEAN
      /\ Backends[Layer(n).backend].block_dim \in {0, 1}
      /\ spec.padded \/ spec.type = "mla" => Backends[Layer(n).backend].block_dim = 0
      /\ spec.block_size \in Nat \ {0} /\ k \in 1 .. spec.block_size
      /\ spec.block_size % k = 0

LEMMA SizedFacts ==
  ASSUME NEW n, NEW k, Sized(n, k)
  PROVE  LET spec == Layer(n).spec
         IN  /\ spec.block_size \div k \in Nat \ {0}
             /\ (spec.block_size \div k) * k = spec.block_size
             /\ Tokens(spec, k) * spec.cell \in Nat \ {0}
             /\ Halves(spec) \in {1, 2}
<1> DEFINE spec == Layer(n).spec
           B == spec.block_size
           q == B \div k
<1>1. B \in Nat \ {0} /\ k \in Nat \ {0} /\ B % k = 0
  BY DEF Sized
<1> HIDE DEF spec
<1>2. q \in Nat /\ B = q * k + 0
  <2>1. B \in Nat
    BY <1>1
  <2> QED  BY <1>1, <2>1, Division
<1> HIDE DEF q
<1>3. q # 0
  BY <1>1, <1>2
<1>4. q * k = B
  <2>1. q * k \in Nat
    BY <1>1, <1>2
  <2> QED  BY <1>2, <2>1
<1>5. Tokens(spec, k) \in Nat \ {0} /\ spec.cell \in Nat \ {0}
  BY <1>1 DEF Sized, Tokens, spec
<1>6. Tokens(spec, k) * spec.cell \in Nat \ {0}
  <2>1. PICK t, c : t = Tokens(spec, k) /\ c = spec.cell
    OBVIOUS
  <2>2. t \in Nat \ {0} /\ c \in Nat \ {0}
    BY <1>5, <2>1
  <2>3. t * c \in Nat \ {0}
    BY <2>2
  <2> QED  BY <2>1, <2>3
<1>7. Halves(spec) \in {1, 2}
  BY DEF Halves
<1> QED  BY <1>2, <1>3, <1>4, <1>6, <1>7 DEF spec, q

(* The view that the backend's shape gives a layer.                          *)
LEMMA AttentionSlots ==
  ASSUME NEW n, NEW raw, NEW num \in Nat \ {0}, NEW k, Sized(n, k),
         raw.elements = Layer(n).spec.page * num,
         Fits(AttentionViews(n, Layer(n).spec, raw, num, k)[1], Layer(n).spec.padded)
  PROVE  LET v    == AttentionViews(n, Layer(n).spec, raw, num, k)[1]
             page == Layer(n).spec.page
         IN  IF Backends[Layer(n).backend].block_dim = 0 THEN Slotted(v, page, num)
             ELSE \E Q \in Nat : 2 * Q = page /\ Slotted(v, Q, num)
<1> DEFINE spec  == Layer(n).spec
           v     == AttentionViews(n, spec, raw, num, k)[1]
           first == Backends[Layer(n).backend].block_dim
           size  == Tokens(spec, k) * spec.cell
           ratio == spec.block_size \div k
           page  == spec.page
           halves == Halves(spec)
<1>1. /\ v.raw = raw /\ v.halves = halves /\ v.blocks = num * ratio
      /\ v.tokens = Tokens(spec, k) /\ v.cell = spec.cell /\ v.offset = 0
      /\ first = 0 => v.half_stride = size
      /\ first # 0 /\ ~spec.padded =>
           v.half_stride = num * ratio * size /\ v.block_stride = size
      /\ first = 0 /\ ~spec.padded => v.block_stride = halves * size
      /\ first = 0 /\ spec.padded => v.block_stride = page
  <2> HIDE DEF spec
  <2> QED  BY AttentionFields
<1>2. ratio \in Nat \ {0} /\ size \in Nat \ {0} /\ halves \in {1, 2}
  BY SizedFacts
<1>3. page \in Nat \ {0} /\ first \in {0, 1} /\ spec.padded \in BOOLEAN
  BY DEF Sized
<1>4. first # 0 => ~spec.padded /\ halves = 2
  BY DEF Sized, Halves
<1>5. v.tokens * v.cell = size
  BY <1>1
<1>6. ~spec.padded => (halves * (num * ratio)) * size = page * num
  <2>1. ~spec.padded => v.halves * v.blocks * v.tokens * v.cell = v.raw.elements
    BY DEF Fits
  <2>2. PICK t, c : t = Tokens(spec, k) /\ c = spec.cell
    OBVIOUS
  <2>3. t \in Nat /\ c \in Nat
    BY <2>2 DEF Sized, Tokens
  <2>4. size = t * c
    BY <2>2
  <2>5. v.halves * v.blocks * v.tokens * v.cell = halves * (num * ratio) * t * c
    <3> HIDE DEF v, halves, ratio
    <3> QED  BY <1>1, <2>2
  <2> HIDE DEF v, halves, ratio, size, page, spec
  <2>6. halves * (num * ratio) * t * c = (halves * (num * ratio)) * (t * c)
    BY <1>2, <2>3
  <2> QED  BY <1>1, <2>1, <2>4, <2>5, <2>6 DEF page, spec
<1>7. spec.padded => 0 + (halves - 1) * size + ((num * ratio) - 1) * page + size <= page * num
  <2> SUFFICES ASSUME spec.padded
               PROVE  0 + (halves - 1) * size + ((num * ratio) - 1) * page + size <= page * num
    OBVIOUS
  <2>1. Extent(v) <= v.raw.elements
    BY DEF Fits
  <2>2. first = 0
    BY <1>4
  <2>3. v.half_stride = size /\ v.block_stride = page
    BY <1>1, <2>2
  <2>4. Extent(v) = v.offset + (v.halves - 1) * v.half_stride
                      + (v.blocks - 1) * v.block_stride + v.tokens * v.cell
    BY DEF Extent
  <2>5. Extent(v) = 0 + (halves - 1) * size + ((num * ratio) - 1) * page + size
    <3> HIDE DEF v, halves, ratio, size, page
    <3> QED  BY <1>1, <1>5, <2>3, <2>4
  <2> QED  BY <1>1, <2>1, <2>5
<1>8. v.raw.elements = page * num
  BY <1>1
<1>9. CASE first = 0 /\ ~spec.padded
  <2> HIDE DEF v, halves, ratio, size, page, spec, first
  <2>2. /\ v.halves = halves /\ v.offset = 0 /\ v.half_stride = size
        /\ v.block_stride = halves * size /\ v.blocks = num * ratio
    BY <1>1, <1>9
  <2>3. (halves * (num * ratio)) * size = page * num
    BY <1>6, <1>9
  <2>4. halves \in {1, 2} /\ size \in Nat \ {0} /\ ratio \in Nat \ {0} /\ page \in Nat \ {0}
        /\ num \in Nat \ {0}
    BY <1>2, <1>3
  <2>1. Slotted(v, page, num)
    BY ONLY <1>5, <1>8, <2>2, <2>3, <2>4, PlainSlots
  <2> QED  BY <1>9, <2>1 DEF v, page, spec, first
<1>10. CASE first = 0 /\ spec.padded
  <2> HIDE DEF v, halves, ratio, size, page, spec, first
  <2>2. /\ v.halves = halves /\ v.offset = 0 /\ v.half_stride = size
        /\ v.block_stride = page /\ v.blocks = num * ratio
    BY <1>1, <1>10
  <2>3. 0 + (halves - 1) * size + ((num * ratio) - 1) * page + size <= page * num
    BY <1>7, <1>10
  <2>4. halves \in {1, 2} /\ size \in Nat \ {0} /\ ratio \in Nat \ {0} /\ page \in Nat \ {0}
        /\ num \in Nat \ {0}
    BY <1>2, <1>3
  <2>1. Slotted(v, page, num)
    BY ONLY <1>5, <1>8, <2>2, <2>3, <2>4, PaddedSlots
  <2> QED  BY <1>10, <2>1 DEF v, page, spec, first
<1>11. CASE first # 0
  <2> HIDE DEF v, halves, ratio, size, page, spec, first
  <2>0. ~spec.padded /\ halves = 2
    BY <1>4, <1>11
  <2>2. /\ v.halves = 2 /\ v.offset = 0 /\ v.half_stride = num * ratio * size
        /\ v.block_stride = size /\ v.tokens * v.cell = size /\ v.blocks = num * ratio
        /\ v.raw.elements = page * num /\ (2 * (num * ratio)) * size = page * num
    BY <1>1, <1>5, <1>6, <1>8, <1>11, <2>0
  <2>1. \E Q \in Nat : 2 * Q = page /\ Slotted(v, Q, num)
    BY <1>2, <1>3, <2>2, HalvesSlots
  <2> QED  BY <1>11, <2>1 DEF v, page, spec, first
<1> QED  BY <1>3, <1>9, <1>10, <1>11

(* The view after the runner has moved the halves of a block together.       *)
LEMMA MovedSlots ==
  ASSUME NEW n, NEW raw, NEW num \in Nat \ {0}, NEW k, Sized(n, k),
         raw.elements = Layer(n).spec.page * num,
         Backends[Layer(n).backend].block_dim = 1,
         Fits(AttentionViews(n, Layer(n).spec, raw, num, k)[1], Layer(n).spec.padded)
  PROVE  LET v == AttentionViews(n, Layer(n).spec, raw, num, k)[1]
             hidden == v.tokens * v.cell
         IN  Slotted(View(v.raw, v.halves, v.blocks, v.tokens, v.cell, hidden, 2 * hidden, v.offset),
                     Layer(n).spec.page, num)
<1> DEFINE spec  == Layer(n).spec
           v     == AttentionViews(n, spec, raw, num, k)[1]
           size  == Tokens(spec, k) * spec.cell
           ratio == spec.block_size \div k
           page  == spec.page
           hidden == v.tokens * v.cell
           w     == View(v.raw, v.halves, v.blocks, v.tokens, v.cell, hidden, 2 * hidden, v.offset)
<1>1. /\ v.raw = raw /\ v.halves = Halves(spec) /\ v.blocks = num * ratio
      /\ v.tokens = Tokens(spec, k) /\ v.cell = spec.cell /\ v.offset = 0
  <2> HIDE DEF spec
  <2> QED  BY AttentionFields
<1>2. ratio \in Nat \ {0} /\ size \in Nat \ {0}
  BY SizedFacts
<1>3. page \in Nat \ {0} /\ ~spec.padded /\ Halves(spec) = 2
  BY DEF Sized, Halves
<1>4. (2 * (num * ratio)) * size = page * num
  <2>1. v.halves * v.blocks * v.tokens * v.cell = v.raw.elements
    BY <1>3 DEF Fits
  <2>2. PICK t, c : t = Tokens(spec, k) /\ c = spec.cell
    OBVIOUS
  <2>3. t \in Nat /\ c \in Nat
    BY <2>2 DEF Sized, Tokens
  <2>4. size = t * c
    BY <2>2
  <2>5. v.halves * v.blocks * v.tokens * v.cell = 2 * (num * ratio) * t * c
    <3> HIDE DEF v, ratio
    <3> QED  BY <1>1, <1>3, <2>2
  <2> HIDE DEF v, ratio, size, page, spec
  <2>6. 2 * (num * ratio) * t * c = (2 * (num * ratio)) * (t * c)
    BY <1>2, <2>3
  <2> QED  BY <1>1, <2>1, <2>4, <2>5, <2>6 DEF page, spec
<1>5. hidden = size
  BY <1>1
<1> HIDE DEF v, hidden
<1>6. /\ w.raw = v.raw /\ w.halves = v.halves /\ w.blocks = v.blocks /\ w.tokens = v.tokens
      /\ w.cell = v.cell /\ w.half_stride = hidden /\ w.block_stride = 2 * hidden
      /\ w.offset = v.offset
  BY DEF View
<1> HIDE DEF w
<1>7. /\ w.halves = 2 /\ w.offset = 0 /\ w.half_stride = size /\ w.block_stride = 2 * size
      /\ w.tokens * w.cell = size /\ w.blocks = num * ratio /\ w.raw.elements = page * num
  BY <1>1, <1>3, <1>5, <1>6 DEF hidden
<1> HIDE DEF size, ratio, page, spec
<1>8. Slotted(w, page, num)
  <2>1. 2 \in {1, 2}
    OBVIOUS
  <2> QED  BY <1>2, <1>3, <1>4, <1>7, <2>1, PlainSlots
<1> QED  BY <1>8 DEF w, hidden, v, page, spec

LEMMA OffsetIsSum ==
  ASSUME NEW states \in Seq(Nat), NEW i \in 1 .. Len(states) + 1
  PROVE  Offset(states, i) = SumOver(states, 1 .. i - 1) /\ Offset(states, i) \in Nat
<1> DEFINE f == [j \in 1 .. i - 1 |-> states[j]]
<1>1. IsFiniteSet(1 .. i - 1)
  BY FS_Interval
<1>2. \A j \in 1 .. i - 1 : f[j] = states[j] /\ f[j] \in Nat
  OBVIOUS
<1>3. DOMAIN f = 1 .. i - 1
  OBVIOUS
<1>4. IntOn(f, 1 .. i - 1)
  BY <1>1, <1>2 DEF IntOn
<1>5. Offset(states, i) = FoldFunction(+, 0, f)
  BY DEF Offset
<1> HIDE DEF f
<1>6. FoldFunction(+, 0, f) = SumOver(f, 1 .. i - 1)
  BY <1>3, <1>4, TotalIsSum
<1>7. SumOver(f, 1 .. i - 1) = SumOver(states, 1 .. i - 1)
  BY <1>2, <1>4, SumEqual
<1>8. SumOver(f, 1 .. i - 1) \in Nat
  BY <1>1, <1>2, SumOfNaturals
<1> QED  BY <1>5, <1>6, <1>7, <1>8

(* The states of a page follow one another.                                  *)
LEMMA OffsetsFollow ==
  ASSUME NEW states \in Seq(Nat), NEW i \in 1 .. Len(states), NEW j \in 1 .. Len(states), i < j
  PROVE  Offset(states, i) + states[i] <= Offset(states, j)
<1> DEFINE n == Len(states)
           T == {d \in Nat : i + d <= n => SumOver(states, 1 .. i) <= SumOver(states, 1 .. i + d)}
<1>0. n \in Nat /\ \A m \in 1 .. n : states[m] \in Nat
  OBVIOUS
<1>1. ASSUME NEW m \in 0 .. n
      PROVE  IntOn(states, 1 .. m) /\ SumOver(states, 1 .. m) \in Nat
  <2>1. IsFiniteSet(1 .. m)
    BY FS_Interval
  <2>2. \A x \in 1 .. m : states[x] \in Nat
    BY <1>0
  <2> QED  BY <2>1, <2>2, SumOfNaturals, SMTT(30) DEF IntOn
<1>2. ASSUME NEW m \in Nat, m + 1 <= n
      PROVE  SumOver(states, 1 .. m + 1) = SumOver(states, 1 .. m) + states[m + 1]
  <2>1. m + 1 \in 0 .. n
    BY <1>0, <1>2
  <2> QED  BY <1>1, <2>1, SumLast
<1>3. 0 \in T
  <2>1. i + 0 = i
    OBVIOUS
  <2>2. SumOver(states, 1 .. i) \in Nat
    BY <1>0, <1>1
  <2> QED  BY <2>1, <2>2
<1>4. ASSUME NEW d \in Nat, d \in T PROVE d + 1 \in T
  <2> SUFFICES ASSUME i + (d + 1) <= n
               PROVE  SumOver(states, 1 .. i) <= SumOver(states, 1 .. i + (d + 1))
    OBVIOUS
  <2>1. SumOver(states, 1 .. i) <= SumOver(states, 1 .. i + d)
    BY <1>0, <1>4
  <2>2. PICK m : m = i + d
    OBVIOUS
  <2>3. m \in Nat /\ m + 1 <= n /\ m + 1 = i + (d + 1) /\ m \in 0 .. n /\ i \in 0 .. n
    BY <1>0, <2>2
  <2>4. SumOver(states, 1 .. m + 1) = SumOver(states, 1 .. m) + states[m + 1]
    BY <1>2, <2>3
  <2>5. SumOver(states, 1 .. m) \in Nat /\ states[m + 1] \in Nat /\ SumOver(states, 1 .. i) \in Nat
    BY <1>0, <1>1, <2>3
  <2>6. SumOver(states, 1 .. i) <= SumOver(states, 1 .. m)
    BY <2>1, <2>2
  <2>7. SumOver(states, 1 .. i) <= SumOver(states, 1 .. m + 1)
    BY <2>4, <2>5, <2>6, SMTT(30)
  <2> QED  BY <2>3, <2>7
<1>5. \A d \in Nat : d \in T
  <2> HIDE DEF T
  <2> QED  BY <1>3, <1>4, Induction
<1>6. SumOver(states, 1 .. i) <= SumOver(states, 1 .. j - 1)
  <2>1. j - 1 - i \in Nat /\ i + (j - 1 - i) = j - 1 /\ j - 1 <= n
    BY <1>0
  <2> QED  BY <1>5, <2>1
<1>7. SumOver(states, 1 .. i) = SumOver(states, 1 .. i - 1) + states[i]
  <2>1. i - 1 \in Nat /\ (i - 1) + 1 = i
    OBVIOUS
  <2> QED  BY <1>2, <2>1
<1>8. /\ Offset(states, i) = SumOver(states, 1 .. i - 1)
      /\ Offset(states, j) = SumOver(states, 1 .. j - 1)
  BY OffsetIsSum
<1> QED  BY <1>6, <1>7, <1>8

LEMMA MambaFields ==
  ASSUME NEW spec, NEW raw, NEW num, NEW i \in DOMAIN spec.states
  PROVE  LET v == MambaViews(spec, raw, num)[i]
         IN  /\ v.raw = raw /\ v.halves = 1 /\ v.blocks = num /\ v.tokens = 1
             /\ v.cell = spec.states[i] /\ v.half_stride = 0 /\ v.block_stride = spec.page
             /\ v.offset = Offset(spec.states, i)
             /\ DOMAIN MambaViews(spec, raw, num) = DOMAIN spec.states
BY DEF MambaViews, View

(* A state's element of block b is in the page b of the tensor, in the place *)
(* of that state.                                                            *)
LEMMA MambaSlots ==
  ASSUME NEW spec, spec.states \in Seq(Nat), spec.page \in Nat \ {0},
         NEW raw, NEW num \in Nat \ {0}, raw.elements = spec.page * num,
         NEW i \in DOMAIN spec.states, Fits(MambaViews(spec, raw, num)[i], TRUE)
  PROVE  Slotted(MambaViews(spec, raw, num)[i], spec.page, num)
<1> DEFINE v == MambaViews(spec, raw, num)[i]
           page == spec.page
           off == Offset(spec.states, i)
           cell == spec.states[i]
<1>1. /\ v.raw = raw /\ v.halves = 1 /\ v.blocks = num /\ v.tokens = 1
      /\ v.cell = cell /\ v.half_stride = 0 /\ v.block_stride = page /\ v.offset = off
  BY MambaFields
<1>2. off \in Nat /\ cell \in Nat /\ page \in Nat \ {0}
  <2>1. PICK states : states = spec.states
    OBVIOUS
  <2>2. states \in Seq(Nat) /\ i \in 1 .. Len(states)
    BY <2>1
  <2>3. states[i] \in Nat /\ i \in 1 .. Len(states) + 1
    BY <2>2, SMTT(30)
  <2>4. Offset(states, i) \in Nat
    BY <2>2, <2>3, OffsetIsSum
  <2> QED  BY <2>1, <2>3, <2>4
<1>3. Extent(v) <= raw.elements
  BY <1>1 DEF Fits
<1> HIDE DEF v, off, cell, page
<1>4. Extent(v) = off + (1 - 1) * 0 + (num - 1) * page + 1 * cell
  BY <1>1 DEF Extent
<1>5. off + cell <= page
  <2>1. (num - 1) * page = num * page - page /\ num * page \in Nat /\ num * page = page * num
    BY <1>2
  <2> QED  BY <1>2, <1>3, <1>4, <2>1 DEF page
<1>6. v.tokens * v.cell = cell
  BY <1>1, <1>2
<1>7. BlocksFirst(v, 1)
  <2>1. ASSUME NEW h \in 0 .. v.halves - 1, NEW e \in 0 .. v.tokens * v.cell - 1
        PROVE  v.offset + h * v.half_stride + e \in 0 .. v.block_stride - 1
    <3>1. h = 0 /\ e \in 0 .. cell - 1
      BY <1>1, <1>6
    <3> QED  BY <1>1, <1>2, <1>5, <3>1
  <2> QED  BY <1>1, <1>2, <2>1 DEF BlocksFirst
<1>8. v.blocks \div num = 1
  <2>1. num * 1 = num
    OBVIOUS
  <2>2. (num * 1) \div num = 1
    BY Ratio
  <2> QED  BY <1>1, <2>1, <2>2
<1>9. 1 * page = page /\ num * (1 * page) = page * num /\ page * num \in Nat
  BY <1>2
<1>10. ASSUME NEW b \in 0 .. num - 1, NEW x \in Footprint(v, b, 1)
       PROVE  x \in 0 .. v.raw.elements - 1 /\ InBlock(x, page, num, b)
  <2>1. /\ v.offset \in Nat /\ v.halves \in Nat /\ v.half_stride \in Nat
        /\ v.tokens * v.cell \in Nat
    BY <1>1, <1>2, <1>6
  <2>2. raw.elements \in Nat /\ num * (1 * v.block_stride) <= raw.elements
    BY <1>1, <1>9 DEF page
  <2>3. 1 \in Nat \ {0}
    OBVIOUS
  <2>4. x \in 0 .. raw.elements - 1 /\ InBlock(x, 1 * v.block_stride, num, b)
    BY <1>7, <2>1, <2>2, <2>3, BlocksFirstSlots
  <2> QED  BY <1>1, <1>9, <2>4
<1>11. Slotted(v, page, num)
  BY <1>8, <1>10 DEF Slotted
<1> QED  BY <1>11 DEF v, page

(* The states of a block do not overlap.                                     *)
LEMMA StatesApart ==
  ASSUME NEW spec, spec.states \in Seq(Nat), spec.page \in Nat \ {0}, NEW raw, NEW num,
         NEW i \in DOMAIN spec.states, NEW j \in DOMAIN spec.states, i # j, NEW b \in Nat
  PROVE  Footprint(MambaViews(spec, raw, num)[i], b, 1)
           \cap Footprint(MambaViews(spec, raw, num)[j], b, 1) = {}
<1>0. b * spec.page \in Nat
  OBVIOUS
<1> DEFINE v(m) == MambaViews(spec, raw, num)[m]
<1>1. ASSUME NEW m \in DOMAIN spec.states, NEW x \in Footprint(v(m), b, 1)
      PROVE  \E e \in 0 .. spec.states[m] - 1 : x = Offset(spec.states, m) + b * spec.page + e
  <2>1. /\ v(m).halves = 1 /\ v(m).tokens = 1 /\ v(m).cell = spec.states[m]
        /\ v(m).half_stride = 0 /\ v(m).block_stride = spec.page
        /\ v(m).offset = Offset(spec.states, m)
    BY MambaFields
  <2>2. PICK h \in 0 .. v(m).halves - 1, k \in 1 * b .. 1 * b + 1 - 1,
             e \in 0 .. v(m).tokens * v(m).cell - 1 :
               x = v(m).offset + h * v(m).half_stride + k * v(m).block_stride + e
    BY <1>1 DEF Footprint
  <2> HIDE DEF v
  <2>3. spec.states[m] \in Nat /\ Offset(spec.states, m) \in Nat
    <3>1. PICK states : states = spec.states
      OBVIOUS
    <3>2. states \in Seq(Nat) /\ m \in 1 .. Len(states)
      BY <3>1, SMTT(30)
    <3>5. states[m] \in Nat
      BY ONLY <3>2, ElementOfSeq
    <3>6. Len(states) \in Nat
      BY ONLY <3>2, LenProperties
    <3>3. states[m] \in Nat /\ m \in 1 .. Len(states) + 1
      BY ONLY <3>2, <3>5, <3>6
    <3>4. Offset(states, m) \in Nat
      BY <3>2, <3>3, OffsetIsSum
    <3> QED  BY <3>1, <3>3, <3>4
  <2>4. h = 0 /\ k = b /\ e \in 0 .. spec.states[m] - 1
    BY <2>1, <2>2, <2>3
  <2>5. x = Offset(spec.states, m) + 0 * 0 + b * spec.page + e
    BY <2>1, <2>2, <2>4
  <2> QED  BY <1>0, <2>3, <2>4, <2>5
<1>2. ASSUME NEW m \in DOMAIN spec.states, NEW p \in DOMAIN spec.states, m < p,
             NEW x \in Footprint(v(m), b, 1), x \in Footprint(v(p), b, 1)
      PROVE  FALSE
  <2>1. PICK e \in 0 .. spec.states[m] - 1 : x = Offset(spec.states, m) + b * spec.page + e
    BY <1>1, <1>2
  <2>2. PICK f \in 0 .. spec.states[p] - 1 : x = Offset(spec.states, p) + b * spec.page + f
    BY <1>1, <1>2
  <2>3. PICK states : states = spec.states
    OBVIOUS
  <2>4. states \in Seq(Nat)
    BY <2>3
  <2>5. m \in DOMAIN states /\ p \in DOMAIN states /\ DOMAIN states = 1 .. Len(states)
    BY <1>2, <2>3, <2>4
  <2>6. Offset(states, m) + states[m] <= Offset(states, p)
    BY <1>2, <2>4, <2>5, OffsetsFollow
  <2>7. m \in 1 .. Len(states) + 1 /\ p \in 1 .. Len(states) + 1
    <3>1. PICK l \in Nat : l = Len(states)
      BY ONLY <2>4, LenProperties
    <3>2. m \in 1 .. l /\ p \in 1 .. l
      BY ONLY <2>5, <3>1
    <3>3. m \in 1 .. l + 1 /\ p \in 1 .. l + 1
      BY ONLY <3>1, <3>2
    <3> QED  BY ONLY <3>1, <3>3
  <2>8. PICK om, op, sm, sp, bp :
          /\ om = Offset(states, m) /\ op = Offset(states, p)
          /\ sm = states[m] /\ sp = states[p] /\ bp = b * spec.page
    OBVIOUS
  <2>9. om \in Nat /\ op \in Nat
    BY <2>4, <2>7, <2>8, OffsetIsSum
  <2>10. sm \in Nat /\ sp \in Nat /\ bp \in Nat
    <3>1. \A y \in 1 .. Len(states) : states[y] \in Nat
      BY ONLY <2>4, ElementOfSeq
    <3>2. bp \in Nat
      BY <1>0, <2>8
    <3> QED  BY <2>5, <2>8, <3>1, <3>2
  <2>11. e \in 0 .. sm - 1 /\ f \in 0 .. sp - 1
    BY <2>1, <2>2, <2>3, <2>8
  <2>12. x = om + bp + e /\ x = op + bp + f /\ om + sm <= op
    BY <2>1, <2>2, <2>3, <2>6, <2>8
  <2> HIDE DEF v
  <2> QED  BY <2>9, <2>10, <2>11, <2>12
<1>3. i \in Nat /\ j \in Nat
  <2>1. PICK states : states = spec.states
    OBVIOUS
  <2>2. states \in Seq(Nat) /\ i \in DOMAIN states /\ j \in DOMAIN states
    BY <2>1
  <2> QED  BY <2>2, SMTT(30)
<1>4. i < j \/ j < i
  BY <1>3
<1> HIDE DEF v
<1>5. Footprint(v(i), b, 1) \cap Footprint(v(j), b, 1) = {}
  BY <1>2, <1>4
<1> QED  BY <1>5 DEF v

(* The layers side by side in each kernel block.                             *)
UniformPlace(n) ==
  Cardinality({o \in UNION model.tensors : Layer(o).index < Layer(n).index})

SideBySide(v, spec, C, n, num, gen, k) ==
  /\ v.halves = Halves(spec) /\ v.blocks = num * (spec.block_size \div k)
  /\ v.tokens = k /\ v.cell = spec.cell /\ v.half_stride = k * spec.cell
  /\ v.block_stride = C * Halves(spec) * (k * spec.cell)
  /\ v.offset = UniformPlace(n) * Halves(spec) * (k * spec.cell)
  /\ v.raw.elements = C * spec.page * num
  /\ v.raw = [gen |-> gen, of |-> UNION model.tensors, num |-> num,
              elements |-> v.raw.elements]

LEMMA UniformFields ==
  ASSUME NEW n, NEW num, NEW gen, NEW k
  PROVE  /\ DOMAIN UniformViews(n, num, gen, k) = {1}
         /\ \A v, spec, C :
              v = UniformViews(n, num, gen, k)[1] /\ spec = Layer(n).spec
                /\ C = Cardinality(UNION model.tensors) =>
              SideBySide(v, spec, C, n, num, gen, k)
<1> DEFINE spec == Layer(n).spec
           C    == Cardinality(UNION model.tensors)
           raw  == [gen |-> gen, of |-> UNION model.tensors, num |-> num,
                    elements |-> C * spec.page * num]
           blocks == num * (spec.block_size \div k)
           size == k * spec.cell
           stride == C * Halves(spec) * size
           off  == UniformPlace(n) * Halves(spec) * size
<1>1. UniformViews(n, num, gen, k)
        = <<View(raw, Halves(spec), blocks, k, spec.cell, size, stride, off)>>
  BY Zenon DEF UniformViews, Halves, UniformPlace
<1>2. \A r, hv, bl, cell, hs, bs, o :
        LET v == View(r, hv, bl, k, cell, hs, bs, o)
        IN  /\ v.raw = r /\ v.halves = hv /\ v.blocks = bl /\ v.tokens = k /\ v.cell = cell
            /\ v.half_stride = hs /\ v.block_stride = bs /\ v.offset = o
  BY DEF View
<1>3. PICK r, hv, bl, cell, sz, bs, o :
        /\ r = raw /\ hv = Halves(spec) /\ bl = blocks /\ cell = spec.cell
        /\ sz = size /\ bs = stride /\ o = off
  OBVIOUS
<1> HIDE DEF spec, C, raw, blocks, size, stride, off
<1>4. UniformViews(n, num, gen, k) = <<View(r, hv, bl, k, cell, sz, bs, o)>>
  BY <1>1, <1>3
<1>5. PICK v : v = View(r, hv, bl, k, cell, sz, bs, o)
  OBVIOUS
<1>6. UniformViews(n, num, gen, k)[1] = v /\ DOMAIN UniformViews(n, num, gen, k) = {1}
  BY <1>4, <1>5
<1>7. /\ v.raw = raw /\ v.halves = Halves(spec) /\ v.blocks = blocks /\ v.tokens = k
      /\ v.cell = spec.cell /\ v.half_stride = size /\ v.block_stride = stride /\ v.offset = off
  BY <1>2, <1>3, <1>5
<1>8. v.raw = [gen |-> gen, of |-> UNION model.tensors, num |-> num, elements |-> v.raw.elements]
  BY <1>7 DEF raw
<1>9. v.raw.elements = C * spec.page * num
  <2>1. PICK el : el = C * spec.page * num
    OBVIOUS
  <2> QED  BY <1>7, <2>1 DEF raw
<1> QED  BY <1>6, <1>7, <1>8, <1>9, Zenon DEF SideBySide, spec, C, blocks, size, stride, off

LEMMA PlaceOfLayer ==
  ASSUME IsFiniteSet(UNION model.tensors), NEW n \in UNION model.tensors, Layer(n).index \in Nat
  PROVE  /\ UniformPlace(n) \in Nat /\ Cardinality(UNION model.tensors) \in Nat \ {0}
         /\ UniformPlace(n) + 1 <= Cardinality(UNION model.tensors)
<1> DEFINE O == UNION model.tensors
           P == {o \in O : Layer(o).index < Layer(n).index}
<1>1. n \notin P
  <2>1. ~(Layer(n).index < Layer(n).index)
    OBVIOUS
  <2> QED  BY <2>1
<1>2. IsFiniteSet(O) /\ n \in O /\ P \subseteq O \ {n}
  BY <1>1
<1>3. UniformPlace(n) = Cardinality(P)
  BY DEF UniformPlace
<1> HIDE DEF O, P
<1>4. /\ IsFiniteSet(O \ {n}) /\ Cardinality(O \ {n}) = Cardinality(O) - 1
      /\ Cardinality(O) \in Nat /\ Cardinality(O \ {n}) \in Nat
  BY <1>2, FS_RemoveElement, FS_CardinalityType
<1>5. IsFiniteSet(P) /\ Cardinality(P) <= Cardinality(O \ {n}) /\ Cardinality(P) \in Nat
  BY <1>2, <1>4, FS_Subset, FS_CardinalityType
<1>6. Cardinality(O) \in Nat \ {0} /\ Cardinality(P) + 1 <= Cardinality(O) /\ Cardinality(P) \in Nat
  BY <1>4, <1>5
<1> QED  BY <1>3, <1>6 DEF O

LEMMA UniformSlots ==
  ASSUME NEW n, NEW num \in Nat \ {0}, NEW gen, NEW k, Sized(n, k), Layer(n).index \in Nat,
         IsFiniteSet(UNION model.tensors), n \in UNION model.tensors,
         LET v == UniformViews(n, num, gen, k)[1]
         IN  Cardinality(UNION model.tensors) * v.halves * v.blocks * v.tokens * v.cell
               = v.raw.elements
  PROVE  LET v == UniformViews(n, num, gen, k)[1]
         IN  Slotted(v, (Layer(n).spec.block_size \div k) * v.block_stride, num)
<1>1. PICK v, spec, ratio, C, halves, size, cell, page, place :
        /\ v = UniformViews(n, num, gen, k)[1] /\ spec = Layer(n).spec
        /\ ratio = spec.block_size \div k
        /\ C = Cardinality(UNION model.tensors) /\ halves = Halves(spec)
        /\ size = k * spec.cell /\ cell = spec.cell /\ page = spec.page
        /\ place = UniformPlace(n)
  OBVIOUS
<1>2. /\ v.halves = halves /\ v.blocks = num * ratio
      /\ v.tokens = k /\ v.cell = cell /\ v.half_stride = size
      /\ v.block_stride = C * halves * size /\ v.offset = place * halves * size
      /\ v.raw.elements = C * page * num
  <2>1. /\ v = UniformViews(n, num, gen, k)[1] /\ spec = Layer(n).spec
        /\ C = Cardinality(UNION model.tensors)
    BY <1>1
  <2>2. /\ v.halves = Halves(spec) /\ v.blocks = num * (spec.block_size \div k)
        /\ v.tokens = k /\ v.cell = spec.cell /\ v.half_stride = k * spec.cell
        /\ v.block_stride = C * Halves(spec) * (k * spec.cell)
        /\ v.offset = UniformPlace(n) * Halves(spec) * (k * spec.cell)
        /\ v.raw.elements = C * spec.page * num
    <3>1. SideBySide(v, spec, C, n, num, gen, k)
      BY <2>1, UniformFields, Zenon
    <3> QED  BY <3>1, Zenon DEF SideBySide
  <2>3. /\ ratio = spec.block_size \div k /\ halves = Halves(spec)
        /\ size = k * spec.cell /\ cell = spec.cell /\ page = spec.page
        /\ place = UniformPlace(n)
    BY <1>1
  <2> QED  BY <2>2, <2>3
<1>3. C \in Nat \ {0} /\ place \in Nat /\ place + 1 <= C
  BY <1>1, PlaceOfLayer
<1>4. ratio \in Nat \ {0} /\ halves \in {1, 2}
  BY <1>1, SizedFacts
<1>5. k \in Nat \ {0} /\ cell \in Nat \ {0} /\ page \in Nat \ {0} /\ size = k * cell
  <2>1. spec.block_size \in Nat /\ k \in 1 .. spec.block_size /\ spec.cell \in Nat \ {0}
        /\ spec.page \in Nat \ {0}
    BY <1>1 DEF Sized
  <2> QED  BY <1>1, <2>1
<1>6. C * halves * (num * ratio) * k * cell = C * page * num
  <2>1. C * v.halves * v.blocks * v.tokens * v.cell = v.raw.elements
    BY <1>1
  <2> QED  BY <1>2, <2>1
<1>7. size \in Nat \ {0}
  BY <1>5
<1>8. v.tokens * v.cell = size
  BY <1>2, <1>5
<1>9. PICK hs : hs = halves * size
  OBVIOUS
<1>10. hs \in Nat \ {0}
  BY <1>4, <1>7, <1>9
<1>11. v.block_stride = C * hs /\ v.offset = place * hs
  BY <1>2, <1>3, <1>4, <1>7, <1>9
<1>12. (place + 1) * hs <= C * hs /\ (place + 1) * hs = place * hs + hs
  <2>1. place + 1 \in Nat /\ C \in Nat /\ hs \in Nat
    BY <1>3, <1>10
  <2>2. (place + 1) * hs <= C * hs
    BY <1>3, <2>1, Monotone
  <2>3. (place + 1) * hs = place * hs + hs
    BY <1>3, <2>1, Successor
  <2> QED  BY <2>2, <2>3
<1>13. C * hs \in Nat \ {0} /\ place * hs \in Nat
  BY <1>3, <1>10
<1>14. BlocksFirst(v, ratio)
  <2>1. ASSUME NEW h \in 0 .. v.halves - 1, NEW e \in 0 .. v.tokens * v.cell - 1
        PROVE  v.offset + h * v.half_stride + e \in 0 .. v.block_stride - 1
    <3>1. h \in 0 .. halves - 1 /\ e \in 0 .. size - 1
      BY <1>2, <1>8
    <3>2. 0 + h * size + e \in 0 .. hs - 1
      BY <1>4, <1>7, <1>9, <3>1, PartsFit
    <3>3. PICK y : y = h * size
      OBVIOUS
    <3>4. y \in Nat
      BY <1>4, <1>7, <3>1, <3>3
    <3>5. PICK off, stride : off = place * hs /\ stride = C * hs
      OBVIOUS
    <3>6. off + y + e \in 0 .. stride - 1
      BY <1>10, <1>12, <1>13, <3>1, <3>2, <3>3, <3>4, <3>5
    <3> QED  BY <1>2, <1>11, <3>3, <3>5, <3>6
  <2> QED  BY <1>11, <1>13, <2>1 DEF BlocksFirst
<1>15. num * (ratio * v.block_stride) = v.raw.elements /\ v.raw.elements \in Nat
  <2>1. C * halves * (num * ratio) * k * cell = num * (ratio * (C * halves * (k * cell)))
    BY <1>3, <1>4, <1>5
  <2>2. C * page * num \in Nat
    BY <1>3, <1>5
  <2>3. v.raw.elements = C * page * num /\ v.block_stride = C * halves * (k * cell)
    BY <1>2, <1>5
  <2> QED  BY <1>6, <2>1, <2>2, <2>3
<1>16. v.blocks \div num = ratio
  BY <1>2, <1>4, Ratio
<1>17. v.offset \in Nat /\ v.halves \in Nat /\ v.half_stride \in Nat /\ v.tokens * v.cell \in Nat
  BY <1>2, <1>4, <1>7, <1>8, <1>11, <1>13
<1>18. PICK Q : Q = ratio * v.block_stride
  OBVIOUS
<1>19. num * Q <= v.raw.elements
  BY <1>15, <1>18
<1>20. ASSUME NEW b \in 0 .. num - 1, NEW x \in Footprint(v, b, ratio)
       PROVE  x \in 0 .. v.raw.elements - 1 /\ InBlock(x, Q, num, b)
  BY <1>4, <1>14, <1>15, <1>17, <1>18, <1>19, BlocksFirstSlots
<1>21. Slotted(v, Q, num)
  BY <1>16, <1>20 DEF Slotted
<1> QED  BY <1>1, <1>18, <1>21

(* The blocks of two layers, from their views.                               *)
ElementsOf(views, b) == UNION {Footprint(v, b, v.blocks \div v.raw.num) : v \in Range(views)}
Apart(A, B) ==
  \A b \in 0 .. A[1].raw.num - 1 :
    /\ \A e \in ElementsOf(A, b) : e \in 0 .. A[1].raw.elements - 1
    /\ \A c \in 0 .. B[1].raw.num - 1 : c # b => ElementsOf(A, b) \cap ElementsOf(B, c) = {}
    /\ \A i, j \in DOMAIN A : i # j => Footprint(A[i], b, 1) \cap Footprint(A[j], b, 1) = {}

LEMMA SlotsAreApart ==
  ASSUME NEW A, NEW B, NEW num, NEW Q, A[1].raw = B[1].raw, A[1].raw.num = num,
         \A v \in Range(A) \cup Range(B) : v.raw = A[1].raw /\ Slotted(v, Q, num),
         \A b \in 0 .. num - 1 : \A i, j \in DOMAIN A :
           i # j => Footprint(A[i], b, 1) \cap Footprint(A[j], b, 1) = {}
  PROVE  Apart(A, B)
<1>1. ASSUME NEW v \in Range(A) \cup Range(B), NEW b \in 0 .. num - 1,
             NEW x \in Footprint(v, b, v.blocks \div v.raw.num)
      PROVE  x \in 0 .. A[1].raw.elements - 1 /\ InBlock(x, Q, num, b)
  <2>1. v.raw = A[1].raw /\ Slotted(v, Q, num) /\ v.raw.num = num
    OBVIOUS
  <2> QED  BY <1>1, <2>1 DEF Slotted
<1>2. ASSUME NEW b \in 0 .. num - 1, NEW e \in ElementsOf(A, b)
      PROVE  e \in 0 .. A[1].raw.elements - 1 /\ InBlock(e, Q, num, b)
  <2>1. PICK v \in Range(A) : e \in Footprint(v, b, v.blocks \div v.raw.num)
    BY <1>2 DEF ElementsOf
  <2> QED  BY <1>1, <2>1
<1>3. ASSUME NEW b \in 0 .. num - 1, NEW e \in ElementsOf(B, b)
      PROVE  InBlock(e, Q, num, b)
  <2>1. PICK v \in Range(B) : e \in Footprint(v, b, v.blocks \div v.raw.num)
    BY <1>3 DEF ElementsOf
  <2> QED  BY <1>1, <2>1
<1>4. ASSUME NEW b \in 0 .. num - 1, NEW c \in 0 .. num - 1, c # b,
             NEW e \in ElementsOf(A, b), e \in ElementsOf(B, c)
      PROVE  FALSE
  BY <1>2, <1>3, <1>4 DEF InBlock
<1>5. B[1].raw.num = num
  OBVIOUS
<1> QED  BY <1>2, <1>4, <1>5 DEF Apart

(* The set-up has found the layers it expects.                               *)
SetUp == ModelLoaded /\ shared = SharedLayers /\ Owners(AllGroups) = UNION model.tensors

LEMMA OwnerKernel ==
  ASSUME SetUp, NEW o \in Owners(AllGroups)
  PROVE  /\ o \in DOMAIN model.layers
         /\ IsAttention(Layer(o).spec) => Sized(o, Kernel(AllGroups, o))
         /\ ~IsAttention(Layer(o).spec) => Layer(o).spec.states \in Seq(Nat)
         /\ ~IsAttention(Layer(o).spec) => Layer(o).spec.states # <<>>
         /\ Layer(o).spec.page \in Nat \ {0} /\ Layer(o).index \in Nat
<1>1. ModelLoaded /\ shared = SharedLayers /\ Owners(AllGroups) = UNION model.tensors
  BY DEF SetUp
<1>2. LayersAssumption(model)
  BY <1>1, SetupAssumption DEF ModelLoaded
<1>3. o \in DOMAIN model.layers
  BY <1>1, OwnersFacts
<1>4. /\ {Layer(o).spec.storage, Layer(o).spec.cell, Layer(o).spec.page} \subseteq Nat \ {0}
      /\ Layer(o).spec.padded \in BOOLEAN /\ Layer(o).index \in Nat
      /\ Layer(o).backend \in DOMAIN Backends
  BY <1>2, <1>3 DEF LayersAssumption, Layer
<1>5. IsAttention(Layer(o).spec) /\ (Layer(o).spec.padded \/ Layer(o).spec.type = "mla") =>
        Backends[Layer(o).backend].block_dim = 0
  BY <1>2, <1>3 DEF LayersAssumption, Layer
<1>6. Layer(o).spec.type = "mamba" => Layer(o).spec.states \in Seq(Nat) /\ Layer(o).spec.states # <<>>
  BY <1>2, <1>3 DEF LayersAssumption, Layer
<1>7. Backends[Layer(o).backend].block_dim \in {0, 1}
  BY <1>4, SetupAssumption DEF Range
<1>8. ASSUME IsAttention(Layer(o).spec)
      PROVE  Sized(o, Kernel(AllGroups, o))
  <2>1. PICK i \in DOMAIN AllGroups :
          /\ i \in DOMAIN Base /\ o \in AllGroups[i].names /\ Layer(o).spec = AllGroups[i].spec
          /\ \A j \in DOMAIN AllGroups : o \in AllGroups[j].names => j = i
    <3>1. PICK i \in DOMAIN AllGroups : o \in AllGroups[i].names
      BY DEF Owners
    <3> QED  BY <1>1, <3>1, OwnersFacts
  <2>2. AllGroups[i].spec.type # "encoder_only"
    BY <1>1, <2>1, GroupsOfModel
  <2>3. Kernel(AllGroups, o) = KernelSize(AllGroups[i])
    <3>1. (CHOOSE j \in DOMAIN AllGroups : o \in AllGroups[j].names) = i
      BY <2>1
    <3>2. i \in Cached(AllGroups)
      BY <2>1, <2>2 DEF Cached
    <3> QED  BY <3>1, <3>2 DEF Kernel, KernelSizes
  <2>4. /\ AllGroups[i].spec.block_size \in Nat \ {0}
        /\ KernelSize(AllGroups[i]) \in 1 .. AllGroups[i].spec.block_size
        /\ AllGroups[i].spec.block_size % KernelSize(AllGroups[i]) = 0
    BY <1>1, <1>8, <2>1, KernelChosen
  <2>5. /\ Layer(o).spec.block_size \in Nat \ {0}
        /\ Kernel(AllGroups, o) \in 1 .. Layer(o).spec.block_size
        /\ Layer(o).spec.block_size % Kernel(AllGroups, o) = 0
    BY <2>1, <2>3, <2>4
  <2> QED  BY <1>4, <1>5, <1>7, <1>8, <2>5 DEF Sized
<1> QED  BY <1>3, <1>4, <1>6, <1>8 DEF IsAttention

(* The layers whose views the runner moves are those of backends that have   *)
(* the two halves first.                                                     *)
LEMMA MovedLayers ==
  ASSUME SetUp, NEW early, NEW n \in Owners(AllGroups)
  PROVE  (\E g \in HalvesFirst(AttnGroups(AllGroups, early)) : n \in g.names)
           <=> (IsAttention(Layer(n).spec) /\ Backends[Layer(n).backend].block_dim = 1)
<1> DEFINE ags == AttnGroups(AllGroups, early)
<1>1. ModelLoaded /\ shared = SharedLayers /\ Owners(AllGroups) = UNION model.tensors
  BY DEF SetUp
<1>2. n \in DOMAIN model.layers
  BY OwnerKernel
<1>3. ASSUME NEW g \in UNION Range(ags), n \in g.names
      PROVE  g.spec = Layer(n).spec
  <2>1. PICK i \in DOMAIN AllGroups : g \in ags[i]
    BY DEF Range, AttnGroups
  <2>2. g.spec = AllGroups[i].spec /\ g.names \subseteq AllGroups[i].names
    BY <2>1 DEF AttnGroups
  <2>3. n \in AllGroups[i].names
    BY <1>3, <2>2
  <2>4. Layer(n).spec = AllGroups[i].spec
    BY <1>1, <2>3, OwnersFacts
  <2> QED  BY <2>2, <2>4
<1>4. ASSUME NEW g \in HalvesFirst(ags), n \in g.names
      PROVE  IsAttention(Layer(n).spec) /\ Backends[Layer(n).backend].block_dim = 1
  <2>1. /\ g \in UNION Range(ags) /\ IsAttention(g.spec)
        /\ \A b \in BackendsOf(g.names) : b.block_dim = 1
    BY <1>4 DEF HalvesFirst
  <2>2. Backends[Layer(n).backend] \in BackendsOf(g.names)
    BY <1>4 DEF BackendsOf
  <2> HIDE DEF ags
  <2> QED  BY <1>3, <1>4, <2>1, <2>2
<1>5. ASSUME IsAttention(Layer(n).spec), Backends[Layer(n).backend].block_dim = 1
      PROVE  \E g \in HalvesFirst(ags) : n \in g.names
  <2>1. PICK g \in UNION Range(ags) :
          /\ {b \in UNION Range(ags) : n \in b.names} = {g}
          /\ n \in AllGroups[g.gid].names
          /\ \A o \in g.names : /\ Layer(o).backend = Layer(n).backend
                                /\ Layer(o).heads = Layer(n).heads
                                /\ (o \in early <=> n \in early)
    <3>1. ModelLoaded
      BY <1>1
    <3>2. shared = SharedLayers
      BY <1>1
    <3>3. Owners(AllGroups) = UNION model.tensors
      BY <1>1
    <3> QED  BY <1>2, <3>1, <3>2, <3>3, OneBuilder, Zenon
  <2> HIDE DEF ags
  <2>2. n \in g.names
    BY <2>1
  <2>3. IsAttention(g.spec)
    BY <1>3, <1>5, <2>2
  <2>4. \A b \in BackendsOf(g.names) : b.block_dim = 1
    BY <1>5, <2>1 DEF BackendsOf
  <2>5. g \in HalvesFirst(ags)
    BY <2>3, <2>4 DEF HalvesFirst
  <2> QED  BY <2>2, <2>5
<1> QED  BY <1>4, <1>5

(* The caches of the layers that own one, when nothing raises.               *)
LEMMA PlainViews ==
  ASSUME SetUp, NEW ags, NEW num, NEW gen, NEW n \in Owners(AllGroups),
         ~Raises(AllGroups, ags, num, gen), ~UsesUniform(ags)
  PROVE  /\ Plain(AllGroups, ags, num, gen)[n] = Views(n, num, gen, Kernel(AllGroups, n))
         /\ \A v \in Range(Views(n, num, gen, Kernel(AllGroups, n))) :
              Fits(v, Layer(n).spec.padded \/ ~IsAttention(Layer(n).spec))
         /\ Moved(AllGroups, ags) <=> Hybrid(Owners(AllGroups))
<1>1. Plain(AllGroups, ags, num, gen)[n] = Views(n, num, gen, Kernel(AllGroups, n))
  BY DEF Plain
<1>2. \A v \in Range(Plain(AllGroups, ags, num, gen)[n]) :
        Fits(v, Layer(n).spec.padded \/ ~IsAttention(Layer(n).spec))
  BY DEF Raises
<1> QED  BY <1>1, <1>2 DEF Moved

AttentionLaid(A, n, num, gen) ==
  /\ DOMAIN A = {1} /\ A[1].raw = RawTensor(n, num, gen)
  /\ IF Hybrid(Owners(AllGroups)) \/ Backends[Layer(n).backend].block_dim = 0
     THEN Slotted(A[1], Layer(n).spec.page, num)
     ELSE \E Q \in Nat : 2 * Q = Layer(n).spec.page /\ Slotted(A[1], Q, num)

LEMMA AttentionOwner ==
  ASSUME SetUp, NEW early, NEW num \in Nat \ {0}, NEW gen, NEW n \in Owners(AllGroups),
         ~Raises(AllGroups, AttnGroups(AllGroups, early), num, gen),
         ~UsesUniform(AttnGroups(AllGroups, early)), IsAttention(Layer(n).spec)
  PROVE  AttentionLaid(Caches(AllGroups, AttnGroups(AllGroups, early), num, gen)[n], n, num, gen)
<1>1. PICK ags, raw, k, ps, P, v, spec, page :
        /\ ags = AttnGroups(AllGroups, early) /\ raw = RawTensor(n, num, gen)
        /\ k = Kernel(AllGroups, n) /\ spec = Layer(n).spec /\ page = spec.page
        /\ ps = Plain(AllGroups, ags, num, gen) /\ P = AttentionViews(n, spec, raw, num, k)
        /\ v = P[1]
  OBVIOUS
<1>2. /\ ps[n] = P /\ Fits(v, spec.padded)
      /\ Moved(AllGroups, ags) <=> Hybrid(Owners(AllGroups))
      /\ DOMAIN P = {1} /\ v.raw = raw
  <2>1. Views(n, num, gen, k) = P
    BY <1>1 DEF Views
  <2>2. DOMAIN P = {1} /\ v.raw = raw
    BY <1>1, AttentionFields
  <2>3. /\ ps[n] = Views(n, num, gen, k)
        /\ \A w \in Range(Views(n, num, gen, k)) : Fits(w, spec.padded \/ ~IsAttention(spec))
        /\ Moved(AllGroups, ags) <=> Hybrid(Owners(AllGroups))
    BY <1>1, PlainViews
  <2>4. v \in Range(P)
    BY <1>1, <2>2 DEF Range
  <2>5. IsAttention(spec)
    BY <1>1
  <2>6. Fits(v, spec.padded \/ ~IsAttention(spec))
    BY <2>1, <2>3, <2>4
  <2>7. Fits(v, spec.padded)
    BY <2>5, <2>6 DEF Fits
  <2> QED  BY <2>1, <2>2, <2>3, <2>7
<1>3. Sized(n, k)
  BY <1>1, OwnerKernel
<1>4. page \in Nat \ {0} /\ Backends[Layer(n).backend].block_dim \in {0, 1}
  BY <1>1, <1>3 DEF Sized
<1>5. raw.elements = Layer(n).spec.page * num
  BY <1>1 DEF RawTensor
<1>6. v = AttentionViews(n, Layer(n).spec, raw, num, k)[1] /\ Fits(v, Layer(n).spec.padded)
  BY <1>1, <1>2
<1>7. IF Backends[Layer(n).backend].block_dim = 0 THEN Slotted(v, page, num)
      ELSE \E Q \in Nat : 2 * Q = page /\ Slotted(v, Q, num)
  BY <1>1, <1>3, <1>5, <1>6, AttentionSlots
<1>8. n \in DOMAIN ps
  BY <1>1 DEF Plain
<1>9. (\E g \in HalvesFirst(ags) : n \in g.names)
        <=> (Backends[Layer(n).backend].block_dim = 1)
  BY <1>1, MovedLayers
<1>10. CASE ~Hybrid(Owners(AllGroups))
  <2>1. Caches(AllGroups, ags, num, gen)[n] = P
    BY <1>1, <1>2, <1>10 DEF Caches
  <2> QED  BY <1>1, <1>2, <1>7, <1>10, <2>1 DEF AttentionLaid
<1>11. CASE Hybrid(Owners(AllGroups)) /\ Backends[Layer(n).backend].block_dim = 0
  <2>1. Caches(AllGroups, ags, num, gen) = HybridLayout(ps, ags)
    BY <1>1, <1>2, <1>11 DEF Caches
  <2>2. HybridLayout(ps, ags)[n] = P
    BY <1>2, <1>8, <1>9, <1>11 DEF HybridLayout
  <2> QED  BY <1>1, <1>2, <1>7, <1>11, <2>1, <2>2 DEF AttentionLaid
<1>12. CASE Hybrid(Owners(AllGroups)) /\ Backends[Layer(n).backend].block_dim = 1
  <2>1. Caches(AllGroups, ags, num, gen) = HybridLayout(ps, ags)
    BY <1>1, <1>2, <1>12 DEF Caches
  <2>2. PICK hidden, w :
          /\ hidden = v.tokens * v.cell
          /\ w = View(v.raw, v.halves, v.blocks, v.tokens, v.cell, hidden, 2 * hidden, v.offset)
    OBVIOUS
  <2>3. HybridLayout(ps, ags)[n] = <<w>>
    BY <1>1, <1>2, <1>8, <1>9, <1>12, <2>2, SMTT(30) DEF HybridLayout
  <2>4. Slotted(w, page, num)
    <3>1. Slotted(View(v.raw, v.halves, v.blocks, v.tokens, v.cell, v.tokens * v.cell,
                       2 * (v.tokens * v.cell), v.offset), Layer(n).spec.page, num)
      BY <1>3, <1>5, <1>6, <1>12, MovedSlots
    <3> QED  BY <1>1, <2>2, <3>1
  <2>5. w.raw = raw
    BY <1>2, <2>2 DEF View
  <2>6. DOMAIN <<w>> = {1} /\ <<w>>[1] = w
    OBVIOUS
  <2> QED  BY <1>1, <1>12, <2>1, <2>3, <2>4, <2>5, <2>6 DEF AttentionLaid
<1> QED  BY <1>4, <1>10, <1>11, <1>12

MambaLaid(A, n, num, gen) ==
  /\ 1 \in DOMAIN A
  /\ \A i \in DOMAIN A :
       A[i].raw = RawTensor(n, num, gen) /\ Slotted(A[i], Layer(n).spec.page, num)
  /\ \A b \in 0 .. num - 1 : \A i, j \in DOMAIN A :
       i # j => Footprint(A[i], b, 1) \cap Footprint(A[j], b, 1) = {}

LEMMA MambaOwner ==
  ASSUME SetUp, NEW early, NEW num \in Nat \ {0}, NEW gen, NEW n \in Owners(AllGroups),
         ~Raises(AllGroups, AttnGroups(AllGroups, early), num, gen),
         ~UsesUniform(AttnGroups(AllGroups, early)), ~IsAttention(Layer(n).spec)
  PROVE  MambaLaid(Caches(AllGroups, AttnGroups(AllGroups, early), num, gen)[n], n, num, gen)
<1>1. PICK ags, raw, k, ps, A, spec :
        /\ ags = AttnGroups(AllGroups, early) /\ raw = RawTensor(n, num, gen)
        /\ k = Kernel(AllGroups, n) /\ spec = Layer(n).spec
        /\ ps = Plain(AllGroups, ags, num, gen) /\ A = MambaViews(spec, raw, num)
  OBVIOUS
<1>2. /\ ps[n] = A /\ \A w \in Range(A) : Fits(w, TRUE)
  <2>1. Views(n, num, gen, k) = A
    BY <1>1 DEF Views
  <2>2. /\ ps[n] = Views(n, num, gen, k)
        /\ \A w \in Range(Views(n, num, gen, k)) : Fits(w, spec.padded \/ ~IsAttention(spec))
    BY <1>1, PlainViews
  <2>3. ~IsAttention(spec)
    BY <1>1
  <2> QED  BY <2>1, <2>2, <2>3 DEF Fits
<1>3. spec.states \in Seq(Nat) /\ spec.states # <<>> /\ spec.page \in Nat \ {0}
  BY <1>1, OwnerKernel
<1>4. DOMAIN A = DOMAIN spec.states
  BY <1>1 DEF MambaViews
<1>5. 1 \in DOMAIN A
  <2>1. PICK states : states = spec.states
    OBVIOUS
  <2>2. 1 \in DOMAIN states
    BY <1>3, <2>1
  <2> QED  BY <1>4, <2>1, <2>2
<1>6. Caches(AllGroups, ags, num, gen)[n] = A
  <2>1. ~ \E g \in HalvesFirst(ags) : n \in g.names
    BY <1>1, MovedLayers
  <2>2. n \in DOMAIN ps
    BY <1>1 DEF Plain
  <2>3. HybridLayout(ps, ags)[n] = A
    BY <1>2, <2>1, <2>2 DEF HybridLayout
  <2> QED  BY <1>1, <1>2, <2>3 DEF Caches
<1>7. raw.elements = spec.page * num
  BY <1>1 DEF RawTensor
<1>8. ASSUME NEW i \in DOMAIN A
      PROVE  A[i].raw = raw /\ Slotted(A[i], spec.page, num)
  <2>1. i \in DOMAIN spec.states /\ Fits(A[i], TRUE)
    BY <1>2, <1>4 DEF Range
  <2>2. A[i].raw = raw
    BY <1>1, <2>1, MambaFields
  <2>3. Slotted(A[i], spec.page, num)
    BY <1>1, <1>3, <1>7, <2>1, MambaSlots
  <2> QED  BY <2>2, <2>3
<1>9. ASSUME NEW b \in 0 .. num - 1, NEW i \in DOMAIN A, NEW j \in DOMAIN A, i # j
      PROVE  Footprint(A[i], b, 1) \cap Footprint(A[j], b, 1) = {}
  <2>1. b \in Nat /\ i \in DOMAIN spec.states /\ j \in DOMAIN spec.states
    BY <1>4
  <2> QED  BY <1>1, <1>3, <1>9, <2>1, StatesApart
<1>10. MambaLaid(A, n, num, gen)
  BY <1>1, <1>5, <1>8, <1>9 DEF MambaLaid
<1> QED  BY <1>1, <1>6, <1>10

(* One tensor for all layers is only made for one group: all its layers have *)
(* the same spec and kernel block size.                                      *)
LEMMA UniformGroup ==
  ASSUME SetUp, NEW early, UsesUniform(AttnGroups(AllGroups, early)), NEW n \in Owners(AllGroups)
  PROVE  /\ Layer(n).spec = AllGroups[1].spec /\ IsAttention(AllGroups[1].spec)
         /\ Kernel(AllGroups, n) = KernelSizes(AllGroups)[1]
<1> DEFINE ags == AttnGroups(AllGroups, early)
<1>1. ModelLoaded /\ shared = SharedLayers /\ Owners(AllGroups) = UNION model.tensors
  BY DEF SetUp
<1>2. PICK m \in Nat : DOMAIN AllGroups = 1 .. m /\ DOMAIN Base \subseteq 1 .. m
                         /\ DOMAIN Base = 1 .. Len(Base) /\ Len(Base) \in Nat
  <2>1. PICK len, more : len = Len(Base) /\ more = (IF EncoderOnly = {} THEN 0 ELSE 1)
    OBVIOUS
  <2>2. /\ DOMAIN Base \subseteq DOMAIN AllGroups
        /\ Len(Base) \in Nat /\ DOMAIN Base = 1 .. Len(Base)
        /\ DOMAIN AllGroups = 1 .. len + more
    BY <1>1, <2>1, GroupsOfModel
  <2>3. len + more \in Nat
    BY <2>1, <2>2
  <2> QED  BY <2>2, <2>3
<1>3. DOMAIN ags = 1 .. m /\ \E S : ags \in Seq(S)
  <2>1. DOMAIN ags = 1 .. m
    BY <1>2 DEF AttnGroups
  <2>2. ags = [i \in 1 .. m |-> ags[i]]
    BY <1>2 DEF AttnGroups
  <2> HIDE DEF ags
  <2>3. ags \in [1 .. m -> Range(ags)]
    BY <2>1, <2>2 DEF Range
  <2>4. ags \in Seq(Range(ags))
    BY <2>3, SeqDef
  <2> QED  BY <2>1, <2>4
<1>4. Len(ags) = 1 /\ IsAttention(Base[1].spec)
  BY DEF UsesUniform, Base
<1> HIDE DEF ags
<1>5. m = 1
  <2>1. DOMAIN ags = 1 .. 1
    BY <1>3, <1>4, LenProperties
  <2>2. \A x : x \in 1 .. m <=> x \in 1 .. 1
    BY <1>3, <2>1
  <2>3. 1 <= m
    BY <2>2
  <2>4. m \in 1 .. m
    BY <2>3
  <2> QED  BY <2>2, <2>4
<1>6. PICK i \in DOMAIN AllGroups : n \in AllGroups[i].names
  BY DEF Owners
<1>7. i = 1 /\ DOMAIN AllGroups = {1}
  BY <1>2, <1>5, <1>6
<1>8. 1 \in DOMAIN Base /\ Layer(n).spec = AllGroups[1].spec
  BY <1>1, <1>6, <1>7, OwnersFacts
<1>9. AllGroups[1].spec = Base[1].spec
  BY <1>1, <1>8, GroupsOfModel
<1>10. (CHOOSE j \in DOMAIN AllGroups : n \in AllGroups[j].names) = 1
  BY <1>6, <1>7
<1> QED  BY <1>4, <1>8, <1>9, <1>10 DEF Kernel

LEMMA UniformOwners ==
  ASSUME SetUp, NEW early, NEW num \in Nat \ {0}, NEW gen,
         ~Raises(AllGroups, AttnGroups(AllGroups, early), num, gen),
         UsesUniform(AttnGroups(AllGroups, early))
  PROVE  \E Q : \A n \in Owners(AllGroups) :
           LET A == Caches(AllGroups, AttnGroups(AllGroups, early), num, gen)[n]
           IN  DOMAIN A = {1} /\ A[1].raw.num = num /\ Slotted(A[1], Q, num)
<1>1. PICK ags, k, spec, C, Q :
        /\ ags = AttnGroups(AllGroups, early) /\ k = KernelSizes(AllGroups)[1]
        /\ spec = AllGroups[1].spec /\ C = Cardinality(UNION model.tensors)
        /\ Q = (spec.block_size \div k) * (C * Halves(spec) * (k * spec.cell))
  OBVIOUS
<1>2. ASSUME NEW n \in Owners(AllGroups)
      PROVE  LET A == Caches(AllGroups, ags, num, gen)[n]
             IN  DOMAIN A = {1} /\ A[1].raw.num = num /\ Slotted(A[1], Q, num)
  <2>1. Layer(n).spec = spec /\ IsAttention(spec) /\ Kernel(AllGroups, n) = k
    BY <1>1, UniformGroup
  <2>2. PICK A, v : A = UniformViews(n, num, gen, k) /\ v = A[1]
    OBVIOUS
  <2>3. DOMAIN A = {1} /\ SideBySide(v, spec, C, n, num, gen, k)
    BY <1>1, <2>1, <2>2, UniformFields, Zenon
  <2>4. v.block_stride = C * Halves(spec) * (k * spec.cell)
    BY <2>3 DEF SideBySide
  <2>5. v.raw.num = num
    <3>1. PICK el : el = v.raw.elements
      OBVIOUS
    <3>2. v.raw = [gen |-> gen, of |-> UNION model.tensors, num |-> num, elements |-> el]
      BY <2>3, <3>1 DEF SideBySide
    <3> QED  BY <3>2
  <2>6. Plain(AllGroups, ags, num, gen)[n] = A
    BY <1>1, <2>1, <2>2 DEF Plain
  <2>7. Caches(AllGroups, ags, num, gen)[n] = A
    BY <1>1, <2>6 DEF Caches, Moved
  <2>8. Owners(AllGroups) = UNION model.tensors /\ n \in UNION model.tensors
    BY DEF SetUp
  <2>9. C * v.halves * v.blocks * v.tokens * v.cell = v.raw.elements
    <3>1. /\ UsesUniform(ags)
          /\ \A o \in Owners(AllGroups) : LET w == Plain(AllGroups, ags, num, gen)[o][1] IN
               Cardinality(Owners(AllGroups)) * w.halves * w.blocks * w.tokens * w.cell
                 = w.raw.elements
      BY <1>1 DEF Raises
    <3>2. Plain(AllGroups, ags, num, gen)[n][1] = v
      BY <2>2, <2>6
    <3> QED  BY <1>1, <2>8, <3>1, <3>2
  <2>10. IsFiniteSet(UNION model.tensors)
    BY SetupAssumption DEF SetUp, ModelLoaded, TensorsAssumption
  <2>11. Sized(n, k) /\ Layer(n).index \in Nat
    BY <2>1, OwnerKernel
  <2>12. Slotted(UniformViews(n, num, gen, k)[1],
                 (Layer(n).spec.block_size \div k) * UniformViews(n, num, gen, k)[1].block_stride, num)
    BY <1>1, <2>2, <2>8, <2>9, <2>10, <2>11, UniformSlots
  <2>13. Slotted(v, Q, num)
    <3>1. Slotted(v, (spec.block_size \div k) * v.block_stride, num)
      BY <2>1, <2>2, <2>12
    <3> QED  BY <1>1, <2>4, <3>1
  <2> QED  BY <2>2, <2>3, <2>5, <2>7, <2>13
<1> QED  BY <1>1, <1>2

(* Layers that share a raw tensor have slots of one size in it.              *)
LEMMA SameTensor ==
  ASSUME SetUp, NEW num, NEW gen, NEW n \in Owners(AllGroups), NEW o \in Owners(AllGroups),
         RawTensor(n, num, gen) = RawTensor(o, num, gen)
  PROVE  /\ Layer(n).spec.page = Layer(o).spec.page
         /\ \/ \E m \in Owners(AllGroups) : ~IsAttention(Layer(m).spec)
            \/ Backends[Layer(n).backend].block_dim = Backends[Layer(o).backend].block_dim
<1>1. ModelLoaded /\ Owners(AllGroups) = UNION model.tensors
  BY DEF SetUp
<1>2. TensorsAssumption(model)
  BY <1>1, SetupAssumption DEF ModelLoaded
<1>3. PICK t : t = CHOOSE s \in model.tensors : n \in s
  OBVIOUS
<1>4. PICK u : u = CHOOSE s \in model.tensors : o \in s
  OBVIOUS
<1>5. t \in model.tensors /\ n \in t
  BY <1>1, <1>3
<1>6. u \in model.tensors /\ o \in u
  BY <1>1, <1>4
<1>7. RawTensor(n, num, gen).of = t /\ RawTensor(o, num, gen).of = u
  BY <1>3, <1>4 DEF RawTensor
<1>8. t = u
  BY <1>7
<1> QED  BY <1>1, <1>2, <1>5, <1>6, <1>8 DEF TensorsAssumption, Layer, IsAttention

LEMMA RawCounts ==
  ASSUME NEW n, NEW num, NEW gen
  PROVE  RawTensor(n, num, gen).num = num
BY DEF RawTensor

LEMMA OwnerNum ==
  ASSUME SetUp, NEW ags, NEW num, NEW gen, NEW n \in Owners(AllGroups)
  PROVE  Caches(AllGroups, ags, num, gen)[n][1].raw.num = num
<1>1. PICK ps, k, raw : /\ ps = Plain(AllGroups, ags, num, gen) /\ k = Kernel(AllGroups, n)
                        /\ raw = RawTensor(n, num, gen)
  OBVIOUS
<1>2. n \in DOMAIN ps
  BY <1>1 DEF Plain
<1>3. ps[n][1].raw.num = num
  <2>1. CASE UsesUniform(ags)
    <3>1. ps[n] = UniformViews(n, num, gen, k)
      BY <1>1, <2>1 DEF Plain
    <3> QED  BY <3>1, UniformShape
  <2>2. CASE ~UsesUniform(ags)
    <3>1. ps[n] = Views(n, num, gen, k)
      BY <1>1, <2>2 DEF Plain
    <3>2. Views(n, num, gen, k)[1].raw = raw
      <4>1. CASE IsAttention(Layer(n).spec)
        <5>1. Views(n, num, gen, k) = AttentionViews(n, Layer(n).spec, raw, num, k)
          BY <1>1, <4>1 DEF Views
        <5> QED  BY <5>1, AttentionIsOf
      <4>2. CASE ~IsAttention(Layer(n).spec)
        <5>1. Views(n, num, gen, k) = MambaViews(Layer(n).spec, raw, num)
          BY <1>1, <4>2 DEF Views
        <5>2. PICK states : states = Layer(n).spec.states
          OBVIOUS
        <5>3. states \in Seq(Nat) /\ states # <<>>
          BY <4>2, <5>2, OwnerKernel
        <5>4. 1 \in DOMAIN Layer(n).spec.states
          BY <5>2, <5>3
        <5> QED  BY <5>1, <5>4, MambaIsOf
      <4> QED  BY <4>1, <4>2
    <3>3. raw.num = num
      BY <1>1, RawCounts
    <3> QED  BY <3>1, <3>2, <3>3
  <2> QED  BY <2>1, <2>2
<1>4. HybridLayout(ps, ags)[n][1].raw = ps[n][1].raw
  BY <1>2, MovedShape
<1>5. Caches(AllGroups, ags, num, gen) = IF Moved(AllGroups, ags) THEN HybridLayout(ps, ags) ELSE ps
  BY <1>1 DEF Caches
<1> QED  BY <1>3, <1>4, <1>5

(* How the blocks of one layer lie, without a tensor for all layers.         *)
Half(n) == /\ IsAttention(Layer(n).spec) /\ ~Hybrid(Owners(AllGroups))
           /\ Backends[Layer(n).backend].block_dim # 0
Laid(A, n, num, gen) ==
  /\ 1 \in DOMAIN A /\ Layer(n).spec.page \in Nat
  /\ \A v \in Range(A) : v.raw = RawTensor(n, num, gen)
  /\ IF Half(n)
     THEN \E Q \in Nat : 2 * Q = Layer(n).spec.page /\ \A v \in Range(A) : Slotted(v, Q, num)
     ELSE \A v \in Range(A) : Slotted(v, Layer(n).spec.page, num)
  /\ \A b \in 0 .. num - 1 : \A i, j \in DOMAIN A :
       i # j => Footprint(A[i], b, 1) \cap Footprint(A[j], b, 1) = {}

LEMMA OwnerSlots ==
  ASSUME SetUp, NEW early, NEW num \in Nat \ {0}, NEW gen, NEW n \in Owners(AllGroups),
         ~Raises(AllGroups, AttnGroups(AllGroups, early), num, gen),
         ~UsesUniform(AttnGroups(AllGroups, early))
  PROVE  Laid(Caches(AllGroups, AttnGroups(AllGroups, early), num, gen)[n], n, num, gen)
<1>1. PICK A : A = Caches(AllGroups, AttnGroups(AllGroups, early), num, gen)[n]
  OBVIOUS
<1>2. Layer(n).spec.page \in Nat
  BY OwnerKernel
<1>3. CASE IsAttention(Layer(n).spec)
  <2>1. AttentionLaid(A, n, num, gen)
    BY <1>1, <1>3, AttentionOwner
  <2>2. \A v \in Range(A) : v = A[1]
    BY <2>1 DEF Range, AttentionLaid
  <2>3. (\A i, j \in DOMAIN A : i = j) /\ 1 \in DOMAIN A
    BY <2>1 DEF AttentionLaid
  <2>4. \A v \in Range(A) : v.raw = RawTensor(n, num, gen)
    BY <2>1, <2>2 DEF AttentionLaid
  <2>5. Half(n) <=> ~(Hybrid(Owners(AllGroups)) \/ Backends[Layer(n).backend].block_dim = 0)
    BY <1>3 DEF Half
  <2>6. IF Half(n)
        THEN \E Q \in Nat : 2 * Q = Layer(n).spec.page /\ \A v \in Range(A) : Slotted(v, Q, num)
        ELSE \A v \in Range(A) : Slotted(v, Layer(n).spec.page, num)
    BY <2>1, <2>2, <2>5 DEF AttentionLaid
  <2>7. Laid(A, n, num, gen)
    BY <1>2, <2>3, <2>4, <2>6 DEF Laid
  <2> QED  BY <1>1, <2>7
<1>4. CASE ~IsAttention(Layer(n).spec)
  <2>1. MambaLaid(A, n, num, gen)
    BY <1>1, <1>4, MambaOwner
  <2>2. \A v \in Range(A) : v.raw = RawTensor(n, num, gen) /\ Slotted(v, Layer(n).spec.page, num)
    BY <2>1 DEF Range, MambaLaid
  <2>3. ~Half(n)
    BY <1>4 DEF Half
  <2>4. Laid(A, n, num, gen)
    BY <1>2, <2>1, <2>2, <2>3 DEF Laid, MambaLaid
  <2> QED  BY <1>1, <2>4
<1> QED  BY <1>3, <1>4

(* Two layers that own a cache, in one raw tensor or not: their blocks lie   *)
(* apart.                                                                    *)
LEMMA OwnersApart ==
  ASSUME SetUp, NEW early, NEW num \in Nat \ {0}, NEW gen,
         ~Raises(AllGroups, AttnGroups(AllGroups, early), num, gen),
         NEW n \in Owners(AllGroups), NEW o \in Owners(AllGroups),
         Caches(AllGroups, AttnGroups(AllGroups, early), num, gen)[n][1].raw
           = Caches(AllGroups, AttnGroups(AllGroups, early), num, gen)[o][1].raw
  PROVE  Apart(Caches(AllGroups, AttnGroups(AllGroups, early), num, gen)[n],
               Caches(AllGroups, AttnGroups(AllGroups, early), num, gen)[o])
<1>1. PICK ags, A, B : /\ ags = AttnGroups(AllGroups, early)
                       /\ A = Caches(AllGroups, ags, num, gen)[n]
                       /\ B = Caches(AllGroups, ags, num, gen)[o]
  OBVIOUS
<1>2. A[1].raw = B[1].raw /\ A[1].raw.num = num
  BY <1>1, OwnerNum
<1>3. CASE UsesUniform(ags)
  <2>1. PICK Q : \A x \in Owners(AllGroups) :
          LET X == Caches(AllGroups, ags, num, gen)[x]
          IN  DOMAIN X = {1} /\ X[1].raw.num = num /\ Slotted(X[1], Q, num)
    BY <1>1, <1>3, UniformOwners
  <2>2. DOMAIN A = {1} /\ DOMAIN B = {1} /\ Slotted(A[1], Q, num) /\ Slotted(B[1], Q, num)
    BY <1>1, <2>1
  <2>3. \A v \in Range(A) \cup Range(B) : v.raw = A[1].raw /\ Slotted(v, Q, num)
    BY <1>2, <2>2 DEF Range
  <2>4. \A b \in 0 .. num - 1 : \A i, j \in DOMAIN A :
          i # j => Footprint(A[i], b, 1) \cap Footprint(A[j], b, 1) = {}
    BY <2>2
  <2>5. Apart(A, B)
    BY <1>2, <2>3, <2>4, SlotsAreApart
  <2> QED  BY <1>1, <2>5
<1>4. CASE ~UsesUniform(ags)
  <2>1. Laid(A, n, num, gen)
    BY <1>1, <1>4, OwnerSlots
  <2>2. Laid(B, o, num, gen)
    BY <1>1, <1>4, OwnerSlots
  <2>3. A[1].raw = RawTensor(n, num, gen) /\ B[1].raw = RawTensor(o, num, gen)
    BY <2>1, <2>2 DEF Range, Laid
  <2>4. RawTensor(n, num, gen) = RawTensor(o, num, gen)
    BY <1>2, <2>3
  <2>5. /\ Layer(n).spec.page = Layer(o).spec.page
        /\ \/ \E m \in Owners(AllGroups) : ~IsAttention(Layer(m).spec)
           \/ Backends[Layer(n).backend].block_dim = Backends[Layer(o).backend].block_dim
    BY <2>4, SameTensor
  <2>6. Half(n) <=> Half(o)
    <3>1. CASE Hybrid(Owners(AllGroups))
      BY <3>1 DEF Half
    <3>2. CASE ~Hybrid(Owners(AllGroups)) /\ \E m \in Owners(AllGroups) : ~IsAttention(Layer(m).spec)
      BY <3>2 DEF Hybrid, Half
    <3>3. CASE \A m \in Owners(AllGroups) : IsAttention(Layer(m).spec)
      BY <2>5, <3>3 DEF Half
    <3> QED  BY <3>1, <3>2, <3>3
  <2>7. PICK Q : \A v \in Range(A) \cup Range(B) : Slotted(v, Q, num)
    <3>1. CASE ~Half(n)
      BY <2>1, <2>2, <2>5, <2>6, <3>1 DEF Laid
    <3>2. CASE Half(n)
      <4>1. PICK Q \in Nat : 2 * Q = Layer(n).spec.page /\ \A v \in Range(A) : Slotted(v, Q, num)
        BY <2>1, <3>2 DEF Laid
      <4>2. PICK R \in Nat : 2 * R = Layer(o).spec.page /\ \A v \in Range(B) : Slotted(v, R, num)
        BY <2>2, <2>6, <3>2 DEF Laid
      <4>3. Q = R
        BY <2>5, <4>1, <4>2
      <4> QED  BY <4>1, <4>2, <4>3
    <3> QED  BY <3>1, <3>2
  <2>8. \A v \in Range(A) \cup Range(B) : v.raw = A[1].raw /\ Slotted(v, Q, num)
    BY <2>1, <2>2, <2>3, <2>4, <2>7 DEF Laid
  <2>9. \A b \in 0 .. num - 1 : \A i, j \in DOMAIN A :
          i # j => Footprint(A[i], b, 1) \cap Footprint(A[j], b, 1) = {}
    BY <2>1 DEF Laid
  <2>10. Apart(A, B)
    BY <1>2, <2>8, <2>9, SlotsAreApart
  <2> QED  BY <1>1, <2>10
<1> QED  BY <1>3, <1>4

AllApart ==
  \A n, o \in DOMAIN bound \ DOMAIN shared :
    bound[n][1].raw = bound[o][1].raw => Apart(bound[n], bound[o])

LEMMA ApartSuffices == AllApart => BlocksAreDisjoint
<1> SUFFICES ASSUME AllApart PROVE BlocksAreDisjoint
  OBVIOUS
<1>1. ASSUME NEW n \in DOMAIN bound, NEW o \in DOMAIN bound, OwnsCache(n), OwnsCache(o),
             bound[n][1].raw = bound[o][1].raw, NEW b \in Blocks(n)
      PROVE  /\ \A e \in Elements(n, b) : e \in 0 .. bound[n][1].raw.elements - 1
             /\ \A c \in Blocks(o) \ {b} : Elements(n, b) \cap Elements(o, c) = {}
             /\ \A i, j \in DOMAIN bound[n] : i # j =>
                  Footprint(bound[n][i], b, 1) \cap Footprint(bound[n][j], b, 1) = {}
  <2>1. Apart(bound[n], bound[o]) /\ b \in 0 .. bound[n][1].raw.num - 1
    BY <1>1 DEF AllApart, OwnsCache, Blocks
  <2>2. \A x, c : Elements(x, c) = ElementsOf(bound[x], c)
    BY DEF Elements, ElementsOf
  <2>3. \A c \in Blocks(o) \ {b} : c \in 0 .. bound[o][1].raw.num - 1 /\ c # b
    BY DEF Blocks
  <2>4. /\ \A e \in ElementsOf(bound[n], b) : e \in 0 .. bound[n][1].raw.elements - 1
        /\ \A c \in 0 .. bound[o][1].raw.num - 1 :
             c # b => ElementsOf(bound[n], b) \cap ElementsOf(bound[o], c) = {}
        /\ \A i, j \in DOMAIN bound[n] : i # j =>
             Footprint(bound[n][i], b, 1) \cap Footprint(bound[n][j], b, 1) = {}
    BY <2>1, Zenon DEF Apart
  <2> QED  BY <2>2, <2>3, <2>4
<1> QED  BY <1>1, Zenon DEF BlocksAreDisjoint

LEMMA InitializeApart ==
  ASSUME CacheIInv, shared = SharedLayers, stage = "loaded",
         UNCHANGED <<model, shared>>, NEW num \in Nat, NEW gen, NEW next,
         InitializeKVCache(num, gen, next)
  PROVE  AllApart'
<1> DEFINE early == eligible \cup Eligible
           ags   == AttnGroups(AllGroups, early)
           cs    == Caches(AllGroups, ags, num, gen)
<1>1. CASE Raises(AllGroups, ags, num, gen)
  <2>1. bound' = bound
    BY <1>1 DEF InitializeKVCache
  <2>2. DOMAIN bound = {}
    BY DEF CacheIInv, NoCaches
  <2> QED  BY <2>1, <2>2 DEF AllApart
<1>2. CASE ~Raises(AllGroups, ags, num, gen)
  <2>1. bound' = [n \in Owners(AllGroups) \cup DOMAIN shared |->
                    cs[IF n \in Owners(AllGroups) THEN n ELSE shared[n]]]
    BY <1>2 DEF InitializeKVCache
  <2>2. SetUp
    BY <1>2 DEF SetUp, CacheIInv, Raises
  <2> HIDE DEF cs
  <2>3. ASSUME NEW n \in Owners(AllGroups), NEW o \in Owners(AllGroups), cs[n][1].raw = cs[o][1].raw
        PROVE  Apart(cs[n], cs[o])
    <3>1. CASE num = 0
      <4>1. cs[n][1].raw.num = 0
        BY <2>2, <3>1, OwnerNum DEF cs
      <4> QED  BY <4>1 DEF Apart
    <3>2. CASE num # 0
      <4>1. num \in Nat \ {0}
        BY <3>2
      <4> HIDE DEF early
      <4> QED  BY <1>2, <2>2, <2>3, <4>1, OwnersApart DEF cs
    <3> QED  BY <3>1, <3>2
  <2>4. ASSUME NEW n \in DOMAIN bound' \ DOMAIN shared', NEW o \in DOMAIN bound' \ DOMAIN shared',
               bound'[n][1].raw = bound'[o][1].raw
        PROVE  Apart(bound'[n], bound'[o])
    <3>1. n \in Owners(AllGroups) /\ o \in Owners(AllGroups)
      BY <2>1
    <3>2. bound'[n] = cs[n] /\ bound'[o] = cs[o]
      BY <2>1, <3>1
    <3> QED  BY <2>3, <2>4, <3>1, <3>2
  <2> QED  BY <2>4 DEF AllApart, Apart, ElementsOf
<1> QED  BY <1>1, <1>2

(* Whatever is written to a block leaves every other block alone, also those *)
(* of layers of other groups in the same raw tensor, and stays inside the    *)
(* tensor, in the cache for the profiling run as in the real one: for every  *)
(* model, backends, kernel block sizes, padding and number of blocks.        *)
THEOREM BlocksAlwaysDisjoint == CacheSpec => []BlocksAreDisjoint
<1>1. CacheSpec => []CacheIInv
  BY CacheInitIInv, CacheNextIInv, PTL DEF CacheSpec
<1>2. CacheInit => AllApart
  BY DEF CacheInit, AllApart
<1>3. CacheIInv /\ AllApart /\ [CacheNext]_cacheVars => AllApart'
  <2> SUFFICES ASSUME CacheIInv, AllApart, [CacheNext]_cacheVars
               PROVE  AllApart'
    OBVIOUS
  <2>1. ASSUME DOMAIN bound' = {}
        PROVE  AllApart'
    BY <2>1 DEF AllApart
  <2>2. ASSUME bound' = bound, shared' = shared
        PROVE  AllApart'
    BY <2>2 DEF AllApart
  <2>3. CASE GetKVCacheSpec
    BY <2>1, <2>3 DEF GetKVCacheSpec, CacheIInv, NoCaches
  <2>4. CASE StartProfiling
    <3>1. MinBlocks \in Nat
      BY SetupAssumption
    <3> QED  BY <2>4, <3>1, InitializeApart DEF StartProfiling
  <2>5. CASE Initialize
    <3>1. NumBlocks \subseteq Nat
      BY SetupAssumption
    <3> QED  BY <2>5, <3>1, InitializeApart DEF Initialize
  <2>6. CASE SkipProfiling \/ EndProfiling \/ Shutdown
    BY <2>1, <2>6, CleanupUnbinds DEF SkipProfiling, EndProfiling, Shutdown
  <2>7. CASE CaptureForProfile \/ UpdateMaxModelLen \/ CaptureModel
    BY <2>2, <2>7 DEF CaptureForProfile, UpdateMaxModelLen, CaptureModel, layout
  <2>8. CASE UNCHANGED cacheVars
    BY <2>2, <2>8 DEF cacheVars, layout
  <2> QED  BY <2>3, <2>4, <2>5, <2>6, <2>7, <2>8 DEF CacheNext
<1> QED  BY <1>1, <1>2, <1>3, ApartSuffices, PTL DEF CacheSpec

-----------------------------------------------------------------------------
(* What the drafter is given of the target, for any number of layers, rows   *)
(* and target layers.                                                        *)
Outputs == [layer : Int, step : Int]
Buffers == [1 .. Rows -> [Columns -> Outputs]]
Streams == [x : Outputs, pending : BOOLEAN, buffer : Buffers]
Output(layer, step) == [layer |-> layer, step |-> step]

(* The column of a layer holds what the layer put out in this step.          *)
Seen(rows, n, id, step) ==
  \A row \in 1 .. Rows : row <= n => rows[row][BufferIndex[id]] = Output(id, step)

(* Two layers have different columns.                                        *)
LEMMA ColumnsDiffer ==
  ASSUME NEW i \in TargetIds, NEW j \in TargetIds, i < j
  PROVE  BufferIndex[i] # BufferIndex[j]
<1> DEFINE A == {k \in TargetIds : k < i}
           B == {k \in TargetIds : k < j}
<1>0. Layers \in Nat /\ TargetIds \subseteq 0 .. Layers - 1
  BY WeightAssumption
<1>1. IsFiniteSet(TargetIds)
  <2>1. IsFiniteSet(0 .. Layers - 1)
    BY <1>0, FS_Interval
  <2> QED  BY <1>0, <2>1, FS_Subset
<1>2. A \subseteq B /\ i \in B /\ i \notin A
  <2>1. \A k \in TargetIds : k \in Int
    BY <1>0
  <2> QED  BY <2>1
<1>3. IsFiniteSet(B)
  BY <1>1, FS_Subset
<1>4. Cardinality(A) # Cardinality(B)
  BY <1>2, <1>3, FS_Subset
<1> QED  BY <1>4 DEF BufferIndex

LEMMA ColumnOfLayer ==
  ASSUME NEW i \in TargetIds
  PROVE  /\ BufferIndex[i] \in Columns
         /\ \A j \in TargetIds : BufferIndex[i] = BufferIndex[j] => i = j
<1>1. i \in Int /\ \A j \in TargetIds : j \in Int
  BY WeightAssumption
<1>2. ASSUME NEW j \in TargetIds, BufferIndex[i] = BufferIndex[j] PROVE i = j
  BY <1>1, <1>2, ColumnsDiffer
<1> QED  BY <1>2 DEF Columns

LEMMA CaptureCopies ==
  ASSUME NEW rows \in Buffers, NEW n \in Nat, NEW id \in TargetIds, NEW output \in Outputs
  PROVE  /\ Capture(rows, n, id, output) \in Buffers
         /\ \A other \in TargetIds, step \in Int :
              /\ other # id /\ Seen(rows, n, other, step)
                   => Seen(Capture(rows, n, id, output), n, other, step)
              /\ output = Output(id, step) => Seen(Capture(rows, n, id, output), n, id, step)
<1> DEFINE new == Capture(rows, n, id, output)
<1>1. BufferIndex[id] \in Columns
  BY ColumnOfLayer
<1>2. new = [row \in 1 .. Rows |->
               IF row <= n THEN [rows[row] EXCEPT ![BufferIndex[id]] = output] ELSE rows[row]]
  BY DEF Capture, Buffers
<1>3. ASSUME NEW row \in 1 .. Rows
      PROVE  /\ new[row] \in [Columns -> Outputs]
             /\ row <= n => new[row][BufferIndex[id]] = output
             /\ \A c \in Columns : c # BufferIndex[id] => new[row][c] = rows[row][c]
  <2>1. rows[row] \in [Columns -> Outputs]
    BY DEF Buffers
  <2>2. CASE row <= n
    <3>1. new[row] = [rows[row] EXCEPT ![BufferIndex[id]] = output]
      BY <1>2, <2>2
    <3> HIDE DEF new
    <3> QED  BY <1>1, <2>1, <3>1
  <2>3. CASE ~(row <= n)
    <3>1. new[row] = rows[row]
      BY <1>2, <2>3
    <3> HIDE DEF new
    <3> QED  BY <2>1, <2>3, <3>1
  <2> QED  BY <2>2, <2>3
<1>4. new \in Buffers
  <2> HIDE DEF new
  <2> QED  BY <1>2, <1>3 DEF Buffers
<1> HIDE DEF new
<1>5. ASSUME NEW other \in TargetIds, NEW step \in Int, other # id, Seen(rows, n, other, step)
      PROVE  Seen(new, n, other, step)
  <2>1. BufferIndex[other] \in Columns /\ BufferIndex[other] # BufferIndex[id]
    BY <1>5, ColumnOfLayer
  <2> QED  BY <1>3, <1>5, <2>1 DEF Seen
<1>6. ASSUME NEW step \in Int, output = Output(id, step) PROVE Seen(new, n, id, step)
  BY <1>3, <1>6 DEF Seen
<1> QED  BY <1>4, <1>5, <1>6 DEF new

LayerStep(how, n, step, stream, layer) ==
  CaptureInline(how, n, LayerForward(how, n, step, stream, layer), layer)

(* One layer: what it finishes for the layer before it, what it copies of its*)
(* own, and what it leaves alone.                                            *)
Follows(stream, layer, step) == stream.pending => stream.x = Output(layer - 1, step)

LEMMA LayerCaptures ==
  ASSUME NEW how, NEW n \in Nat, NEW step \in Int, NEW layer \in 0 .. Layers - 1,
         NEW stream \in Streams
  PROVE  LET new == LayerStep(how, n, step, stream, layer)
         IN  /\ new \in Streams /\ new.x = Output(layer, step)
             /\ layer \in Deferred(how) => new.pending
             /\ layer \in TargetIds \ Deferred(how) => Seen(new.buffer, n, layer, step)
             /\ Follows(stream, layer, step) =>
                  /\ stream.pending /\ layer - 1 \in Deferred(how) =>
                       Seen(new.buffer, n, layer - 1, step)
                  /\ \A id \in TargetIds :
                       Seen(stream.buffer, n, id, step) => Seen(new.buffer, n, id, step)
<1> DEFINE passed == LayerForward(how, n, step, stream, layer)
           out    == Output(layer, step)
           new    == LayerStep(how, n, step, stream, layer)
<1>1. layer \in Int /\ layer - 1 \in Int /\ Deferred(how) \subseteq TargetIds
  BY WeightAssumption DEF Deferred
<1>2. out \in Outputs /\ stream.x \in Outputs /\ stream.buffer \in Buffers
      /\ stream.pending \in BOOLEAN
  BY <1>1 DEF Outputs, Streams, Output
<1>3. /\ passed.x = out /\ passed.pending = TRUE
      /\ passed = [x |-> out, pending |-> TRUE, buffer |-> passed.buffer]
      /\ passed.buffer = IF stream.pending /\ layer - 1 \in Deferred(how)
                         THEN Capture(stream.buffer, n, layer - 1, stream.x) ELSE stream.buffer
  BY DEF LayerForward, Output
<1>4. /\ passed.buffer \in Buffers
      /\ Follows(stream, layer, step) =>
           /\ stream.pending /\ layer - 1 \in Deferred(how) => Seen(passed.buffer, n, layer - 1, step)
           /\ \A id \in TargetIds :
                Seen(stream.buffer, n, id, step) => Seen(passed.buffer, n, id, step)
  <2>1. CASE stream.pending /\ layer - 1 \in Deferred(how)
    <3>1. layer - 1 \in TargetIds
      BY <1>1, <2>1
    <3>0. Follows(stream, layer, step) => stream.x = Output(layer - 1, step)
      BY <2>1 DEF Follows
    <3>2. passed.buffer = Capture(stream.buffer, n, layer - 1, stream.x)
      BY <1>3, <2>1
    <3> HIDE DEF passed, out
    <3>3. /\ passed.buffer \in Buffers
          /\ Follows(stream, layer, step) => Seen(passed.buffer, n, layer - 1, step)
      BY <1>2, <3>0, <3>1, <3>2, CaptureCopies
    <3>4. ASSUME NEW id \in TargetIds, Seen(stream.buffer, n, id, step),
                 Follows(stream, layer, step)
          PROVE  Seen(passed.buffer, n, id, step)
      <4>1. id # layer - 1 => Seen(passed.buffer, n, id, step)
        BY <1>2, <3>1, <3>2, <3>4, CaptureCopies
      <4> QED  BY <3>3, <3>4, <4>1
    <3> QED  BY <3>3, <3>4
  <2>2. CASE ~(stream.pending /\ layer - 1 \in Deferred(how))
    <3>1. passed.buffer = stream.buffer
      BY <1>3, <2>2
    <3> HIDE DEF passed
    <3> QED  BY <1>2, <2>2, <3>1
  <2> QED  BY <2>1, <2>2
<1>5. new = IF layer \in TargetIds \ Deferred(how)
            THEN [passed EXCEPT !.pending = FALSE,
                                !.buffer = Capture(passed.buffer, n, layer, passed.x)]
            ELSE passed
  BY DEF LayerStep, CaptureInline
<1>6. CASE layer \in TargetIds \ Deferred(how)
  <2>1. /\ new = [x |-> out, pending |-> FALSE, buffer |-> Capture(passed.buffer, n, layer, out)]
    <3> HIDE DEF passed, out, new
    <3> QED  BY <1>3, <1>5, <1>6
  <2> HIDE DEF passed, new
  <2>2. /\ new.x = out /\ new.buffer = Capture(passed.buffer, n, layer, out)
        /\ new.pending = FALSE
    BY <2>1
  <2>3. new.buffer \in Buffers /\ Seen(new.buffer, n, layer, step)
    BY <1>2, <1>4, <1>6, <2>2, CaptureCopies
  <2>4. ASSUME NEW id \in TargetIds, Seen(passed.buffer, n, id, step)
        PROVE  Seen(new.buffer, n, id, step)
    <3>1. id # layer => Seen(new.buffer, n, id, step)
      BY <1>2, <1>4, <1>6, <2>2, <2>4, CaptureCopies
    <3> QED  BY <2>3, <3>1
  <2>5. new \in Streams
    BY <1>2, <2>1, <2>2, <2>3 DEF Streams
  <2>6. Follows(stream, layer, step) /\ stream.pending /\ layer - 1 \in Deferred(how) =>
          Seen(new.buffer, n, layer - 1, step)
    BY <1>1, <1>4, <2>4
  <2> QED  BY <1>4, <1>6, <2>2, <2>3, <2>4, <2>5, <2>6 DEF new
<1>7. CASE layer \notin TargetIds \ Deferred(how)
  <2>1. new = passed
    BY <1>5, <1>7
  <2> HIDE DEF passed, out, new
  <2>2. new \in Streams
    BY <1>2, <1>3, <1>4, <2>1 DEF Streams
  <2> QED  BY <1>3, <1>4, <1>7, <2>1, <2>2 DEF new, out
<1> QED  BY <1>6, <1>7

(* The layers one after the other.                                           *)
Fresh(rows) == [x |-> Garbage, pending |-> FALSE, buffer |-> rows]

(* it[1 .. k] is the stream after k layers.                                  *)
PassedOn(it, how, n, step, rows) ==
  /\ it[{}] = Fresh(rows)
  /\ \A k \in 1 .. Layers : it[1 .. k] = LayerStep(how, n, step, it[1 .. k - 1], k - 1)
  /\ ModelForward(how, n, step, rows) = it[1 .. Layers].buffer

LEMMA ForwardUnfolds ==
  ASSUME NEW how, NEW n \in Nat, NEW step \in Int, NEW rows \in Buffers
  PROVE  \E it : PassedOn(it, how, n, step, rows)
<1> DEFINE Step(stream, layer) == LayerStep(how, n, step, stream, layer)
           seq  == [i \in 1 .. Layers |-> i - 1]
           next == [i \in 1 .. Layers |-> [x \in Streams |-> Step(x, i - 1)]]
           start == Fresh(rows)
           Eq(iter) ==
             iter = [s \in SUBSET DOMAIN seq |->
                       IF s = {} THEN start
                       ELSE Step(iter[s \ {Max(s)}], seq[Max(s)])]
           it == CHOOSE iter : Eq(iter)
<1>1. ModelForward(how, n, step, rows) = it[DOMAIN seq].buffer
  BY DEF ModelForward, FoldLeft, MapThenFoldSet, Fresh, LayerStep
<1>2. \A x \in Streams, i \in 1 .. Layers : Step(x, i - 1) \in Streams
  <2> SUFFICES ASSUME NEW x \in Streams, NEW i \in 1 .. Layers PROVE Step(x, i - 1) \in Streams
    OBVIOUS
  <2>1. i - 1 \in 0 .. Layers - 1
    BY WeightAssumption
  <2> QED  BY <2>1, LayerCaptures
<1>3. next \in Steps(Layers, Streams)
  <2> HIDE DEF Step
  <2> QED  BY <1>2 DEF Steps
<1>4. start \in Streams
  BY DEF Fresh, Garbage, Streams, Outputs
<1>5. PICK fold : IsFold(fold, Layers, Streams, start, next)
  <2> HIDE DEF start, next
  <2> QED  BY <1>3, <1>4, WeightAssumption, FoldExists
<1>6. DOMAIN seq = 1 .. Layers /\ \A i \in 1 .. Layers : seq[i] = i - 1
  OBVIOUS
<1>7. \A s : Max(s) = LastOf(s)
  BY DEF Max, LastOf
<1>8. ASSUME NEW s \in SUBSET (1 .. Layers), s # {}
      PROVE  Max(s) \in 1 .. Layers /\ s \ {Max(s)} \in SUBSET (1 .. Layers)
  <2>1. LastOf(s) \in s
    BY <1>8, LastIsGreatest, WeightAssumption
  <2> QED  BY <1>7, <2>1
<1>9. Eq(fold)
  <2> HIDE DEF start
  <2>1. fold = [s \in SUBSET (1 .. Layers) |-> fold[s]]
    BY <1>5 DEF IsFold
  <2>2. ASSUME NEW s \in SUBSET (1 .. Layers)
        PROVE  fold[s] = IF s = {} THEN start ELSE Step(fold[s \ {Max(s)}], seq[Max(s)])
    <3>1. FoldsAt(fold, start, next, s)
      BY <1>5 DEF IsFold
    <3>2. CASE s = {}
      BY <3>1, <3>2 DEF FoldsAt
    <3>3. CASE s # {}
      <4>1. fold[s] = next[Max(s)][fold[s \ {Max(s)}]]
        BY <1>7, <3>1, <3>3 DEF FoldsAt
      <4>2. Max(s) \in 1 .. Layers /\ fold[s \ {Max(s)}] \in Streams
        BY <1>5, <1>8, <3>3 DEF IsFold
      <4>3. seq[Max(s)] = Max(s) - 1
        BY <1>6, <4>2
      <4> HIDE DEF Step, seq
      <4>4. next[Max(s)][fold[s \ {Max(s)}]] = Step(fold[s \ {Max(s)}], Max(s) - 1)
        BY <4>2
      <4> QED  BY <3>3, <4>1, <4>3, <4>4
    <3> QED  BY <3>2, <3>3
  <2> HIDE DEF Step
  <2>3. [s \in SUBSET (1 .. Layers) |-> fold[s]] =
        [s \in SUBSET (1 .. Layers) |->
           IF s = {} THEN start ELSE Step(fold[s \ {Max(s)}], seq[Max(s)])]
    BY <2>2
  <2> QED  BY <1>6, <2>1, <2>3
<1>10. Eq(it)
  <2> HIDE DEF Eq
  <2> QED  BY <1>9
<1> HIDE DEF it
<1>11. ASSUME NEW s \in SUBSET (1 .. Layers)
       PROVE  it[s] = IF s = {} THEN start ELSE Step(it[s \ {Max(s)}], seq[Max(s)])
  <2> HIDE DEF Step, start
  <2> QED  BY <1>6, <1>10
<1>12. it[{}] = start
  <2> HIDE DEF Step, start
  <2> QED  BY <1>11
<1>13. ASSUME NEW k \in 1 .. Layers PROVE it[1 .. k] = Step(it[1 .. k - 1], k - 1)
  <2>0. Layers \in Nat /\ k \in Nat
    BY WeightAssumption
  <2>1. /\ 1 .. k \in SUBSET (1 .. Layers) /\ k \in 1 .. k /\ 1 .. k # {}
        /\ (1 .. k) \ {k} = 1 .. k - 1
    <3>1. 1 .. k \in SUBSET (1 .. Layers)
      BY ONLY <2>0, k \in 1 .. Layers
    <3>2. k \in 1 .. k
      BY ONLY <2>0, k \in 1 .. Layers
    <3>3. (1 .. k) \ {k} = 1 .. k - 1
      BY ONLY <2>0
    <3> QED  BY ONLY <3>1, <3>2, <3>3
  <2>2. LastOf(1 .. k) \in 1 .. k /\ LastOf(1 .. k) >= k
    <3>1. \A s : s = 1 .. k => s \in SUBSET (1 .. Layers) /\ s # {} /\ k \in s
      BY <2>1
    <3>2. \A s : s = 1 .. k => LastOf(s) \in s /\ \A y \in s : LastOf(s) >= y
      BY <3>1, LastIsGreatest, WeightAssumption
    <3> QED  BY <2>1, <3>2
  <2>3. Max(1 .. k) = k
    <3>1. PICK last \in 1 .. k : last = LastOf(1 .. k) /\ last >= k
      BY <2>2
    <3>2. last = k
      BY <3>1, WeightAssumption
    <3> QED  BY <1>7, <3>1, <3>2
  <2> HIDE DEF Step, seq
  <2> QED  BY <1>6, <1>11, <2>1, <2>3
<1>14. DOMAIN seq = 1 .. Layers /\ \A k \in 1 .. Layers : it[1 .. k] = Step(it[1 .. k - 1], k - 1)
  <2> HIDE DEF Step, seq
  <2> QED  BY <1>6, <1>13
<1>15. PassedOn(it, how, n, step, rows)
  BY <1>1, <1>12, <1>14 DEF PassedOn
<1> HIDE DEF it
<1> QED  BY <1>15

(* Where the stream is after k layers.                                       *)
Passed(how, n, step, stream, k) ==
  /\ stream \in Streams
  /\ Follows(stream, k, step)
  /\ k - 1 \in Deferred(how) => stream.pending
  /\ \A id \in TargetIds :
       id + (IF id \in Deferred(how) THEN 1 ELSE 0) < k => Seen(stream.buffer, n, id, step)

LEMMA LayerPasses ==
  ASSUME NEW how, NEW n \in Nat, NEW step \in Int, NEW k \in 1 .. Layers, NEW stream,
         Passed(how, n, step, stream, k - 1)
  PROVE  Passed(how, n, step, LayerStep(how, n, step, stream, k - 1), k)
<1> DEFINE new == LayerStep(how, n, step, stream, k - 1)
<1>1. k - 1 \in 0 .. Layers - 1 /\ \A id \in TargetIds : id \in Nat
  BY WeightAssumption
<1>2. /\ new \in Streams /\ new.x = Output(k - 1, step)
      /\ k - 1 \in Deferred(how) => new.pending
      /\ k - 1 \in TargetIds \ Deferred(how) => Seen(new.buffer, n, k - 1, step)
      /\ stream.pending /\ (k - 1) - 1 \in Deferred(how) => Seen(new.buffer, n, (k - 1) - 1, step)
      /\ \A id \in TargetIds : Seen(stream.buffer, n, id, step) => Seen(new.buffer, n, id, step)
  <2>1. stream \in Streams /\ Follows(stream, k - 1, step)
    BY DEF Passed
  <2> QED  BY <1>1, <2>1, LayerCaptures
<1> HIDE DEF new
<1>3. ASSUME NEW id \in TargetIds, id + (IF id \in Deferred(how) THEN 1 ELSE 0) < k
      PROVE  Seen(new.buffer, n, id, step)
  <2>1. CASE id \in Deferred(how)
    <3>1. CASE id + 1 < k - 1
      BY <1>2, <2>1, <3>1 DEF Passed
    <3>2. CASE id + 1 = k - 1
      <4>1. id = (k - 1) - 1
        BY <1>1, <3>2
      <4>2. stream.pending
        BY <2>1, <4>1 DEF Passed
      <4> QED  BY <1>2, <2>1, <4>1, <4>2
    <3> QED  BY <1>1, <1>3, <2>1, <3>1, <3>2
  <2>2. CASE id \notin Deferred(how)
    <3>1. CASE id < k - 1
      BY <1>1, <1>2, <2>2, <3>1 DEF Passed
    <3>2. CASE id = k - 1
      BY <1>2, <2>2, <3>2
    <3> QED  BY <1>1, <1>3, <2>2, <3>1, <3>2
  <2> QED  BY <2>1, <2>2
<1> QED  BY <1>2, <1>3 DEF Passed, Follows, new

(* The forward pass of the target.                                           *)
LEMMA ForwardHandsOver ==
  ASSUME NEW how, NEW n \in Nat, NEW step \in Int, NEW rows \in Buffers
  PROVE  /\ ModelForward(how, n, step, rows) \in Buffers
         /\ \A id \in TargetIds : Seen(ModelForward(how, n, step, rows), n, id, step)
<1>0. PICK it : PassedOn(it, how, n, step, rows)
  BY ForwardUnfolds
<1>1. /\ it[{}] = Fresh(rows)
      /\ \A k \in 1 .. Layers : it[1 .. k] = LayerStep(how, n, step, it[1 .. k - 1], k - 1)
      /\ ModelForward(how, n, step, rows) = it[1 .. Layers].buffer
  BY <1>0 DEF PassedOn
<1> DEFINE T == {k \in Nat : k <= Layers => Passed(how, n, step, it[1 .. k], k)}
<1>2. 0 \in T
  <2>1. 1 .. 0 = {}
    OBVIOUS
  <2>2. Fresh(rows) \in Streams /\ ~Fresh(rows).pending
    BY DEF Fresh, Garbage, Streams, Outputs
  <2>3. 0 - 1 \notin Deferred(how) /\ \A id \in TargetIds : id \in Nat
    BY WeightAssumption DEF Deferred
  <2>4. Passed(how, n, step, Fresh(rows), 0)
    <3> HIDE DEF T
    <3>1. \A id \in TargetIds : ~(id + (IF id \in Deferred(how) THEN 1 ELSE 0) < 0)
      BY <2>3
    <3> QED  BY <2>2, <2>3, <3>1 DEF Passed, Follows
  <2> QED  BY <1>1, <2>1, <2>4
<1>3. ASSUME NEW k \in Nat, k \in T PROVE k + 1 \in T
  <2> SUFFICES ASSUME k + 1 <= Layers PROVE Passed(how, n, step, it[1 .. k + 1], k + 1)
    OBVIOUS
  <2>1. k + 1 \in 1 .. Layers /\ (k + 1) - 1 = k /\ k <= Layers
    BY WeightAssumption
  <2>2. it[1 .. k + 1] = LayerStep(how, n, step, it[1 .. k], k)
    BY <1>1, <2>1
  <2>3. Passed(how, n, step, it[1 .. k], k)
    BY <1>3, <2>1
  <2>4. \A j : j = k + 1 => Passed(how, n, step, LayerStep(how, n, step, it[1 .. k], j - 1), j)
    BY <2>1, <2>3, LayerPasses
  <2> QED  BY <2>1, <2>2, <2>4
<1>4. Passed(how, n, step, it[1 .. Layers], Layers)
  <2>1. \A k \in Nat : k \in T
    <3> HIDE DEF T
    <3> QED  BY <1>2, <1>3, Induction
  <2> QED  BY <2>1, WeightAssumption
<1>5. ASSUME NEW id \in TargetIds
      PROVE  id + (IF id \in Deferred(how) THEN 1 ELSE 0) < Layers
  BY WeightAssumption DEF Deferred
<1> QED  BY <1>1, <1>4, <1>5 DEF Passed, Streams

(* A process that serves has a buffer, and its last pass filled the rows that*)
(* the drafter reads; nobody else has passed anything.                       *)
ModelDomains ==
  /\ DOMAIN phase = Processes /\ DOMAIN asked = Processes /\ DOMAIN weights = Processes
  /\ DOMAIN target = Processes /\ DOMAIN buffer = Processes /\ DOMAIN forward = Processes

HandedOver(p) ==
  LET f == forward[p]
  IN  /\ f.n \in 0 .. Rows /\ f.step \in {0, 1}
      /\ f.n = 0 \/ phase[p] \in {"serving", "rejected"}
      /\ phase[p] \in {"target loaded", "serving"} => buffer[p] \in Buffers
      /\ \A id \in TargetIds : f.n # 0 => Seen(buffer[p], f.n, id, f.step)

CaptureIInv == ModelDomains /\ \A p \in Processes : HandedOver(p)

LEMMA CaptureInit == Init => CaptureIInv
<1> SUFFICES ASSUME Init PROVE CaptureIInv
  OBVIOUS
<1>1. ModelDomains
  BY DEF Init, ModelDomains
<1>2. ASSUME NEW p \in Processes PROVE HandedOver(p)
  <2>1. forward[p] = NoForward /\ phase[p] = "down"
    BY DEF Init
  <2> QED  BY <2>1, CaptureAssumption DEF HandedOver, NoForward
<1> QED  BY <1>1, <1>2 DEF CaptureIInv

LEMMA CaptureNext ==
  ASSUME CaptureIInv, [Next]_vars
  PROVE  CaptureIInv'
<1> USE DEF CaptureIInv, ModelDomains
<1>1. ASSUME NEW p \in Processes, phase'[p] = phase[p],
             buffer'[p] = buffer[p], forward'[p] = forward[p]
      PROVE  HandedOver(p)'
  BY <1>1 DEF HandedOver
<1>2. ASSUME NEW p \in Processes,
             Start(p) \/ Inspect(p) \/ Unsupported(p) \/ TargetInspected(p) \/ DraftInspected(p)
      PROVE  CaptureIInv'
  <2>1. /\ UNCHANGED <<target, weights, buffer, forward>>
        /\ DOMAIN phase' = Processes /\ DOMAIN asked' = Processes
        /\ \A q \in Processes \ {p} : phase'[q] = phase[q]
    BY <1>2 DEF Start, Inspect, Unsupported, TargetInspected, DraftInspected, Advance, modelVars
  <2>2. phase'[p] \notin {"target loaded", "serving"} \/ phase'[p] = phase[p]
    BY <1>2 DEF Start, Inspect, Unsupported, TargetInspected, DraftInspected, Advance
  <2>3. phase[p] \notin {"serving", "rejected"} \/ phase'[p] \in {phase[p], "rejected"}
    BY <1>2 DEF Start, Inspect, Unsupported, TargetInspected, DraftInspected, Advance
  <2> QED  BY <1>1, <2>1, <2>2, <2>3 DEF HandedOver
<1>3. ASSUME NEW p \in Processes, LoadTarget(p) PROVE CaptureIInv'
  <2>1. UNCHANGED <<asked, forward, weights>> /\ DOMAIN phase' = Processes /\ DOMAIN buffer' = Processes
        /\ DOMAIN target' = Processes
        /\ \A q \in Processes \ {p} : phase'[q] = phase[q] /\ buffer'[q] = buffer[q]
    BY <1>3 DEF LoadTarget, Advance
  <2>2. phase[p] = "configured" /\ forward[p].n = 0
    BY <1>3 DEF LoadTarget, HandedOver
  <2>3. \/ phase'[p] = "failed" /\ buffer'[p] = buffer[p]
        \/ phase'[p] = "target loaded" /\ buffer'[p] = NewBuffer
    BY <1>3 DEF LoadTarget, Advance
  <2>4. NewBuffer \in Buffers
    BY DEF NewBuffer, Buffers, Garbage, Outputs
  <2>5. HandedOver(p)'
    BY <2>1, <2>2, <2>3, <2>4 DEF HandedOver
  <2> QED  BY <1>1, <2>1, <2>5
<1>4. ASSUME NEW p \in Processes, LoadDrafter(p) PROVE CaptureIInv'
  <2>1. UNCHANGED <<asked, forward, weights, target, buffer>> /\ DOMAIN phase' = Processes
        /\ \A q \in Processes \ {p} : phase'[q] = phase[q]
    BY <1>4 DEF LoadDrafter, Advance
  <2>2. phase[p] = "target loaded" /\ phase'[p] \in {"serving", "failed"}
    BY <1>4 DEF LoadDrafter, Advance
  <2>3. HandedOver(p)'
    BY <2>1, <2>2 DEF HandedOver
  <2> QED  BY <1>1, <2>1, <2>3
<1>5. ASSUME NEW p \in Processes, Forward(p) PROVE CaptureIInv'
  <2>1. UNCHANGED <<asked, phase, weights, target>> /\ DOMAIN buffer' = Processes /\ DOMAIN forward' = Processes
        /\ \A q \in Processes \ {p} : buffer'[q] = buffer[q] /\ forward'[q] = forward[q]
    BY <1>5 DEF Forward
  <2>2. PICK n \in 1 .. Rows :
          /\ forward'[p] = [n |-> n, step |-> 1 - forward[p].step]
          /\ buffer'[p] = ModelForward(asked[p].runtime.capture, n, forward'[p].step, buffer[p])
    BY <1>5 DEF Forward
  <2>3. phase[p] = "serving" /\ buffer[p] \in Buffers /\ forward[p].step \in {0, 1}
    BY <1>5 DEF Forward, HandedOver
  <2>4. n \in Nat /\ forward'[p].n = n /\ forward'[p].step \in {0, 1} /\ n \in 0 .. Rows
    BY <2>2, <2>3, CaptureAssumption
  <2>5. /\ buffer'[p] \in Buffers
        /\ \A id \in TargetIds : Seen(buffer'[p], n, id, forward'[p].step)
    BY <2>2, <2>3, <2>4, ForwardHandsOver
  <2>6. HandedOver(p)'
    BY <2>1, <2>3, <2>4, <2>5 DEF HandedOver
  <2> QED  BY <1>1, <2>1, <2>6
<1>6. ASSUME NEW p \in Processes, Reload(p) PROVE CaptureIInv'
  <2>1. UNCHANGED <<asked, phase, buffer, forward>> /\ DOMAIN weights' = Processes
        /\ DOMAIN target' = Processes
    BY <1>6 DEF Reload
  <2> QED  BY <1>1, <2>1
<1>7. ASSUME NEW p \in Processes, Stop(p) PROVE CaptureIInv'
  <2>1. /\ DOMAIN phase' = Processes /\ DOMAIN asked' = Processes /\ DOMAIN weights' = Processes
        /\ DOMAIN target' = Processes /\ DOMAIN buffer' = Processes /\ DOMAIN forward' = Processes
        /\ \A q \in Processes \ {p} :
             phase'[q] = phase[q] /\ buffer'[q] = buffer[q] /\ forward'[q] = forward[q]
        /\ phase'[p] = "down" /\ forward'[p] = NoForward
    BY <1>7 DEF Stop, Advance
  <2>3. forward'[p].n = 0 /\ forward'[p].step = 0 /\ 0 \in 0 .. Rows
    BY <2>1, CaptureAssumption DEF NoForward
  <2>2. HandedOver(p)'
    BY <2>1, <2>3 DEF HandedOver
  <2> QED  BY <1>1, <2>1, <2>2
<1>8. ASSUME NEW f \in Files, Reinstall(f) PROVE CaptureIInv'
  BY <1>1, <1>8 DEF Reinstall, modelVars
<1>9. CASE UNCHANGED vars
  BY <1>1, <1>9 DEF vars, modelVars
<1> QED  BY <1>2, <1>3, <1>4, <1>5, <1>6, <1>7, <1>8, <1>9 DEF Next

LEMMA CaptureSuffices == CaptureIInv => DrafterSeesThisStep
<1> SUFFICES ASSUME CaptureIInv, NEW p \in Processes, NEW row \in 1 .. forward[p].n,
                    NEW id \in TargetIds
             PROVE  buffer[p][row][BufferIndex[id]] = [layer |-> id, step |-> forward[p].step]
  BY DEF DrafterSeesThisStep
<1>1. forward[p].n \in 0 .. Rows /\ forward[p].n # 0 /\ row \in 1 .. Rows /\ row <= forward[p].n
  <2>1. PICK n \in 0 .. Rows : n = forward[p].n
    BY DEF CaptureIInv, HandedOver
  <2>2. row \in 1 .. n
    BY <2>1
  <2>3. n # 0 /\ row \in 1 .. Rows /\ row <= n
    BY ONLY <2>2, n \in 0 .. Rows, CaptureAssumption
  <2> QED  BY <2>1, <2>3
<1>2. Seen(buffer[p], forward[p].n, id, forward[p].step)
  BY <1>1 DEF CaptureIInv, HandedOver
<1> QED  BY <1>1, <1>2 DEF Seen, Output

(* What the drafter reads are outputs of the step that it drafts for, each of*)
(* the layer that its column stands for: also where the next layer copies it *)
(* late, for any set of target layers, the last layer among them or not      *)
(* (nvidia/model.py: DeepseekV4DecoderLayer.forward, DeepseekV4Model.forward,*)
(* _setup_dspark_deferred_target_capture).                                   *)
THEOREM DrafterAlwaysSeesThisStep == Spec => []DrafterSeesThisStep
<1> QED  BY CaptureInit, CaptureNext, CaptureSuffices, PTL DEF Spec

-----------------------------------------------------------------------------
(* Where every tensor of the target goes, on every rank, for any number of   *)
(* ranks, experts, heads and layers.                                         *)

(* n is what slot s of a rank is for, and the loader writes it there alone.  *)
Placed(m, rank, n, s) ==
  /\ n \in TargetNames /\ s \in TargetSlots(m)
  /\ TargetWrites(m, rank, n) = {s} /\ Own(m, rank, s) = n

TargetLayers == 0 .. Layers - 1
LayerNames(l) ==
  BlockNames("layers", l)
  \cup {Name("layers", l, "compressor", NoExpert, w, "weight") : w \in {"wkv", "wgate"}}
  \cup {Name("layers", l, "gate", NoExpert, IF IsHash(l) THEN "tid2eid" ELSE "bias", "weight")}
LayerSlots(m, l) ==
  BlockSlots(m, l)
  \cup {Slot(l, "mla_attn.compressor", "fused_wkv_wgate", "weight", Whole, i) : i \in {0, 1}}

LEMMA TargetIsLayers ==
  ASSUME NEW m
  PROVE  /\ \A n : n \in TargetNames <=> \E l \in TargetLayers : n \in LayerNames(l)
         /\ \A s : s \in TargetSlots(m) <=> \E l \in TargetLayers : s \in LayerSlots(m, l)
<1>1. \A n : n \in TargetNames <=> \E l \in TargetLayers : n \in LayerNames(l)
  <2>1. TargetNames = UNION {LayerNames(l) : l \in TargetLayers}
    BY Zenon DEF TargetNames, LayerNames, TargetLayers
  <2> QED  BY <2>1
<1>2. \A s : s \in TargetSlots(m) <=> \E l \in TargetLayers : s \in LayerSlots(m, l)
  <2>1. TargetSlots(m) = UNION {LayerSlots(m, l) : l \in TargetLayers}
    BY Zenon DEF TargetSlots, LayerSlots, TargetLayers
  <2> QED  BY <2>1
<1> QED  BY <1>1, <1>2

LEMMA LayersAreTargets ==
  ASSUME NEW l \in TargetLayers
  PROVE  l < StartLayer /\ l \in Nat
<1> DEFINE S == {Layers} \cup {i + 1 : i \in TargetIds}
<1>1. Layers \in S /\ \A i \in S : i \in Nat /\ Layers >= i
  BY WeightAssumption
<1>2. StartLayer \in S /\ StartLayer >= Layers
  <2>1. \E x \in S : \A y \in S : x >= y
    BY <1>1
  <2>2. StartLayer = CHOOSE x \in S : \A y \in S : x >= y
    BY DEF StartLayer, Max
  <2> HIDE DEF S
  <2> QED  BY <1>1, <2>1, <2>2
<1>3. l \in Nat /\ l < Layers /\ Layers \in Nat
  BY WeightAssumption DEF TargetLayers
<1> HIDE DEF S
<1> QED  BY <1>1, <1>2, <1>3

(* The weights of the attention.                                             *)
AttnName(l, w) == Name("layers", l, "attn", NoExpert, w, "weight")
AttnSlot(l, w) ==
  IF w = "sink" THEN Slot(l, "attn", "sink", "weight", Whole, Whole)
  ELSE Slot(l, "attn", "fused_wqa_wkv", "weight", Whole, IF w = "wq_a" THEN 0 ELSE 1)

LEMMA AttnPlaced ==
  ASSUME NEW m \in ModelConfigs, NEW rank \in Ranks, NEW l \in TargetLayers,
         NEW w \in {"wq_a", "wkv", "sink"}
  PROVE  Placed(m, rank, AttnName(l, w), AttnSlot(l, w))
<1> DEFINE n == AttnName(l, w)
           s == AttnSlot(l, w)
<1>1. n \in TargetNames
  <2>1. n \in LayerNames(l)
    BY DEF AttnName, LayerNames, BlockNames
  <2> QED  BY <2>1, TargetIsLayers
<1>2. s \in TargetSlots(m)
  <2>1. s \in BlockSlots(m, l)
    BY DEF AttnSlot, BlockSlots
  <2> QED  BY <2>1, TargetIsLayers DEF LayerSlots
<1>3. TargetWrites(m, rank, n) = LinearWrites(TargetSlots(m), TargetStacked, "attn", l, n)
  BY DEF TargetWrites, AttnName, Name
<1>4. Renamed(n) = [module |-> "attn", weight |-> w, suffix |-> "weight"]
  BY DEF Renamed, AttnName, Name
<1>5. /\ "attn" \in DOMAIN TargetStacked
      /\ TargetStacked["attn"] = AttnStacked
      /\ DOMAIN AttnStacked = {"wq_a", "wkv"}
      /\ \A x \in {"wq_a", "wkv"} : AttnStacked[x].weight = "fused_wqa_wkv"
                                    /\ AttnStacked[x].shard = IF x = "wq_a" THEN 0 ELSE 1
  BY DEF TargetStacked, AttnStacked
<1>6. n.module = "attn"
  BY DEF AttnName, Name
<1>7. LinearWrites(TargetSlots(m), TargetStacked, "attn", l, n) = {s}
  <2>1. CASE w = "sink"
    <3>1. w \notin {"wq_a", "wkv"}
      BY <2>1
    <3>2. s = Slot(l, "attn", w, "weight", Whole, Whole)
      BY <2>1 DEF AttnSlot
    <3> HIDE DEF n, s
    <3> QED  BY <1>2, <1>4, <1>5, <1>6, <3>1, <3>2 DEF LinearWrites
  <2>2. CASE w \in {"wq_a", "wkv"}
    <3>2. s = Slot(l, "attn", "fused_wqa_wkv", "weight", Whole, IF w = "wq_a" THEN 0 ELSE 1)
      BY <2>2 DEF AttnSlot
    <3> HIDE DEF n, s
    <3> QED  BY <1>2, <1>4, <1>5, <1>6, <2>2, <3>2 DEF LinearWrites
  <2> QED  BY <2>1, <2>2
<1>8. Own(m, rank, s) = n
  BY LayersAreTargets DEF Own, Role, AttnSlot, AttnName, Slot
<1> QED  BY <1>1, <1>2, <1>3, <1>7, <1>8 DEF Placed

(* Those of the shared experts, of which two share a parameter.              *)
MLPName(l, w, s) == Name("layers", l, "shared_experts", NoExpert, w, s)
MLPSlot(l, w, s) ==
  Slot(l, "shared_experts", IF w = "w2" THEN "down_proj" ELSE "gate_up_proj",
       IF s = "scale" THEN LinearScale ELSE s, Whole, IF w = "w3" THEN 1 ELSE 0)

LEMMA MLPPlaced ==
  ASSUME NEW m \in ModelConfigs, NEW rank \in Ranks, NEW l \in TargetLayers,
         NEW w \in {"w1", "w2", "w3"}, NEW suffix \in {"weight", "scale"}
  PROVE  Placed(m, rank, MLPName(l, w, suffix), MLPSlot(l, w, suffix))
<1> DEFINE n == MLPName(l, w, suffix)
           s == MLPSlot(l, w, suffix)
           to == IF suffix = "scale" THEN LinearScale ELSE suffix
<1>1. n \in TargetNames
  <2>1. n \in LayerNames(l)
    BY DEF MLPName, LayerNames, BlockNames
  <2> QED  BY <2>1, TargetIsLayers
<1>2. s \in TargetSlots(m)
  <2>1. s \in MLPSlots(l)
    <3>1. to \in {"weight", LinearScale}
      BY DEF LinearScale
    <3>2. \E wi \in {<<"gate_up_proj", 0>>, <<"gate_up_proj", 1>>, <<"down_proj", Whole>>} :
            s = Slot(l, "shared_experts", wi[1], to, Whole, wi[2])
      BY DEF MLPSlot, Whole
    <3> HIDE DEF s, to
    <3> QED  BY <3>1, <3>2 DEF MLPSlots
  <2>2. s \in BlockSlots(m, l)
    BY <2>1 DEF BlockSlots
  <2> QED  BY <2>2, TargetIsLayers DEF LayerSlots
<1>3. TargetWrites(m, rank, n) = LinearWrites(TargetSlots(m), TargetStacked, "shared_experts", l, n)
  BY DEF TargetWrites, MLPName, Name
<1>4. Renamed(n) = [module |-> "shared_experts", weight |-> IF w = "w2" THEN "down_proj" ELSE w,
                    suffix |-> to]
  BY DEF Renamed, MLPName, Name
<1>5. /\ "shared_experts" \in DOMAIN TargetStacked
      /\ TargetStacked["shared_experts"] = MLPStacked
      /\ DOMAIN MLPStacked = {"w1", "w3"}
      /\ \A x \in {"w1", "w3"} : MLPStacked[x].weight = "gate_up_proj"
                                    /\ MLPStacked[x].shard = IF x = "w1" THEN 0 ELSE 1
  BY DEF TargetStacked, MLPStacked
<1>6. n.module = "shared_experts"
  BY DEF MLPName, Name
<1>7. LinearWrites(TargetSlots(m), TargetStacked, "shared_experts", l, n) = {s}
  <2>1. CASE w = "w2"
    <3>1. "down_proj" \notin {"w1", "w3"}
      OBVIOUS
    <3>2. s = Slot(l, "shared_experts", "down_proj", to, Whole, Whole)
      BY <2>1 DEF MLPSlot, Whole
    <3> HIDE DEF n, s, to
    <3> QED  BY <1>2, <1>4, <1>5, <1>6, <2>1, <3>1, <3>2 DEF LinearWrites
  <2>2. CASE w \in {"w1", "w3"}
    <3>2. s = Slot(l, "shared_experts", "gate_up_proj", to, Whole, IF w = "w1" THEN 0 ELSE 1)
      BY <2>2 DEF MLPSlot
    <3>3. w # "w2"
      BY <2>2
    <3> HIDE DEF n, s, to
    <3> QED  BY <1>2, <1>4, <1>5, <1>6, <2>2, <3>2, <3>3 DEF LinearWrites
  <2> QED  BY <2>1, <2>2
<1>8. Own(m, rank, s) = n
  BY LayersAreTargets DEF Own, Role, MLPSlot, MLPName, Slot, LinearScale
<1> QED  BY <1>1, <1>2, <1>3, <1>7, <1>8 DEF Placed

(* Those of the compressor, and the gate's.                                  *)
CompressorName(l, w) == Name("layers", l, "compressor", NoExpert, w, "weight")
CompressorSlot(l, w) ==
  Slot(l, "mla_attn.compressor", "fused_wkv_wgate", "weight", Whole, IF w = "wkv" THEN 0 ELSE 1)

LEMMA CompressorPlaced ==
  ASSUME NEW m \in ModelConfigs, NEW rank \in Ranks, NEW l \in TargetLayers,
         NEW w \in {"wkv", "wgate"}
  PROVE  Placed(m, rank, CompressorName(l, w), CompressorSlot(l, w))
<1> DEFINE n == CompressorName(l, w)
           s == CompressorSlot(l, w)
<1>1. n \in TargetNames
  <2>1. n \in LayerNames(l)
    BY DEF CompressorName, LayerNames
  <2> QED  BY <2>1, TargetIsLayers
<1>2. s \in TargetSlots(m)
  <2>1. s \in LayerSlots(m, l)
    BY DEF CompressorSlot, LayerSlots
  <2> QED  BY <2>1, TargetIsLayers
<1>3. TargetWrites(m, rank, n) = LinearWrites(TargetSlots(m), TargetStacked, "mla_attn.compressor", l, n)
  BY DEF TargetWrites, CompressorName, Name
<1>4. Renamed(n) = [module |-> "compressor", weight |-> w, suffix |-> "weight"]
  BY DEF Renamed, CompressorName, Name
<1>5. /\ "compressor" \in DOMAIN TargetStacked
      /\ TargetStacked["compressor"] = CompressorStacked
      /\ DOMAIN CompressorStacked = {"wkv", "wgate"}
      /\ \A x \in {"wkv", "wgate"} : CompressorStacked[x].weight = "fused_wkv_wgate"
                                    /\ CompressorStacked[x].shard = IF x = "wkv" THEN 0 ELSE 1
  BY DEF TargetStacked, CompressorStacked
<1>6. n.module = "compressor"
  BY DEF CompressorName, Name
<1>7. LinearWrites(TargetSlots(m), TargetStacked, "mla_attn.compressor", l, n) = {s}
  <2>1. s = Slot(l, "mla_attn.compressor", "fused_wkv_wgate", "weight", Whole, IF w = "wkv" THEN 0 ELSE 1)
    BY DEF CompressorSlot
  <2> HIDE DEF n, s
  <2> QED  BY <1>2, <1>4, <1>5, <1>6, <2>1 DEF LinearWrites
<1>8. Own(m, rank, s) = n
  BY LayersAreTargets DEF Own, Role, CompressorSlot, CompressorName, Slot
<1> QED  BY <1>1, <1>2, <1>3, <1>7, <1>8 DEF Placed

GateName(l) == Name("layers", l, "gate", NoExpert, IF IsHash(l) THEN "tid2eid" ELSE "bias", "weight")
GateSlot(l) ==
  Slot(l, "gate", IF IsHash(l) THEN "tid2eid" ELSE "e_score_correction_bias", "weight", Whole, Whole)

LEMMA GatePlaced ==
  ASSUME NEW m \in ModelConfigs, NEW rank \in Ranks, NEW l \in TargetLayers
  PROVE  Placed(m, rank, GateName(l), GateSlot(l))
<1> DEFINE n == GateName(l)
           s == GateSlot(l)
<1>1. n \in TargetNames
  <2>1. n \in LayerNames(l)
    BY DEF GateName, LayerNames
  <2> QED  BY <2>1, TargetIsLayers
<1>2. s \in TargetSlots(m)
  <2>1. s \in BlockSlots(m, l)
    BY DEF GateSlot, BlockSlots
  <2> QED  BY <2>1, TargetIsLayers DEF LayerSlots
<1>3. TargetWrites(m, rank, n) = LinearWrites(TargetSlots(m), TargetStacked, "gate", l, n)
  BY DEF TargetWrites, GateName, Name
<1>4. Renamed(n) = [module |-> "gate",
                    weight |-> IF IsHash(l) THEN "tid2eid" ELSE "e_score_correction_bias",
                    suffix |-> "weight"]
  BY DEF Renamed, GateName, Name
<1>5. "gate" \notin DOMAIN TargetStacked
  BY DEF TargetStacked
<1>6. n.module = "gate"
  BY DEF GateName, Name
<1>7. LinearWrites(TargetSlots(m), TargetStacked, "gate", l, n) = {s}
  <2>1. s = Slot(l, "gate", IF IsHash(l) THEN "tid2eid" ELSE "e_score_correction_bias", "weight",
                 Whole, Whole)
    BY DEF GateSlot
  <2> HIDE DEF n, s
  <2> QED  BY <1>2, <1>4, <1>5, <1>6, <2>1 DEF LinearWrites
<1>8. Own(m, rank, s) = n
  BY LayersAreTargets DEF Own, Role, GateSlot, GateName, Slot
<1> QED  BY <1>1, <1>2, <1>3, <1>7, <1>8 DEF Placed

(* Those of the routed experts: a rank writes the experts it keeps.          *)
ExpertName(l, e, w, s) == Name("layers", l, "experts", e, w, s)
ExpertSlot(m, l, i, w, s) ==
  Slot(l, "experts", IF w \in {"w1", "w3"} THEN "w13" ELSE "w2",
       IF s = "scale" THEN ExpertScale(m) ELSE s, i, w)
LocalIndex(m, rank, e) == IF m.mega THEN MapGlobalExpertId(rank, e) ELSE e
GlobalIndex(m, rank, i) == IF m.mega THEN rank * LocalExperts + i ELSE i
Indices(m) == 0 .. (IF m.mega THEN LocalExperts ELSE Experts) - 1

LEMMA IndicesMatch ==
  ASSUME NEW m \in ModelConfigs, NEW rank \in Ranks
  PROVE  /\ \A e \in 0 .. Experts - 1 :
              LocalIndex(m, rank, e) # -1 =>
                /\ LocalIndex(m, rank, e) \in Indices(m)
                /\ GlobalIndex(m, rank, LocalIndex(m, rank, e)) = e
         /\ \A i \in Indices(m) :
              /\ GlobalIndex(m, rank, i) \in 0 .. Experts - 1
              /\ LocalIndex(m, rank, GlobalIndex(m, rank, i)) = i /\ i # -1
<1> DEFINE L == LocalExperts
<1>1. N \in Nat \ {0} /\ L \in Nat /\ N * L = Experts /\ Experts \in Nat /\ Ranks = 0 .. N - 1
  BY LocalExpertsType, WeightAssumption DEF N
<1>2. rank \in Nat /\ rank + 1 <= N /\ rank * L \in Nat
  BY <1>1
<1>3. rank * L + L <= Experts
  <2>1. (rank + 1) * L <= N * L
    BY <1>1, <1>2, Monotone
  <2>2. (rank + 1) * L = rank * L + L
    BY <1>1, <1>2, Successor
  <2> QED  BY <1>1, <2>1, <2>2
<1>4. ExpertsStart(rank) = rank * L /\ ExpertsEnd(rank) = rank * L + L
  BY DEF ExpertsStart, ExpertsEnd
<1>5. PICK start : start = rank * L
  OBVIOUS
<1>6. start \in Nat /\ start + L <= Experts
  BY <1>2, <1>3, <1>5
<1>7. \A e : MapGlobalExpertId(rank, e) = IF e < start \/ e >= start + L THEN -1 ELSE e - start
  BY <1>4, <1>5 DEF MapGlobalExpertId
<1>8. \A i : GlobalIndex(m, rank, i) = IF m.mega THEN start + i ELSE i
  BY <1>5 DEF GlobalIndex
<1> HIDE DEF L
<1>9. ASSUME m.mega, NEW e \in 0 .. Experts - 1, LocalIndex(m, rank, e) # -1
      PROVE  LocalIndex(m, rank, e) \in Indices(m) /\ GlobalIndex(m, rank, LocalIndex(m, rank, e)) = e
  <2>1. LocalIndex(m, rank, e) = e - start /\ e >= start /\ e < start + L
    BY <1>1, <1>6, <1>7, <1>9 DEF LocalIndex
  <2>2. e - start \in 0 .. L - 1 /\ start + (e - start) = e
    BY <1>1, <1>6, <2>1
  <2> QED  BY <1>8, <1>9, <2>1, <2>2 DEF Indices, L
<1>10. ASSUME m.mega, NEW i \in Indices(m)
       PROVE  /\ GlobalIndex(m, rank, i) \in 0 .. Experts - 1
              /\ LocalIndex(m, rank, GlobalIndex(m, rank, i)) = i /\ i # -1
  <2>1. i \in 0 .. L - 1
    BY <1>10 DEF Indices, L
  <2>2. start + i \in 0 .. Experts - 1 /\ start + i >= start /\ start + i < start + L
        /\ (start + i) - start = i /\ i # -1
    BY <1>1, <1>6, <2>1
  <2>3. GlobalIndex(m, rank, i) = start + i
    BY <1>8, <1>10
  <2>4. MapGlobalExpertId(rank, start + i) = i
    BY <1>1, <1>6, <1>7, <2>2
  <2> QED  BY <1>10, <2>2, <2>3, <2>4 DEF LocalIndex
<1>11. ASSUME ~m.mega
       PROVE  /\ \A e \in 0 .. Experts - 1 :
                   LocalIndex(m, rank, e) \in Indices(m) /\ GlobalIndex(m, rank, LocalIndex(m, rank, e)) = e
              /\ \A i \in Indices(m) :
                   /\ GlobalIndex(m, rank, i) \in 0 .. Experts - 1
                   /\ LocalIndex(m, rank, GlobalIndex(m, rank, i)) = i /\ i # -1
  <2>1. Indices(m) = 0 .. Experts - 1
    BY <1>11 DEF Indices
  <2>2. \A i \in 0 .. Experts - 1 : i # -1
    BY <1>1
  <2> QED  BY <1>11, <2>1, <2>2 DEF LocalIndex, GlobalIndex
<1>12. m.mega \in BOOLEAN
  BY DEF ModelConfigs
<1> QED  BY <1>9, <1>10, <1>11, <1>12

LEMMA ExpertPlaced ==
  ASSUME NEW m \in ModelConfigs, NEW rank \in Ranks, NEW l \in TargetLayers,
         NEW e \in 0 .. Experts - 1, NEW w \in {"w1", "w2", "w3"}, NEW suffix \in {"weight", "scale"}
  PROVE  LET n == ExpertName(l, e, w, suffix)
             i == LocalIndex(m, rank, e)
         IN  IF i = -1 THEN n \in TargetNames /\ TargetWrites(m, rank, n) = {}
             ELSE Placed(m, rank, n, ExpertSlot(m, l, i, w, suffix))
<1> DEFINE n == ExpertName(l, e, w, suffix)
           i == LocalIndex(m, rank, e)
           s == ExpertSlot(m, l, i, w, suffix)
           to == IF suffix = "scale" THEN ExpertScale(m) ELSE suffix
<1>1. n \in TargetNames
  <2>1. n \in LayerNames(l)
    BY DEF ExpertName, LayerNames, BlockNames
  <2> QED  BY <2>1, TargetIsLayers
<1>2. TargetWrites(m, rank, n) = IF i = -1 THEN {} ELSE {s}
  BY DEF TargetWrites, ExpertWrites, ExpertName, ExpertSlot, Name, LocalIndex
<1>3. ASSUME i # -1 PROVE s \in TargetSlots(m) /\ Own(m, rank, s) = n
  <2>1. i \in Indices(m) /\ GlobalIndex(m, rank, i) = e
    BY <1>3, IndicesMatch
  <2> HIDE DEF i
  <2>2. to \in {"weight", ExpertScale(m)}
    OBVIOUS
  <2>3. \E wi \in {<<"w13", "w1">>, <<"w13", "w3">>, <<"w2", "w2">>} :
          s = Slot(l, "experts", wi[1], to, i, wi[2])
    BY DEF ExpertSlot
  <2>4. s \in ExpertSlots(m, l)
    <3> HIDE DEF s, to
    <3> QED  BY <2>1, <2>2, <2>3 DEF ExpertSlots, Indices
  <2>5. s \in BlockSlots(m, l)
    BY <2>4 DEF BlockSlots
  <2>6. s \in TargetSlots(m)
    BY <2>5, TargetIsLayers DEF LayerSlots
  <2>7. /\ s.layer = l /\ s.module = "experts" /\ s.index = i /\ s.shard = w
        /\ s.weight \in {"w13", "w2"} /\ (s.suffix = "weight" <=> suffix = "weight")
    BY DEF ExpertSlot, Slot, ExpertScale
  <2>8. Role(s) = w
    <3> HIDE DEF s
    <3> QED  BY <2>7 DEF Role
  <2>9. Own(m, rank, s) = n
    <3>1. (IF m.mega THEN rank * LocalExperts + s.index ELSE s.index) = e
      BY <2>1, <2>7 DEF GlobalIndex
    <3> HIDE DEF s
    <3> QED  BY <2>7, <2>8, <3>1, LayersAreTargets DEF Own, ExpertName
  <2> QED  BY <2>6, <2>9
<1> QED  BY <1>1, <1>2, <1>3 DEF Placed

(* Every tensor of the target has a slot on every rank, an expert's on the   *)
(* rank that keeps the expert; and every slot of a rank has its tensor.      *)
IsExpert(n) ==
  \E l \in TargetLayers, e \in 0 .. Experts - 1, w \in {"w1", "w2", "w3"}, s \in {"weight", "scale"} :
    n = ExpertName(l, e, w, s)

LEMMA EveryName ==
  ASSUME NEW n \in TargetNames
  PROVE  \/ IsExpert(n)
         \/ /\ n.module # "experts" /\ n.expert = NoExpert
            /\ \A m \in ModelConfigs, rank \in Ranks : \E s : Placed(m, rank, n, s)
<1>1. PICK l \in TargetLayers : n \in LayerNames(l)
  BY TargetIsLayers
<1>2. \/ \E w \in {"wq_a", "wkv", "sink"} : n = AttnName(l, w)
      \/ \E w \in {"w1", "w2", "w3"}, s \in {"weight", "scale"} : n = MLPName(l, w, s)
      \/ \E e \in 0 .. Experts - 1, w \in {"w1", "w2", "w3"}, s \in {"weight", "scale"} :
           n = ExpertName(l, e, w, s)
      \/ \E w \in {"wkv", "wgate"} : n = CompressorName(l, w)
      \/ n = GateName(l)
  BY <1>1 DEF LayerNames, BlockNames, AttnName, MLPName, ExpertName, CompressorName, GateName
<1>3. CASE \E w \in {"wq_a", "wkv", "sink"} : n = AttnName(l, w)
  <2>1. PICK w \in {"wq_a", "wkv", "sink"} : n = AttnName(l, w)
    BY <1>3
  <2>2. n.module # "experts" /\ n.expert = NoExpert
    BY <2>1 DEF AttnName, Name
  <2> QED  BY <2>1, <2>2, AttnPlaced
<1>4. CASE \E w \in {"w1", "w2", "w3"}, s \in {"weight", "scale"} : n = MLPName(l, w, s)
  <2>1. PICK w \in {"w1", "w2", "w3"}, s \in {"weight", "scale"} : n = MLPName(l, w, s)
    BY <1>4
  <2>2. n.module # "experts" /\ n.expert = NoExpert
    BY <2>1 DEF MLPName, Name
  <2> QED  BY <2>1, <2>2, MLPPlaced
<1>5. CASE \E e \in 0 .. Experts - 1, w \in {"w1", "w2", "w3"}, s \in {"weight", "scale"} :
             n = ExpertName(l, e, w, s)
  BY <1>5 DEF IsExpert
<1>6. CASE \E w \in {"wkv", "wgate"} : n = CompressorName(l, w)
  <2>1. PICK w \in {"wkv", "wgate"} : n = CompressorName(l, w)
    BY <1>6
  <2>2. n.module # "experts" /\ n.expert = NoExpert
    BY <2>1 DEF CompressorName, Name
  <2> QED  BY <2>1, <2>2, CompressorPlaced
<1>7. CASE n = GateName(l)
  <2>1. n.module # "experts" /\ n.expert = NoExpert
    BY <1>7 DEF GateName, Name
  <2> QED  BY <1>7, <2>1, GatePlaced
<1> QED  BY <1>2, <1>3, <1>4, <1>5, <1>6, <1>7

LEMMA EverySlot ==
  ASSUME NEW m \in ModelConfigs, NEW rank \in Ranks, NEW s \in TargetSlots(m)
  PROVE  \E n : Placed(m, rank, n, s)
<1>1. PICK l \in TargetLayers : s \in LayerSlots(m, l)
  BY TargetIsLayers
<1>2. \/ \E w \in {"wq_a", "wkv", "sink"} : s = AttnSlot(l, w)
      \/ s \in MLPSlots(l)
      \/ s \in ExpertSlots(m, l)
      \/ \E w \in {"wkv", "wgate"} : s = CompressorSlot(l, w)
      \/ s = GateSlot(l)
  <2>1. \/ \E i \in {0, 1} : s = Slot(l, "attn", "fused_wqa_wkv", "weight", Whole, i)
        \/ s = Slot(l, "attn", "sink", "weight", Whole, Whole)
        \/ s \in MLPSlots(l)
        \/ s \in ExpertSlots(m, l)
        \/ \E i \in {0, 1} : s = Slot(l, "mla_attn.compressor", "fused_wkv_wgate", "weight", Whole, i)
        \/ s = GateSlot(l)
    BY <1>1 DEF LayerSlots, BlockSlots, GateSlot
  <2>2. \A i \in {0, 1} : \E w \in {"wq_a", "wkv"} :
          AttnSlot(l, w) = Slot(l, "attn", "fused_wqa_wkv", "weight", Whole, i)
    BY DEF AttnSlot
  <2>3. \A i \in {0, 1} : \E w \in {"wkv", "wgate"} :
          CompressorSlot(l, w) = Slot(l, "mla_attn.compressor", "fused_wkv_wgate", "weight", Whole, i)
    BY DEF CompressorSlot
  <2>4. AttnSlot(l, "sink") = Slot(l, "attn", "sink", "weight", Whole, Whole)
    BY DEF AttnSlot
  <2> QED  BY <2>1, <2>2, <2>3, <2>4
<1>3. CASE \E w \in {"wq_a", "wkv", "sink"} : s = AttnSlot(l, w)
  BY <1>3, AttnPlaced
<1>4. CASE s \in MLPSlots(l)
  <2>1. PICK wi \in {<<"gate_up_proj", 0>>, <<"gate_up_proj", 1>>, <<"down_proj", Whole>>},
             to \in {"weight", LinearScale} :
               s = Slot(l, "shared_experts", wi[1], to, Whole, wi[2])
    BY <1>4 DEF MLPSlots
  <2>2. \E suffix \in {"weight", "scale"} : to = IF suffix = "scale" THEN LinearScale ELSE suffix
    BY <2>1 DEF LinearScale
  <2>3. \E w \in {"w1", "w2", "w3"} : wi[1] = (IF w = "w2" THEN "down_proj" ELSE "gate_up_proj")
                                      /\ wi[2] = IF w = "w3" THEN 1 ELSE 0
    BY <2>1 DEF Whole
  <2>4. \E w \in {"w1", "w2", "w3"}, suffix \in {"weight", "scale"} : s = MLPSlot(l, w, suffix)
    BY <2>1, <2>2, <2>3 DEF MLPSlot
  <2> QED  BY <2>4, MLPPlaced
<1>5. CASE s \in ExpertSlots(m, l)
  <2>1. PICK wi \in {<<"w13", "w1">>, <<"w13", "w3">>, <<"w2", "w2">>}, to \in {"weight", ExpertScale(m)},
             i \in Indices(m) : s = Slot(l, "experts", wi[1], to, i, wi[2])
    BY <1>5 DEF ExpertSlots, Indices
  <2>2. \E suffix \in {"weight", "scale"} : to = IF suffix = "scale" THEN ExpertScale(m) ELSE suffix
    BY <2>1 DEF ExpertScale
  <2>3. \E w \in {"w1", "w2", "w3"} : wi[1] = (IF w \in {"w1", "w3"} THEN "w13" ELSE "w2") /\ wi[2] = w
    BY <2>1
  <2>4. PICK w \in {"w1", "w2", "w3"}, suffix \in {"weight", "scale"} : s = ExpertSlot(m, l, i, w, suffix)
    BY <2>1, <2>2, <2>3 DEF ExpertSlot
  <2>5. PICK e \in 0 .. Experts - 1 : LocalIndex(m, rank, e) = i /\ i # -1
    BY IndicesMatch
  <2> QED  BY <2>4, <2>5, ExpertPlaced
<1>6. CASE \E w \in {"wkv", "wgate"} : s = CompressorSlot(l, w)
  BY <1>6, CompressorPlaced
<1>7. CASE s = GateSlot(l)
  BY <1>7, GatePlaced
<1> QED  BY <1>2, <1>3, <1>4, <1>5, <1>6, <1>7

(* What a rank writes of a tensor of the checkpoint is what the slot is for; *)
(* no name is lost.                                                          *)
LEMMA WritesArePlaced ==
  ASSUME NEW m \in ModelConfigs, NEW rank \in Ranks, NEW n \in Checkpoint,
         NEW s \in TargetWrites(m, rank, n)
  PROVE  Placed(m, rank, n, s)
<1>1. n \in TargetNames
  <2>1. n.model # "mtp"
    BY DEF TargetWrites
  <2>2. \A x \in DraftNames : x.model = "mtp"
    BY DEF DraftNames, BlockNames, Name
  <2> QED  BY <2>1, <2>2 DEF Checkpoint
<1>2. CASE IsExpert(n)
  <2>1. PICK l \in TargetLayers, e \in 0 .. Experts - 1, w \in {"w1", "w2", "w3"},
             suffix \in {"weight", "scale"} : n = ExpertName(l, e, w, suffix)
    BY <1>2 DEF IsExpert
  <2>2. Placed(m, rank, n, ExpertSlot(m, l, LocalIndex(m, rank, e), w, suffix))
    BY <2>1, ExpertPlaced
  <2>3. s = ExpertSlot(m, l, LocalIndex(m, rank, e), w, suffix)
    BY <2>2 DEF Placed
  <2> QED  BY <2>2, <2>3
<1>3. CASE ~IsExpert(n)
  <2>1. PICK t : Placed(m, rank, n, t)
    BY <1>1, <1>3, EveryName
  <2>2. s = t
    BY <2>1 DEF Placed
  <2> QED  BY <2>1, <2>2
<1> QED  BY <1>2, <1>3

(* A product shared out among n: everything below n * L is in one share.     *)
InShare(r, L, e) == r * L <= e /\ e < r * L + L

LEMMA OneShare ==
  ASSUME NEW n \in Nat, NEW L \in Nat, NEW e \in Nat, e < n * L
  PROVE  \E r \in 0 .. n - 1 :
           InShare(r, L, e) /\ \A o \in 0 .. n - 1 : InShare(o, L, e) => o = r
<1>0. L # 0
  BY Z3
<1> DEFINE r == e \div L
           rest == e % L
<1>1. r \in Nat /\ rest \in 0 .. L - 1 /\ e = r * L + rest
  <2>1. L \in Nat \ {0}
    BY <1>0
  <2> QED  BY <2>1, Division
<1> HIDE DEF r, rest
<1>2. r * L \in Nat /\ n * L \in Nat
  BY <1>1
<1>3. r \in 0 .. n - 1
  <2>1. CASE r >= n
    <3>1. n * L <= r * L
      BY <1>1, <2>1, Monotone
    <3> QED  BY <1>1, <1>2, <3>1
  <2> QED  BY <1>1, <2>1
<1>4. InShare(r, L, e)
  BY <1>1, <1>2 DEF InShare
<1>5. ASSUME NEW o \in 0 .. n - 1, InShare(o, L, e) PROVE o = r
  <2>0. o \in Nat /\ o * L \in Nat
    OBVIOUS
  <2>1. CASE o < r
    <3>1. (o + 1) * L <= r * L
      BY <1>1, <2>0, <2>1, Monotone
    <3>2. (o + 1) * L = o * L + L
      BY <2>0, Successor
    <3> QED  BY <1>1, <1>2, <1>5, <2>0, <3>1, <3>2 DEF InShare
  <2>2. CASE r < o
    <3>1. (r + 1) * L <= o * L
      BY <1>1, <2>0, <2>2, Monotone
    <3>2. (r + 1) * L = r * L + L
      BY <1>1, Successor
    <3> QED  BY <1>1, <1>2, <1>5, <2>0, <3>1, <3>2 DEF InShare
  <2> QED  BY <1>1, <2>0, <2>1, <2>2
<1> QED  BY <1>3, <1>4, <1>5

(* The parts of a tensor: each is taken by some rank, and by more than one   *)
(* only where every rank keeps the whole of it.                              *)
TakenRight(m, n) ==
  /\ \A rank \in Ranks : Taken(m, rank, n) # {}
  /\ \A i \in Pieces(m, n) : \E rank \in Ranks : i \in Taken(m, rank, n) /\ TargetWrites(m, rank, n) # {}
  /\ \A r1, r2 \in Ranks : r1 # r2 =>
       \A i \in Taken(m, r1, n) \cap Taken(m, r2, n) :
         TargetWrites(m, r1, n) # {} /\ TargetWrites(m, r2, n) # {} =>
           Pieces(m, n) = {Whole} /\ n.expert = NoExpert

LEMMA SinkTaken ==
  ASSUME NEW m \in ModelConfigs, NEW n \in TargetNames, ~IsExpert(n), n.weight = "sink"
  PROVE  TakenRight(m, n)
<1> DEFINE heads == Heads \div N
<1>1. N \in Nat \ {0} /\ Heads \in Nat \ {0} /\ Heads % N = 0 /\ Ranks = 0 .. N - 1
  BY LocalExpertsType, WeightAssumption DEF N
<1>2. heads \in Nat /\ N * heads = Heads
  <2>1. heads \in Nat /\ Heads = heads * N + (Heads % N)
    BY <1>1, Division
  <2> HIDE DEF heads
  <2> QED  BY <1>1, <2>1
<1>0. n.module # "experts"
  BY EveryName
<1>3. \A rank : Taken(m, rank, n) =
                   {h \in 0 .. Heads - 1 : heads * rank <= h /\ h < heads * (rank + 1)}
  BY <1>0 DEF Taken, N
<1> HIDE DEF heads
<1>4. ASSUME NEW rank \in Ranks
      PROVE  Taken(m, rank, n) = {h \in 0 .. Heads - 1 : InShare(rank, heads, h)}
  <2>1. rank \in Nat
    BY <1>1
  <2>2. heads * rank = rank * heads /\ heads * (rank + 1) = rank * heads + heads
    BY <1>2, <2>1
  <2> QED  BY <1>3, <2>2 DEF InShare
<1>5. Pieces(m, n) = 0 .. Heads - 1
  BY <1>0 DEF Pieces
<1>6. ASSUME NEW h \in 0 .. Heads - 1
      PROVE  \E r \in Ranks : InShare(r, heads, h) /\ \A o \in Ranks : InShare(o, heads, h) => o = r
  <2>1. h \in Nat /\ h < N * heads /\ N \in Nat /\ heads \in Nat
    BY <1>1, <1>2
  <2>2. \E r \in 0 .. N - 1 : InShare(r, heads, h) /\ \A o \in 0 .. N - 1 : InShare(o, heads, h) => o = r
    BY ONLY <2>1, OneShare
  <2> QED  BY <1>1, <2>2
<1>7. ASSUME NEW rank \in Ranks PROVE Taken(m, rank, n) # {}
  <2>0. rank \in Nat /\ rank + 1 <= N /\ rank * heads \in Nat /\ heads # 0
    BY <1>1, <1>2
  <2>1. (rank + 1) * heads <= N * heads
    BY <1>1, <1>2, <2>0, Monotone
  <2>2. (rank + 1) * heads = rank * heads + heads
    BY <1>2, <2>0, Successor
  <2>3. rank * heads \in 0 .. Heads - 1 /\ InShare(rank, heads, rank * heads)
    BY <1>1, <1>2, <2>0, <2>1, <2>2 DEF InShare
  <2> QED  BY <1>4, <2>3
<1>8. ASSUME NEW rank \in Ranks PROVE TargetWrites(m, rank, n) # {}
  BY EveryName DEF Placed
<1>9. ASSUME NEW i \in Pieces(m, n)
      PROVE  \E rank \in Ranks : i \in Taken(m, rank, n) /\ TargetWrites(m, rank, n) # {}
  BY <1>4, <1>5, <1>6, <1>8
<1>10. ASSUME NEW r1 \in Ranks, NEW r2 \in Ranks, r1 # r2, NEW i \in Taken(m, r1, n) \cap Taken(m, r2, n)
       PROVE  FALSE
  BY <1>4, <1>6, <1>10
<1> QED  BY <1>7, <1>9, <1>10 DEF TakenRight

LEMMA ExpertTaken ==
  ASSUME NEW m \in ModelConfigs, NEW n \in TargetNames, IsExpert(n)
  PROVE  TakenRight(m, n)
<1>1. PICK l \in TargetLayers, e \in 0 .. Experts - 1, w \in {"w1", "w2", "w3"},
           suffix \in {"weight", "scale"} : n = ExpertName(l, e, w, suffix)
  BY DEF IsExpert
<1>2. n.module = "experts" /\ n.weight # "sink"
  BY <1>1 DEF ExpertName, Name
<1>3. ASSUME NEW rank \in Ranks
      PROVE  TargetWrites(m, rank, n) = {} <=> LocalIndex(m, rank, e) = -1
  <2>1. LET i == LocalIndex(m, rank, e)
        IN  IF i = -1 THEN TargetWrites(m, rank, n) = {}
            ELSE Placed(m, rank, n, ExpertSlot(m, l, i, w, suffix))
    BY <1>1, ExpertPlaced
  <2>2. \A s : Placed(m, rank, n, s) => TargetWrites(m, rank, n) # {}
    BY DEF Placed
  <2> QED  BY <2>1, <2>2
<1>4. m.mega \in BOOLEAN /\ Ranks # {}
  BY WeightAssumption DEF ModelConfigs
<1>5. CASE ~m.mega
  <2>1. Pieces(m, n) = Ranks /\ \A rank \in Ranks : Taken(m, rank, n) = {rank}
    BY <1>2, <1>5 DEF Pieces, Taken
  <2>2. \A rank \in Ranks : TargetWrites(m, rank, n) # {}
    <3>1. e # -1
      BY LocalExpertsType
    <3> QED  BY <1>3, <1>5, <3>1 DEF LocalIndex
  <2> QED  BY <2>1, <2>2 DEF TakenRight
<1>6. CASE m.mega
  <2>1. Pieces(m, n) = {Whole} /\ \A rank \in Ranks : Taken(m, rank, n) = {Whole}
    BY <1>2, <1>6 DEF Pieces, Taken
  <2>2. PICK r \in Ranks : /\ MapGlobalExpertId(r, e) \in 0 .. LocalExperts - 1
                           /\ \A other \in Ranks \ {r} : MapGlobalExpertId(other, e) = -1
    BY EveryExpertHasOneRank
  <2>3. MapGlobalExpertId(r, e) # -1
    BY <2>2, LocalExpertsType
  <2>4. TargetWrites(m, r, n) # {} /\ \A other \in Ranks \ {r} : TargetWrites(m, other, n) = {}
    BY <1>3, <1>6, <2>2, <2>3 DEF LocalIndex
  <2> QED  BY <2>1, <2>4 DEF TakenRight
<1> QED  BY <1>4, <1>5, <1>6

LEMMA EveryTensorTaken ==
  ASSUME NEW m \in ModelConfigs, NEW n \in TargetNames
  PROVE  TakenRight(m, n)
<1>1. CASE ~IsExpert(n) /\ n.weight # "sink"
  <2>1. n.module # "experts" /\ n.expert = NoExpert
        /\ \A rank \in Ranks : TargetWrites(m, rank, n) # {}
    BY <1>1, EveryName DEF Placed
  <2>2. Pieces(m, n) = {Whole} /\ \A rank \in Ranks : Taken(m, rank, n) = {Whole}
    BY <1>1, <2>1 DEF Pieces, Taken
  <2> QED  BY <2>1, <2>2, WeightAssumption DEF TakenRight
<1> QED  BY <1>1, SinkTaken, ExpertTaken

(* What a rank's memory is after a load.                                     *)
Content(s, n, i, v) == [slot |-> s, of |-> n, piece |-> i, version |-> v]
Memory(m, rank, v) ==
  {Content(w.slot, w.of, w.piece, v) : w \in {w \in TargetPlacements : w.m = m /\ w.rank = rank}}

LEMMA PlacementsAre ==
  ASSUME NEW m \in ModelConfigs, NEW rank \in Ranks, NEW v
  PROVE  \A c : c \in Memory(m, rank, v) <=>
           \E n \in Checkpoint : \E s \in TargetWrites(m, rank, n), i \in Taken(m, rank, n) :
             c = Content(s, n, i, v)
<1> DEFINE P(mm, r, n) == {[m |-> mm, rank |-> r, slot |-> s, of |-> n, piece |-> i] :
                             s \in TargetWrites(mm, r, n), i \in Taken(mm, r, n)}
<1>1. \A w : w \in TargetPlacements <=>
               \E mm \in ModelConfigs, r \in Ranks, n \in Checkpoint : w \in P(mm, r, n)
  <2>1. TargetPlacements = UNION {P(mm, r, n) : mm \in ModelConfigs, r \in Ranks, n \in Checkpoint}
    BY DEF TargetPlacements, Placements
  <2> HIDE DEF P
  <2> QED  BY <2>1
<1>2. \A w : w \in TargetPlacements /\ w.m = m /\ w.rank = rank =>
               \E n \in Checkpoint : \E s \in TargetWrites(m, rank, n), i \in Taken(m, rank, n) :
                 w.slot = s /\ w.of = n /\ w.piece = i
  <2> SUFFICES ASSUME NEW w \in TargetPlacements, w.m = m, w.rank = rank
               PROVE  \E n \in Checkpoint : \E s \in TargetWrites(m, rank, n), i \in Taken(m, rank, n) :
                        w.slot = s /\ w.of = n /\ w.piece = i
    OBVIOUS
  <2>1. PICK mm \in ModelConfigs, r \in Ranks, n \in Checkpoint : w \in P(mm, r, n)
    BY <1>1
  <2>2. PICK s \in TargetWrites(mm, r, n), i \in Taken(mm, r, n) :
          w = [m |-> mm, rank |-> r, slot |-> s, of |-> n, piece |-> i]
    BY <2>1
  <2>3. mm = m /\ r = rank /\ w.slot = s /\ w.of = n /\ w.piece = i
    BY <2>2
  <2> QED  BY <2>2, <2>3
<1>3. ASSUME NEW n \in Checkpoint, NEW s \in TargetWrites(m, rank, n), NEW i \in Taken(m, rank, n)
      PROVE  Content(s, n, i, v) \in Memory(m, rank, v)
  <2> DEFINE w == [m |-> m, rank |-> rank, slot |-> s, of |-> n, piece |-> i]
  <2>1. w \in P(m, rank, n)
    OBVIOUS
  <2>2. w \in TargetPlacements
    BY <1>1, <2>1
  <2>3. w.m = m /\ w.rank = rank /\ w.slot = s /\ w.of = n /\ w.piece = i
    OBVIOUS
  <2> HIDE DEF w
  <2> QED  BY <2>2, <2>3 DEF Memory
<1>4. ASSUME NEW c \in Memory(m, rank, v)
      PROVE  \E n \in Checkpoint : \E s \in TargetWrites(m, rank, n), i \in Taken(m, rank, n) :
               c = Content(s, n, i, v)
  <2>1. PICK w \in TargetPlacements : w.m = m /\ w.rank = rank /\ c = Content(w.slot, w.of, w.piece, v)
    BY DEF Memory
  <2> HIDE DEF P
  <2> QED  BY <1>2, <2>1
<1> QED  BY <1>3, <1>4

(* What TargetIsComplete says of one process.                                *)
MemoryComplete(m, memory, v) ==
  LET holds == Holds(memory)
  IN  /\ \A rank \in Ranks :
           /\ {c.slot : c \in memory[rank]} = TargetSlots(m)
           /\ \A c \in memory[rank] : c.of = Own(m, rank, c.slot) /\ c.version = v
      /\ \A n \in TargetNames : \A i \in Pieces(m, n) : \E rank \in Ranks : <<n, i>> \in holds[rank]
      /\ \A r1, r2 \in Ranks : r1 # r2 =>
           \A h \in holds[r1] \cap holds[r2] : Pieces(m, h[1]) = {Whole} /\ h[1].expert = NoExpert

LEMMA MemorySlots ==
  ASSUME NEW m \in ModelConfigs, NEW rank \in Ranks, NEW v
  PROVE  /\ {c.slot : c \in Memory(m, rank, v)} = TargetSlots(m)
         /\ \A c \in Memory(m, rank, v) : c.of = Own(m, rank, c.slot) /\ c.version = v
<1>1. ASSUME NEW c \in Memory(m, rank, v)
      PROVE  c.slot \in TargetSlots(m) /\ c.of = Own(m, rank, c.slot) /\ c.version = v
  <2>1. PICK n \in Checkpoint : \E s \in TargetWrites(m, rank, n), i \in Taken(m, rank, n) :
          c = Content(s, n, i, v)
    BY PlacementsAre
  <2>2. PICK s \in TargetWrites(m, rank, n), i \in Taken(m, rank, n) : c = Content(s, n, i, v)
    BY <2>1
  <2>3. Placed(m, rank, n, s)
    BY WritesArePlaced
  <2>4. c.slot = s /\ c.of = n /\ c.version = v
    BY <2>2 DEF Content
  <2> QED  BY <2>3, <2>4 DEF Placed
<1>2. ASSUME NEW s \in TargetSlots(m) PROVE \E c \in Memory(m, rank, v) : c.slot = s
  <2>1. PICK n : Placed(m, rank, n, s)
    BY EverySlot
  <2>2. n \in TargetNames /\ n \in Checkpoint /\ s \in TargetWrites(m, rank, n)
    BY <2>1 DEF Placed, Checkpoint
  <2>3. PICK i : i \in Taken(m, rank, n)
    BY <2>2, EveryTensorTaken DEF TakenRight
  <2>4. Content(s, n, i, v) \in Memory(m, rank, v)
    BY <2>2, <2>3, PlacementsAre
  <2> QED  BY <2>4 DEF Content
<1> QED  BY <1>1, <1>2

LEMMA MemoryIsComplete ==
  ASSUME NEW m \in ModelConfigs, NEW v, NEW memory, \A rank \in Ranks : memory[rank] = Memory(m, rank, v)
  PROVE  MemoryComplete(m, memory, v)
<1>1. ASSUME NEW rank \in Ranks
      PROVE  /\ {c.slot : c \in memory[rank]} = TargetSlots(m)
             /\ \A c \in memory[rank] : c.of = Own(m, rank, c.slot) /\ c.version = v
  BY MemorySlots
<1>2. ASSUME NEW rank \in Ranks, NEW h \in Holds(memory)[rank]
      PROVE  h[1] \in TargetNames /\ h[2] \in Taken(m, rank, h[1]) /\ TargetWrites(m, rank, h[1]) # {}
  <2>1. PICK c \in Memory(m, rank, v) : h = <<c.of, c.piece>>
    BY <1>2 DEF Holds
  <2>2. PICK n \in Checkpoint : \E s \in TargetWrites(m, rank, n), i \in Taken(m, rank, n) :
          c = Content(s, n, i, v)
    BY PlacementsAre
  <2>3. PICK s \in TargetWrites(m, rank, n), i \in Taken(m, rank, n) : c = Content(s, n, i, v)
    BY <2>2
  <2>4. h[1] = n /\ h[2] = i
    BY <2>1, <2>3 DEF Content
  <2>5. n \in TargetNames
    BY WritesArePlaced DEF Placed
  <2> QED  BY <2>4, <2>5
<1>3. ASSUME NEW n \in TargetNames, NEW i \in Pieces(m, n)
      PROVE  \E rank \in Ranks : <<n, i>> \in Holds(memory)[rank]
  <2>1. PICK rank \in Ranks : i \in Taken(m, rank, n) /\ TargetWrites(m, rank, n) # {}
    BY EveryTensorTaken DEF TakenRight
  <2>2. PICK s : s \in TargetWrites(m, rank, n)
    BY <2>1
  <2>3. Content(s, n, i, v) \in memory[rank]
    BY <2>1, <2>2, PlacementsAre DEF Checkpoint
  <2>4. <<n, i>> \in Holds(memory)[rank]
    BY <2>3 DEF Holds, Content
  <2> QED  BY <2>4
<1>4. ASSUME NEW r1 \in Ranks, NEW r2 \in Ranks, r1 # r2,
             NEW h \in Holds(memory)[r1] \cap Holds(memory)[r2]
      PROVE  Pieces(m, h[1]) = {Whole} /\ h[1].expert = NoExpert
  <2>1. /\ h[1] \in TargetNames /\ h[2] \in Taken(m, r1, h[1]) \cap Taken(m, r2, h[1])
        /\ TargetWrites(m, r1, h[1]) # {} /\ TargetWrites(m, r2, h[1]) # {}
    BY <1>2
  <2>2. TakenRight(m, h[1])
    BY <2>1, EveryTensorTaken
  <2> QED  BY <1>4, <2>1, <2>2 DEF TakenRight
<1> QED  BY <1>1, <1>3, <1>4 DEF MemoryComplete

(* A load into an empty memory, and one into a memory of another version.    *)
LEMMA LoadReplaces ==
  ASSUME NEW m \in ModelConfigs, NEW v, NEW old, NEW before,
         \A rank \in Ranks : before[rank] = {} \/ before[rank] = Memory(m, rank, old)
  PROVE  \A rank \in Ranks : Loaded(m, before, TargetPlacements, v)[rank] = Memory(m, rank, v)
<1> SUFFICES ASSUME NEW rank \in Ranks
             PROVE  Loaded(m, before, TargetPlacements, v)[rank] = Memory(m, rank, v)
  OBVIOUS
<1> DEFINE new == Memory(m, rank, v)
           written == {c.slot : c \in new}
<1>1. Loaded(m, before, TargetPlacements, v)[rank] = new \cup {c \in before[rank] : c.slot \notin written}
  BY DEF Loaded, Memory, Content
<1>2. written = TargetSlots(m) /\ \A c \in Memory(m, rank, old) : c.slot \in TargetSlots(m)
  BY MemorySlots
<1> HIDE DEF written, new
<1>3. {c \in before[rank] : c.slot \notin written} = {}
  BY <1>2
<1> QED  BY <1>1, <1>3 DEF new

(* A process that has loaded the target holds the last version it loaded.    *)
Asks(p) ==
  phase[p] \in {"inspect target", "inspect draft", "configured", "target loaded", "serving"} =>
    asked[p] \in Requests
HoldsTarget(p) ==
  phase[p] \in {"target loaded", "serving"} =>
    \A rank \in Ranks : target[p][rank] = Memory(Runtime(p), rank, weights[p])

WeightsIInv == ModelDomains /\ \A p \in Processes : Asks(p) /\ HoldsTarget(p)

LEMMA RuntimeIsKnown ==
  ASSUME NEW p, asked[p] \in Requests
  PROVE  Runtime(p) \in ModelConfigs
BY StartupAssumption DEF Runtime, ModelConfigs

LEMMA WeightsInit == Init => WeightsIInv
BY DEF Init, WeightsIInv, ModelDomains, Asks, HoldsTarget

LEMMA WeightsNext ==
  ASSUME WeightsIInv, [Next]_vars
  PROVE  WeightsIInv'
<1> USE DEF WeightsIInv, ModelDomains
<1>1. ASSUME NEW p \in Processes, phase'[p] = phase[p], asked'[p] = asked[p],
             target'[p] = target[p], weights'[p] = weights[p]
      PROVE  (Asks(p) /\ HoldsTarget(p))'
  BY <1>1 DEF Asks, HoldsTarget, Runtime
<1>2. ASSUME NEW p \in Processes,
             Inspect(p) \/ Unsupported(p) \/ TargetInspected(p) \/ DraftInspected(p)
      PROVE  WeightsIInv'
  <2>1. /\ UNCHANGED <<asked, target, weights, buffer, forward>> /\ DOMAIN phase' = Processes
        /\ \A q \in Processes \ {p} : phase'[q] = phase[q]
    BY <1>2 DEF Inspect, Unsupported, TargetInspected, DraftInspected, Advance, modelVars
  <2>2. \/ phase'[p] = phase[p] \/ phase'[p] = "rejected"
        \/ phase[p] \in {"inspect target", "inspect draft"} /\ phase'[p] \in {"inspect draft", "configured"}
    BY <1>2 DEF Inspect, Unsupported, TargetInspected, DraftInspected, Advance
  <2>3. (Asks(p) /\ HoldsTarget(p))'
    BY <2>1, <2>2 DEF Asks, HoldsTarget, Runtime
  <2> QED  BY <1>1, <2>1, <2>3
<1>3. ASSUME NEW p \in Processes, Start(p) PROVE WeightsIInv'
  <2>1. /\ UNCHANGED <<target, weights, buffer, forward>>
        /\ DOMAIN phase' = Processes /\ DOMAIN asked' = Processes
        /\ \A q \in Processes \ {p} : phase'[q] = phase[q] /\ asked'[q] = asked[q]
        /\ phase'[p] = "inspect target" /\ asked'[p] \in Requests
    BY <1>3 DEF Start, Advance, modelVars
  <2>2. (Asks(p) /\ HoldsTarget(p))'
    BY <2>1 DEF Asks, HoldsTarget
  <2> QED  BY <1>1, <2>1, <2>2
<1>4. ASSUME NEW p \in Processes, LoadTarget(p) PROVE WeightsIInv'
  <2>1. /\ UNCHANGED <<asked, forward, weights>>
        /\ DOMAIN phase' = Processes /\ DOMAIN buffer' = Processes /\ DOMAIN target' = Processes
        /\ \A q \in Processes \ {p} : phase'[q] = phase[q] /\ target'[q] = target[q]
    BY <1>4 DEF LoadTarget, Advance
  <2>2. asked[p] \in Requests
    BY <1>4 DEF LoadTarget, Asks
  <2>3. \/ phase'[p] = "failed"
        \/ /\ phase'[p] = "target loaded"
           /\ target'[p] = Loaded(Runtime(p), Empty, TargetPlacements, weights[p])
    BY <1>4 DEF LoadTarget, Advance
  <2>4. \A rank \in Ranks : Loaded(Runtime(p), Empty, TargetPlacements, weights[p])[rank]
                              = Memory(Runtime(p), rank, weights[p])
    <3>1. \A rank \in Ranks : Empty[rank] = {}
      BY DEF Empty
    <3>2. PICK m, empty, v : m = Runtime(p) /\ empty = Empty /\ v = weights[p]
      OBVIOUS
    <3>3. m \in ModelConfigs
      BY <2>2, <3>2, RuntimeIsKnown
    <3>4. \A rank \in Ranks : Loaded(m, empty, TargetPlacements, v)[rank] = Memory(m, rank, v)
      <4>1. \A rank \in Ranks : empty[rank] = {}
        BY <3>1, <3>2
      <4> QED  BY ONLY <3>3, <4>1, LoadReplaces
    <3> QED  BY <3>2, <3>4
  <2>5. Runtime(p)' = Runtime(p)
    BY <2>1 DEF Runtime
  <2>6. (Asks(p) /\ HoldsTarget(p))'
    BY <2>1, <2>2, <2>3, <2>4, <2>5 DEF Asks, HoldsTarget
  <2> QED  BY <1>1, <2>1, <2>6
<1>5. ASSUME NEW p \in Processes, LoadDrafter(p) PROVE WeightsIInv'
  <2>1. UNCHANGED <<asked, forward, weights, target, buffer>> /\ DOMAIN phase' = Processes
        /\ \A q \in Processes \ {p} : phase'[q] = phase[q]
    BY <1>5 DEF LoadDrafter, Advance
  <2>2. phase[p] = "target loaded" /\ phase'[p] \in {"serving", "failed"}
    BY <1>5 DEF LoadDrafter, Advance
  <2>3. (Asks(p) /\ HoldsTarget(p))'
    BY <2>1, <2>2 DEF Asks, HoldsTarget, Runtime
  <2> QED  BY <1>1, <2>1, <2>3
<1>6. ASSUME NEW p \in Processes, Forward(p) PROVE WeightsIInv'
  <2>1. UNCHANGED <<asked, phase, weights, target>> /\ DOMAIN buffer' = Processes
        /\ DOMAIN forward' = Processes
    BY <1>6 DEF Forward
  <2> QED  BY <1>1, <2>1
<1>7. ASSUME NEW p \in Processes, Reload(p) PROVE WeightsIInv'
  <2>1. /\ UNCHANGED <<asked, phase, buffer, forward>>
        /\ DOMAIN weights' = Processes /\ DOMAIN target' = Processes
        /\ \A q \in Processes \ {p} : weights'[q] = weights[q] /\ target'[q] = target[q]
        /\ target'[p] = Loaded(Runtime(p), target[p], TargetPlacements, weights'[p])
        /\ phase[p] = "serving"
    BY <1>7 DEF Reload
  <2>2. asked[p] \in Requests /\ \A rank \in Ranks : target[p][rank] = Memory(Runtime(p), rank, weights[p])
    BY <2>1 DEF Asks, HoldsTarget
  <2>3. \A rank \in Ranks : target'[p][rank] = Memory(Runtime(p), rank, weights'[p])
    <3>1. PICK m, before, old, v : /\ m = Runtime(p) /\ before = target[p]
                                  /\ old = weights[p] /\ v = weights'[p]
      OBVIOUS
    <3>2. m \in ModelConfigs
      BY <2>2, <3>1, RuntimeIsKnown
    <3>3. \A rank \in Ranks : before[rank] = Memory(m, rank, old)
      BY <2>2, <3>1
    <3>4. \A rank \in Ranks : Loaded(m, before, TargetPlacements, v)[rank] = Memory(m, rank, v)
      BY <3>2, <3>3, LoadReplaces, ZenonT(40)
    <3> QED  BY <2>1, <3>1, <3>4
  <2>4. Runtime(p)' = Runtime(p)
    BY <2>1 DEF Runtime
  <2>5. (Asks(p) /\ HoldsTarget(p))'
    BY <2>1, <2>2, <2>3, <2>4 DEF Asks, HoldsTarget
  <2> QED  BY <1>1, <2>1, <2>5
<1>8. ASSUME NEW p \in Processes, Stop(p) PROVE WeightsIInv'
  <2>1. /\ DOMAIN phase' = Processes /\ DOMAIN asked' = Processes /\ DOMAIN weights' = Processes
        /\ DOMAIN target' = Processes /\ DOMAIN buffer' = Processes /\ DOMAIN forward' = Processes
        /\ \A q \in Processes \ {p} : /\ phase'[q] = phase[q] /\ asked'[q] = asked[q]
                                      /\ target'[q] = target[q] /\ weights'[q] = weights[q]
        /\ phase'[p] = "down"
    BY <1>8 DEF Stop, Advance
  <2>2. (Asks(p) /\ HoldsTarget(p))'
    BY <2>1 DEF Asks, HoldsTarget
  <2> QED  BY <1>1, <2>1, <2>2
<1>9. ASSUME NEW f \in Files, Reinstall(f) PROVE WeightsIInv'
  BY <1>1, <1>9 DEF Reinstall, modelVars
<1>10. CASE UNCHANGED vars
  BY <1>1, <1>10 DEF vars, modelVars
<1> QED  BY <1>2, <1>3, <1>4, <1>5, <1>6, <1>7, <1>8, <1>9, <1>10 DEF Next

LEMMA WeightsSuffice == WeightsIInv => TargetIsComplete
<1> SUFFICES ASSUME WeightsIInv, NEW p \in Processes, phase[p] \in {"target loaded", "serving"}
             PROVE  MemoryComplete(Runtime(p), target[p], weights[p])
  BY DEF TargetIsComplete, MemoryComplete
<1>1. asked[p] \in Requests /\ \A rank \in Ranks : target[p][rank] = Memory(Runtime(p), rank, weights[p])
  BY DEF WeightsIInv, Asks, HoldsTarget
<1> QED  BY <1>1, RuntimeIsKnown, MemoryIsComplete

(* A target that was loaded is whole, for any number of ranks, experts, heads*)
(* and layers, in both formats of the experts and with both ways to spread   *)
(* them: every parameter of a rank holds the part of the very tensor that its*)
(* layer uses it as, the ranks together hold all of every tensor, and after  *)
(* a reload nothing is left of the version before (nvidia/model.py:          *)
(* DeepseekV4ForCausalLM.load_weights, _map_global_expert_id).               *)
THEOREM TargetAlwaysComplete == Spec => []TargetIsComplete
<1> QED  BY WeightsInit, WeightsNext, WeightsSuffice, PTL DEF Spec

-----------------------------------------------------------------------------
(* Acceptance rates from an acceptance length.                               *)

(* The sum of a sequence, from the left.                                     *)
LEMMA FoldOfSum ==
  ASSUME NEW n \in Nat, NEW r \in [1 .. n -> Int]
  PROVE  \E total : /\ total[0] = 0
                    /\ \A k \in 1 .. n : total[k] = total[k - 1] + r[k]
                    /\ FoldLeft(+, 0, r) = total[n]
<1> DEFINE next == [i \in 1 .. n |-> [x \in Int |-> x + r[i]]]
           Eq(iter) ==
             iter = [s \in SUBSET DOMAIN r |->
                       IF s = {} THEN 0 ELSE iter[s \ {Max(s)}] + r[Max(s)]]
           it == CHOOSE iter : Eq(iter)
<1>1. FoldLeft(+, 0, r) = it[DOMAIN r]
  BY DEF FoldLeft, MapThenFoldSet
<1>2. next \in Steps(n, Int)
  BY DEF Steps
<1>3. PICK fold : IsFold(fold, n, Int, 0, next)
  <2>1. 0 \in Int
    OBVIOUS
  <2> HIDE DEF next
  <2> QED  BY ONLY n \in Nat, <1>2, <2>1, FoldExists
<1>4. DOMAIN r = 1 .. n
  OBVIOUS
<1>5. \A s : Max(s) = LastOf(s)
  BY DEF Max, LastOf
<1>6. Eq(fold)
  <2>1. fold = [s \in SUBSET (1 .. n) |-> fold[s]]
    BY <1>3 DEF IsFold
  <2>2. ASSUME NEW s \in SUBSET (1 .. n)
        PROVE  fold[s] = IF s = {} THEN 0 ELSE fold[s \ {Max(s)}] + r[Max(s)]
    <3>1. FoldsAt(fold, 0, next, s)
      BY <1>3 DEF IsFold
    <3>2. CASE s = {}
      BY <3>1, <3>2 DEF FoldsAt
    <3>3. CASE s # {}
      <4>1. fold[s] = next[Max(s)][fold[s \ {Max(s)}]]
        BY <1>5, <3>1, <3>3 DEF FoldsAt
      <4>2. Max(s) \in 1 .. n /\ fold[s \ {Max(s)}] \in Int
        <5>1. LastOf(s) \in s
          BY <3>3, LastIsGreatest
        <5>2. Max(s) \in 1 .. n /\ s \ {Max(s)} \in SUBSET (1 .. n)
          BY <1>5, <5>1
        <5> QED  BY <1>3, <5>2 DEF IsFold
      <4> QED  BY <3>3, <4>1, <4>2
    <3> QED  BY <3>2, <3>3
  <2>3. [s \in SUBSET (1 .. n) |-> fold[s]] =
        [s \in SUBSET (1 .. n) |-> IF s = {} THEN 0 ELSE fold[s \ {Max(s)}] + r[Max(s)]]
    BY <2>2
  <2> QED  BY <1>4, <2>1, <2>3
<1>7. Eq(it)
  <2> HIDE DEF Eq
  <2> QED  BY <1>6
<1> HIDE DEF it
<1>8. ASSUME NEW s \in SUBSET (1 .. n)
      PROVE  it[s] = IF s = {} THEN 0 ELSE it[s \ {Max(s)}] + r[Max(s)]
  BY <1>4, <1>7
<1> DEFINE total == [k \in 0 .. n |-> it[1 .. k]]
<1>9. total[0] = 0
  <2>1. 1 .. 0 = {}
    OBVIOUS
  <2>2. it[{}] = 0
    <3>1. {} \in SUBSET (1 .. n)
      OBVIOUS
    <3> HIDE DEF total
    <3> QED  BY <1>8, <3>1
  <2> QED  BY <2>1, <2>2
<1>10. ASSUME NEW k \in 1 .. n PROVE total[k] = total[k - 1] + r[k]
  <2>1. 1 .. k \in SUBSET (1 .. n) /\ k \in 1 .. k /\ (1 .. k) \ {k} = 1 .. k - 1
    OBVIOUS
  <2>2. \A s : s = 1 .. k => LastOf(s) \in s /\ \A y \in s : LastOf(s) >= y
    <3>1. \A s : s = 1 .. k => s \in SUBSET (1 .. n) /\ s # {}
      BY <2>1
    <3> QED  BY <3>1, LastIsGreatest
  <2>3. PICK last \in 1 .. k : last = LastOf(1 .. k) /\ last >= k
    BY <2>1, <2>2
  <2>4. last = k
    BY <2>3
  <2>5. it[1 .. k] = it[1 .. k - 1] + r[k]
    BY <1>5, <1>8, <2>1, <2>3, <2>4
  <2> QED  BY <2>5
<1> HIDE DEF total
<1>11. total[n] = it[1 .. n]
  BY DEF total
<1> QED  BY <1>1, <1>4, <1>9, <1>10, <1>11

(* The rates in one formula.                                                 *)
RateAt(drafts, full, i) ==
  IF i <= full THEN Unit ELSE IF i = full + 1 THEN drafts - full * Unit ELSE 0

LEMMA RatesAre ==
  ASSUME NEW n \in Nat, Unit \in Nat \ {0}, NEW length \in Unit .. (n + 1) * Unit
  PROVE  LET drafts == length - Unit
             full   == drafts \div Unit
         IN  /\ full \in 0 .. n /\ drafts - full * Unit \in 0 .. Unit - 1
             /\ drafts \in Nat /\ drafts <= n * Unit
             /\ LengthToRates(length, n) = [i \in 1 .. n |-> RateAt(drafts, full, i)]
<1> DEFINE drafts == length - Unit
           full   == drafts \div Unit
           rest   == drafts % Unit
           ones   == [i \in 1 .. full |-> Unit]
           left   == drafts - full * Unit
           count  == IF full < n THEN n - full - 1 ELSE 0
           zeros  == [i \in 1 .. count |-> 0]
           front  == ones \o <<left>>
           all    == front \o zeros
<1>1. drafts \in Nat /\ drafts <= n * Unit
  <2>1. (n + 1) * Unit = n * Unit + Unit
    BY Successor
  <2>2. n * Unit \in Nat
    OBVIOUS
  <2> QED  BY <2>1, <2>2
<1>2. full \in Nat /\ rest \in 0 .. Unit - 1 /\ drafts = full * Unit + rest
  <2> HIDE DEF drafts
  <2> QED  BY <1>1, Division
<1> HIDE DEF drafts, full, rest
<1>3. full \in 0 .. n
  <2>1. CASE full >= n + 1
    <3>1. (n + 1) * Unit <= full * Unit
      BY <1>2, <2>1, Monotone
    <3>2. (n + 1) * Unit = n * Unit + Unit
      BY Successor
    <3>3. n * Unit \in Nat /\ full * Unit \in Nat
      BY <1>2
    <3> QED  BY <1>1, <1>2, <3>1, <3>2, <3>3
  <2> QED  BY <1>2, <2>1
<1>4. left = rest
  <2>1. full * Unit \in Nat
    BY <1>2
  <2> QED  BY <1>2, <2>1
<1>5. LengthToRates(length, n) = SubSeq(all, 1, n)
  BY DEF LengthToRates, drafts, full
<1>6. count \in Nat /\ full + 1 + count >= n /\ full \in Nat
  BY <1>2, <1>3
<1>7. ones \in Seq(Int) /\ Len(ones) = full /\ \A i \in 1 .. full : ones[i] = Unit
  BY <1>2
<1>8. zeros \in Seq(Int) /\ Len(zeros) = count /\ \A i \in 1 .. count : zeros[i] = 0
  <2> HIDE DEF count
  <2> QED  BY <1>6
<1>9. left \in Int
  BY <1>2, <1>4
<1> HIDE DEF ones, zeros, count, left
<1>10. front \in Seq(Int) /\ Len(front) = full + 1
       /\ \A i \in 1 .. full + 1 : front[i] = IF i <= full THEN Unit ELSE left
  BY <1>6, <1>7, <1>9
<1> HIDE DEF front
<1>11. all \in Seq(Int) /\ Len(all) = full + 1 + count
       /\ \A i \in 1 .. full + 1 + count :
            all[i] = IF i <= full + 1 THEN front[i] ELSE zeros[i - (full + 1)]
  BY <1>6, <1>8, <1>10
<1> HIDE DEF all
<1>12. ASSUME NEW i \in 1 .. n PROVE all[i] = RateAt(drafts, full, i)
  <2>1. i \in 1 .. full + 1 + count
    BY <1>6
  <2>2. CASE i <= full
    BY <1>6, <1>10, <1>11, <2>1, <2>2 DEF RateAt
  <2>3. CASE i = full + 1
    BY <1>6, <1>10, <1>11, <2>1, <2>3 DEF RateAt, left
  <2>4. CASE i > full + 1
    <3>1. i - (full + 1) \in 1 .. count
      BY <1>6, <2>1, <2>4
    <3>2. all[i] = zeros[i - (full + 1)]
      BY <1>6, <1>11, <2>1, <2>4
    <3>3. all[i] = 0
      BY <1>8, <3>1, <3>2
    <3> QED  BY <1>6, <2>4, <3>3 DEF RateAt
  <2> QED  BY <1>6, <2>2, <2>3, <2>4
<1>13. SubSeq(all, 1, n) = [i \in 1 .. n |-> all[i]]
  <2>1. SubSeq(all, 1, n) = [i \in 1 .. n |-> all[i]]
    BY <1>6, <1>11 DEF SubSeq
  <2> QED  BY <2>1
<1>14. SubSeq(all, 1, n) = [i \in 1 .. n |-> RateAt(drafts, full, i)]
  BY <1>12, <1>13
<1> QED  BY <1>1, <1>2, <1>3, <1>4, <1>5, <1>14 DEF drafts, full, left

(* What the rates add up to, and that none exceeds the one before.           *)
LEMMA RatesAddUp ==
  ASSUME NEW n \in Nat, Unit \in Nat \ {0}, NEW length \in Unit .. (n + 1) * Unit
  PROVE  LET r == LengthToRates(length, n)
         IN  /\ Len(r) = n
             /\ FoldLeft(+, 0, r) + Unit = length
             /\ \A i \in DOMAIN r : r[i] \in 0 .. Unit /\ (i > 1 => r[i] <= r[i - 1])
<1> DEFINE drafts == length - Unit
           full   == drafts \div Unit
           r      == LengthToRates(length, n)
<1>1. /\ full \in 0 .. n /\ drafts - full * Unit \in 0 .. Unit - 1
      /\ drafts \in Nat /\ drafts <= n * Unit
      /\ r = [i \in 1 .. n |-> RateAt(drafts, full, i)]
  BY RatesAre
<1>2. length \in Int
  BY DEF drafts
<1>3. length = drafts + Unit
  BY <1>2
<1> HIDE DEF drafts, full, r
<1>4. \A i \in 1 .. n : RateAt(drafts, full, i) \in 0 .. Unit
  BY <1>1 DEF RateAt
<1>5. ASSUME NEW i \in 1 .. n, i > 1
      PROVE  RateAt(drafts, full, i) <= RateAt(drafts, full, i - 1)
  BY <1>1, <1>5 DEF RateAt
<1>6. r \in [1 .. n -> Int] /\ DOMAIN r = 1 .. n /\ \A i \in 1 .. n : r[i] = RateAt(drafts, full, i)
  BY <1>1, <1>4
<1>7. Len(r) = n
  BY <1>6
<1>8. PICK total : /\ total[0] = 0
                   /\ \A k \in 1 .. n : total[k] = total[k - 1] + r[k]
                   /\ FoldLeft(+, 0, r) = total[n]
  BY <1>6, FoldOfSum
<1>9. \A k \in Nat : k * Unit \in Nat /\ (k + 1) * Unit = k * Unit + Unit
  BY Successor
<1> DEFINE T == {k \in Nat : k <= n => total[k] = IF k <= full THEN k * Unit ELSE drafts}
<1>10. 0 \in T
  <2>1. 0 * Unit = 0
    OBVIOUS
  <2>2. total[0] = IF 0 <= full THEN 0 * Unit ELSE drafts
    <3>1. 0 <= full
      BY <1>1
    <3> QED  BY <1>8, <2>1, <3>1
  <2> QED  BY <2>2
<1>11. ASSUME NEW k \in Nat, k \in T PROVE k + 1 \in T
  <2> SUFFICES ASSUME k + 1 <= n
               PROVE  total[k + 1] = IF k + 1 <= full THEN (k + 1) * Unit ELSE drafts
    OBVIOUS
  <2>1. total[k] = IF k <= full THEN k * Unit ELSE drafts
    BY <1>11
  <2>2. total[k + 1] = total[k] + RateAt(drafts, full, k + 1)
    <3>1. k + 1 \in 1 .. n /\ (k + 1) - 1 = k
      OBVIOUS
    <3> QED  BY <1>6, <1>8, <3>1
  <2>3. k * Unit \in Nat /\ (k + 1) * Unit = k * Unit + Unit
    BY <1>9
  <2> HIDE DEF T
  <2>4. CASE k + 1 <= full
    BY <1>1, <2>1, <2>2, <2>3, <2>4 DEF RateAt
  <2>5. CASE k = full
    BY <1>1, <2>1, <2>2, <2>3, <2>5 DEF RateAt
  <2>6. CASE k > full
    BY <1>1, <2>1, <2>2, <2>6 DEF RateAt
  <2> QED  BY <1>1, <2>4, <2>5, <2>6
<1>12. total[n] = drafts
  <2>1. \A k \in Nat : k \in T
    <3> HIDE DEF T
    <3> QED  BY <1>10, <1>11, Induction
  <2>2. total[n] = IF n <= full THEN n * Unit ELSE drafts
    BY <2>1
  <2>3. CASE n <= full
    <3>1. n = full
      BY <1>1, <2>3
    <3>2. n * Unit \in Nat
      BY <1>9
    <3> QED  BY <1>1, <2>2, <3>1, <3>2
  <2> QED  BY <1>1, <2>2, <2>3
<1>13. FoldLeft(+, 0, r) + Unit = length
  BY <1>3, <1>8, <1>12
<1>14. ASSUME NEW i \in DOMAIN r PROVE r[i] \in 0 .. Unit /\ (i > 1 => r[i] <= r[i - 1])
  BY <1>4, <1>5, <1>6
<1> QED  BY <1>7, <1>13, <1>14 DEF r

-----------------------------------------------------------------------------
(* What the validation keeps of the arguments, whichever drafter they name.  *)
Keeps(c, a) ==
  /\ DOMAIN c = DOMAIN a
  /\ c.length = a.length /\ c.rates = a.rates /\ c.rejection = a.rejection
  /\ c.tree_depth = a.tree_depth /\ c.num \in Nat
DraftKnown(c) ==
  NeedsDraftModel(c) => "n_predict" \in DOMAIN c.hf /\ c.hf.n_predict \in Nat
Sound(c, a) == c.error = None => Keeps(c, a)

LEMMA PreparedKeeps ==
  ASSUME NEW a \in Requests
  PROVE  Sound(Prepared(a), a) /\ (Prepared(a).error = None => DraftKnown(Prepared(a)))
<1> DEFINE c1 == Then(a, InferMethod)
           c2 == Then(c1, DefaultModel)
           c3 == Then(c2, LookupWindow)
           c4 == Then(c3, SuffixDefaults)
           c5 == Then(c4, DraftConfig)
<1>1. ArgumentFields \subseteq DOMAIN a /\ a.num \in Nat /\ a.tree_depth \in Int
  BY StartupAssumption
<1>2. Sound(a, a)
  BY <1>1 DEF Sound, Keeps
<1>3. Sound(c1, a)
  BY <1>1, <1>2 DEF Sound, Keeps, Then, InferMethod, ArgumentFields
<1> HIDE DEF c1
<1>4. Sound(c2, a)
  BY <1>1, <1>3 DEF Sound, Keeps, Then, DefaultModel, ArgumentFields, Raise, None
<1> HIDE DEF c2
<1>5. Sound(c3, a)
  BY <1>1, <1>4 DEF Sound, Keeps, Then, LookupWindow, ArgumentFields, Raise, None
<1> HIDE DEF c3
<1>6. Sound(c4, a)
  BY <1>1, <1>5 DEF Sound, Keeps, Then, SuffixDefaults, ArgumentFields, Raise, None
<1> HIDE DEF c4
<1>7. Sound(c5, a)
  BY <1>1, <1>6 DEF Sound, Keeps, Then, DraftConfig, ArgumentFields, Raise, None
<1>8. c5.error = None => DraftKnown(c5)
  BY <1>1, <1>6, SpeculativeAssumption
     DEF Sound, Keeps, Then, DraftConfig, ArgumentFields, Raise, None, DraftKnown, NeedsDraftModel
<1> QED  BY <1>7, <1>8 DEF Prepared, c1, c2, c3, c4

LEMMA DraftStepsKeep ==
  ASSUME NEW a \in Requests, NEW c, Sound(c, a), c.error = None => DraftKnown(c)
  PROVE  Sound(DraftSteps(c), a)
<1> DEFINE c1 == Then(c, Detected)
           c2 == Then(c1, Wrapped)
           c3 == Then(c2, SpeculativeTokens)
           c4 == Then(c3, DraftParallel)
           c5 == Then(c4, DraftLength)
           Draft(x) == x.error = None => "n_predict" \in DOMAIN x.hf /\ x.hf.n_predict \in Nat
<1>1. ArgumentFields \subseteq DOMAIN a
  BY StartupAssumption
<1>2. CASE ~NeedsDraftModel(c)
  BY <1>2 DEF DraftSteps
<1>3. CASE NeedsDraftModel(c)
  <2>1. Sound(c1, a)
    BY <1>1, <1>3 DEF Sound, Keeps, Then, Detected, ArgumentFields, Raise, None
  <2>2. Draft(c1)
    BY <1>1, <1>3 DEF Sound, Keeps, Then, Detected, ArgumentFields, Raise, None, DraftKnown
  <2> HIDE DEF c1
  <2>3. Sound(c2, a)
    BY <1>1, <2>1 DEF Sound, Keeps, Then, Wrapped, ArgumentFields
  <2>4. Draft(c2)
    BY <1>1, <2>1, <2>2 DEF Sound, Keeps, Then, Wrapped, ArgumentFields, Absent
  <2> HIDE DEF c2
  <2>5. Sound(c3, a)
    BY <1>1, <2>3, <2>4 DEF Sound, Keeps, Then, SpeculativeTokens, ArgumentFields, Raise, None
  <2> HIDE DEF c3
  <2>6. Sound(c4, a)
    BY <1>1, <2>5 DEF Sound, Keeps, Then, DraftParallel, ArgumentFields, Raise, None
  <2> HIDE DEF c4
  <2>7. Sound(c5, a)
    BY <1>1, <2>6 DEF Sound, Keeps, Then, DraftLength, ArgumentFields, Raise, None
  <2> QED  BY <1>3, <2>7 DEF DraftSteps, c1, c2, c3, c4
<1> QED  BY <1>2, <1>3

(* What _verify_args lets through has rates in place of the length.          *)
LEMMA VerifiedRates ==
  ASSUME NEW a \in Requests, NEW c, Sound(c, a),
         VerifyArgs(c).error = None, a.length # Absent
  PROVE  LET d == VerifyArgs(c)
         IN  /\ d.num = c.num /\ c.num \in Nat /\ a.length \in Unit .. (c.num + 1) * Unit
             /\ d.rates = LengthToRates(a.length, c.num)
<1> DEFINE c1 == Then(c, Arguments)
           c2 == Then(c1, Rejection)
           c3 == Then(c2, ParallelFits)
           c4 == Then(c3, EqualVocabulary)
<1>1. ArgumentFields \subseteq DOMAIN a
  BY StartupAssumption
<1>2. c4.error = None
  BY DEF VerifyArgs
<1>3. c3.error = None
  <2> HIDE DEF c3
  <2> QED  BY <1>2 DEF Then
<1>4. c2.error = None
  <2> HIDE DEF c2
  <2> QED  BY <1>3 DEF Then
<1>5. c1.error = None
  <2> HIDE DEF c1
  <2> QED  BY <1>4 DEF Then
<1>6. c.error = None
  BY <1>5 DEF Then
<1>7. Keeps(c, a)
  BY <1>6 DEF Sound
<1>8. c1 = c
  BY <1>1, <1>5, <1>6, <1>7 DEF Then, Arguments, Raise, None, Keeps, ArgumentFields
<1>9. c2 = Rejection(c)
  BY <1>6, <1>8 DEF Then
<1> HIDE DEF c1
<1>10. c.length # Absent /\ {"error", "rates", "length"} \subseteq DOMAIN c
  BY <1>1, <1>7 DEF Keeps, ArgumentFields
<1>11. Rejection(c) = SyntheticRates(c)
  BY <1>4, <1>9, <1>10 DEF Rejection, Raise, None
<1>12. c.length \in Unit .. (c.num + 1) * Unit
       /\ c2 = [c EXCEPT !.rates = LengthToRates(c.length, c.num), !.length = Absent]
  BY <1>4, <1>9, <1>10, <1>11 DEF SyntheticRates, Raise, None
<1> HIDE DEF c2
<1>13. "error" \in DOMAIN c2 /\ c2.num = c.num /\ c2.rates = LengthToRates(c.length, c.num)
  BY <1>10, <1>12
<1>14. c3 = c2
  BY <1>3, <1>4, <1>13 DEF Then, ParallelFits, Raise, None
<1> HIDE DEF c3
<1>15. c4 = c2
  BY <1>2, <1>3, <1>13, <1>14 DEF Then, EqualVocabulary, Raise, None
<1>16. VerifyArgs(c) = c4
  BY DEF VerifyArgs, c1, c2, c3
<1> HIDE DEF c4
<1> QED  BY <1>7, <1>12, <1>13, <1>15, <1>16 DEF Keeps

(* The length of a request in the form of rates.                             *)
LengthKept(c, length) ==
  LET r == c.rates
  IN  /\ Len(r) = c.num
      /\ FoldLeft(+, 0, r) + Unit = length
      /\ \A i \in DOMAIN r : r[i] \in 0 .. Unit /\ (i > 1 => r[i] <= r[i - 1])

LEMMA ValidatedKeepsLength ==
  ASSUME NEW a \in Requests, Prepared(a).error = None, Validated(Prepared(a)).error = None,
         a.length # Absent
  PROVE  LengthKept(Validated(Prepared(a)), a.length)
<1> DEFINE c == DraftSteps(Prepared(a))
           d == VerifyArgs(c)
<1>1. Validated(Prepared(a)) = d
  BY DEF Validated
<1>2. Sound(c, a)
  <2> DEFINE b == Prepared(a)
  <2>1. Sound(b, a) /\ (b.error = None => DraftKnown(b))
    BY PreparedKeeps
  <2> HIDE DEF b
  <2>2. Sound(DraftSteps(b), a)
    BY <2>1, DraftStepsKeep
  <2> QED  BY <2>2 DEF b
<1> HIDE DEF c
<1>3. /\ d.num = c.num /\ c.num \in Nat /\ a.length \in Unit .. (c.num + 1) * Unit
      /\ d.rates = LengthToRates(a.length, c.num)
  BY <1>1, <1>2, VerifiedRates
<1>4. Unit \in Nat \ {0}
  BY SpeculativeAssumption
<1> DEFINE r == LengthToRates(a.length, c.num)
<1>5. /\ Len(r) = c.num /\ FoldLeft(+, 0, r) + Unit = a.length
      /\ \A i \in DOMAIN r : r[i] \in 0 .. Unit /\ (i > 1 => r[i] <= r[i - 1])
  BY <1>3, <1>4, RatesAddUp
<1> HIDE DEF d, r
<1>6. d.rates = r /\ d.num = c.num
  BY <1>3 DEF r
<1> QED  BY <1>1, <1>5, <1>6 DEF LengthKept

(* How far the configuration of a process is validated.                      *)
ValidatedSoFar(p) ==
  /\ phase[p] = "inspect target" => asked[p] \in Requests /\ config[p] = asked[p]
  /\ phase[p] = "inspect draft" =>
       asked[p] \in Requests /\ config[p] = Prepared(asked[p]) /\ config[p].error = None
  /\ phase[p] \in {"configured", "target loaded", "serving", "failed"} =>
       /\ asked[p] \in Requests /\ config[p] = Validated(Prepared(asked[p]))
       /\ Prepared(asked[p]).error = None /\ config[p].error = None

RatesIInv ==
  /\ DOMAIN phase = Processes /\ DOMAIN asked = Processes /\ DOMAIN config = Processes
  /\ \A p \in Processes : ValidatedSoFar(p)

LEMMA RatesInit == Init => RatesIInv
  BY DEF Init, RatesIInv, ValidatedSoFar

LEMMA RatesNext ==
  ASSUME RatesIInv, [Next]_vars
  PROVE  RatesIInv'
<1> USE DEF RatesIInv
<1>1. ASSUME NEW p \in Processes, phase'[p] = phase[p],
             asked'[p] = asked[p], config'[p] = config[p]
      PROVE  ValidatedSoFar(p)'
  BY <1>1 DEF ValidatedSoFar
<1>2. ASSUME NEW p \in Processes, UNCHANGED <<phase, asked, config>>
      PROVE  RatesIInv'
  BY <1>1, <1>2
<1>3. ASSUME NEW p \in Processes, Start(p) PROVE RatesIInv'
  <2>1. PICK a \in Requests : asked' = [asked EXCEPT ![p] = a] /\ config' = [config EXCEPT ![p] = a]
    BY <1>3 DEF Start
  <2>2. phase' = [phase EXCEPT ![p] = "inspect target"]
    BY <1>3 DEF Start, Advance
  <2>3. ValidatedSoFar(p)'
    BY <2>1, <2>2 DEF ValidatedSoFar
  <2> QED  BY <1>1, <2>1, <2>2, <2>3
<1>4. ASSUME NEW p \in Processes, Unsupported(p) PROVE RatesIInv'
  <2>1. phase' = [phase EXCEPT ![p] = "rejected"] /\ UNCHANGED <<asked, config>>
    BY <1>4 DEF Unsupported, Advance
  <2>2. ValidatedSoFar(p)'
    BY <2>1 DEF ValidatedSoFar
  <2> QED  BY <1>1, <2>1, <2>2
<1>5. ASSUME NEW p \in Processes, TargetInspected(p) PROVE RatesIInv'
  <2> DEFINE c == Prepared(config[p])
             d == Validated(c)
  <2>1. phase[p] = "inspect target" /\ UNCHANGED asked
        /\ \/ /\ c.error = None
              /\ config' = [config EXCEPT ![p] = c]
              /\ phase' = [phase EXCEPT ![p] = "inspect draft"]
           \/ /\ config' = [config EXCEPT ![p] = IF c.error = None THEN d ELSE c]
              /\ phase' = [phase EXCEPT ![p] =
                             IF c.error = None /\ d.error = None THEN "configured" ELSE "rejected"]
    BY <1>5 DEF TargetInspected, Advance
  <2>2. asked[p] \in Requests /\ c = Prepared(asked[p]) /\ d = Validated(Prepared(asked[p]))
    BY <2>1 DEF ValidatedSoFar
  <2> HIDE DEF c, d
  <2>3. ValidatedSoFar(p)'
    BY <2>1, <2>2 DEF ValidatedSoFar
  <2> QED  BY <1>1, <2>1, <2>3
<1>6. ASSUME NEW p \in Processes, DraftInspected(p) PROVE RatesIInv'
  <2> DEFINE c == Validated(config[p])
  <2>1. phase[p] = "inspect draft" /\ UNCHANGED asked /\ config' = [config EXCEPT ![p] = c]
        /\ phase' = [phase EXCEPT ![p] = IF c.error = None THEN "configured" ELSE "rejected"]
    BY <1>6 DEF DraftInspected, Advance
  <2>2. asked[p] \in Requests /\ c = Validated(Prepared(asked[p])) /\ Prepared(asked[p]).error = None
    BY <2>1 DEF ValidatedSoFar
  <2> HIDE DEF c
  <2>3. ValidatedSoFar(p)'
    BY <2>1, <2>2 DEF ValidatedSoFar
  <2> QED  BY <1>1, <2>1, <2>3
<1>7. ASSUME NEW p \in Processes, LoadTarget(p) \/ LoadDrafter(p) PROVE RatesIInv'
  <2>1. UNCHANGED <<asked, config>> /\ phase[p] \in {"configured", "target loaded"}
        /\ \E to \in {"failed", "target loaded", "serving"} : phase' = [phase EXCEPT ![p] = to]
    BY <1>7 DEF LoadTarget, LoadDrafter, Advance
  <2>2. ValidatedSoFar(p)'
    BY <2>1 DEF ValidatedSoFar
  <2> QED  BY <1>1, <2>1, <2>2
<1>8. ASSUME NEW p \in Processes, Stop(p) PROVE RatesIInv'
  <2>1. phase' = [phase EXCEPT ![p] = "down"]
        /\ asked' = [asked EXCEPT ![p] = None] /\ config' = [config EXCEPT ![p] = None]
    BY <1>8 DEF Stop, Advance
  <2>2. ValidatedSoFar(p)'
    BY <2>1 DEF ValidatedSoFar
  <2> QED  BY <1>1, <2>1, <2>2
<1>9. ASSUME NEW p \in Processes, Inspect(p) \/ Forward(p) \/ Reload(p) PROVE RatesIInv'
  BY <1>2, <1>9 DEF Inspect, Forward, Reload
<1>10. ASSUME NEW f \in Files, Reinstall(f) PROVE RatesIInv'
  BY <1>1, <1>10 DEF Reinstall
<1>11. CASE UNCHANGED vars
  BY <1>1, <1>11 DEF vars
<1> QED  BY <1>3, <1>4, <1>5, <1>6, <1>7, <1>8, <1>9, <1>10, <1>11 DEF Next

LEMMA RatesSuffice == RatesIInv => RatesKeepTheLength
<1> SUFFICES ASSUME RatesIInv, NEW p \in Processes,
                    phase[p] \in {"configured", "target loaded", "serving"},
                    asked[p].length # Absent
             PROVE  LengthKept(config[p], asked[p].length)
  BY DEF RatesKeepTheLength, LengthKept
<1>1. /\ asked[p] \in Requests /\ config[p] = Validated(Prepared(asked[p]))
      /\ Prepared(asked[p]).error = None /\ config[p].error = None
  BY DEF RatesIInv, ValidatedSoFar
<1>2. \A a \in Requests :
        Prepared(a).error = None /\ Validated(Prepared(a)).error = None /\ a.length # Absent =>
          LengthKept(Validated(Prepared(a)), a.length)
  BY ValidatedKeepsLength
<1> QED  BY <1>1, <1>2

(* A configuration that was accepted with an acceptance length has one rate  *)
(* for each token it ends up with, they add up to that length exactly, and   *)
(* they never rise: for any length, any unit and any number of tokens,       *)
(* whether it was asked for or taken from the draft checkpoint or the suffix *)
(* tree (config/speculative.py: __post_init__, _verify_args,                 *)
(* _acceptance_length_to_rates).                                             *)
THEOREM RatesAlwaysKeepTheLength == Spec => []RatesKeepTheLength
<1> QED  BY RatesInit, RatesNext, RatesSuffice, PTL DEF Spec

-----------------------------------------------------------------------------
(* The drafter of a configuration that was accepted.                         *)

(* What the rules can make of a configuration: its values and theirs.        *)
RewrittenValues(c, rules) ==
  {c[f] : f \in DOMAIN c} \cup {rules[i].type : i \in DOMAIN rules}
    \cup {rules[i].arch : i \in DOMAIN rules} \cup {1, "Qwen3_5MoeMTP", c.text.layers}
Rewritings(c, rules) ==
  {c} \cup {x \in [DOMAIN c -> RewrittenValues(c, rules)] : x.text = c.text}

LEMMA AppliedStays ==
  ASSUME NEW c, ConfigFields \subseteq DOMAIN c, NEW rules, NEW x \in Rewritings(c, rules),
         NEW i \in DOMAIN rules
  PROVE  Applied(x, rules[i]) \in Rewritings(c, rules)
<1> DEFINE V == RewrittenValues(c, rules)
           r == rules[i]
           type == IF r.type = Kept THEN x.type ELSE r.type
           arch == CASE r.arch = Kept -> x.arch
                     [] r.predict = "text layers" /\ x.text.type = "qwen3_5_moe_text"
                          -> "Qwen3_5MoeMTP"
                     [] OTHER -> r.arch
           layers == CASE r.predict = "block" -> Atleast1(x.targets)
                       [] r.type = "mimo_v2_mtp" -> 1
                       [] OTHER -> x.layers
           predict == Predict(x, r.predict)
<1>1. DOMAIN x = DOMAIN c /\ x.text = c.text /\ \A f \in DOMAIN c : x[f] \in V
  BY DEF Rewritings, RewrittenValues
<1>2. 1 \in V /\ c.text.layers \in V /\ r.type \in V /\ r.arch \in V /\ "Qwen3_5MoeMTP" \in V
  BY DEF RewrittenValues
<1>3. \A f \in ConfigFields : f \in DOMAIN c /\ x[f] \in V
  BY <1>1
<1>4. x.type \in V /\ x.arch \in V /\ x.layers \in V /\ x.targets \in V /\ x.block \in V
      /\ x.n_predict \in V
  BY <1>3 DEF ConfigFields
<1>5. type \in V /\ arch \in V
  <2>2. arch \in {x.arch, "Qwen3_5MoeMTP", r.arch}
    OBVIOUS
  <2> HIDE DEF arch, V
  <2> QED  BY <1>2, <1>4, <2>2
<1>6. layers \in V
  BY <1>2, <1>4 DEF Atleast1
<1>7. predict \in V
  BY <1>1, <1>2, <1>4 DEF Predict, Atleast1
<1> DEFINE y == [x EXCEPT !.type = type, !.arch = arch, !.layers = layers, !.n_predict = predict]
<1>8. Applied(x, r) = IF ~Applies(x, r) THEN x ELSE y
  BY DEF Applied
<1> HIDE DEF V, r, type, arch, layers, predict
<1>9. y \in [DOMAIN c -> V] /\ y.text = c.text
  BY <1>1, <1>3, <1>5, <1>6, <1>7 DEF ConfigFields
<1>10. x \in Rewritings(c, rules) /\ y \in Rewritings(c, rules)
  BY <1>9 DEF Rewritings, V
<1> QED  BY <1>8, <1>10 DEF r

(* The rules in turn, each on what the ones before left.                     *)
InTurn(c, rules) == FoldLeft(Applied, c, rules)
RuleByRule(after, c, rules, n) ==
  /\ after[0] = c
  /\ \A k \in 1 .. n : after[k] = Applied(after[k - 1], rules[k])
  /\ InTurn(c, rules) = after[n]

LEMMA FoldOfRules ==
  ASSUME NEW c, ConfigFields \subseteq DOMAIN c, NEW n \in Nat, NEW rules, DOMAIN rules = 1 .. n
  PROVE  \E after : RuleByRule(after, c, rules, n)
<1> DEFINE W == Rewritings(c, rules)
           next == [i \in 1 .. n |-> [x \in W |-> Applied(x, rules[i])]]
           Eq(iter) ==
             iter = [s \in SUBSET DOMAIN rules |->
                       IF s = {} THEN c ELSE Applied(iter[s \ {Max(s)}], rules[Max(s)])]
           it == CHOOSE iter : Eq(iter)
<1>1. InTurn(c, rules) = it[DOMAIN rules]
  BY DEF InTurn, FoldLeft, MapThenFoldSet
<1>2. next \in Steps(n, W)
  <2>1. ASSUME NEW i \in 1 .. n, NEW x \in W PROVE Applied(x, rules[i]) \in W
    <3>1. i \in DOMAIN rules
      OBVIOUS
    <3> QED  BY <3>1, AppliedStays
  <2> HIDE DEF W
  <2> QED  BY <2>1 DEF Steps
<1>3. PICK fold : IsFold(fold, n, W, c, next)
  <2>1. c \in W
    BY DEF Rewritings, RewrittenValues
  <2> HIDE DEF next, W
  <2> QED  BY ONLY n \in Nat, <1>2, <2>1, FoldExists
<1> HIDE DEF W
<1>5. \A s : Max(s) = LastOf(s)
  BY DEF Max, LastOf
<1>6. Eq(fold)
  <2>1. fold = [s \in SUBSET (1 .. n) |-> fold[s]]
    BY <1>3 DEF IsFold
  <2>2. ASSUME NEW s \in SUBSET (1 .. n)
        PROVE  fold[s] = IF s = {} THEN c ELSE Applied(fold[s \ {Max(s)}], rules[Max(s)])
    <3>1. FoldsAt(fold, c, next, s)
      BY <1>3 DEF IsFold
    <3>2. CASE s = {}
      BY <3>1, <3>2 DEF FoldsAt
    <3>3. CASE s # {}
      <4> DEFINE m == Max(s)
                 x == fold[s \ {m}]
      <4>1. fold[s] = next[m][x]
        BY <1>5, <3>1, <3>3 DEF FoldsAt
      <4>2. m \in 1 .. n /\ x \in W
        <5>1. LastOf(s) \in s
          BY <3>3, LastIsGreatest
        <5>2. m \in 1 .. n /\ s \ {m} \in SUBSET (1 .. n)
          BY <1>5, <5>1
        <5> HIDE DEF m
        <5> QED  BY <1>3, <5>2 DEF IsFold
      <4> HIDE DEF m, x
      <4>3. fold[s] = Applied(x, rules[m])
        BY <4>1, <4>2
      <4> QED  BY <3>3, <4>3 DEF m, x
    <3> QED  BY <3>2, <3>3
  <2>3. [s \in SUBSET (1 .. n) |-> fold[s]] =
        [s \in SUBSET (1 .. n) |->
           IF s = {} THEN c ELSE Applied(fold[s \ {Max(s)}], rules[Max(s)])]
    BY <2>2
  <2> QED  BY <2>1, <2>3
<1>7. Eq(it)
  <2> HIDE DEF Eq
  <2> QED  BY <1>6
<1> HIDE DEF it
<1>8. ASSUME NEW s \in SUBSET (1 .. n)
      PROVE  it[s] = IF s = {} THEN c ELSE Applied(it[s \ {Max(s)}], rules[Max(s)])
  BY <1>7
<1> DEFINE after == [k \in 0 .. n |-> it[1 .. k]]
<1>9. after[0] = c
  <2>1. 1 .. 0 = {}
    OBVIOUS
  <2>2. it[{}] = c
    <3>1. {} \in SUBSET (1 .. n)
      OBVIOUS
    <3> HIDE DEF after
    <3> QED  BY <1>8, <3>1
  <2> QED  BY <2>1, <2>2
<1>10. ASSUME NEW k \in 1 .. n PROVE after[k] = Applied(after[k - 1], rules[k])
  <2>1. 1 .. k \in SUBSET (1 .. n) /\ k \in 1 .. k /\ (1 .. k) \ {k} = 1 .. k - 1
    OBVIOUS
  <2>2. LastOf(1 .. k) \in 1 .. k /\ \A y \in 1 .. k : LastOf(1 .. k) >= y
    <3>1. \A s : s = 1 .. k => s \in SUBSET (1 .. n) /\ s # {}
      BY <2>1
    <3>2. \A s : s = 1 .. k => LastOf(s) \in s /\ \A y \in s : LastOf(s) >= y
      BY <3>1, LastIsGreatest
    <3> QED  BY <3>2
  <2>3. PICK last \in 1 .. k : last = LastOf(1 .. k) /\ last >= k
    BY <2>1, <2>2
  <2>4. last = k
    BY <2>3
  <2>5. it[1 .. k] = Applied(it[1 .. k - 1], rules[k])
    BY <1>5, <1>8, <2>1, <2>3, <2>4
  <2> QED  BY <2>5
<1> HIDE DEF after
<1>11. after[n] = it[1 .. n]
  BY DEF after
<1> QED  BY <1>1, <1>9, <1>10, <1>11 DEF RuleByRule

(* The DSpark block of a checkpoint becomes the drafter's model.             *)
Rewritten(c) ==
  /\ c.type = "deepseek_v4_dspark" /\ c.arch = "DeepSeekV4DSparkModel"
  /\ c.targets # Absent /\ c.block # Absent /\ ConfigFields \subseteq DOMAIN c

LEMMA ChangedByRule ==
  ASSUME NEW x, ConfigFields \subseteq DOMAIN x, NEW r, Applies(x, r),
         r.predict = "block", r.type = "deepseek_v4_dspark", r.arch = "DeepSeekV4DSparkModel",
         x.targets # Absent
  PROVE  Rewritten(Applied(x, r))
<1> DEFINE layers == CASE r.predict = "block" -> Atleast1(x.targets)
                       [] r.type = "mimo_v2_mtp" -> 1
                       [] OTHER -> x.layers
           predict == Predict(x, r.predict)
           arch == CASE r.arch = Kept -> x.arch
                     [] r.predict = "text layers" /\ x.text.type = "qwen3_5_moe_text"
                          -> "Qwen3_5MoeMTP"
                     [] OTHER -> r.arch
           y == [x EXCEPT !.type = r.type, !.arch = arch, !.layers = layers, !.n_predict = predict]
<1>1. Applied(x, r) = y
  BY DEF Applied, Kept
<1>2. arch = "DeepSeekV4DSparkModel"
  BY DEF Kept
<1>3. x.block # Absent
  BY DEF Applies
<1> HIDE DEF layers, predict, arch
<1>5. Rewritten(y)
  BY <1>2, <1>3 DEF Rewritten, ConfigFields
<1> QED  BY <1>1, <1>5

(* What the rules before and after that one leave alone.                     *)
LEMMA OthersLeaveIt ==
  /\ \A c : c.type = "deepseek_v4" => ~Applies(c, DeepSeekRules[1])
  /\ \A c, i : Rewritten(c) /\ i \in {3, 4} => ~Applies(c, DeepSeekRules[i])
  /\ \A c : \A i \in 1 .. 8 : Rewritten(c) => ~Applies(c, ArchitectureRules[i])
  /\ \A c : \A i \in 1 .. 12 : Rewritten(c) => ~Applies(c, TypeRules[i])
<1>1. \A c : c.type = "deepseek_v4" => c.arch = c.arch /\ ~Applies(c, DeepSeekRules[1])
  BY DEF Applies, DeepSeekRules, Rule
<1>2. \A c, i : Rewritten(c) /\ i \in {3, 4} => ~Applies(c, DeepSeekRules[i])
  <2>1. ASSUME NEW c, Rewritten(c)
        PROVE  ~Applies(c, DeepSeekRules[3]) /\ ~Applies(c, DeepSeekRules[4])
    BY <2>1 DEF Applies, DeepSeekRules, Rule, Rewritten
  <2> QED  BY <2>1
<1>3. \A c : \A i \in 1 .. 8 : Rewritten(c) => ~Applies(c, ArchitectureRules[i])
  <2>1. ASSUME NEW c, Rewritten(c), NEW types, NEW archs, NEW type, NEW arch, NEW predict,
               "deepseek_v4_dspark" \notin types, "DeepSeekV4DSparkModel" \notin archs
        PROVE  ~Applies(c, Rule(types, archs, type, arch, predict))
    BY <2>1 DEF Applies, Rule, Rewritten
  <2> QED  BY <2>1 DEF ArchitectureRules
<1>4. \A c : \A i \in 1 .. 12 : Rewritten(c) => ~Applies(c, TypeRules[i])
  <2> DEFINE Leaves(i) == /\ TypeRules[i].archs = {}
                          /\ "deepseek_v4_dspark" \notin TypeRules[i].types
  <2>1. Leaves(1) /\ Leaves(2) /\ Leaves(3) /\ Leaves(4)
    BY DEF TypeRules, Rule
  <2>2. Leaves(5) /\ Leaves(6) /\ Leaves(7) /\ Leaves(8)
    BY DEF TypeRules, Rule
  <2>3. Leaves(9) /\ Leaves(10) /\ Leaves(11) /\ Leaves(12)
    BY DEF TypeRules, Rule
  <2>4. ASSUME NEW i \in 1 .. 12
        PROVE  Leaves(i)
    <3> HIDE DEF Leaves
    <3> QED  BY <2>1, <2>2, <2>3
  <2> QED  BY <2>4 DEF Applies, Rewritten
<1> QED  BY <1>1, <1>2, <1>3, <1>4

LEMMA BlockIsRewritten ==
  ASSUME NEW m \in DOMAIN Repos, HasDSparkBlock(Repos[m])
  PROVE  Rewritten(HfConfigOverride(Repos[m].config))
<1> DEFINE c == Repos[m].config
           rules == DeepSeekRules \o ArchitectureRules
           first == InTurn(c, rules)
           last == InTurn(first, TypeRules)
<1>1. ConfigFields \subseteq DOMAIN c
  BY SpeculativeAssumption
<1>2. /\ c.type = "deepseek_v4" /\ c.arch = "DeepseekV4ForCausalLM"
      /\ c.block # Absent /\ c.targets # Absent
  BY DEF HasDSparkBlock
<1>3. /\ DOMAIN rules = 1 .. 12
      /\ \A i \in 1 .. 4 : rules[i] = DeepSeekRules[i]
      /\ \A i \in 5 .. 12 : rules[i] = ArchitectureRules[i - 4]
  BY DEF DeepSeekRules, ArchitectureRules
<1>4. DOMAIN TypeRules = 1 .. 12
  BY DEF TypeRules
<1> HIDE DEF c, rules
<1>5. Rewritten(first)
  <2>1. PICK after : RuleByRule(after, c, rules, 12)
    BY <1>1, <1>3, FoldOfRules, 12 \in Nat
  <2>10. /\ after[0] = c /\ first = after[12]
         /\ \A k \in 1 .. 12 : after[k] = Applied(after[k - 1], rules[k])
    BY <2>1 DEF RuleByRule
  <2> HIDE DEF first
  <2>2. after[1] = c
    <3>1. rules[1] = DeepSeekRules[1] /\ after[1] = Applied(after[0], rules[1])
      BY <1>3, <2>10
    <3>2. ~Applies(c, rules[1])
      BY <1>2, <3>1, OthersLeaveIt
    <3> QED  BY <2>10, <3>1, <3>2 DEF Applied
  <2>3. Rewritten(after[2])
    <3> DEFINE r == rules[2]
    <3>1. after[2] = Applied(c, r)
      BY <2>10, <2>2
    <3>2. r.predict = "block" /\ r.type = "deepseek_v4_dspark"
          /\ r.arch = "DeepSeekV4DSparkModel" /\ r.types = {"deepseek_v4"}
      BY <1>3 DEF DeepSeekRules, Rule
    <3> HIDE DEF r
    <3>3. Applies(c, r)
      BY <1>2, <3>2 DEF Applies
    <3> QED  BY <1>1, <1>2, <3>1, <3>2, <3>3, ChangedByRule
  <2>4. ASSUME NEW k \in 3 .. 12, Rewritten(after[k - 1]) PROVE Rewritten(after[k])
    <3>1. ~Applies(after[k - 1], rules[k])
      <4>1. CASE k \in {3, 4}
        BY <1>3, <2>4, <4>1, OthersLeaveIt
      <4>2. CASE k \in 5 .. 12
        <5>1. k - 4 \in 1 .. 8 /\ rules[k] = ArchitectureRules[k - 4]
          BY <1>3, <4>2
        <5> QED  BY <2>4, <5>1, OthersLeaveIt
      <4> QED  BY <4>1, <4>2
    <3>2. after[k] = after[k - 1]
      BY <2>10, <3>1 DEF Applied
    <3> QED  BY <2>4, <3>2
  <2>5. Rewritten(after[3]) /\ Rewritten(after[4]) /\ Rewritten(after[5])
    BY <2>3, <2>4
  <2>6. Rewritten(after[6]) /\ Rewritten(after[7]) /\ Rewritten(after[8])
    BY <2>4, <2>5
  <2>7. Rewritten(after[9]) /\ Rewritten(after[10]) /\ Rewritten(after[11])
    BY <2>4, <2>6
  <2> QED  BY <2>10, <2>4, <2>7
<1> HIDE DEF first
<1>6. Rewritten(last)
  <2>1. ConfigFields \subseteq DOMAIN first
    BY <1>5 DEF Rewritten
  <2>2. PICK after : RuleByRule(after, first, TypeRules, 12)
    BY <1>4, <2>1, FoldOfRules, 12 \in Nat
  <2>8. /\ after[0] = first /\ last = after[12]
        /\ \A k \in 1 .. 12 : after[k] = Applied(after[k - 1], TypeRules[k])
    BY <2>2 DEF RuleByRule
  <2> HIDE DEF last
  <2>3. ASSUME NEW k \in 1 .. 12, Rewritten(after[k - 1]) PROVE Rewritten(after[k])
    <3>1. ~Applies(after[k - 1], TypeRules[k])
      BY <2>3, OthersLeaveIt
    <3> QED  BY <2>8, <2>3, <3>1 DEF Applied
  <2>4. Rewritten(after[1]) /\ Rewritten(after[2]) /\ Rewritten(after[3])
    BY <1>5, <2>8, <2>3
  <2>5. Rewritten(after[4]) /\ Rewritten(after[5]) /\ Rewritten(after[6])
    BY <2>3, <2>4
  <2>6. Rewritten(after[7]) /\ Rewritten(after[8]) /\ Rewritten(after[9])
    BY <2>3, <2>5
  <2>7. Rewritten(after[10]) /\ Rewritten(after[11])
    BY <2>3, <2>6
  <2> QED  BY <2>8, <2>3, <2>7
<1>7. HfConfigOverride(c) = last
  <2>1. Promoted(first) = first
    BY <1>5 DEF Promoted, Rewritten
  <2>2. FoldLeft(Applied, Promoted(first), TypeRules) = last
    BY <2>1 DEF InTurn
  <2> HIDE DEF last
  <2> QED  BY <1>2, <2>2 DEF HfConfigOverride, InTurn, first, rules
<1> QED  BY <1>6, <1>7 DEF c

(* What __post_init__ settles before the draft's class is asked for.         *)
Prepares(c) ==
  /\ NeedsDraftModel(c) =>
       c.model \in DOMAIN Repos /\ c.hf = HfConfigOverride(Repos[c.model].config)
  /\ c.model = None => c.num = Absent \/ c.method = "suffix"

LEMMA PreparedDrafts ==
  ASSUME NEW a \in Requests, Prepared(a).error = None
  PROVE  Prepares(Prepared(a))
<1> DEFINE c1 == Then(a, InferMethod)
           c2 == Then(c1, DefaultModel)
           c3 == Then(c2, LookupWindow)
           c4 == Then(c3, SuffixDefaults)
           c5 == Then(c4, DraftConfig)
           Named(c) ==
             c.error = None /\ c.model = None => c.num = Absent \/ c.method = "suffix"
           HasFields(c) == c.error = None => ArgumentFields \subseteq DOMAIN c
<1>1. ArgumentFields \subseteq DOMAIN a /\ a.target.model # None
  BY StartupAssumption
<1>2. HasFields(c1) /\ (c1.error = None => c1.target.model # None)
  BY <1>1 DEF Then, InferMethod, ArgumentFields
<1> HIDE DEF c1
<1>3. HasFields(c2)
  BY <1>2 DEF Then, DefaultModel, ArgumentFields, Raise, None
<1>4. Named(c2)
  <2>1. CASE c1.error # None \/ c1.model # None \/ c1.num = Absent
    BY <2>1 DEF Then, DefaultModel
  <2>2. CASE c1.error = None /\ c1.model = None /\ c1.num # Absent
    <3>1. c2 = DefaultModel(c1)
      BY <2>2 DEF Then
    <3>2. CASE c1.method \in {"mtp", "dspark"}
      <4>1. c2.model = c1.target.model
        BY <1>2, <2>2, <3>1, <3>2 DEF DefaultModel, ArgumentFields, Ngrams, None
      <4> HIDE DEF c2
      <4> QED  BY <1>2, <2>2, <4>1
    <3>3. CASE c1.method \in Ngrams \cup {"suffix", "extract_hidden_states"}
      BY <1>2, <2>2, <3>1, <3>3 DEF DefaultModel, ArgumentFields, Ngrams, None
    <3>4. CASE c1.method \notin {"mtp", "dspark"} \cup Ngrams
                                 \cup {"suffix", "extract_hidden_states"}
      <4>1. DefaultModel(c1) = Raise(c1, "no speculative model")
        BY <2>2, <3>4 DEF DefaultModel
      <4> HIDE DEF c2
      <4> QED  BY <1>2, <2>2, <3>1, <4>1 DEF ArgumentFields, Raise, None
    <3> QED  BY <3>2, <3>3, <3>4
  <2> QED  BY <2>1, <2>2
<1> HIDE DEF c2
<1>5. HasFields(c3) /\ Named(c3)
  BY <1>3, <1>4 DEF Then, LookupWindow, ArgumentFields, Raise, None
<1> HIDE DEF c3
<1>6. HasFields(c4) /\ Named(c4)
  BY <1>5 DEF Then, SuffixDefaults, ArgumentFields, Raise, None
<1> HIDE DEF c4
<1>7. c5.error = None => Prepares(c5)
  BY <1>6 DEF Then, DraftConfig, ArgumentFields, Raise, None, Prepares, NeedsDraftModel
<1> QED  BY <1>7 DEF Prepared, c1, c2, c3, c4

(* The steps that need the draft's class: the method is one that has a       *)
(* drafter, and what DSpark reads stays as the rules left it.                *)
HaveDrafters == Eagles \cup {"dspark", "medusa", "mtp", "draft_model"}
SettledFor(c, b) ==
  /\ c.method \in HaveDrafters
       \/ (c.method = "mlp_speculator" /\ b.hf.type = "mlp_speculator")
  /\ c.method = "dspark" => c.hf = b.hf /\ c.model = b.model
IsSettled(c, b) == c.error = None => SettledFor(c, b) /\ ArgumentFields \subseteq DOMAIN c

LEMMA DraftStepsSettle ==
  ASSUME NEW b, ArgumentFields \subseteq DOMAIN b, b.error = None, NeedsDraftModel(b)
  PROVE  IsSettled(DraftSteps(b), b)
<1> DEFINE c1 == Then(b, Detected)
           c2 == Then(c1, Wrapped)
           c3 == Then(c2, SpeculativeTokens)
           c4 == Then(c3, DraftParallel)
           c5 == Then(c4, DraftLength)
<1>1. IsSettled(c1, b)
  <2> DEFINE says == Repos[b.model].says
             type == b.hf.type
             Given(m) == c1 = [b EXCEPT !.method = m]
             Refused(what) == c1 = Raise(b, what)
  <2>1. c1 = Detected(b)
    BY DEF Then
  <2>2. \/ b.method \in Eagles \cup {"dspark"} /\ c1 = b
        \/ says \in Eagles \cup {"dspark"} /\ Given(says)
        \/ type \in {"medusa", "mlp_speculator"} /\ Given(type)
        \/ Refused("TypeError")
        \/ Given("mtp")
        \/ b.method = "draft_model" /\ c1 = b
        \/ Refused("unsupported method")
    BY <2>1 DEF Detected
  <2> HIDE DEF c1, says, type
  <2>3. {"method", "error", "hf", "model"} \subseteq DOMAIN b
    BY DEF ArgumentFields
  <2>4. ASSUME NEW m, m \in HaveDrafters \/ (m = "mlp_speculator" /\ b.hf.type = "mlp_speculator"),
               Given(m)
        PROVE  IsSettled(c1, b)
    <3>1. c1.method = m /\ c1.hf = b.hf /\ c1.model = b.model /\ DOMAIN c1 = DOMAIN b
      BY <2>3, <2>4
    <3> QED  BY <2>4, <3>1 DEF IsSettled, SettledFor
  <2>5. ASSUME NEW what, what # None, Refused(what)
        PROVE  IsSettled(c1, b)
    <3>1. c1.error = what
      BY <2>3, <2>5 DEF Raise
    <3> QED  BY <2>5, <3>1 DEF IsSettled
  <2> HIDE DEF Given, Refused
  <2>6. CASE b.method \in HaveDrafters /\ c1 = b
    BY <2>6 DEF IsSettled, SettledFor
  <2>8. \A m \in Eagles \cup {"dspark"} : m \in HaveDrafters
    BY DEF HaveDrafters
  <2>9. "mtp" \in HaveDrafters /\ "medusa" \in HaveDrafters /\ "draft_model" \in HaveDrafters
    BY DEF HaveDrafters
  <2>7. CASE type \in {"medusa", "mlp_speculator"} /\ Given(type)
    BY <2>4, <2>7, <2>9 DEF type
  <2>10. "TypeError" # None /\ "unsupported method" # None
    BY DEF None
  <2>11. CASE says \in Eagles \cup {"dspark"} /\ Given(says)
    BY <2>4, <2>8, <2>11
  <2>12. CASE Given("mtp")
    BY <2>4, <2>9, <2>12
  <2>13. CASE Refused("TypeError") \/ Refused("unsupported method")
    BY <2>5, <2>10, <2>13
  <2> QED  BY <2>2, <2>6, <2>7, <2>8, <2>9, <2>11, <2>12, <2>13
<1> HIDE DEF c1
<1>2. IsSettled(c2, b)
  BY <1>1 DEF IsSettled, SettledFor, HaveDrafters, Then, Wrapped, Eagles, ArgumentFields
<1> HIDE DEF c2
<1>3. IsSettled(c3, b)
  BY <1>2 DEF IsSettled, SettledFor, Then, SpeculativeTokens, ArgumentFields, Raise, None
<1> HIDE DEF c3
<1>4. IsSettled(c4, b)
  BY <1>3 DEF IsSettled, SettledFor, Then, DraftParallel, ArgumentFields, Raise, None
<1> HIDE DEF c4
<1>5. IsSettled(c5, b)
  BY <1>4 DEF IsSettled, SettledFor, Then, DraftLength, ArgumentFields, Raise, None
<1> QED  BY <1>5 DEF DraftSteps, c1, c2, c3, c4

(* _verify_args changes none of it and wants a number of tokens.             *)
LEMMA VerifiedStays ==
  ASSUME NEW c, ArgumentFields \subseteq DOMAIN c, c.error = None, VerifyArgs(c).error = None
  PROVE  /\ VerifyArgs(c).method = c.method /\ VerifyArgs(c).hf = c.hf
         /\ VerifyArgs(c).model = c.model /\ c.num # Absent
<1> DEFINE c1 == Then(c, Arguments)
           c2 == Then(c1, Rejection)
           c3 == Then(c2, ParallelFits)
           c4 == Then(c3, EqualVocabulary)
           Same(x) == x.error = None => /\ x.method = c.method /\ x.hf = c.hf /\ x.model = c.model
                                        /\ ArgumentFields \subseteq DOMAIN x /\ c.num # Absent
<1>1. Same(c1)
  BY DEF Then, Arguments, ArgumentFields, Raise, None
<1> HIDE DEF c1
<1>2. Same(c2)
  BY <1>1 DEF Then, Rejection, SyntheticRates, ArgumentFields, Raise, None
<1> HIDE DEF c2
<1>3. Same(c3)
  BY <1>2 DEF Then, ParallelFits, ArgumentFields, Raise, None
<1> HIDE DEF c3
<1>4. Same(c4)
  BY <1>3 DEF Then, EqualVocabulary, ArgumentFields, Raise, None
<1> QED  BY <1>4 DEF VerifyArgs, c1, c2, c3

(* A configuration that was accepted.                                        *)
HasDrafter(c) ==
  \/ Drafter(c) # None /\ DrafterFits(c)
  \/ c.method = "dspark" /\ ~HasDSparkBlock(Repos[c.model])

LEMMA AcceptedFits ==
  ASSUME NEW a \in Requests, Prepared(a).error = None, Validated(Prepared(a)).error = None,
         NeedsDraftModel(Prepared(a)) => Prepared(a).hf.type # "mlp_speculator"
  PROVE  HasDrafter(Validated(Prepared(a)))
<1> DEFINE b == Prepared(a)
           c == DraftSteps(b)
           d == VerifyArgs(c)
<1>1. ArgumentFields \subseteq DOMAIN b /\ Prepares(b)
  <2>1. Sound(b, a)
    BY PreparedKeeps
  <2>2. ArgumentFields \subseteq DOMAIN a
    BY StartupAssumption
  <2> HIDE DEF b
  <2> QED  BY <2>1, <2>2, PreparedDrafts DEF b, Sound, Keeps
<1>2. d = Validated(b) /\ b.error = None /\ d.error = None
  BY DEF Validated
<1> SUFFICES HasDrafter(d)
  BY <1>2
<1>22. NeedsDraftModel(b) => b.hf.type # "mlp_speculator"
  OBVIOUS
<1> HIDE DEF b, d
<1>3. CASE NeedsDraftModel(b)
  <2>1. IsSettled(c, b)
    BY <1>1, <1>2, <1>3, DraftStepsSettle
  <2> HIDE DEF c
  <2>2. c.error = None
    BY <1>2 DEF d, VerifyArgs, Then
  <2>3. d.method = c.method /\ d.hf = c.hf /\ d.model = c.model
    BY <1>2, <2>1, <2>2, VerifiedStays DEF d, IsSettled
  <2>4. d.method \in HaveDrafters
    BY <1>22, <1>3, <2>1, <2>2, <2>3 DEF IsSettled, SettledFor
  <2>5. CASE d.method = "dspark"
    <3>1. d.hf = HfConfigOverride(Repos[d.model].config) /\ d.model \in DOMAIN Repos
      BY <1>1, <1>3, <2>1, <2>2, <2>3, <2>5 DEF IsSettled, SettledFor, Prepares
    <3>2. CASE HasDSparkBlock(Repos[d.model])
      <4>1. Rewritten(d.hf)
        BY <3>1, <3>2, BlockIsRewritten
      <4>2. Drafter(d) = "DSpark"
        BY <2>5 DEF Drafter, Ngrams
      <4> QED  BY <4>1, <4>2 DEF HasDrafter, DrafterFits, Rewritten, None
    <3> QED  BY <2>5, <3>2 DEF HasDrafter
  <2>6. CASE d.method # "dspark"
    <3>1. Drafter(d) \in {"DraftModel", "Gemma4", "DFlash", "Eagle", "Medusa"}
      BY <2>4, <2>6 DEF HaveDrafters, Eagles, Drafter, Ngrams
    <3> QED  BY <3>1 DEF HasDrafter, DrafterFits, None
  <2> QED  BY <2>5, <2>6
<1>4. CASE ~NeedsDraftModel(b)
  <2>1. c = b
    BY <1>4 DEF DraftSteps
  <2> HIDE DEF c
  <2>2. d.method = b.method /\ b.num # Absent
    BY <1>1, <1>2, <2>1, VerifiedStays DEF d
  <2>3. d.method \in Ngrams \cup {"suffix", "custom_class", "extract_hidden_states"}
    BY <1>1, <1>4, <2>2 DEF NeedsDraftModel, Prepares
  <2>4. Drafter(d) \in {"Ngram", "Suffix", "Custom", "ExtractHiddenStates"}
    BY <2>3 DEF Drafter, Ngrams, Eagles
  <2> QED  BY <2>4 DEF HasDrafter, DrafterFits, None
<1> QED  BY <1>3, <1>4

(* The registry has no class of an mlp_speculator (registry.py:634-636), so  *)
(* the inspection of one never finds anything.                               *)
Unlisted(arch) ==
  /\ ~Known(Normalized(arch))
  /\ arch \in DOMAIN Transformers => ~Known(Transformers[arch])
SpeculatorsUnlisted ==
  \A m \in DOMAIN Repos :
    LET c == HfConfigOverride(Repos[m].config)
    IN  c.type = "mlp_speculator" => Unlisted(c.arch)

Tries(arch) ==
  {[try |-> Normalized(arch), as |-> arch]} \cup
  (IF arch \in DOMAIN Transformers
   THEN {[try |-> Transformers[arch], as |-> Transformers[arch]]} ELSE {})

LEMMA TriesOf ==
  ASSUME NEW arch, NEW e \in Tries(arch)
  PROVE  e.try = Normalized(arch) \/ (arch \in DOMAIN Transformers /\ e.try = Transformers[arch])
<1> DEFINE one == [try |-> Normalized(arch), as |-> arch]
           other == [try |-> Transformers[arch], as |-> Transformers[arch]]
<1>1. one.try = Normalized(arch) /\ other.try = Transformers[arch]
  OBVIOUS
<1> HIDE DEF one, other
<1>2. CASE arch \in DOMAIN Transformers
  <2>1. e = one \/ e = other
    BY <1>2 DEF Tries, one, other
  <2> QED  BY <1>1, <1>2, <2>1
<1>3. CASE arch \notin DOMAIN Transformers
  <2>1. e = one
    BY <1>3 DEF Tries, one
  <2> QED  BY <1>1, <2>1
<1> QED  BY <1>2, <1>3

LEMMA CandidatesOfOne ==
  ASSUME NEW arch
  PROVE  Candidates(<<arch>>, "auto") \in Seq(Tries(arch))
<1> DEFINE archs == <<arch>>
           named == [i \in DOMAIN archs |-> [try |-> Normalized(archs[i]), as |-> archs[i]]]
           backend == Backend(archs[1])
           T == Tries(arch)
<1>1. named \in Seq(T)
  <2>1. DOMAIN archs = 1 .. 1 /\ archs[1] = arch
    OBVIOUS
  <2>2. \A i \in 1 .. 1 : [try |-> Normalized(archs[i]), as |-> archs[i]] \in T
    BY <2>1 DEF Tries
  <2> HIDE DEF T
  <2>3. named = [i \in 1 .. 1 |-> [try |-> Normalized(archs[i]), as |-> archs[i]]]
    BY <2>1
  <2>4. named \in [1 .. 1 -> T]
    BY <2>2, <2>3
  <2> QED  BY <2>4
<1>2. backend \in Seq(T)
  <2> DEFINE t == Transformers[arch]
             e == [try |-> t, as |-> t]
  <2>1. CASE arch \in DOMAIN Transformers
    <3>1. backend = <<e>> /\ e \in T
      BY <2>1 DEF Backend, Tries
    <3> HIDE DEF e, T, backend
    <3> QED  BY <3>1
  <2>2. CASE arch \notin DOMAIN Transformers
    <3>1. backend = <<>>
      BY <2>2 DEF Backend
    <3> HIDE DEF T, backend
    <3> QED  BY <3>1
  <2> QED  BY <2>1, <2>2
<1>3. Candidates(archs, "auto") \in {named, (backend \o named) \o backend}
  BY DEF Candidates
<1> HIDE DEF named, backend, T
<1>4. (backend \o named) \o backend \in Seq(T)
  BY <1>1, <1>2
<1> QED  BY <1>1, <1>3, <1>4 DEF T

(* Which processes inspect a draft's class, of which those of an             *)
(* mlp_speculator are refused, and which got a configuration.                *)
NeedsDraft(p) == phase[p] = "inspect draft" => NeedsDraftModel(config[p])
Refused(p) ==
  phase[p] = "inspect draft" /\ config[p].hf.type = "mlp_speculator" =>
    query[p].step \in {"next", "unsupported"} /\ query[p].left \in Seq(Tries(config[p].hf.arch))
Accepted(p) ==
  phase[p] \in {"configured", "target loaded", "serving", "failed"} => HasDrafter(config[p])
DrafterOf(p) == NeedsDraft(p) /\ Refused(p) /\ Accepted(p)
DrafterIInv == RatesIInv /\ DOMAIN query = Processes /\ \A p \in Processes : DrafterOf(p)

LEMMA DrafterInit == Init => DrafterIInv
  BY RatesInit DEF Init, RegistryInit, DrafterIInv, DrafterOf, NeedsDraft, Refused, Accepted

(* A step of an inspection for an mlp_speculator finds nothing.              *)
LEMMA SpeculatorInspects ==
  ASSUME SpeculatorsUnlisted, DrafterIInv, NEW p \in Processes, Inspecting(p),
         phase[p] = "inspect draft", config[p].hf.type = "mlp_speculator"
  PROVE  query'[p].step \in {"next", "unsupported"}
         /\ query'[p].left \in Seq(Tries(config[p].hf.arch))
<1> DEFINE arch == config[p].hf.arch
           left == query[p].left
<1>1. Unlisted(arch)
  <2>1. asked[p] \in Requests /\ config[p] = Prepared(asked[p]) /\ config[p].error = None
    BY DEF DrafterIInv, RatesIInv, ValidatedSoFar
  <2>2. Prepares(config[p])
    BY <2>1, PreparedDrafts
  <2>3. NeedsDraftModel(config[p])
    BY DEF DrafterIInv, DrafterOf, NeedsDraft
  <2> QED  BY <2>2, <2>3 DEF Prepares, SpeculatorsUnlisted
<1>2. query[p].step \in {"next", "unsupported"} /\ left \in Seq(Tries(arch))
  BY DEF DrafterIInv, DrafterOf, Refused
<1>3. DOMAIN query = Processes
  BY DEF DrafterIInv
<1> HIDE DEF arch
<1>4. NextCandidate(p)
  BY <1>2 DEF Inspecting, Lookup, Subprocess, Save
<1>5. CASE left = <<>>
  <2>1. StepTo(p, "unsupported", NoHash)
    BY <1>4, <1>5 DEF NextCandidate
  <2> QED  BY <1>2, <1>3, <2>1 DEF StepTo, Query, arch
<1>6. CASE left # <<>>
  <2>1. Trying(p) \in Tries(arch) /\ Tail(left) \in Seq(Tries(arch))
    <3> DEFINE T == Tries(arch)
    <3> HIDE DEF T, left
    <3>1. left \in Seq(T) => Head(left) \in T /\ Tail(left) \in Seq(T)
      BY <1>6, HeadTailProperties
    <3> QED  BY <1>2, <3>1 DEF Trying, T, left
  <2>2. ~Known(Trying(p).try)
    <3>1. \A e \in Tries(arch) : ~Known(e.try)
      <4>1. \A e \in Tries(arch) :
              \/ e.try = Normalized(arch)
              \/ arch \in DOMAIN Transformers /\ e.try = Transformers[arch]
        BY TriesOf
      <4> QED  BY <1>1, <4>1 DEF Unlisted
    <3> QED  BY <2>1, <3>1
  <2>3. query' = [query EXCEPT ![p] = Query(Tail(left), NoArch, "next", NoHash)]
    BY <1>4, <1>6, <2>2 DEF NextCandidate
  <2> QED  BY <1>3, <2>1, <2>3 DEF Query, arch
<1> QED  BY <1>5, <1>6

LEMMA DrafterNext ==
  ASSUME SpeculatorsUnlisted, DrafterIInv, [Next]_vars
  PROVE  DrafterIInv'
<1>1. RatesIInv'
  BY RatesNext DEF DrafterIInv
<1>2. RatesIInv /\ DOMAIN query = Processes /\ \A p \in Processes : DrafterOf(p)
  BY DEF DrafterIInv
<1>3. DOMAIN phase = Processes /\ DOMAIN config = Processes
  BY <1>2 DEF RatesIInv
<1>4. ASSUME NEW q \in Processes, phase'[q] = phase[q], config'[q] = config[q],
             query'[q] = query[q]
      PROVE  DrafterOf(q)'
  BY <1>2, <1>4 DEF DrafterOf, NeedsDraft, Refused, Accepted
<1>5. ASSUME NEW p \in Processes, DrafterOf(p)', DOMAIN query' = Processes,
             \A q \in Processes \ {p} :
               phase'[q] = phase[q] /\ config'[q] = config[q] /\ query'[q] = query[q]
      PROVE  DrafterIInv'
  <2>1. \A q \in Processes : DrafterOf(q)'
    BY <1>4, <1>5
  <2> QED  BY <1>1, <1>5, <2>1 DEF DrafterIInv
<1>6. ASSUME NEW p \in Processes, Start(p) PROVE DrafterIInv'
  <2>1. phase' = [phase EXCEPT ![p] = "inspect target"]
    BY <1>6 DEF Start, Advance
  <2>2. DrafterOf(p)'
    BY <1>3, <2>1 DEF DrafterOf, NeedsDraft, Refused, Accepted
  <2>3. PICK a \in Requests : /\ config' = [config EXCEPT ![p] = a]
                              /\ Ask(p, a.target.archs, a.target.impl)
    BY <1>6 DEF Start
  <2>4. DOMAIN query' = Processes /\ \A q \in Processes \ {p} : query'[q] = query[q]
    BY <1>2, <2>3 DEF Ask
  <2> QED  BY <1>3, <1>5, <2>1, <2>2, <2>3, <2>4
<1>7. ASSUME NEW p \in Processes, Inspect(p) PROVE DrafterIInv'
  <2>1. UNCHANGED <<phase, config>> /\ Inspecting(p)
    BY <1>7 DEF Inspect
  <2>2. DOMAIN query' = Processes /\ \A q \in Processes \ {p} : query'[q] = query[q]
    BY <1>2, <2>1 DEF Inspecting, NextCandidate, Lookup, Subprocess, Save, Answer, StepTo
  <2>3. NeedsDraft(p)' /\ Accepted(p)'
    BY <1>2, <2>1 DEF DrafterOf, NeedsDraft, Accepted
  <2>4. Refused(p)'
    BY <2>1, SpeculatorInspects DEF Refused
  <2> QED  BY <1>5, <2>1, <2>2, <2>3, <2>4 DEF DrafterOf
<1>8. ASSUME NEW p \in Processes, Unsupported(p) PROVE DrafterIInv'
  <2>1. phase' = [phase EXCEPT ![p] = "rejected"] /\ UNCHANGED config
        /\ query' = [query EXCEPT ![p] = Idle]
    BY <1>8 DEF Unsupported, Advance
  <2>2. DrafterOf(p)'
    BY <1>3, <2>1 DEF DrafterOf, NeedsDraft, Refused, Accepted
  <2> QED  BY <1>2, <1>3, <1>5, <2>1, <2>2
<1>9. ASSUME NEW p \in Processes, TargetInspected(p) PROVE DrafterIInv'
  <2> DEFINE a == asked[p]
             c == Prepared(a)
             d == Validated(c)
  <2>1. a \in Requests /\ config[p] = a
    BY <1>2, <1>9 DEF RatesIInv, ValidatedSoFar, TargetInspected
  <2>2. CASE /\ c.error = None /\ NeedsDraftModel(c)
             /\ config' = [config EXCEPT ![p] = c]
             /\ Ask(p, <<c.hf.arch>>, "auto")
             /\ phase' = [phase EXCEPT ![p] = "inspect draft"]
    <3> HIDE DEF c, d
    <3>1. DOMAIN query' = Processes /\ \A q \in Processes \ {p} : query'[q] = query[q]
      BY <1>2, <2>2 DEF Ask
    <3>2. query'[p].step = "next" /\ query'[p].left = Candidates(<<c.hf.arch>>, "auto")
      BY <1>2, <2>2 DEF Ask, Query
    <3>3. query'[p].left \in Seq(Tries(c.hf.arch))
      BY <3>2, CandidatesOfOne
    <3>4. phase'[p] = "inspect draft" /\ config'[p] = c
      BY <1>3, <2>2
    <3>5. DrafterOf(p)'
      BY <2>2, <3>2, <3>3, <3>4 DEF DrafterOf, NeedsDraft, Refused, Accepted
    <3> QED  BY <1>3, <1>5, <2>2, <3>1, <3>5
  <2>3. CASE /\ ~(c.error = None /\ NeedsDraftModel(c))
             /\ config' = [config EXCEPT ![p] = IF c.error = None THEN d ELSE c]
             /\ query' = [query EXCEPT ![p] = Idle]
             /\ phase' = [phase EXCEPT ![p] =
                            IF c.error = None /\ d.error = None THEN "configured" ELSE "rejected"]
    <3>1. c.error = None /\ d.error = None => HasDrafter(d)
      BY <2>1, <2>3, AcceptedFits
    <3> HIDE DEF c, d
    <3>2. DrafterOf(p)'
      BY <1>3, <2>3, <3>1 DEF DrafterOf, NeedsDraft, Refused, Accepted
    <3> QED  BY <1>2, <1>3, <1>5, <2>3, <3>2
  <2> QED  BY <1>9, <2>1, <2>2, <2>3 DEF TargetInspected, Advance
<1>10. ASSUME NEW p \in Processes, DraftInspected(p) PROVE DrafterIInv'
  <2> DEFINE b == Prepared(asked[p])
             c == Validated(b)
  <2>1. asked[p] \in Requests /\ config[p] = b /\ b.error = None
    BY <1>2, <1>10 DEF RatesIInv, ValidatedSoFar, DraftInspected
  <2>2. b.hf.type # "mlp_speculator"
    BY <1>2, <1>10, <2>1 DEF DrafterOf, Refused, DraftInspected
  <2>3. c.error = None => HasDrafter(c)
    BY <2>1, <2>2, AcceptedFits
  <2> HIDE DEF b
  <2>4. /\ config' = [config EXCEPT ![p] = c] /\ query' = [query EXCEPT ![p] = Idle]
        /\ phase' = [phase EXCEPT ![p] = IF c.error = None THEN "configured" ELSE "rejected"]
    BY <1>10, <2>1 DEF DraftInspected, Advance
  <2> HIDE DEF c
  <2>5. DrafterOf(p)'
    BY <1>3, <2>3, <2>4 DEF DrafterOf, NeedsDraft, Refused, Accepted
  <2> QED  BY <1>2, <1>3, <1>5, <2>4, <2>5
<1>11. ASSUME NEW p \in Processes, LoadTarget(p) \/ LoadDrafter(p) PROVE DrafterIInv'
  <2>1. UNCHANGED <<query, config>> /\ phase[p] \in {"configured", "target loaded"}
        /\ \E to \in {"failed", "target loaded", "serving"} : phase' = [phase EXCEPT ![p] = to]
    BY <1>11 DEF LoadTarget, LoadDrafter, Advance
  <2>2. DrafterOf(p)'
    BY <1>2, <1>3, <2>1 DEF DrafterOf, NeedsDraft, Refused, Accepted
  <2> QED  BY <1>2, <1>3, <1>5, <2>1, <2>2
<1>12. ASSUME NEW p \in Processes, Forward(p) \/ Reload(p) PROVE DrafterIInv'
  <2>1. UNCHANGED <<query, phase, config>>
    BY <1>12 DEF Forward, Reload, registryVars
  <2> QED  BY <1>2, <1>4, <1>5, <2>1
<1>13. ASSUME NEW p \in Processes, Stop(p) PROVE DrafterIInv'
  <2>1. phase' = [phase EXCEPT ![p] = "down"] /\ config' = [config EXCEPT ![p] = None]
    BY <1>13 DEF Stop, Advance
  <2>2. DOMAIN query' = Processes /\ \A q \in Processes \ {p} : query'[q] = query[q]
    BY <1>2, <1>13 DEF Stop, Forget
  <2>3. DrafterOf(p)'
    BY <1>3, <2>1 DEF DrafterOf, NeedsDraft, Refused, Accepted
  <2> QED  BY <1>3, <1>5, <2>1, <2>2, <2>3
<1>14. ASSUME UNCHANGED <<query, phase, config>> PROVE DrafterIInv'
  <2>1. \A q \in Processes : DrafterOf(q)'
    BY <1>4, <1>14
  <2> QED  BY <1>1, <1>2, <1>14, <2>1 DEF DrafterIInv
<1>15. ASSUME NEW f \in Files, Reinstall(f) PROVE DrafterIInv'
  BY <1>14, <1>15 DEF Reinstall, Install
<1>16. CASE UNCHANGED vars
  BY <1>14, <1>16 DEF vars, registryVars
<1> QED  BY <1>6, <1>7, <1>8, <1>9, <1>10, <1>11, <1>12, <1>13, <1>15, <1>16 DEF Next

(* Whatever an engine is asked for, whatever checkpoints there are and       *)
(* however often engines start, stop and die: the configuration the          *)
(* validation lets through is one GPUModelRunner has a drafter for, and      *)
(* DSpark gets the rewritten configuration of a DSpark block, unless the     *)
(* checkpoint it is asked for has none. This rests on the registry's not     *)
(* listing the class of an mlp_speculator (config/speculative.py:            *)
(* __post_init__, hf_config_override; registry.py:634-636;                   *)
(* gpu_model_runner.py:__init__).                                            *)
THEOREM AcceptedAlwaysHasDrafter ==
  SpeculatorsUnlisted => (Spec => []AcceptedHasDrafter)
<1> SUFFICES ASSUME SpeculatorsUnlisted
             PROVE  Spec => []AcceptedHasDrafter
  OBVIOUS
<1>1. DrafterIInv /\ [Next]_vars => DrafterIInv'
  BY DrafterNext
<1>2. DrafterIInv => AcceptedHasDrafter
  BY DEF DrafterIInv, DrafterOf, Accepted, HasDrafter, AcceptedHasDrafter
<1> QED  BY DrafterInit, <1>1, <1>2, PTL DEF Spec
===============================================================================
