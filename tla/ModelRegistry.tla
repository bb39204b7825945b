---------------------------- MODULE ModelRegistry ----------------------------
(* The registry of model classes, as the processes of one machine use it. A  *)
(* process inspects the class of an architecture before it runs, without     *)
(* importing it: it reads what a file under VLLM_CACHE_ROOT says of it, or   *)
(* imports it in a subprocess and writes the file; and it remembers the      *)
(* answer, also that there was none. Later it imports the class itself.      *)
(* The modules may be installed anew while nothing is running.               *)
(*                                                                           *)
(* What _ModelInfo says of a class is abstracted to the version of the file  *)
(* that defines the class. External: importlib, lru_cache, atomic_writer,    *)
(* try_match_architecture_defaults, the Transformers library.                *)
EXTENDS Integers, Sequences, SequencesExt, FiniteSets

CONSTANTS
  Processes,    \* engines started on the machine
  Models,       \* [arch -> [file, defined_in]]: where the registry finds it
  Plugins,      \* [arch -> the same], registered by the general plugins
  Transformers, \* [arch -> architecture of the Transformers backend]
  BaseOf,       \* [arch -> the architecture it is a conversion of]
  Versions      \* versions of the modules that are installed: a bound

NoArch == "none"
Failed == 0     \* _try_inspect_model_cls returned None
NoHash == 0

VARIABLES
  installed,    \* [file -> version]
  disk,         \* [arch -> [hash, info]]: the modelinfos directory
  inspected,    \* [process -> [arch -> info]]: lru_cache of _try_inspect_model_cls
  imported,     \* [process -> [arch -> version]]: lru_cache of _try_load_model_cls
  query         \* [process -> [left, found, step, hash]]: the inspection under way

registryVars == <<installed, disk, inspected, imported, query>>

Nothing == [a \in {} |-> 0]
Query(left, found, step, hash) == [left |-> left, found |-> found, step |-> step, hash |-> hash]
Idle == Query(<<>>, NoArch, "idle", NoHash)
Files == {Models[a].file : a \in DOMAIN Models} \cup {Models[a].defined_in : a \in DOMAIN Models}
           \cup {Plugins[a].file : a \in DOMAIN Plugins}

(* register_model: a plugin's model replaces the one of that name.           *)
Registered == Plugins @@ Models
Known(a) == a \in DOMAIN Registered

-----------------------------------------------------------------------------
(* Which architecture                                                        *)

(* _normalize_arch: a conversion is looked up as the model it converts.      *)
Normalized(a) ==
  IF ~Known(a) /\ a \in DOMAIN BaseOf /\ Known(BaseOf[a]) THEN BaseOf[a] ELSE a

(* _try_resolve_transformers                                                 *)
Backend(a) ==
  IF a \in DOMAIN Transformers THEN <<[try |-> Transformers[a], as |-> Transformers[a]]>>
  ELSE <<>>

(* The classes that inspect_model_cls and resolve_model_cls try, in order;   *)
(* as is the architecture each is reported under.                            *)
Candidates(archs, impl) ==
  LET none    == \A i \in DOMAIN archs : ~Known(archs[i])
      named   == [i \in DOMAIN archs |-> [try |-> Normalized(archs[i]), as |-> archs[i]]]
      backend == Backend(archs[1])
  IN  CASE impl = "transformers" -> backend \o named
        [] none /\ impl = "auto" -> backend \o named \o backend
        [] OTHER -> named

-----------------------------------------------------------------------------
(* Inspecting                                                                *)

(* A process asks about a list of architectures.                             *)
Ask(p, archs, impl) ==
  query' = [query EXCEPT ![p] = Query(Candidates(archs, impl), NoArch, "next", NoHash)]
StepTo(p, step, hash) ==
  query' = [query EXCEPT ![p] = Query(query[p].left, NoArch, step, hash)]

With(f, a, e) == [b \in {a} \cup DOMAIN f |-> IF b = a THEN e ELSE f[b]]
Remember(p, a, info) == inspected' = [inspected EXCEPT ![p] = With(@, a, info)]
Trying(p) == Head(query[p].left)
Hash(a) == installed[Registered[a].file]
Answer(p, a, info) ==
  /\ Remember(p, a, info)
  /\ StepTo(p, "next", NoHash)

(* _try_inspect_model_cls answers from the process's own cache, or not at    *)
(* all for an architecture that is not registered.                           *)
NextCandidate(p) ==
  /\ query[p].step = "next"
  /\ IF query[p].left = <<>>
     THEN StepTo(p, "unsupported", NoHash)
     ELSE LET a == Trying(p).try
          IN  \/ /\ Known(a) /\ a \notin DOMAIN inspected[p]
                 /\ StepTo(p, "lookup", NoHash)
              \/ /\ Known(a) /\ a \in DOMAIN inspected[p] /\ inspected[p][a] # Failed
                 /\ query' = [query EXCEPT
                      ![p] = Query(query[p].left, Trying(p).as, "found", NoHash)]
              \/ /\ Known(a) => a \in DOMAIN inspected[p] /\ inspected[p][a] = Failed
                 /\ query' = [query EXCEPT
                      ![p] = Query(Tail(query[p].left), NoArch, "next", NoHash)]
  /\ UNCHANGED <<installed, disk, inspected, imported>>

\* mutant: the hash in the file is not compared
Mut_Valid(a, hash) == a \in DOMAIN disk
(* _load_modelinfo_from_cache                                                *)
Valid(a, hash) == a \in DOMAIN disk /\ disk[a].hash = hash

(* _LazyRegisteredModel.inspect_model_cls hashes the module's file and       *)
(* compares; a cache file that cannot be read is a miss.                     *)
Lookup(p) ==
  /\ query[p].step = "lookup"
  /\ LET a == Trying(p).try
     IN  \/ /\ Valid(a, Hash(a))
            /\ Answer(p, a, disk[a].info)
         \/ /\ StepTo(p, "missed", Hash(a))
            /\ UNCHANGED inspected
  /\ UNCHANGED <<installed, disk, imported>>

(* _run_in_subprocess imports the class and describes it, or dies.           *)
Subprocess(p) ==
  /\ query[p].step = "missed"
  /\ LET a == Trying(p).try
         info == installed[Registered[a].defined_in]
     IN  \/ /\ StepTo(p, "save", query[p].hash)
            /\ Remember(p, a, info)
         \/ Answer(p, a, Failed)
  /\ UNCHANGED <<installed, disk, imported>>

(* _save_modelinfo_to_cache: the file is replaced whole, or an error logged. *)
Save(p) ==
  /\ query[p].step = "save"
  /\ LET a == Trying(p).try
     IN  disk' \in {disk, With(disk, a, [hash |-> query[p].hash, info |-> inspected[p][a]])}
  /\ StepTo(p, "next", NoHash)
  /\ UNCHANGED <<installed, inspected, imported>>

Inspecting(p) == NextCandidate(p) \/ Lookup(p) \/ Subprocess(p) \/ Save(p)

(* resolve_model_cls: the first candidate that can be imported.              *)
Resolved(archs, impl) ==
  LET known == SelectSeq(Candidates(archs, impl), LAMBDA c : Known(c.try))
  IN  IF known = <<>> THEN [try |-> NoArch, as |-> NoArch] ELSE Head(known)

(* A process ends: what it remembers goes with it.                           *)
Forget(p) ==
  /\ inspected' = [inspected EXCEPT ![p] = Nothing]
  /\ imported' = [imported EXCEPT ![p] = Nothing]
  /\ query' = [query EXCEPT ![p] = Idle]

(* A file of the modules is replaced by another version.                     *)
Install(f) ==
  /\ installed' \in {[installed EXCEPT ![f] = v] : v \in Versions \ {installed[f]}}
  /\ UNCHANGED <<disk, inspected, imported, query>>

RegistryInit ==
  /\ installed = [f \in Files |-> 1]
  /\ disk = Nothing
  /\ inspected = [p \in Processes |-> Nothing]
  /\ imported = [p \in Processes |-> Nothing]
  /\ query = [p \in Processes |-> Idle]
=============================================================================
