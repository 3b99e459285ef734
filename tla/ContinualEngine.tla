-------------------------- MODULE ContinualEngine --------------------------
(***************************************************************************)
(* The supervised engine of cldb/enhanced_cl_engine.py: a policy network   *)
(* trained on batches and on replayed experience with an EWC penalty       *)
(* (cldb/ewc.py), and predictions cached by the tensors they are asked     *)
(* for.                                                                    *)
(*                                                                         *)
(* A network is the number of its weights: training makes weights that     *)
(* never were before, loading brings back older ones.  Calls come one at a *)
(* time.                                                                   *)
(***************************************************************************)
EXTENDS Naturals, FiniteSets

CONSTANTS Inputs,     (* batches of tensors predictions are asked for       *)
          Phases,     (* workload phases that can be registered             *)
          CacheSizes, (* cache_size, as engines are made with               *)
          None        (* nothing cached, saved or measured                  *)

ASSUME EngineAssumption == CacheSizes \subseteq Nat /\ None \notin Nat

VARIABLES
  weights,   (* the network's weights                                       *)
  newest,    (* the last weights made                                       *)
  cacheSize, (* _cache_size                                                 *)
  cache,     (* _cache: the weights that made the prediction for an input   *)
  optimal,   (* phases with ewc.optimal_weights                             *)
  fisher,    (* phases with ewc.fisher_matrices                             *)
  saved,     (* what save wrote last                                        *)
  measured,  (* history: who made the last prediction, and who should have  *)
  fresh      (* history: have the weights stayed since the cache was empty? *)

network == <<weights, newest>>
memory == <<optimal, fisher>>
engine == <<network, cacheSize, cache, memory, saved, measured, fresh>>

NothingCached == [x \in Inputs |-> None]

EngineInit(size) ==
  /\ weights = 0 /\ newest = 0
  /\ cacheSize = size
  /\ cache = NothingCached
  /\ optimal = {} /\ fisher = {}
  /\ saved = None
  /\ measured = None
  /\ fresh = TRUE

(* The network changes in place, nobody tells the cache. *)
NewWeights(w) ==
  /\ weights' = w
  /\ fresh' = FALSE
  /\ measured' = None

Improve ==
  /\ newest' = newest + 1
  /\ NewWeights(newest + 1)

(* compute_ewc_loss looks a Fisher matrix up for every anchor. *)
PenaltyRaises == ~(optimal \subseteq fisher)

(* train_on_batch, alone or from train_with_dataloader; a penalty that     *)
(* raises comes before the optimizer's step. *)
TrainOnBatch ==
  /\ ~PenaltyRaises
  /\ Improve
  /\ UNCHANGED <<cacheSize, cache, memory, saved>>

(* train_on_experience: with a buffer of less than a batch it returns. *)
TrainOnExperience(len, batch_size) ==
  /\ len >= batch_size /\ ~PenaltyRaises
  /\ Improve
  /\ UNCHANGED <<cacheSize, cache, memory, saved>>

-----------------------------------------------------------------------------
(* predict                                                                 *)

Cached == {x \in Inputs : cache[x] # None}
HasSpace == Cardinality(Cached) < cacheSize

(* Mutant: the cache is asked, and written, even when it is full. *)
LooksUpAlways(use_cache) == use_cache

(* The cache is consulted, and written, only while it has space. *)
LooksUp(use_cache) == use_cache /\ HasSpace

Predict(x, use_cache) ==
  /\ \/ /\ LooksUp(use_cache)
        /\ cache[x] # None
        /\ measured' = [served |-> cache[x], current |-> weights]
        /\ UNCHANGED cache
     \/ /\ ~LooksUp(use_cache) \/ cache[x] = None
        /\ measured' = [served |-> weights, current |-> weights]
        /\ cache' = IF LooksUp(use_cache) THEN [cache EXCEPT ![x] = weights] ELSE cache
  /\ UNCHANGED <<network, cacheSize, memory, saved, fresh>>

ClearCache ==
  /\ cache' = NothingCached
  /\ fresh' = TRUE
  /\ measured' = None
  /\ UNCHANGED <<network, cacheSize, memory, saved>>

-----------------------------------------------------------------------------

(* register_workload_phase: the anchor is written, then the Fisher matrix  *)
(* is computed from the same network; what raises in between leaves the    *)
(* anchor alone. *)
RegisterWorkloadPhase(p, computed) ==
  /\ optimal' = optimal \cup {p}
  /\ fisher' = IF computed THEN fisher \cup {p} ELSE fisher
  /\ measured' = None
  /\ UNCHANGED <<network, cacheSize, cache, saved, fresh>>

SaveEngine ==
  /\ saved' = weights
  /\ measured' = None
  /\ UNCHANGED <<network, cacheSize, cache, memory, fresh>>

(* Mutant: the weights are loaded into the engine at hand. *)
LoadInPlace(size) ==
  /\ saved # None
  /\ weights' = saved
  /\ cacheSize' = size
  /\ fresh' = TRUE
  /\ measured' = None
  /\ UNCHANGED <<newest, cache, memory, saved>>

(* load makes a new engine: the weights of the file, no cache, no phases.  *)
LoadEngine(size) ==
  /\ saved # None
  /\ weights' = saved
  /\ cacheSize' = size
  /\ cache' = NothingCached
  /\ optimal' = {} /\ fisher' = {}
  /\ fresh' = TRUE
  /\ measured' = None
  /\ UNCHANGED <<newest, saved>>

-----------------------------------------------------------------------------

EngineTypeOK ==
  /\ newest \in Nat /\ weights \in 0..newest
  /\ cacheSize \in Nat
  /\ cache \in [Inputs -> 0..newest \cup {None}]
  /\ Cardinality(Cached) <= cacheSize
  /\ optimal \subseteq Phases /\ fisher \subseteq Phases
  /\ saved \in 0..newest \cup {None}
  /\ measured = None \/ measured \in [served : 0..newest, current : {weights}]
  /\ fresh \in BOOLEAN

(* When a prediction can be of older weights (enhanced_cl_engine.py:239-   *)
(* 255): never from a full cache, which is no longer asked, and never when *)
(* the weights are those the network had when its cache was last empty.    *)
StalenessIsExplained ==
  (measured # None /\ measured.served # measured.current) => HasSpace /\ ~fresh
=============================================================================
