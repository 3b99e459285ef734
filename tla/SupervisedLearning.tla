------------------------- MODULE SupervisedLearning -------------------------
(***************************************************************************)
(* What a process does with a ContinualEngine: any sequence of its calls,  *)
(* as tests and users make them, the forgetting experiment, or fits of its *)
(* network by a Trainer (tests/test_training.py gives it that).            *)
(***************************************************************************)
EXTENDS ForgettingTest, Trainer

CONSTANTS MaxWeights (* bound: last weights that calls train                *)

ASSUME BoundAssumption == MaxWeights \in Nat

VARIABLES program

learning == <<program, engine, test, trainer>>

LearningInit ==
  /\ program \in {"calls", "test", "trainer"}
  /\ \E size \in CacheSizes : EngineInit(size)
  /\ program # "calls" => \A size \in CacheSizes : size <= cacheSize
  /\ TestInit /\ (program # "test" => variant = "finetuning")
  /\ TrainerInit

EngineCall ==
  \/ newest < MaxWeights /\ TrainOnBatch
  \/ \E x \in Inputs, use_cache \in BOOLEAN : Predict(x, use_cache)
  \/ ClearCache \/ SaveEngine
  \/ \E size \in CacheSizes : LoadEngine(size)
  \/ \E p \in Phases, computed \in BOOLEAN : RegisterWorkloadPhase(p, computed)

LearningNext ==
  /\ UNCHANGED program
  /\ \/ program = "calls" /\ EngineCall /\ UNCHANGED <<test, trainer>>
     \/ program = "test" /\ TestStep /\ UNCHANGED trainer
     \/ program = "trainer" /\ TrainerStep /\ UNCHANGED test

LearningSpec == LearningInit /\ [][LearningNext]_learning

-----------------------------------------------------------------------------

(* Every variable has its type; weights that are referred to were made.    *)
LearningTypeOK == EngineTypeOK /\ TestTypeOK /\ TrainerTypeOK

(* "We need to test Phase 1 accuracy at every step" (experiments/          *)
(* run_evaluation.py:148): what is measured after a phase is the network   *)
(* trained on it, not one of an earlier phase.                             *)
RetentionIsMeasured ==
  \A i \in DOMAIN retention : retention[i].served = retention[i].current
=============================================================================
