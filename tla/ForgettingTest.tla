--------------------------- MODULE ForgettingTest ---------------------------
(***************************************************************************)
(* src/experiments/run_evaluation.py: an engine is trained on one workload *)
(* phase after another, and after each the accuracy on that phase and on   *)
(* the first one is measured.  The script does so with an engine per       *)
(* variant; they share nothing, so here is one of them.                    *)
(***************************************************************************)
EXTENDS ContinualEngine, Sequences

CONSTANTS PhaseInputs, (* the tensors of each phase; the last phase repeats *)
                       (* the first one's                                   *)
          TrainEpochs, (* TRAIN_EPOCHS                                      *)
          BufferSize,  (* capacity of the replay buffer                     *)
          Labels       (* queries of a phase                                *)

ASSUME TestAssumption ==
  /\ PhaseInputs \in Seq(Inputs) /\ PhaseInputs # <<>>
  /\ 2 .. Len(PhaseInputs) \subseteq Phases
  /\ TrainEpochs \in Nat \ {0} /\ BufferSize \in Nat \ {0} /\ Labels \in Nat \ {0}

VARIABLES
  variant,  (* which engine: "finetuning", "replay" or "replay and EWC"     *)
  idx,      (* from 1                                                       *)
  at,       (* where the loop is                                            *)
  epoch,    (* training calls made in this phase                            *)
  replayed, (* len(replay_buffer)                                           *)
  retention (* history: for each phase, the weights it was measured after   *)
            (* and those that the retention measured is of                  *)

test == <<variant, idx, at, epoch, replayed, retention>>

Variants == {"finetuning", "replay", "replay and EWC"}
LastPhase == Len(PhaseInputs)

TestInit ==
  /\ variant \in Variants
  /\ idx = 1 /\ at = "consolidate" /\ epoch = 0 /\ replayed = 0
  /\ retention = <<>>

(* The full system consolidates the previous phase first. *)
Consolidate ==
  /\ at = "consolidate"
  /\ at' = "add"
  /\ IF variant = "replay and EWC" /\ idx > 1
     THEN RegisterWorkloadPhase(idx, TRUE)
     ELSE UNCHANGED engine
  /\ UNCHANGED <<variant, idx, epoch, replayed, retention>>

(* The phase's queries go into the buffer, of both replaying variants. *)
AddQueries ==
  /\ at = "add"
  /\ at' = "train"
  /\ replayed' = IF variant = "finetuning" THEN 0
                 ELSE IF replayed + Labels > BufferSize THEN BufferSize ELSE replayed + Labels
  /\ UNCHANGED <<engine, variant, idx, epoch, retention>>

TrainEpoch ==
  /\ at = "train"
  /\ IF variant = "finetuning" THEN TrainOnBatch
     ELSE TrainOnExperience(replayed, IF Labels < replayed THEN Labels ELSE replayed)
  /\ epoch' = epoch + 1
  /\ at' = IF epoch' = TrainEpochs THEN "accuracy" ELSE "train"
  /\ UNCHANGED <<variant, idx, replayed, retention>>

(* evaluate_model: predict as it is called by default, which is cached. *)
EvaluateModel(x) == Predict(x, TRUE)

Accuracy ==
  /\ at = "accuracy"
  /\ EvaluateModel(PhaseInputs[idx])
  /\ at' = "retention"
  /\ UNCHANGED <<variant, idx, epoch, replayed, retention>>

Retention ==
  /\ at = "retention"
  /\ EvaluateModel(PhaseInputs[1])
  /\ retention' = Append(retention, measured')
  /\ idx' = idx + 1
  /\ at' = IF idx = LastPhase THEN "over" ELSE "consolidate"
  /\ epoch' = 0
  /\ UNCHANGED <<variant, replayed>>

TestStep == Consolidate \/ AddQueries \/ TrainEpoch \/ Accuracy \/ Retention

-----------------------------------------------------------------------------

TestTypeOK ==
  /\ variant \in Variants
  /\ idx \in 1 .. LastPhase + 1 /\ epoch \in 0 .. TrainEpochs
  /\ at \in {"consolidate", "add", "train", "accuracy", "retention", "over"}
  /\ replayed \in 0 .. BufferSize
  /\ retention \in Seq([served : 0..newest, current : 0..newest])
=============================================================================
