------------------------------ MODULE Trainer ------------------------------
(***************************************************************************)
(* cldb/training.py: Trainer.fit with its early stopping and its           *)
(* checkpoints, training the network of a ContinualEngine (tests/          *)
(* test_training.py gives it the engine's network class).                  *)
(*                                                                         *)
(* A validation loss is an integer or NaN, which compares with nothing.    *)
(* Checkpoints, and their files, are saved one after another, each of      *)
(* weights that never were before: the weights are a checkpoint's name and *)
(* its timestamp.                                                          *)
(***************************************************************************)
EXTENDS ContinualEngine, Integers, SequencesExt

CONSTANTS Tasks,          (* task_id                                        *)
          Losses,         (* validation losses                              *)
          NaN,            (* ... and one that is not a number               *)
          Infinity,       (* above every loss                               *)
          Epochs,         (* config.epochs                                  *)
          Patience,       (* early_stopping_patience                        *)
          MinDelta,       (* min_delta                                      *)
          MaxCheckpoints, (* max_checkpoints                                *)
          Samples,        (* training samples a fit can be given            *)
          MaxFits         (* bound: fits                                    *)

ASSUME TrainerAssumption ==
  /\ Losses \subseteq Int /\ NaN \notin Int
  /\ Infinity \in Int /\ \A loss \in Losses : loss < Infinity
  /\ Epochs \in Nat \ {0} /\ Patience \in Nat \ {0} /\ MinDelta \in Nat
  /\ MaxCheckpoints \in Nat \ {0} /\ Samples \subseteq Nat \ {0} /\ MaxFits \in Nat
  /\ None \notin Tasks
  /\ None \notin [number : Nat, task : Tasks, epoch : Nat, val : Nat, bestLoss : Int,
                  best : Nat \cup {None}]

VARIABLES
  fit,    (* the fit under way: its number, task, epochs done, best_val_loss *)
          (* and best_model_state; None between fits                        *)
  fits,   (* fits begun                                                     *)
  early,  (* the EarlyStopping object, shared by all fits: counter and      *)
          (* best_score                                                     *)
  listed, (* _checkpoints                                                   *)
  disk,   (* files in checkpoint_dir, whole or cut off in their writing     *)
  trail,  (* history: weights and loss of each epoch of the last fit        *)
  lowest  (* history: lowest loss among the completed epochs of each fit    *)

trainer == <<fit, fits, early, listed, disk, trail, lowest>>

TrainerInit ==
  /\ fit = None /\ fits = 0
  /\ early = [counter |-> 0, best |-> None]
  /\ listed = <<>> /\ disk = {}
  /\ trail = <<>>
  /\ lowest = [k \in 1..MaxFits |-> Infinity]

Less(x, y) == x # NaN /\ y # NaN /\ x < y

-----------------------------------------------------------------------------
(* EarlyStopping.__call__: the next state of the object and its answer.    *)

EarlyNext(loss) ==
  IF early.best = None THEN [counter |-> early.counter, best |-> loss]
  ELSE IF early.best # NaN /\ Less(loss, early.best - MinDelta)
       THEN [counter |-> 0, best |-> loss]
       ELSE [early EXCEPT !.counter = @ + 1]

StopsEarly(loss) ==
  /\ early.best # None
  /\ EarlyNext(loss).best = early.best
  /\ EarlyNext(loss).counter >= Patience

-----------------------------------------------------------------------------
(* ModelCheckpointManager                                                  *)

(* _cleanup_old_checkpoints: the oldest go until the rest fits. *)
Prune(checkpoints) ==
  IF Len(checkpoints) <= MaxCheckpoints THEN checkpoints
  ELSE SubSeq(checkpoints, Len(checkpoints) - MaxCheckpoints + 1, Len(checkpoints))

CheckpointOf(w, loss, whole) ==
  [task |-> fit.task, weights |-> w, loss |-> loss, fit |-> fit.number, whole |-> whole]

(* save, whose unlink may fail and leave the file. *)
SaveCheckpoint(checkpoint) ==
  LET all == Append(listed, checkpoint)
  IN  /\ listed' = Prune(all)
      /\ \E unlinked \in SUBSET (ToSet(all) \ ToSet(Prune(all))) :
           disk' = (disk \cup {checkpoint}) \ unlinked

ListedOf(task) == {checkpoint \in ToSet(listed) : task \in {None, checkpoint.task}}

LastSaved(checkpoints) ==
  CHOOSE latest \in checkpoints : \A other \in checkpoints : other.weights <= latest.weights

(* get_latest: of the checkpoints listed for the task, or of all files.    *)
Latest(task) == LastSaved(IF ListedOf(task) # {} THEN ListedOf(task) ELSE disk)

-----------------------------------------------------------------------------
(* fit                                                                     *)

(* val_split = 0.2 *)
ValSize(n) == n \div 5

BeginFit(task, n) ==
  /\ fit = None
  /\ fits < MaxFits
  /\ fits' = fits + 1
  /\ fit' = [number |-> fits + 1, task |-> task, epoch |-> 0, val |-> ValSize(n),
             bestLoss |-> Infinity, best |-> None]
  /\ trail' = <<>>
  /\ UNCHANGED <<engine, early, listed, disk, lowest>>

(* Mutant: the last epoch's weights stay. *)
RestoredLast(best, last) == last

(* The loop of fit is over: the best weights of this fit come back. *)
Restored(best, last) == IF best # None THEN best ELSE last

(* train_epoch makes new weights, validate finds their loss; the best so   *)
(* far are kept and saved; early stopping or the last epoch ends the fit.  *)
Epoch(loss) ==
  LET w        == newest + 1
      improves == Less(loss, fit.bestLoss)
      best     == IF improves THEN w ELSE fit.best
      over     == fit.epoch + 1 = Epochs \/ StopsEarly(loss)
  IN  /\ newest' = w
      /\ NewWeights(IF over THEN Restored(best, w) ELSE w)
      /\ IF improves
         THEN SaveCheckpoint(CheckpointOf(w, loss, TRUE))
         ELSE UNCHANGED <<listed, disk>>
      /\ early' = EarlyNext(loss)
      /\ fit' = IF over THEN None
                ELSE [fit EXCEPT !.epoch = @ + 1, !.best = best,
                                 !.bestLoss = IF improves THEN loss ELSE @]
      /\ trail' = Append(trail, [weights |-> w, loss |-> loss])
      /\ lowest' = [lowest EXCEPT ![fit.number] = IF Less(loss, @) THEN loss ELSE @]
      /\ UNCHANGED <<cacheSize, cache, memory, saved, fits>>

Validated ==
  /\ fit # None
  /\ fit.val > 0
  /\ \E loss \in Losses \cup {NaN} : Epoch(loss)

(* torch.save may raise with its file written in part or in full: it stays *)
(* on disk and is not listed, so that nothing will read its loss, which is *)
(* any that improves.                                                      *)
SaveRaises ==
  LET Improving == {loss \in Losses : Less(loss, fit.bestLoss)}
  IN  /\ fit.val > 0 /\ Improving # {}
      /\ \E whole \in BOOLEAN :
           disk' = disk \cup
             {CheckpointOf(newest + 1, CHOOSE loss \in Improving : TRUE, whole)}

(* An epoch raises once the network has been trained - validate, which     *)
(* divides by the batches it is given, or save - and the fit with it.      *)
EpochRaises ==
  /\ fit # None
  /\ Improve
  /\ UNCHANGED disk \/ SaveRaises
  /\ fit' = None
  /\ trail' = <<>>
  /\ UNCHANGED <<cacheSize, cache, memory, saved, fits, early, listed, lowest>>

(* A file cut off does not load, and nothing changes. *)
LoadBest(task) ==
  /\ fit = None
  /\ ListedOf(task) # {} \/ disk # {}
  /\ Latest(task).whole
  /\ NewWeights(Latest(task).weights)
  /\ trail' = <<>>
  /\ UNCHANGED <<newest, cacheSize, cache, memory, saved, fit, fits, early, listed, disk, lowest>>

(* A new process: what is on disk stays. *)
NewTrainer ==
  /\ fit = None
  /\ early' = [counter |-> 0, best |-> None]
  /\ listed' = <<>>
  /\ trail' = <<>>
  /\ UNCHANGED <<engine, fit, fits, disk, lowest>>

TrainerStep ==
  \/ \E task \in Tasks, n \in Samples : BeginFit(task, n)
  \/ Validated \/ EpochRaises \/ NewTrainer
  \/ \E task \in Tasks \cup {None} : LoadBest(task)

-----------------------------------------------------------------------------

Checkpoints ==
  [task : Tasks, weights : Nat, loss : Losses, fit : 1..MaxFits, whole : BOOLEAN]

TrainerTypeOK ==
  /\ fit = None \/ fit \in [number : 1..fits, task : Tasks, epoch : 0..Epochs - 1, val : Nat,
                            bestLoss : Losses \cup {Infinity}, best : 0..newest \cup {None}]
  /\ fits \in 0..MaxFits
  /\ early \in [counter : Nat, best : Losses \cup {NaN, None}]
  /\ listed \in Seq(Checkpoints) /\ Len(listed) <= MaxCheckpoints
  /\ disk \subseteq Checkpoints
  /\ trail \in Seq([weights : 1..newest, loss : Losses \cup {NaN}])
  /\ lowest \in [1..MaxFits -> Losses \cup {Infinity}]

(* A fit that ends (cldb/training.py:278-304), by its last epoch or early, *)
(* leaves the weights of its best epoch, unless no loss was a number.      *)
FitKeepsBestEpoch ==
  (fit = None /\ trail # <<>>) =>
    \E i \in DOMAIN trail :
      /\ trail[i].weights = weights
      /\ \A j \in DOMAIN trail : ~Less(trail[j].loss, trail[i].loss)
      /\ trail[i].loss = NaN => \A j \in DOMAIN trail : trail[j].loss = NaN

(* load_best loads the latest checkpoint (cldb/training.py:140-149).  What *)
(* makes that the best one: as long as a task has a checkpoint listed, the *)
(* latest is on disk as a whole, is the task's and has the lowest loss its *)
(* fit saw, whatever other tasks' checkpoints have pushed out.             *)
LatestIsBestOfItsFit ==
  \A task \in Tasks :
    ListedOf(task) # {} =>
      LET latest == Latest(task)
      IN  /\ latest \in disk /\ latest.whole
          /\ latest.task = task
          /\ latest.loss = lowest[latest.fit]

(* Both: what a fit, and later load_best, puts into the network.           *)
CheckpointsKeepTheBest == FitKeepsBestEpoch /\ LatestIsBestOfItsFit
=============================================================================
