----------------------------- MODULE PolicyAgent -----------------------------
(***************************************************************************)
(* The DQN agent of cldb/rl_agent.py with its EWC memory (cldb/ewc.py).    *)
(* In the pipeline a background thread trains the online network           *)
(* (train_from_buffer) while query threads act on it and one that met a    *)
(* drift consolidates it (consolidate).  There is no lock: all set the     *)
(* network's mode, the last two write the .grad of its parameters, and a   *)
(* parameter is read or written at a time.  In the simulator one worker    *)
(* does all this, and train_counterfactual, in turn.                       *)
(*                                                                         *)
(* A weight is the number of optimizer steps it has taken.  A gradient is  *)
(* the set of computations that contributed to it, {} being the None that  *)
(* zero_grad leaves: "loss" of the training under way, "fisher" of a       *)
(* Fisher estimate, "old" of a training that is over.  Training needs the  *)
(* dropout layers and nothing else does: "thin" is a loss whose forward    *)
(* pass went without them, "noisy" an estimate whose pass went through.    *)
(***************************************************************************)
EXTENDS Naturals, FiniteSets

CONSTANTS Params,     (* parameters of the online network                   *)
          Phases,     (* workload phases                                    *)
          Interval,   (* target_update_interval                             *)
          MaxChunks,  (* batches a Fisher estimate takes: 256 states by 128 *)
          MaxUpdates, (* bound: trainings                                   *)
          None        (* no phase                                           *)

ASSUME AgentAssumption ==
  /\ IsFiniteSet(Params) /\ Params # {} /\ IsFiniteSet(Phases)
  /\ Interval \in Nat \ {0} /\ MaxChunks \in Nat \ {0} /\ MaxUpdates \in Nat

VARIABLES
  user,             (* "pipeline" or "simulator"                            *)
  weights, grad,    (* of the online network                                *)
  mode,             (* of the online network: "train" or "eval"             *)
  target, updates,  (* weights of the target network, number of trainings   *)
  fisher_matrices,  (* EWC memory: the phases that have a Fisher matrix,    *)
  optimal_weights,  (* and those that have weights                          *)
  trainer,          (* the training thread: its place and local variables   *)
  keeper,           (* the consolidating thread: its place and loops        *)
  optimal, fisher,  (* its local variables, and the weights its last        *)
  forward,          (* forward pass went through                            *)
  actor,            (* an acting thread: its place, or the Q-values it has  *)
  disturbed         (* history: did a training overlap with other work      *)
                    (* since all were idle?                                 *)

network == <<weights, grad>>
acting == <<mode, actor>>
memory == <<fisher_matrices, optimal_weights>>
estimate == <<optimal, fisher, forward>>
vars == <<user, network, mode, target, updates, memory, trainer, keeper, estimate, actor,
          disturbed>>

-----------------------------------------------------------------------------

Resting == [at |-> "idle", todo |-> {}, size |-> 0, via |-> "loss"]

Unused == [at |-> "idle", todo |-> {}, chunks |-> 0, phase |-> None, via |-> "fisher"]

Init ==
  /\ user \in {"pipeline", "simulator"}
  /\ mode = "train"
  /\ weights = [p \in Params |-> 0]
  /\ grad = [p \in Params |-> {}]
  /\ target = weights
  /\ updates = 0
  /\ fisher_matrices = {}
  /\ optimal_weights = {}
  /\ trainer = Resting
  /\ keeper = Unused
  /\ optimal = [p \in Params |-> 0]
  /\ fisher = [p \in Params |-> {}]
  /\ forward = [p \in Params |-> 0]
  /\ actor = "idle"
  /\ disturbed = FALSE

ZeroGrad == grad' = [p \in Params |-> {}]
Accumulate(what) == grad' = [p \in Params |-> grad[p] \union {what}]

AllIdle == trainer.at = "idle" /\ keeper.at = "idle" /\ actor = "idle"

(* The simulator's one worker begins nothing before it has ended the last. *)
MayBegin == user = "simulator" => AllIdle

(* A training and what overlaps with it disturb each other.                *)
Watch ==
  disturbed' = \/ trainer'.at # "idle" /\ (keeper'.at # "idle" \/ actor' # "idle")
               \/ disturbed /\ ~AllIdle'

-----------------------------------------------------------------------------
(* train_from_buffer, train_counterfactual.                                *)

(* The batch is sampled; self.online.train() *)
BeginReplay ==
  /\ trainer.at = "idle" /\ MayBegin
  /\ updates < MaxUpdates
  /\ mode' = "train"
  /\ trainer' = [trainer EXCEPT !.at = "replaying"]
  /\ UNCHANGED <<network, target, updates, memory, keeper, estimate, actor>>

(* The outcomes of every valid action; self.online.train() *)
BeginCounterfactual ==
  /\ user = "simulator"
  /\ trainer.at = "idle" /\ MayBegin
  /\ updates < MaxUpdates
  /\ mode' = "train"
  /\ trainer' = [trainer EXCEPT !.at = "preferring"]
  /\ UNCHANGED <<network, target, updates, memory, keeper, estimate, actor>>

(* Every valid action has the best outcome: there is nothing to learn.     *)
NoneIsWorse ==
  /\ trainer.at = "preferring"
  /\ trainer' = Resting
  /\ UNCHANGED <<network, mode, target, updates, memory, keeper, estimate, actor>>

(* The forward pass and the loss, then the penalty starts to go through    *)
(* the registered phases.                                                  *)
Forward ==
  /\ trainer.at \in {"replaying", "preferring"}
  /\ trainer' = [at |-> "penalty", todo |-> optimal_weights,
                 size |-> Cardinality(optimal_weights),
                 via |-> IF mode = "train" THEN "loss" ELSE "thin"]
  /\ UNCHANGED <<network, mode, target, updates, memory, keeper, estimate, actor>>

(* compute_ewc_loss: a dictionary that grew under the loop raises, if only  *)
(* when the loop looks for a last phase, and so would a phase without a     *)
(* Fisher matrix.  _execute_online_training logs the error.                *)
PenaltyRaises ==
  /\ trainer.at = "penalty"
  /\ trainer.size > 0
  /\ Cardinality(optimal_weights) = trainer.size
       => \E ph \in trainer.todo : ph \notin fisher_matrices
  /\ trainer' = Resting
  /\ UNCHANGED <<acting, network, target, updates, memory, keeper, estimate>>

Penalty ==
  /\ trainer.at = "penalty"
  /\ Cardinality(optimal_weights) = trainer.size
  /\ \E ph \in trainer.todo :
       /\ ph \in fisher_matrices
       /\ trainer' = [trainer EXCEPT !.todo = @ \ {ph}]
  /\ UNCHANGED <<acting, network, target, updates, memory, keeper, estimate>>

(* optimizer.zero_grad *)
LossZeroGrad ==
  /\ trainer.at = "penalty"
  /\ trainer.todo = {}
  /\ ZeroGrad
  /\ trainer' = [trainer EXCEPT !.at = "backward"]
  /\ UNCHANGED <<acting, weights, target, updates, memory, keeper, estimate>>

(* loss.backward *)
LossBackward ==
  /\ trainer.at = "backward"
  /\ Accumulate(trainer.via)
  /\ trainer' = [trainer EXCEPT !.at = "stepping", !.todo = Params]
  /\ UNCHANGED <<acting, weights, target, updates, memory, keeper, estimate>>

(* optimizer.step goes from one parameter to the next and leaves out those *)
(* without a gradient.                                                     *)
OptimizerStep ==
  /\ trainer.at = "stepping"
  /\ \E p \in trainer.todo :
       /\ weights' = [weights EXCEPT ![p] = IF grad[p] = {} THEN @ ELSE @ + 1]
       /\ trainer' = [trainer EXCEPT !.todo = @ \ {p}]
  /\ UNCHANGED <<acting, grad, target, updates, memory, keeper, estimate>>

(* Mutant: the target network is not refreshed in the last update of an    *)
(* interval but in the one after it.                                       *)
TargetDueLate(n) == n > 1 /\ (n - 1) % Interval = 0

TargetDue(n) == n % Interval = 0

EndTraining ==
  /\ trainer.at = "stepping"
  /\ trainer.todo = {}
  /\ grad' = [p \in Params |-> IF grad[p] = {} THEN {} ELSE {"old"}]
  /\ updates' = updates + 1
  /\ target' = IF TargetDue(updates + 1) THEN weights ELSE target
  /\ trainer' = Resting
  /\ UNCHANGED <<acting, weights, memory, keeper, estimate>>

Train ==
  \/ BeginReplay \/ BeginCounterfactual \/ NoneIsWorse \/ Forward \/ PenaltyRaises
  \/ Penalty \/ LossZeroGrad \/ LossBackward \/ OptimizerStep \/ EndTraining

-----------------------------------------------------------------------------
(* consolidate.                                                            *)

(* The detector names a phase once, so no phase is registered twice.       *)
BeginConsolidation(ph) ==
  /\ keeper.at = "idle" /\ MayBegin
  /\ ph \notin optimal_weights
  /\ \E n \in 1..MaxChunks :
       keeper' = [Unused EXCEPT !.at = "copying", !.todo = Params, !.chunks = n,
                                !.phase = ph]
  /\ UNCHANGED <<acting, network, target, updates, memory, trainer, estimate>>

(* optimal = {name: p.data.clone() ...} *)
CopyWeight ==
  /\ keeper.at = "copying"
  /\ \E p \in keeper.todo :
       /\ optimal' = [optimal EXCEPT ![p] = weights[p]]
       /\ keeper' = [keeper EXCEPT !.todo = @ \ {p}]
  /\ UNCHANGED <<acting, network, target, updates, memory, trainer, fisher, forward>>

(* compute_fisher: self.online.eval() *)
BeginFisher ==
  /\ keeper.at = "copying"
  /\ keeper.todo = {}
  /\ mode' = "eval"
  /\ keeper' = [keeper EXCEPT !.at = "estimating"]
  /\ UNCHANGED <<actor, network, target, updates, memory, trainer, estimate>>

(* Its loop over the chunks of the recent states. *)
NextChunk ==
  /\ keeper.at \in {"estimating", "squaring"}
  /\ keeper.todo = {}
  /\ keeper.chunks > 0
  /\ keeper' = [keeper EXCEPT !.at = "forward", !.chunks = @ - 1,
                             !.via = IF mode = "eval" THEN "fisher" ELSE "noisy"]

(* Mutant: compute_fisher trusts whoever used the gradients before. *)
FisherForwardKeepingGrad ==
  /\ NextChunk
  /\ forward' = weights
  /\ UNCHANGED <<acting, network, target, updates, memory, trainer, optimal, fisher>>

(* zero_grad and the forward pass over a chunk. *)
FisherForward ==
  /\ NextChunk
  /\ ZeroGrad
  /\ forward' = weights
  /\ UNCHANGED <<acting, weights, target, updates, memory, trainer, optimal, fisher>>

FisherBackward ==
  /\ keeper.at = "forward"
  /\ Accumulate(keeper.via)
  /\ keeper' = [keeper EXCEPT !.at = "squaring", !.todo = Params]
  /\ UNCHANGED <<acting, weights, target, updates, memory, trainer, estimate>>

(* The locals of the consolidation go out of scope. *)
Leave ==
  /\ keeper' = Unused
  /\ optimal' = [p \in Params |-> 0]
  /\ fisher' = [p \in Params |-> {}]
  /\ forward' = [p \in Params |-> 0]

(* Autograd may refuse weights that changed since the forward pass.        *)
FisherRaises ==
  /\ keeper.at = "forward"
  /\ weights # forward
  /\ Leave
  /\ UNCHANGED <<acting, network, target, updates, memory, trainer>>

(* fisher[name] += p.grad.data ** 2 *)
SquareGrad ==
  /\ keeper.at = "squaring"
  /\ \E p \in keeper.todo :
       /\ fisher' = [fisher EXCEPT ![p] = @ \union grad[p]]
       /\ keeper' = [keeper EXCEPT !.todo = @ \ {p}]
  /\ UNCHANGED <<acting, network, target, updates, memory, trainer, optimal, forward>>

FisherZeroGrad ==
  /\ keeper.at = "squaring"
  /\ keeper.todo = {}
  /\ keeper.chunks = 0
  /\ ZeroGrad
  /\ keeper' = [keeper EXCEPT !.at = "registering"]
  /\ UNCHANGED <<acting, weights, target, updates, memory, trainer, estimate>>

(* Mutant: the optimal weights are registered first, the way               *)
(* register_workload_phase does it.                                        *)
RegisterOptimalFirst ==
  /\ keeper.at = "registering"
  /\ optimal_weights' = optimal_weights \union {keeper.phase}
  /\ keeper' = [keeper EXCEPT !.at = "registered"]
  /\ UNCHANGED <<acting, network, target, updates, fisher_matrices, trainer, estimate>>

(* register_phase_matrix *)
RegisterFisher ==
  /\ keeper.at = "registering"
  /\ fisher_matrices' = fisher_matrices \union {keeper.phase}
  /\ keeper' = [keeper EXCEPT !.at = "registered"]
  /\ UNCHANGED <<acting, network, target, updates, optimal_weights, trainer, estimate>>

RegisterOptimal ==
  /\ keeper.at = "registered"
  /\ optimal_weights' = optimal_weights \union {keeper.phase}
  /\ Leave
  /\ UNCHANGED <<acting, network, target, updates, fisher_matrices, trainer>>

Consolidate ==
  \/ \E ph \in Phases : BeginConsolidation(ph)
  \/ CopyWeight \/ BeginFisher \/ FisherForward \/ FisherBackward \/ FisherRaises
  \/ SquareGrad \/ FisherZeroGrad \/ RegisterFisher \/ RegisterOptimal

-----------------------------------------------------------------------------
(* select_action, act, predict and q_values.                               *)

(* Mutant: acting takes the network in the mode it is in. *)
BeginActingAsIs ==
  /\ actor = "idle" /\ MayBegin
  /\ actor' = "ready"
  /\ UNCHANGED <<network, mode, target, updates, memory, trainer, keeper, estimate>>

(* _forward: self.online.eval() *)
BeginActing ==
  /\ actor = "idle" /\ MayBegin
  /\ mode' = "eval"
  /\ actor' = "ready"
  /\ UNCHANGED <<network, target, updates, memory, trainer, keeper, estimate>>

(* The forward pass that gives the Q-values. *)
QValues ==
  /\ actor = "ready"
  /\ actor' = IF mode = "eval" THEN "exact" ELSE "noisy"
  /\ UNCHANGED <<network, mode, target, updates, memory, trainer, keeper, estimate>>

(* The action is chosen from them. *)
Choose ==
  /\ actor \in {"exact", "noisy"}
  /\ actor' = "idle"
  /\ UNCHANGED <<network, mode, target, updates, memory, trainer, keeper, estimate>>

Acting == BeginActing \/ QValues \/ Choose

Next == (Train \/ Consolidate \/ Acting) /\ Watch /\ UNCHANGED user

Spec == Init /\ [][Next]_vars

-----------------------------------------------------------------------------
(* Properties.                                                             *)

Sources == {"loss", "thin", "fisher", "noisy", "old"}

(* Type invariant. *)
TypeOK ==
  /\ user \in {"pipeline", "simulator"}
  /\ weights \in [Params -> Nat] /\ target \in [Params -> Nat]
  /\ grad \in [Params -> SUBSET Sources]
  /\ mode \in {"train", "eval"}
  /\ updates \in Nat
  /\ fisher_matrices \subseteq Phases /\ optimal_weights \subseteq Phases
  /\ trainer \in [at : {"idle", "replaying", "preferring", "penalty", "backward", "stepping"},
                  todo : SUBSET (Phases \union Params), size : Nat, via : {"loss", "thin"}]
  /\ keeper \in [at : {"idle", "copying", "estimating", "forward", "squaring", "registering",
                       "registered"},
                 todo : SUBSET Params, chunks : 0..MaxChunks,
                 phase : Phases \union {None}, via : {"fisher", "noisy"}]
  /\ optimal \in [Params -> Nat] /\ forward \in [Params -> Nat]
  /\ fisher \in [Params -> SUBSET Sources]
  /\ actor \in {"idle", "ready", "exact", "noisy"}
  /\ disturbed \in BOOLEAN

(* Whatever phase the penalty of a training thread can see in              *)
(* optimal_weights, its Fisher matrix is there: register_phase_matrix      *)
(* publishes the two in the order that makes this so (ewc.py:107-108).     *)
PenaltyHasFisher == optimal_weights \subseteq fisher_matrices

(* Work that met no training of another thread, as all of the simulator's  *)
(* does, is exact, whatever mode and gradients earlier work left behind: a *)
(* consolidation registers the weights of the network and the gradients of *)
(* its own estimate, made with the whole network (rl_agent.py:314-320,     *)
(* 333-338); a training steps along its own loss only, made through the    *)
(* dropout layers (219, 231-234, 276); and an action is chosen by the      *)
(* whole network (117).  Acting and consolidating may overlap.             *)
QuietWorkIsExact ==
  ~disturbed \/ user = "simulator" =>
    /\ keeper.at = "registering" => optimal = weights
    /\ \A p \in Params : keeper.at = "registering" => fisher[p] = {"fisher"}
    /\ \A p \in Params : trainer.at = "stepping" => grad[p] = {"loss"}
    /\ actor # "noisy"

(* The target network lags the online one by less than an interval of      *)
(* optimizer steps between trainings, and by no more than an interval in   *)
(* one, failed trainings included (rl_agent.py:239-240).                   *)
TargetIsRecent ==
  \A p \in Params :
    /\ weights[p] <= target[p] + Interval
    /\ trainer.at = "idle" => weights[p] < target[p] + Interval
=============================================================================
