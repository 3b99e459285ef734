-------------------------- MODULE PolicyAgentProofs --------------------------
(* Theorems about PolicyAgent for any number of parameters, phases, chunks   *)
(* and trainings.                                                            *)
EXTENDS PolicyAgent, FiniteSetTheorems, TLAPS

-----------------------------------------------------------------------------

LEMMA TypeInit == Init => TypeOK
<1> SUFFICES ASSUME Init PROVE TypeOK
  OBVIOUS
<1>1. /\ weights \in [Params -> Nat] /\ target \in [Params -> Nat]
      /\ grad \in [Params -> SUBSET Sources]
      /\ optimal \in [Params -> Nat] /\ forward \in [Params -> Nat]
      /\ fisher \in [Params -> SUBSET Sources]
  BY DEF Init
<1>2. fisher_matrices \subseteq Phases /\ optimal_weights \subseteq Phases
  BY DEF Init
<1>3. /\ updates \in Nat /\ disturbed \in BOOLEAN
      /\ mode \in {"train", "eval"}
      /\ actor \in {"idle", "ready", "exact", "noisy"}
      /\ user \in {"pipeline", "simulator"}
  BY DEF Init
<1>4. trainer \in [at : {"idle", "replaying", "preferring", "penalty", "backward", "stepping"},
                  todo : SUBSET (Phases \union Params), size : Nat, via : {"loss", "thin"}]
  BY DEF Init, Resting
<1>5. keeper \in [at : {"idle", "copying", "estimating", "forward", "squaring", "registering",
                       "registered"},
                 todo : SUBSET Params, chunks : 0..MaxChunks,
                 phase : Phases \union {None}, via : {"fisher", "noisy"}]
  BY AgentAssumption DEF AgentAssumption, Init, Unused
<1> QED
  BY <1>1, <1>2, <1>3, <1>4, <1>5 DEF TypeOK

(* What the consolidating thread holds, whatever the others do.              *)
Held ==
  /\ keeper.at \in {"idle", "copying", "estimating"} => \A p \in Params : fisher[p] = {}
  /\ keeper.at \in {"copying", "estimating"} => keeper.chunks > 0
  /\ keeper.at # "idle" => keeper.phase \in Phases
  /\ keeper.at = "registered" => keeper.phase \in fisher_matrices

LEMMA TypeNext == TypeOK /\ Held /\ [Next]_vars => TypeOK'
<1> SUFFICES ASSUME TypeOK, Held, [Next]_vars PROVE TypeOK'
  OBVIOUS
<1> USE AgentAssumption DEF AgentAssumption, TypeOK, Sources
<1>1. ASSUME Train, Watch, UNCHANGED user PROVE TypeOK'
  <2>0. disturbed' \in BOOLEAN /\ user' = user
    BY <1>1, Zenon DEF Watch
  <2>1. CASE Forward
    <3>1. /\ trainer' = [at |-> "penalty", todo |-> optimal_weights,
                         size |-> Cardinality(optimal_weights),
                         via |-> IF mode = "train" THEN "loss" ELSE "thin"]
          /\ UNCHANGED <<network, mode, target, updates, memory, keeper, estimate, actor>>
      BY <2>1 DEF Forward
    <3>2. Cardinality(optimal_weights) \in Nat
      BY FS_CardinalityType, FS_Subset
    <3> QED
      BY <2>0, <3>1, <3>2 DEF network, memory, estimate
  <2>2. CASE PenaltyRaises
    BY <2>0, <2>2 DEF PenaltyRaises, Resting, network, memory, acting, estimate
  <2>3. CASE Penalty
    BY <2>0, <2>3 DEF Penalty, network, memory, acting, estimate
  <2>4. CASE LossZeroGrad
    BY <2>0, <2>4 DEF LossZeroGrad, ZeroGrad, memory, acting, estimate
  <2>5. CASE LossBackward
    BY <2>0, <2>5 DEF LossBackward, Accumulate, memory, acting, estimate
  <2>6. CASE OptimizerStep
    <3>1. PICK p \in trainer.todo :
             /\ weights' = [weights EXCEPT ![p] = IF grad[p] = {} THEN @ ELSE @ + 1]
             /\ trainer' = [trainer EXCEPT !.todo = @ \ {p}]
      BY <2>6 DEF OptimizerStep
    <3>2. weights' \in [Params -> Nat]
      <4>1. \A q \in Params :
              weights'[q] = IF q = p THEN IF grad[p] = {} THEN weights[p] ELSE weights[p] + 1
                                     ELSE weights[q]
        BY <3>1
      <4>2. \A q \in Params : weights'[q] \in Nat
        BY <4>1
      <4>3. weights' = [q \in Params |-> weights'[q]]
        BY <3>1
      <4> QED
        BY <4>2, <4>3
    <3> QED
      BY <2>0, <2>6, <3>1, <3>2 DEF OptimizerStep, memory, acting, estimate
  <2>7. CASE EndTraining
    <3>1. grad' \in [Params -> SUBSET Sources]
      BY <2>7 DEF EndTraining
    <3>2. target' \in [Params -> Nat]
      BY <2>7, Zenon DEF EndTraining
    <3>3. updates' \in Nat
      BY <2>7 DEF EndTraining
    <3> QED
      BY <2>0, <2>7, <3>1, <3>2, <3>3 DEF EndTraining, Resting, memory, acting, estimate
  <2>8. CASE BeginReplay
    BY <2>0, <2>8 DEF BeginReplay, network, memory, estimate
  <2>9. CASE BeginCounterfactual
    BY <2>0, <2>9 DEF BeginCounterfactual, network, memory, estimate
  <2>10. CASE NoneIsWorse
    BY <2>0, <2>10 DEF NoneIsWorse, Resting, network, memory, estimate
  <2> QED
    BY <1>1, <2>1, <2>2, <2>3, <2>4, <2>5, <2>6, <2>7, <2>8, <2>9, <2>10 DEF Train
<1>2. ASSUME Consolidate, Watch, UNCHANGED user PROVE TypeOK'
  <2>0. disturbed' \in BOOLEAN /\ user' = user
    BY <1>2, Zenon DEF Watch
  <2>1. ASSUME NEW ph \in Phases, BeginConsolidation(ph) PROVE TypeOK'
    <3>1. PICK n \in 1..MaxChunks :
            keeper' = [Unused EXCEPT !.at = "copying", !.todo = Params, !.chunks = n,
                                     !.phase = ph]
      BY <2>1 DEF BeginConsolidation
    <3>2. keeper' = [at |-> "copying", todo |-> Params, chunks |-> n, phase |-> ph,
                     via |-> "fisher"]
      BY <3>1 DEF Unused
    <3>3. n \in 0..MaxChunks
      OBVIOUS
    <3> QED
      BY <2>0, <2>1, <3>2, <3>3 DEF BeginConsolidation, network, memory, acting, estimate
  <2>2. CASE CopyWeight
    BY <2>0, <2>2 DEF CopyWeight, network, memory, acting, estimate
  <2>3. CASE FisherForward
    <3>1. keeper' = [keeper EXCEPT !.at = "forward", !.chunks = @ - 1,
                                   !.via = IF mode = "eval" THEN "fisher" ELSE "noisy"]
          /\ keeper.chunks > 0
      BY <2>3 DEF FisherForward, NextChunk
    <3>2. keeper' = [at |-> "forward", todo |-> keeper.todo,
                     chunks |-> keeper.chunks - 1, phase |-> keeper.phase,
                     via |-> IF mode = "eval" THEN "fisher" ELSE "noisy"]
      BY <3>1
    <3>3. keeper.chunks - 1 \in 0..MaxChunks
      BY <3>1
    <3>4. keeper'.via \in {"fisher", "noisy"}
      BY <3>2, Zenon
    <3>5. keeper' = [at |-> "forward", todo |-> keeper.todo, chunks |-> keeper.chunks - 1,
                     phase |-> keeper.phase, via |-> keeper'.via]
      BY <3>2
    <3> QED
      BY <2>0, <2>3, <3>3, <3>4, <3>5 DEF FisherForward, ZeroGrad, memory, acting
  <2>4. CASE FisherBackward
    BY <2>0, <2>4 DEF FisherBackward, Accumulate, memory, acting, estimate
  <2>5. CASE FisherRaises
    BY <2>0, <2>5 DEF FisherRaises, Leave, Unused, network, memory, acting, estimate
  <2>6. CASE SquareGrad
    BY <2>0, <2>6 DEF SquareGrad, network, memory, acting, estimate
  <2>7. CASE FisherZeroGrad
    BY <2>0, <2>7 DEF FisherZeroGrad, ZeroGrad, memory, acting, estimate
  <2>8. CASE RegisterFisher
    <3>1. fisher_matrices' \subseteq Phases
      BY <1>2, <2>8 DEF RegisterFisher, Held
    <3> QED
      BY <2>0, <2>8, <3>1 DEF RegisterFisher, network, acting, estimate
  <2>9. CASE RegisterOptimal
    <3>1. optimal_weights' \subseteq Phases
      BY <1>2, <2>9 DEF RegisterOptimal, Held
    <3>2. /\ optimal' \in [Params -> Nat] /\ forward' \in [Params -> Nat]
          /\ fisher' \in [Params -> SUBSET Sources]
          /\ keeper' = Unused
      BY <2>9 DEF RegisterOptimal, Leave
    <3> QED
      BY <2>0, <2>9, <3>1, <3>2 DEF RegisterOptimal, Unused, network, acting
  <2>10. CASE BeginFisher
    BY <2>0, <2>10 DEF BeginFisher, network, memory, estimate
  <2> QED
    BY <1>2, <2>1, <2>2, <2>3, <2>4, <2>5, <2>6, <2>7, <2>8, <2>9, <2>10 DEF Consolidate
<1>4. ASSUME Acting, Watch, UNCHANGED user PROVE TypeOK'
  <2>0. disturbed' \in BOOLEAN /\ user' = user
    BY <1>4, Zenon DEF Watch
  <2>1. CASE BeginActing
    BY <2>0, <2>1 DEF BeginActing, network, memory, estimate
  <2>2. CASE QValues
    BY <2>0, <2>2 DEF QValues, network, memory, estimate
  <2>3. CASE Choose
    BY <2>0, <2>3 DEF Choose, network, memory, estimate
  <2> QED
    BY <1>4, <2>1, <2>2, <2>3 DEF Acting
<1>3. CASE UNCHANGED vars
  BY <1>3 DEF vars, network, memory, estimate
<1> QED
  BY <1>1, <1>2, <1>3, <1>4 DEF Next


-----------------------------------------------------------------------------
(* The Fisher matrix of a registered phase.                                  *)

FisherInv == TypeOK /\ Held /\ PenaltyHasFisher

(* What a thread that is not consolidating leaves alone. *)
LEMMA OthersLeaveMemory ==
  ASSUME Train \/ Acting PROVE UNCHANGED <<keeper, estimate, memory>>
BY DEF Train, BeginReplay, BeginCounterfactual, NoneIsWorse, Forward, PenaltyRaises,
       Penalty, LossZeroGrad, LossBackward, OptimizerStep, EndTraining,
       Acting, BeginActing, QValues, Choose

LEMMA OthersKeepHeld ==
  ASSUME FisherInv, Train \/ Acting PROVE Held' /\ PenaltyHasFisher'
BY OthersLeaveMemory DEF FisherInv, Held, PenaltyHasFisher, memory, estimate

LEMMA ConsolidateKeepsHeld ==
  ASSUME FisherInv, Consolidate PROVE Held' /\ PenaltyHasFisher'
<1> USE AgentAssumption DEF AgentAssumption, FisherInv, Held, PenaltyHasFisher
<1>0. /\ keeper.at \in {"idle", "copying", "estimating", "forward", "squaring",
                        "registering", "registered"}
      /\ keeper = [at |-> keeper.at, todo |-> keeper.todo, chunks |-> keeper.chunks,
                   phase |-> keeper.phase, via |-> keeper.via]
  BY DEF TypeOK
<1>1. ASSUME NEW ph \in Phases, BeginConsolidation(ph)
      PROVE Held' /\ PenaltyHasFisher'
  BY <1>1 DEF BeginConsolidation, Unused, memory, estimate
<1>2. CASE CopyWeight
  BY <1>0, <1>2 DEF CopyWeight, memory
<1>10. CASE BeginFisher
  BY <1>0, <1>10 DEF BeginFisher, memory, estimate
<1>3. CASE FisherForward
  BY <1>0, <1>3 DEF FisherForward, NextChunk, memory
<1>4. CASE FisherBackward
  BY <1>0, <1>4 DEF FisherBackward, memory, estimate
<1>5. CASE FisherRaises
  BY <1>5 DEF FisherRaises, Leave, Unused, memory
<1>6. CASE SquareGrad
  BY <1>0, <1>6 DEF SquareGrad, memory
<1>7. CASE FisherZeroGrad
  BY <1>0, <1>7 DEF FisherZeroGrad, memory, estimate
<1>8. CASE RegisterFisher
  BY <1>0, <1>8 DEF RegisterFisher
<1>9. CASE RegisterOptimal
  BY <1>9 DEF RegisterOptimal, Leave, Unused
<1> QED
  BY <1>1, <1>2, <1>3, <1>4, <1>5, <1>6, <1>7, <1>8, <1>9, <1>10 DEF Consolidate

LEMMA FisherInvInductive == Spec => []FisherInv
<1>1. Init => FisherInv
  BY TypeInit DEF Init, FisherInv, Held, PenaltyHasFisher, Unused
<1>2. FisherInv /\ [Next]_vars => FisherInv'
  <2> SUFFICES ASSUME FisherInv, [Next]_vars PROVE FisherInv'
    OBVIOUS
  <2>1. TypeOK'
    BY TypeNext DEF FisherInv
  <2>2. CASE UNCHANGED vars
    BY <2>1, <2>2 DEF FisherInv, Held, PenaltyHasFisher, vars, memory, acting, estimate
  <2> QED
    BY <2>1, <2>2, OthersKeepHeld, ConsolidateKeepsHeld DEF Next, FisherInv
<1> QED
  BY <1>1, <1>2, PTL DEF Spec

(* Every variable keeps its type. *)
THEOREM TypeCorrect == Spec => []TypeOK
<1>1. FisherInv => TypeOK
  BY DEF FisherInv
<1> QED
  BY <1>1, FisherInvInductive, PTL

(* No training ever meets a phase whose Fisher matrix is missing.            *)
THEOREM PenaltyFindsFisher == Spec => []PenaltyHasFisher
<1>1. FisherInv => PenaltyHasFisher
  BY DEF FisherInv
<1> QED
  BY <1>1, FisherInvInductive, PTL

-----------------------------------------------------------------------------
(* Work that meets no training of another thread.                            *)

Alone ==
  ~disturbed => trainer.at = "idle" \/ (keeper.at = "idle" /\ actor = "idle")

(* The simulator does one thing at a time. *)
OneAtATime ==
  user = "simulator" =>
    /\ ~disturbed
    /\ trainer.at = "idle" \/ (keeper.at = "idle" /\ actor = "idle")
    /\ keeper.at = "idle" \/ actor = "idle"

TrainerOwn ==
  /\ trainer.at \in {"replaying", "preferring"} => mode = "train"
  /\ trainer.at \in {"penalty", "backward", "stepping"} => trainer.via = "loss"
  /\ \A p \in Params :
       /\ trainer.at = "backward" => grad[p] = {}
       /\ trainer.at = "stepping" => grad[p] = {"loss"}

KeeperOwn ==
  /\ keeper.at \in {"estimating", "squaring"} => mode = "eval"
  /\ keeper.at = "forward" => mode = "eval" /\ keeper.via = "fisher"
  /\ \A p \in Params :
       /\ keeper.at = "copying" => p \in keeper.todo \/ optimal[p] = weights[p]
       /\ keeper.at \in {"estimating", "forward", "squaring", "registering"} =>
            optimal[p] = weights[p]
       /\ keeper.at = "forward" => grad[p] = {} /\ fisher[p] \subseteq {"fisher"}
       /\ keeper.at = "squaring" =>
            /\ grad[p] = {"fisher"} /\ fisher[p] \subseteq {"fisher"}
            /\ p \in keeper.todo \/ fisher[p] = {"fisher"}
       /\ keeper.at = "registering" => fisher[p] = {"fisher"}

ActorOwn ==
  /\ actor = "ready" => mode = "eval"
  /\ actor # "noisy"

TrainerAlone == ~disturbed => TrainerOwn
OthersAlone == ~disturbed => KeeperOwn /\ ActorOwn

QuietInv == FisherInv /\ Alone /\ OneAtATime /\ TrainerAlone /\ OthersAlone

(* What the history variable says after a step.                              *)
LEMMA QuietAfter ==
  ASSUME Watch, ~disturbed'
  PROVE  /\ trainer'.at = "idle" \/ (keeper'.at = "idle" /\ actor' = "idle")
         /\ disturbed => keeper'.at = "idle" /\ trainer'.at = "idle" /\ actor' = "idle"
BY Zenon DEF Watch, AllIdle

(* A step is of one thread: the others stay where they are.                  *)
LEMMA TrainIsAtWork ==
  ASSUME TypeOK, Train
  PROVE  /\ UNCHANGED <<keeper, actor>>
         /\ trainer.at # "idle" \/ (trainer'.at # "idle" /\ MayBegin)
<1>1. UNCHANGED <<keeper, actor>>
  BY DEF Train, BeginReplay, BeginCounterfactual, NoneIsWorse, Forward, PenaltyRaises,
         Penalty, LossZeroGrad, LossBackward, OptimizerStep, EndTraining, acting
<1>2. ASSUME BeginReplay \/ BeginCounterfactual PROVE trainer'.at # "idle" /\ MayBegin
  BY <1>2 DEF TypeOK, BeginReplay, BeginCounterfactual
<1>3. ASSUME ~BeginReplay, ~BeginCounterfactual PROVE trainer.at # "idle"
  BY <1>3 DEF Train, NoneIsWorse, Forward, PenaltyRaises, Penalty, LossZeroGrad,
              LossBackward, OptimizerStep, EndTraining
<1> QED
  BY <1>1, <1>2, <1>3

LEMMA ConsolidateIsAtWork ==
  ASSUME Consolidate
  PROVE  /\ UNCHANGED <<trainer, actor>>
         /\ keeper.at # "idle" \/ (keeper'.at # "idle" /\ MayBegin)
<1>1. UNCHANGED <<trainer, actor>>
  BY DEF Consolidate, BeginConsolidation, CopyWeight, BeginFisher, FisherForward,
         FisherBackward, FisherRaises, SquareGrad, FisherZeroGrad, RegisterFisher,
         RegisterOptimal, acting
<1>2. ASSUME NEW ph \in Phases, BeginConsolidation(ph)
      PROVE  keeper'.at # "idle" /\ MayBegin
  BY <1>2 DEF BeginConsolidation, Unused
<1>3. ASSUME ~ \E ph \in Phases : BeginConsolidation(ph) PROVE keeper.at # "idle"
  BY <1>3 DEF Consolidate, CopyWeight, BeginFisher, FisherForward, NextChunk,
              FisherBackward, FisherRaises, SquareGrad, FisherZeroGrad, RegisterFisher,
              RegisterOptimal
<1> QED
  BY <1>1, <1>2, <1>3

LEMMA ActingIsAtWork ==
  ASSUME Acting
  PROVE  /\ UNCHANGED <<trainer, keeper>>
         /\ actor # "idle" \/ (actor' # "idle" /\ MayBegin)
BY DEF Acting, BeginActing, QValues, Choose

LEMMA TrainKeepsOwn ==
  ASSUME TypeOK, TrainerOwn, Train PROVE TrainerOwn'
<1>0. trainer = [at |-> trainer.at, todo |-> trainer.todo, size |-> trainer.size,
                 via |-> trainer.via]
      /\ grad \in [Params -> SUBSET Sources]
  BY DEF TypeOK
<1> USE DEF TrainerOwn
<1>1. CASE Forward
  BY <1>1 DEF Forward
<1>2. CASE PenaltyRaises
  BY <1>2 DEF PenaltyRaises, Resting
<1>3. CASE Penalty
  BY <1>0, <1>3 DEF Penalty
<1>4. CASE LossZeroGrad
  BY <1>0, <1>4 DEF LossZeroGrad, ZeroGrad
<1>5. CASE LossBackward
  BY <1>0, <1>5 DEF LossBackward, Accumulate
<1>6. CASE OptimizerStep
  BY <1>0, <1>6 DEF OptimizerStep
<1>7. CASE EndTraining
  BY <1>7 DEF EndTraining, Resting
<1>8. CASE BeginReplay
  BY <1>0, <1>8 DEF BeginReplay
<1>9. CASE BeginCounterfactual
  BY <1>0, <1>9 DEF BeginCounterfactual
<1>10. CASE NoneIsWorse
  BY <1>10 DEF NoneIsWorse, Resting
<1> QED
  BY <1>1, <1>2, <1>3, <1>4, <1>5, <1>6, <1>7, <1>8, <1>9, <1>10 DEF Train

LEMMA ConsolidateKeepsOwn ==
  ASSUME TypeOK, Held, KeeperOwn, ActorOwn, Consolidate PROVE KeeperOwn' /\ ActorOwn'
<1>0. /\ keeper = [at |-> keeper.at, todo |-> keeper.todo, chunks |-> keeper.chunks,
                   phase |-> keeper.phase, via |-> keeper.via]
      /\ grad \in [Params -> SUBSET Sources] /\ fisher \in [Params -> SUBSET Sources]
      /\ optimal \in [Params -> Nat] /\ weights \in [Params -> Nat]
  BY DEF TypeOK
<1>a. actor' = actor /\ (mode' = mode \/ mode' = "eval")
  BY DEF Consolidate, BeginConsolidation, CopyWeight, BeginFisher, FisherForward,
         FisherBackward, FisherRaises, SquareGrad, FisherZeroGrad, RegisterFisher,
         RegisterOptimal, acting
<1>b. ActorOwn'
  BY <1>a DEF ActorOwn
<1>k. KeeperOwn'
  <2> USE DEF KeeperOwn
  <2>1. ASSUME NEW ph \in Phases, BeginConsolidation(ph) PROVE KeeperOwn'
    BY <2>1 DEF BeginConsolidation, Unused
  <2>2. CASE CopyWeight
    BY <1>0, <2>2 DEF CopyWeight, network
  <2>3. CASE BeginFisher
    BY <1>0, <2>3 DEF BeginFisher, network, estimate
  <2>4. CASE FisherForward
    <3>1. /\ keeper'.at = "forward" /\ keeper.todo = {} /\ keeper.chunks > 0
          /\ keeper.at \in {"estimating", "squaring"}
          /\ optimal' = optimal /\ weights' = weights /\ fisher' = fisher
          /\ \A p \in Params : grad'[p] = {}
          /\ mode' = mode
      BY <1>0, <2>4 DEF FisherForward, NextChunk, ZeroGrad, acting
    <3>2. keeper'.via = "fisher"
      BY <1>0, <2>4, <3>1 DEF FisherForward, NextChunk
    <3> QED
      BY <3>1, <3>2 DEF Held
  <2>5. CASE FisherBackward
    <3>1. /\ keeper'.at = "squaring" /\ keeper'.todo = Params /\ keeper.at = "forward"
          /\ optimal' = optimal /\ weights' = weights /\ fisher' = fisher /\ mode' = mode
          /\ \A p \in Params : grad'[p] = grad[p] \union {keeper.via}
      BY <1>0, <2>5 DEF FisherBackward, Accumulate, estimate, acting
    <3> QED
      BY <3>1
  <2>6. CASE FisherRaises
    BY <2>6 DEF FisherRaises, Leave, Unused
  <2>7. CASE SquareGrad
    BY <1>0, <2>7 DEF SquareGrad, network, acting
  <2>8. CASE FisherZeroGrad
    BY <1>0, <2>8 DEF FisherZeroGrad, estimate
  <2>9. CASE RegisterFisher
    BY <1>0, <2>9 DEF RegisterFisher
  <2>10. CASE RegisterOptimal
    BY <2>10 DEF RegisterOptimal, Leave, Unused
  <2> QED
    BY <2>1, <2>2, <2>3, <2>4, <2>5, <2>6, <2>7, <2>8, <2>9, <2>10 DEF Consolidate
<1> QED
  BY <1>b, <1>k

(* Acting leaves gradients alone, and the mode as a consolidation wants it.  *)
LEMMA ActingKeepsOwn ==
  ASSUME KeeperOwn, ActorOwn, Acting PROVE KeeperOwn' /\ ActorOwn'
<1>1. UNCHANGED <<keeper, optimal, weights, grad, fisher>> /\ (mode' = mode \/ mode' = "eval")
  BY DEF Acting, BeginActing, QValues, Choose, network, estimate
<1>2. KeeperOwn'
  BY <1>1 DEF KeeperOwn
<1>3. ActorOwn'
  BY DEF Acting, BeginActing, QValues, Choose, ActorOwn
<1> QED
  BY <1>2, <1>3

(* While no training overlaps, its steps find the others idle.               *)
LEMMA TrainKeepsQuiet ==
  ASSUME QuietInv, Train, Watch, ~disturbed' PROVE TrainerAlone' /\ OthersAlone'
<1>1. keeper'.at = "idle" /\ actor' = "idle"
  BY TrainIsAtWork, QuietAfter DEF QuietInv, FisherInv, Alone
<1>2. KeeperOwn' /\ ActorOwn'
  BY <1>1 DEF KeeperOwn, ActorOwn
<1>3. CASE disturbed
  <2>1. trainer'.at = "idle"
    BY <1>3, QuietAfter
  <2>2. TrainerOwn'
    BY <2>1 DEF TrainerOwn
  <2> QED
    BY <1>2, <2>2 DEF TrainerAlone, OthersAlone
<1>4. CASE ~disturbed
  BY <1>2, <1>4, TrainKeepsOwn DEF QuietInv, FisherInv, TrainerAlone, OthersAlone
<1> QED
  BY <1>3, <1>4

(* And the steps of the others find it idle.                                 *)
LEMMA OthersKeepQuiet ==
  ASSUME QuietInv, Consolidate \/ Acting, Watch, ~disturbed'
  PROVE  TrainerAlone' /\ OthersAlone'
<1>1. trainer'.at = "idle"
  BY ConsolidateIsAtWork, ActingIsAtWork, QuietAfter DEF QuietInv, FisherInv, Alone
<1>2. TrainerOwn'
  BY <1>1 DEF TrainerOwn
<1>3. CASE disturbed
  <2>1. keeper'.at = "idle" /\ actor' = "idle"
    BY <1>3, QuietAfter
  <2>2. KeeperOwn' /\ ActorOwn'
    BY <2>1 DEF KeeperOwn, ActorOwn
  <2> QED
    BY <1>2, <2>2 DEF TrainerAlone, OthersAlone
<1>4. CASE ~disturbed
  BY <1>2, <1>4, ConsolidateKeepsOwn, ActingKeepsOwn
     DEF QuietInv, FisherInv, TrainerAlone, OthersAlone
<1> QED
  BY <1>3, <1>4

LEMMA StepKeepsOneAtATime ==
  ASSUME QuietInv, Next PROVE OneAtATime'
<1> SUFFICES ASSUME user' = "simulator"
             PROVE  /\ ~disturbed'
                    /\ trainer'.at = "idle" \/ (keeper'.at = "idle" /\ actor' = "idle")
                    /\ keeper'.at = "idle" \/ actor' = "idle"
  BY DEF OneAtATime
<1>1. /\ ~disturbed
      /\ trainer.at = "idle" \/ (keeper.at = "idle" /\ actor = "idle")
      /\ keeper.at = "idle" \/ actor = "idle"
      /\ user = "simulator"
  BY DEF Next, QuietInv, OneAtATime
<1>2. /\ trainer'.at = "idle" \/ (keeper'.at = "idle" /\ actor' = "idle")
      /\ keeper'.at = "idle" \/ actor' = "idle"
  BY <1>1, TrainIsAtWork, ConsolidateIsAtWork, ActingIsAtWork
     DEF Next, QuietInv, FisherInv, MayBegin, AllIdle
<1>3. ~disturbed'
  BY <1>1, <1>2, Zenon DEF Next, Watch
<1> QED
  BY <1>2, <1>3

LEMMA QuietInvInductive == Spec => []QuietInv
<1>1. Init => QuietInv
  <2> SUFFICES ASSUME Init PROVE QuietInv
    OBVIOUS
  <2>1. trainer.at = "idle" /\ keeper.at = "idle" /\ actor = "idle" /\ ~disturbed
    BY DEF Init, Resting, Unused
  <2>2. FisherInv
    BY TypeInit DEF Init, FisherInv, Held, PenaltyHasFisher, Unused
  <2> QED
    BY <2>1, <2>2 DEF QuietInv, Alone, OneAtATime, TrainerAlone, OthersAlone,
                      TrainerOwn, KeeperOwn, ActorOwn
<1>2. QuietInv /\ FisherInv' /\ [Next]_vars => QuietInv'
  <2> SUFFICES ASSUME QuietInv, FisherInv', [Next]_vars PROVE QuietInv'
    OBVIOUS
  <2>1. CASE UNCHANGED vars
    BY <2>1 DEF QuietInv, Alone, OneAtATime, TrainerAlone, OthersAlone, TrainerOwn,
                KeeperOwn, ActorOwn, vars, network, estimate
  <2>2. CASE Next
    <3>1. Alone'
      BY <2>2, QuietAfter DEF Next, Alone
    <3>2. OneAtATime'
      BY <2>2, StepKeepsOneAtATime
    <3>3. TrainerAlone' /\ OthersAlone'
      <4>1. CASE disturbed'
        BY <4>1 DEF TrainerAlone, OthersAlone
      <4>2. CASE ~disturbed'
        BY <2>2, <4>2, TrainKeepsQuiet, OthersKeepQuiet DEF Next
      <4> QED
        BY <4>1, <4>2
    <3> QED
      BY <3>1, <3>2, <3>3 DEF QuietInv
  <2> QED
    BY <2>1, <2>2
<1> QED
  BY <1>1, <1>2, FisherInvInductive, PTL DEF Spec

(* Work that met no training of another thread is exact: consolidations, over *)
(* however many chunks, trainings and actions, and all of the simulator's.   *)
THEOREM QuietWork == Spec => []QuietWorkIsExact
<1>1. QuietInv => QuietWorkIsExact
  <2> SUFFICES ASSUME QuietInv, ~disturbed \/ user = "simulator"
               PROVE  /\ keeper.at = "registering" => optimal = weights
                      /\ \A p \in Params : keeper.at = "registering" => fisher[p] = {"fisher"}
                      /\ \A p \in Params : trainer.at = "stepping" => grad[p] = {"loss"}
                      /\ actor # "noisy"
    BY DEF QuietWorkIsExact
  <2>1. TrainerOwn /\ KeeperOwn /\ ActorOwn
    BY DEF QuietInv, OneAtATime, TrainerAlone, OthersAlone
  <2>2. optimal = [p \in Params |-> optimal[p]] /\ weights = [p \in Params |-> weights[p]]
    BY DEF QuietInv, FisherInv, TypeOK
  <2>3. ASSUME keeper.at = "registering" PROVE optimal = weights
    BY <2>1, <2>2, <2>3 DEF KeeperOwn
  <2> QED
    BY <2>1, <2>3 DEF TrainerOwn, KeeperOwn, ActorOwn
<1> QED
  BY <1>1, QuietInvInductive, PTL

-----------------------------------------------------------------------------
(* How far the target network lags.                                          *)

(* Counting one more reaches the next multiple or the next remainder.        *)
LEMMA ModStep ==
  ASSUME NEW n \in Nat, NEW k \in Nat \ {0}
  PROVE  /\ n % k \in 0 .. (k - 1)
         /\ (n + 1) % k = 0 \/ (n + 1) % k = (n % k) + 1
<1> DEFINE q == n \div k
           d == (n + 1) \div k
           r == n % k
           s == (n + 1) % k
<1>1. r \in 0 .. (k - 1) /\ s \in 0 .. (k - 1) /\ q \in Int /\ d \in Int
  OBVIOUS
<1>2. n = k * q + r /\ n + 1 = k * d + s
  <2>1. n = k * q + r
    OBVIOUS
  <2>2. n + 1 = k * d + s
    OBVIOUS
  <2> QED
    BY <2>1, <2>2
<1> HIDE DEF q, d, r, s
<1>3. CASE d = q
  BY <1>1, <1>2, <1>3 DEF r, s
<1>4. CASE d >= q + 1
  <2>1. d - q >= 1 /\ d - q \in Int /\ k * (d - q) = k * d - k * q
    BY <1>1, <1>4
  <2>2. k * (d - q) >= k
    BY <2>1
  <2> QED
    BY <1>1, <1>2, <2>1, <2>2 DEF r, s
<1>5. CASE d <= q - 1
  <2>1. q - d >= 1 /\ q - d \in Int /\ k * (q - d) = k * q - k * d
    BY <1>1, <1>5
  <2>2. k * (q - d) >= k
    BY <2>1
  <2> QED
    BY <1>1, <1>2, <2>1, <2>2 DEF r, s
<1> QED
  BY <1>1, <1>3, <1>4, <1>5 DEF r, s

(* A parameter is ahead of its target by the trainings since the last copy,  *)
(* and by one more once the training under way has come by it.               *)
RecentInv ==
  \A p \in Params :
    weights[p] <= target[p] + (updates % Interval)
                  + (IF trainer.at = "stepping" /\ p \notin trainer.todo THEN 1 ELSE 0)

(* Only trainings count, and only their last two places move weights.        *)
LEMMA ElsewhereRecent ==
  ASSUME TypeOK, RecentInv, UNCHANGED <<weights, target, updates>>,
         trainer'.at = "stepping" => trainer' = trainer \/ trainer'.todo = Params,
         trainer.at # "stepping" \/ trainer' = trainer
  PROVE  RecentInv'
<1>1. updates % Interval \in Nat
  BY AgentAssumption, ModStep DEF TypeOK
<1>2. ASSUME NEW p \in Params
      PROVE  weights'[p] <= target'[p] + (updates' % Interval)
               + (IF trainer'.at = "stepping" /\ p \notin trainer'.todo THEN 1 ELSE 0)
  <2>1. weights[p] \in Nat /\ target[p] \in Nat
    BY DEF TypeOK
  <2>2. CASE trainer' = trainer
    BY <2>2 DEF RecentInv
  <2>3. CASE trainer' # trainer
    BY <1>1, <2>1, <2>3 DEF RecentInv
  <2> QED
    BY <2>2, <2>3
<1> QED
  BY <1>2 DEF RecentInv

LEMMA OptimizerStepRecent ==
  ASSUME TypeOK, RecentInv, OptimizerStep PROVE RecentInv'
<1>1. PICK q \in trainer.todo :
        /\ weights' = [weights EXCEPT ![q] = IF grad[q] = {} THEN @ ELSE @ + 1]
        /\ trainer' = [trainer EXCEPT !.todo = @ \ {q}]
  BY DEF OptimizerStep
<1>2. /\ trainer.at = "stepping" /\ trainer'.at = "stepping"
      /\ trainer'.todo = trainer.todo \ {q}
      /\ UNCHANGED <<target, updates>>
  BY <1>1 DEF OptimizerStep, TypeOK
<1>3. ASSUME NEW p \in Params
      PROVE  weights'[p] <= target'[p] + (updates' % Interval)
               + (IF trainer'.at = "stepping" /\ p \notin trainer'.todo THEN 1 ELSE 0)
  <2>1. weights[p] \in Nat /\ target[p] \in Nat /\ updates % Interval \in Nat
    BY AgentAssumption, ModStep DEF TypeOK
  <2>2. CASE p = q
    <3>1. weights'[p] \in {weights[p], weights[p] + 1}
      BY <1>1, <2>2 DEF TypeOK
    <3>2. weights[p] <= target[p] + (updates % Interval)
      BY <1>2, <2>1, <2>2, <1>1 DEF RecentInv
    <3> QED
      BY <1>2, <2>1, <2>2, <3>1, <3>2
  <2>3. CASE p # q
    <3>1. weights'[p] = weights[p] /\ (p \notin trainer'.todo <=> p \notin trainer.todo)
      BY <1>1, <1>2, <2>3 DEF TypeOK
    <3> QED
      BY <1>2, <3>1 DEF RecentInv
  <2> QED
    BY <2>2, <2>3
<1> QED
  BY <1>3 DEF RecentInv

LEMMA EndTrainingRecent ==
  ASSUME TypeOK, RecentInv, EndTraining PROVE RecentInv'
<1>1. /\ trainer.at = "stepping" /\ trainer.todo = {} /\ trainer'.at = "idle"
      /\ updates' = updates + 1 /\ weights' = weights
      /\ target' = IF (updates + 1) % Interval = 0 THEN weights ELSE target
  BY DEF EndTraining, Resting, TargetDue
<1>2. /\ updates % Interval \in Nat /\ (updates + 1) % Interval \in Nat
      /\ (updates + 1) % Interval = 0 \/ (updates + 1) % Interval = (updates % Interval) + 1
  <2>1. updates \in Nat /\ updates + 1 \in Nat /\ Interval \in Nat \ {0}
    BY AgentAssumption DEF TypeOK
  <2>2. updates % Interval \in 0 .. (Interval - 1)
    BY <2>1, ModStep
  <2>3. (updates + 1) % Interval \in 0 .. (Interval - 1)
    BY <2>1, ModStep
  <2>4. (updates + 1) % Interval = 0 \/ (updates + 1) % Interval = (updates % Interval) + 1
    BY <2>1, ModStep
  <2> QED
    BY <2>1, <2>2, <2>3, <2>4
<1>3. ASSUME NEW p \in Params
      PROVE  weights'[p] <= target'[p] + (updates' % Interval)
               + (IF trainer'.at = "stepping" /\ p \notin trainer'.todo THEN 1 ELSE 0)
  <2>1. weights[p] \in Nat /\ target[p] \in Nat
    BY DEF TypeOK
  <2>2. CASE (updates + 1) % Interval = 0
    BY <1>1, <2>1, <2>2
  <2>3. CASE (updates + 1) % Interval = (updates % Interval) + 1
    BY <1>1, <1>2, <2>1, <2>3 DEF RecentInv
  <2> QED
    BY <1>2, <2>2, <2>3
<1> QED
  BY <1>3 DEF RecentInv

LEMMA StepRecent == TypeOK /\ RecentInv /\ [Next]_vars => RecentInv'
<1> SUFFICES ASSUME TypeOK, RecentInv, [Next]_vars PROVE RecentInv'
  OBVIOUS
<1>1. CASE Train
  <2>1. CASE OptimizerStep
    BY <2>1, OptimizerStepRecent
  <2>2. CASE EndTraining
    BY <2>2, EndTrainingRecent
  <2>3. CASE ~OptimizerStep /\ ~EndTraining
    <3>1. UNCHANGED <<weights, target, updates>>
      BY <1>1, <2>3 DEF Train, BeginReplay, BeginCounterfactual, NoneIsWorse, Forward,
            PenaltyRaises, Penalty, LossZeroGrad, LossBackward, network
    <3>2. trainer.at # "stepping"
      BY <1>1, <2>3 DEF Train, BeginReplay, BeginCounterfactual, NoneIsWorse, Forward,
            PenaltyRaises, Penalty, LossZeroGrad, LossBackward
    <3>3. trainer'.at = "stepping" => trainer'.todo = Params
      <4>1. ASSUME LossBackward PROVE trainer'.todo = Params
        BY <4>1 DEF LossBackward, TypeOK
      <4>2. ASSUME ~LossBackward PROVE trainer'.at # "stepping"
        BY <1>1, <2>3, <4>2 DEF Train, BeginReplay, BeginCounterfactual, NoneIsWorse,
              Forward, PenaltyRaises, Penalty, LossZeroGrad, Resting, TypeOK
      <4> QED
        BY <4>1, <4>2
    <3> QED
      BY <3>1, <3>2, <3>3, ElsewhereRecent
  <2> QED
    BY <2>1, <2>2, <2>3
<1>2. CASE Consolidate \/ Acting
  <2>1. trainer' = trainer
    BY <1>2, ConsolidateIsAtWork, ActingIsAtWork
  <2>2. UNCHANGED <<weights, target, updates>>
    <3>1. CASE Acting
      BY <3>1 DEF Acting, BeginActing, QValues, Choose, network
    <3>2. ASSUME NEW ph \in Phases, BeginConsolidation(ph)
          PROVE  UNCHANGED <<weights, target, updates>>
      BY <3>2 DEF BeginConsolidation, network
    <3>3. ASSUME Consolidate, ~ \E ph \in Phases : BeginConsolidation(ph)
          PROVE  UNCHANGED <<weights, target, updates>>
      BY <3>3 DEF Consolidate, CopyWeight, BeginFisher, FisherForward, FisherBackward,
            FisherRaises, SquareGrad, FisherZeroGrad, RegisterFisher, RegisterOptimal,
            network
    <3> QED
      BY <1>2, <3>1, <3>2, <3>3
  <2> QED
    BY <2>1, <2>2, ElsewhereRecent
<1>3. CASE UNCHANGED vars
  BY <1>3, ElsewhereRecent DEF vars, network
<1> QED
  BY <1>1, <1>2, <1>3 DEF Next

(* The target network lags the online one by less than an interval of       *)
(* optimizer steps between trainings and by at most one in a training,      *)
(* whichever trainings fail half way and whatever overlaps (rl_agent.py:    *)
(* 239-240).                                                                 *)
THEOREM TargetLags == Spec => []TargetIsRecent
<1>1. Init => RecentInv
  <2> SUFFICES ASSUME Init PROVE RecentInv
    OBVIOUS
  <2>1. updates % Interval \in Nat
    BY AgentAssumption, ModStep DEF Init
  <2>2. \A p \in Params : weights[p] = 0 /\ target[p] = 0
    BY DEF Init
  <2> QED
    BY <2>1, <2>2 DEF RecentInv
<1>2. TypeOK /\ RecentInv => TargetIsRecent
  <2> SUFFICES ASSUME TypeOK, RecentInv, NEW p \in Params
               PROVE  /\ weights[p] <= target[p] + Interval
                      /\ trainer.at = "idle" => weights[p] < target[p] + Interval
    BY DEF TargetIsRecent
  <2>1. updates % Interval \in 0 .. (Interval - 1) /\ Interval \in Nat \ {0}
    BY AgentAssumption, ModStep DEF TypeOK
  <2>2. weights[p] \in Nat /\ target[p] \in Nat
    BY DEF TypeOK
  <2> QED
    BY <2>1, <2>2 DEF RecentInv
<1>3. Spec => []TypeOK
  BY TypeCorrect
<1> QED
  BY <1>1, <1>2, <1>3, StepRecent, PTL DEF Spec
=============================================================================
