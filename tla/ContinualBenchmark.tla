------------------------- MODULE ContinualBenchmark -------------------------
(***************************************************************************)
(* The benchmarks of the agent.  "sequence" is run_sequence of src/        *)
(* experiments/run_rl_evaluation.py: the tasks one after another,          *)
(* consolidations at drifts and boundaries, an evaluation on every task so *)
(* far; "baseline" is its baseline_matrix, fixed policies on every task.   *)
(* "silent_drift" is run_pair of src/experiments/run_cwil_ablation.py: the *)
(* selectivity changes and nothing shows it.                               *)
(*                                                                         *)
(* The agent may choose any valid action and the detector may report a     *)
(* drift at any query; what training does to weights is left out.          *)
(***************************************************************************)
EXTENDS EpisodeEnv, Sequences

CONSTANTS Budget,          (* INDEX_BUDGET                                  *)
          TaskOrder,       (* TASKS                                         *)
          EpisodesPerTask, (* EPISODES_PER_TASK                             *)
          PreEpisodes,     (* PRE_EPISODES, and ...                         *)
          AdaptEpisodes,   (* ... ADAPT_EPISODES of the silent drift        *)
          Steps,           (* HORIZON                                       *)
          EnvHorizon,      (* the environment's default horizon             *)
          Pairs,           (* PAIRS: a warm task and the phase it drifts to *)
          EvalEpisodes,    (* EVAL_EPISODES                                 *)
          None             (* nothing                                       *)

ASSUME BenchmarkAssumption ==
  /\ Budget \in Nat \ {0}
  /\ TaskOrder \in Seq(Tasks) /\ TaskOrder # <<>>
  /\ EpisodesPerTask \in Nat \ {0}
  /\ PreEpisodes \in Nat \ {0} /\ AdaptEpisodes \in Nat \ {0}
  /\ Steps \in Nat \ {0} /\ EnvHorizon \in Nat \ {0}
  /\ Pairs \subseteq Tasks \X Tasks
  /\ EvalEpisodes \in Nat \ {0}

VARIABLES
  program,      (* which benchmark                                          *)
  cfg,          (* ewc and counterfactual                                   *)
  pair,         (* warm_task and drift_phase                                *)
  at,           (* where the script is                                      *)
  e,            (* env                                                      *)
  i, ep, t, j,  (* task or policy, episode and step of the loops, task or   *)
                (* episode evaluated                                        *)
  own,          (* the environment of run_cwil_ablation's evaluate          *)
  obs,
  snapshot, todo, branches,  (* locals of what_if                           *)
  taken,        (* the last step: what was chosen and what came of it       *)
  pending,      (* tasks of the pending_states                              *)
  task_drift,
  registered,   (* what was consolidated: name and tasks of the states      *)
  saved_rng,    (* evaluate's                                               *)
  R,            (* what was measured: row, column, and with which task and  *)
                (* selective columns                                        *)
  stream        (* history: what training will draw next                    *)

loops == <<i, ep, t, j>>
measured == <<own, saved_rng, R>>
oracle == <<snapshot, todo, branches>>
ewc == <<pending, task_drift, registered>>
vars == <<program, cfg, pair, at, e, loops, obs, oracle, taken, ewc, measured, stream>>

Horizon == IF program = "silent_drift" THEN Steps ELSE EnvHorizon
LastEpisode == IF program = "sequence" THEN EpisodesPerTask ELSE PreEpisodes + AdaptEpisodes
NoBranches == [a \in {} |-> None]

Init ==
  /\ program \in {"sequence", "silent_drift", "baseline"}
  /\ cfg \in [ewc : BOOLEAN, counterfactual : BOOLEAN]
  /\ program # "sequence" => ~cfg.ewc
  /\ program = "baseline" => ~cfg.counterfactual
  /\ pair \in Pairs
  /\ program # "silent_drift" => \A p \in Pairs : pair[1] <= p[1]
  /\ at = IF program = "baseline" THEN "evaluate" ELSE "task"
  /\ e \in {NewEpisode(0, Budget, rng) : rng \in 1..Draws}
  /\ i = 1 /\ ep = 1 /\ t = 0 /\ j = 1
  /\ obs = None
  /\ snapshot = None /\ todo = {} /\ branches = NoBranches
  /\ taken = None
  /\ pending = {} /\ task_drift = 0 /\ registered = {}
  /\ own = None /\ saved_rng = None
  /\ R = {}
  /\ stream = e.env.rng

-----------------------------------------------------------------------------

(* The next task of the sequence, or the warm task of the pair. *)
BeginTask ==
  /\ at = "task"
  /\ at' = "reset"
  /\ IF program = "sequence"
     THEN e' = [e EXCEPT !.env.task = TaskOrder[i]]
     ELSE e' = [e EXCEPT !.env.task = pair[1], !.selectivity = pair[1]]
  /\ ep' = 1
  /\ task_drift' = 0
  /\ UNCHANGED <<program, cfg, pair, i, t, j, obs, oracle, taken, pending, registered,
                 measured, stream>>

(* train_episode's env.reset() is without a task. *)
ResetEpisode ==
  /\ at = "reset"
  /\ at' = "choose"
  /\ \E next \in 1..Draws :
       e' = EpisodeReset(e, IF program = "sequence" THEN TaskOrder[i] ELSE e.env.task, next)
  /\ obs' = Shown(e')
  /\ stream' = e'.env.rng
  /\ t' = 0
  /\ UNCHANGED <<program, cfg, pair, i, ep, j, oracle, taken, ewc, measured>>

(* The oracle is asked first, if there is one. *)
AskOracle ==
  /\ at = "choose"
  /\ taken' = None
  /\ branches' = NoBranches
  /\ IF cfg.counterfactual
     THEN /\ snapshot' = e
          /\ todo' = ValidActions(e.env)
          /\ at' = "what_if"
     ELSE /\ at' = "act"
          /\ UNCHANGED <<snapshot, todo>>
  /\ UNCHANGED <<program, cfg, pair, e, loops, obs, ewc, measured, stream>>

(* One action of what_if: restore, step. What the generator would draw     *)
(* after that is never drawn: any number does.                             *)
WhatIfBranch ==
  /\ at = "what_if"
  /\ \E a \in todo :
       LET outcome == Outcome(Rewind(e, snapshot), a, Horizon, 1)
       IN  /\ e' = outcome.after
           /\ branches' = [b \in DOMAIN branches \union {a} |->
                            IF b = a THEN Counterfactual(outcome) ELSE branches[b]]
           /\ todo' = todo \ {a}
  /\ UNCHANGED <<program, cfg, pair, at, loops, obs, snapshot, taken, ewc, measured, stream>>

(* All branches restored, the agent is trained on them. *)
WhatIfEnds ==
  /\ at = "what_if" /\ todo = {}
  /\ e' = Rewind(e, snapshot)
  /\ snapshot' = None
  /\ at' = "act"
  /\ UNCHANGED <<program, cfg, pair, loops, obs, todo, branches, taken, ewc, measured, stream>>

(* phase_i_k of the k-th drift; the boundary's counts as the 0-th. *)
PhaseName(source) == [task |-> i, source |-> source]

Consolidate(name, states) == registered' = registered \union {[name |-> name, states |-> states]}

(* The step, its transition, the training due and the drift test. *)
Act(action, drift) ==
  LET seen == pending \union {e.env.task} IN
  /\ at = "act"
  /\ action \in ValidActions(e.env)
  /\ \E next \in 1..Draws :
       LET outcome == Outcome(e, action, Horizon, next) IN
       /\ e' = outcome.after
       /\ taken' = [action |-> action, result |-> Counterfactual(outcome)]
       /\ at' = IF outcome.done \/ t + 1 = Steps THEN "episode_over" ELSE "choose"
  /\ obs' = Shown(e')
  /\ stream' = e'.env.rng
  /\ t' = t + 1
  /\ IF program = "silent_drift"
     THEN ~drift /\ UNCHANGED ewc
     ELSE /\ task_drift' = IF drift THEN task_drift + 1 ELSE task_drift
          /\ IF drift /\ cfg.ewc
             THEN Consolidate(PhaseName(task_drift + 1), seen) /\ pending' = {}
             ELSE pending' = seen /\ UNCHANGED registered
  /\ UNCHANGED <<program, cfg, pair, i, ep, j, oracle, measured>>

(* An episode is the same in both scripts, but for consolidations. *)
TrainEpisode ==
  \/ ResetEpisode \/ AskOracle \/ WhatIfBranch \/ WhatIfEnds
  \/ \E action \in Actions, drift \in BOOLEAN : Act(action, drift)

(* run_pair evaluates after the warm start and after every episode of the  *)
(* adaptation.                                                             *)
EpisodeOver ==
  /\ at = "episode_over"
  /\ ep' = ep + 1
  /\ at' = IF program = "silent_drift" /\ ep >= PreEpisodes THEN "evaluate_apart"
           ELSE IF ep < LastEpisode THEN "reset" ELSE "boundary"
  /\ taken' = None /\ branches' = NoBranches
  /\ UNCHANGED <<program, cfg, pair, e, i, t, j, obs, snapshot, todo, ewc, measured, stream>>

(* Mutant: the boundary consolidates only what no drift has. *)
NeedsBoundaryUnlessDrifted == pending # {} /\ task_drift = 0

NeedsBoundary == pending # {}

Boundary ==
  /\ at = "boundary"
  /\ at' = "evaluate"
  /\ j' = 1
  /\ IF cfg.ewc /\ NeedsBoundary
     THEN Consolidate(PhaseName(0), pending) /\ pending' = {}
     ELSE UNCHANGED <<pending, registered>>
  /\ UNCHANGED <<program, cfg, pair, e, i, ep, t, obs, oracle, taken, task_drift, measured, stream>>

-----------------------------------------------------------------------------
(* Evaluation: evaluate() of the environment, with a generator of its own. *)

(* make_policies: KEEP, RANDOM and GREEDY-CREATE; the trained agent takes  *)
(* any valid action.                                                       *)
Policies == <<"KEEP", "RANDOM", "GREEDY-CREATE">>

Chosen(policy, mask) ==
  CASE policy = "KEEP" -> {"keep"}
    [] policy = "GREEDY-CREATE" -> IF "create" \in mask THEN {"create"} ELSE {"keep"}
    [] OTHER -> mask

GreedyPolicy(mask) == Chosen(IF program = "baseline" THEN Policies[i] ELSE "agent", mask)

EvaluateBegins ==
  /\ at = "evaluate"
  /\ at' = "rollout"
  /\ saved_rng' = e.env.rng
  /\ \E seeded, next \in 1..Draws :
       e' = EpisodeReset([e EXCEPT !.env.rng = seeded], TaskOrder[j], next)
  /\ t' = 0
  /\ UNCHANGED <<program, cfg, pair, i, ep, j, obs, oracle, taken, ewc, own, R, stream>>

EvaluateStep(action) ==
  /\ at = "rollout" /\ t < Horizon
  /\ action \in GreedyPolicy(ValidActions(e.env))
  /\ \E next, again \in 1..Draws :
       LET outcome == Outcome(e, action, Horizon, next)
       IN  e' = IF outcome.done THEN EpisodeReset(outcome.after, e.env.task, again)
                ELSE outcome.after
  /\ t' = t + 1
  /\ UNCHANGED <<program, cfg, pair, at, i, ep, j, obs, oracle, taken, ewc, measured, stream>>

(* Mutant: the evaluation's generator stays. *)
RngAfterEvaluationOwn == e.env.rng

(* The finally clause. *)
RngAfterEvaluation == saved_rng

Enter(row, column, measuring) ==
  R' = R \union {[row |-> row, column |-> column, task |-> measuring.env.task,
                  selective |-> SelectivityOf(measuring)]}

EvaluateReturns ==
  /\ at = "rollout" /\ t = Horizon
  /\ e' = [e EXCEPT !.env.rng = RngAfterEvaluation]
  /\ saved_rng' = None
  /\ Enter(i, j, e)
  /\ UNCHANGED <<program, cfg, pair, ep, t, obs, oracle, taken, ewc, own, stream>>

(* The loops around it: run_sequence's over the tasks so far, ...          *)
EvaluateNextTask ==
  /\ program = "sequence"
  /\ EvaluateReturns
  /\ IF j < i
     THEN j' = j + 1 /\ at' = "evaluate" /\ UNCHANGED i
     ELSE /\ i' = i + 1
          /\ at' = IF i = Len(TaskOrder) THEN "over" ELSE "task"
          /\ UNCHANGED j

(* ... and baseline_matrix's over all tasks, for each policy. *)
EvaluateNextBaseline ==
  /\ program = "baseline"
  /\ EvaluateReturns
  /\ j' = IF j < Len(TaskOrder) THEN j + 1 ELSE 1
  /\ i' = IF j < Len(TaskOrder) THEN i ELSE i + 1
  /\ at' = IF i' > Len(Policies) THEN "over" ELSE "evaluate"

-----------------------------------------------------------------------------
(* Evaluation of the silent drift, on an environment of its own, whose     *)
(* selectivity is the drifted phase's before and after the drift.          *)

EvaluateApart ==
  /\ at = "evaluate_apart"
  /\ at' = "rollout_apart"
  /\ \E seeded, next \in 1..Draws :
       own' = EpisodeReset([NewEpisode(pair[1], Budget, seeded) EXCEPT !.selectivity = pair[2]],
                           pair[1], next)
  /\ j' = 1 /\ t' = 0
  /\ UNCHANGED <<program, cfg, pair, e, i, ep, obs, oracle, taken, ewc, saved_rng, R, stream>>

RolloutApart(action) ==
  /\ at = "rollout_apart"
  /\ action \in ValidActions(own.env)
  /\ \E next, again \in 1..Draws :
       LET outcome == Outcome(own, action, Horizon, next)
           over    == outcome.done \/ t + 1 = Steps
           more    == over /\ j < EvalEpisodes
       IN  /\ own' = IF more THEN EpisodeReset(outcome.after, pair[1], again) ELSE outcome.after
           /\ t' = IF over THEN 0 ELSE t + 1
           /\ j' = IF more THEN j + 1 ELSE j
           /\ at' = IF over /\ ~more THEN "compared" ELSE at
  /\ UNCHANGED <<program, cfg, pair, e, i, ep, obs, oracle, taken, ewc, saved_rng, R, stream>>

(* Back in run_pair: after the first evaluation comes the silent drift. *)
EvaluatedApart ==
  /\ at = "compared"
  /\ Enter(ep - 1, 0, own)
  /\ own' = None
  /\ e' = IF ep - 1 = PreEpisodes THEN [e EXCEPT !.selectivity = pair[2]] ELSE e
  /\ at' = IF ep > LastEpisode THEN "over" ELSE "reset"
  /\ j' = 1
  /\ UNCHANGED <<program, cfg, pair, i, ep, t, obs, oracle, taken, ewc, saved_rng, stream>>

Next ==
  \/ BeginTask \/ TrainEpisode \/ EpisodeOver \/ Boundary
  \/ EvaluateBegins \/ EvaluateNextTask \/ EvaluateNextBaseline
  \/ EvaluateApart \/ EvaluatedApart
  \/ \E action \in Actions : EvaluateStep(action) \/ RolloutApart(action)

Spec == Init /\ [][Next]_vars

-----------------------------------------------------------------------------

Shows == [query : Observations, step : Nat]
Results == [obs : Shows, reward : Int, done : BOOLEAN, mask : SUBSET Actions]

(* Type invariant; the environment never has more indexes than its budget. *)
TypeOK ==
  /\ program \in {"sequence", "silent_drift", "baseline"}
  /\ cfg \in [ewc : BOOLEAN, counterfactual : BOOLEAN]
  /\ pair \in Pairs
  /\ at \in {"task", "reset", "choose", "what_if", "act", "episode_over", "boundary",
             "evaluate", "rollout", "evaluate_apart", "rollout_apart", "compared", "over"}
  /\ e \in Episodes /\ Cardinality(e.env.active) <= Budget
  /\ own = None \/ own \in Episodes
  /\ own # None => Cardinality(own.env.active) <= Budget
  /\ i \in Nat /\ j \in Nat
  /\ ep \in Nat \ {0} /\ t \in Nat
  /\ obs = None \/ obs \in Shows
  /\ snapshot = None \/ snapshot \in Episodes
  /\ todo \subseteq Actions
  /\ DOMAIN branches \subseteq Actions /\ \A a \in DOMAIN branches : branches[a] \in Results
  /\ taken = None \/ taken \in [action : Actions, result : Results]
  /\ pending \subseteq Tasks
  /\ task_drift \in Nat
  /\ saved_rng \in (1 .. Draws) \union {None}
  /\ stream \in 1 .. Draws

(* "differ only in the index mutation and its reward", and "callers can    *)
(* then take the action they actually choose" (sim_env.py:271-277): what   *)
(* was foreseen of the action taken, to its successor's mask, is what      *)
(* happened.                                                               *)
WhatIfComesTrue ==
  taken # None /\ cfg.counterfactual => branches[taken.action] = taken.result

TrueSelectivity ==
  IF program = "sequence" THEN Selective[TaskOrder[i]]
  ELSE Selective[IF ep <= PreEpisodes THEN pair[1] ELSE pair[2]]

(* "the only signal is reward" (run_cwil_ablation.py:6-7): the oracle      *)
(* ranks creating an index above keeping exactly when the predicate is     *)
(* selective in the phase that truly is, silently drifted or not, through  *)
(* every reset, branch and evaluation in between.                          *)
RankingFollowsSelectivity ==
  at = "act" /\ {"keep", "create"} \subseteq DOMAIN branches =>
    (branches["create"].reward > branches["keep"].reward
      <=> obs.query.sql \intersect TrueSelectivity # {})

(* "Boundary fallback so EWC always sees each phase" (run_rl_evaluation.py *)
(* :154): before a task is evaluated, all states it was trained on since   *)
(* its last drift are consolidated, under its name and with no states of   *)
(* another task.                                                           *)
EveryPhaseIsConsolidated ==
  cfg.ewc /\ at \in {"evaluate", "rollout"} =>
    /\ pending = {}
    /\ \A r \in registered : r.states = {TaskOrder[r.name.task]}
    /\ \A k \in 1..i : \E r \in registered : r.name.task = k

(* What compute_metrics and run_pair read: all of the matrix at and below  *)
(* its diagonal, the baselines, the curve of the adaptation.               *)
Read ==
  CASE program = "sequence" -> {p \in (1..Len(TaskOrder)) \X (1..Len(TaskOrder)) : p[2] <= p[1]}
    [] program = "baseline" -> (1..Len(Policies)) \X (1..Len(TaskOrder))
    [] program = "silent_drift" -> (PreEpisodes..LastEpisode) \X {0}

(* Evaluations leave no trace in what training draws, which goes on with   *)
(* the queries it would have drawn without them (sim_env.py:295-311; they  *)
(* leave the environment reset, as the next episode does anyway) - and     *)
(* what they measure is what is read: nanmean (run_rl_evaluation.py:       *)
(* 185-190) would pass over an entry that is missing, and every entry is   *)
(* of its own task and phase.                                              *)
EvaluationsLeaveNoTrace ==
  /\ at \notin {"what_if", "rollout"} /\ program # "baseline" => e.env.rng = stream
  /\ at = "over" => {<<r.row, r.column>> : r \in R} = Read
  /\ \A r \in R :
       IF program = "silent_drift" THEN r.task = pair[1] /\ r.selective = Selective[pair[2]]
       ELSE r.task = TaskOrder[r.column] /\ r.selective = Selective[r.task]
=============================================================================
