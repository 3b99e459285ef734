----------------------------- MODULE EpisodeEnv -----------------------------
(***************************************************************************)
(* IndexAdvisorEnv with what the benchmarks need of cldb/sim_env.py beyond *)
(* it: episodes of a horizon, rewards, and a selectivity that may be       *)
(* decoupled from the task (silent drift).  Money is in tenths.            *)
(***************************************************************************)
EXTENDS IndexAdvisorEnv, Integers

CONSTANTS Selective,    (* PHASE_SELECTIVITY: the "high" columns of a phase *)
          Expensive,    (* latency_expensive                                *)
          Cheap,        (* latency_cheap                                    *)
          ResourceCost, (* resource_cost                                    *)
          BuildCost,    (* build_cost                                       *)
          Coupled       (* selectivity_phase is None                        *)

ASSUME EpisodeAssumption ==
  /\ Selective \in [Tasks -> SUBSET Columns]
  /\ Expensive \in Nat /\ Cheap \in Nat /\ ResourceCost \in Nat /\ BuildCost \in Nat
  /\ Coupled \notin Tasks

(* The defaults (0.1, 0.2, 0.5 and 1): what an index saves on a selective  *)
(* query is more than what it costs in its first step.                     *)
ASSUME WorthBuilding == Cheap + ResourceCost + BuildCost < Expensive

(* An environment in an episode: selectivity_phase and step_idx.           *)
Episodes == [env : Envs, selectivity : Tasks \union {Coupled}, step : Nat]

NewEpisode(task, budget, rng) ==
  [env |-> [task |-> task, sql |-> {}, active |-> {}, rng |-> rng, budget |-> budget],
   selectivity |-> Coupled, step |-> 0]

SelectivityOf(e) ==
  Selective[IF e.selectivity = Coupled THEN e.env.task ELSE e.selectivity]

(* _is_selective: of any column. *)
IsSelective(e) == e.env.sql \cap SelectivityOf(e) # {}

(* _latency of the current query: an index helps if it covers a selective  *)
(* predicate. *)
Latency(e) == IF Covered(e.env) /\ IsSelective(e) THEN Cheap ELSE Expensive

(* The running cost of the configuration and, once, that of a new index.   *)
Reward(e, created) ==
  -(Latency(e) + ResourceCost * Cardinality(e.env.active))
    - (IF created THEN BuildCost ELSE 0)

(* step: what is not valid does nothing. *)
Outcome(e, action, horizon, next) ==
  LET effect  == IF action \in ValidActions(e.env) THEN action ELSE "keep"
      indexed == [e EXCEPT !.env.active = Reindexed(e.env, effect)]
      after   == [indexed EXCEPT !.env = Sampled(@, next), !.step = @ + 1]
  IN  [after |-> after, reward |-> Reward(indexed, effect = "create"),
       done |-> after.step >= horizon]

(* Mutant: a reset couples the selectivity to the task again. *)
EpisodeResetCoupling(e, task, next) ==
  [env |-> EnvReset(e.env, task, next), selectivity |-> Coupled, step |-> 0]

(* reset, given no selectivity phase. *)
EpisodeReset(e, task, next) ==
  [env |-> EnvReset(e.env, task, next), selectivity |-> e.selectivity, step |-> 0]

(* Mutant: the step index goes on through the branches. *)
RewindKeepingStep(e, snapshot) ==
  [env |-> Restore(e.env, snapshot.env), selectivity |-> snapshot.selectivity, step |-> e.step]

(* restore. *)
Rewind(e, snapshot) ==
  [env |-> Restore(e.env, snapshot.env), selectivity |-> snapshot.selectivity,
   step |-> snapshot.step]

(* _build_obs: the context shows the step index too, never the selectivity *)
Shown(e) == [query |-> ObsOf(e.env), step |-> e.step]

(* A row of build_counterfactual_set. *)
Counterfactual(outcome) ==
  [obs |-> Shown(outcome.after), reward |-> outcome.reward, done |-> outcome.done,
   mask |-> ValidActions(outcome.after.env)]
=============================================================================
