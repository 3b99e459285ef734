--------------------------- MODULE IndexAdvisorEnv ---------------------------
(***************************************************************************)
(* The benchmark environment of cldb/sim_env.py, an MDP over index         *)
(* configurations, as operators on its state.                              *)
(*                                                                         *)
(* A query is the set of its predicate columns.  The random generator is   *)
(* the number it will draw next.  Index ids, latencies and rewards are     *)
(* left out, and so is the end of an episode: the simulator's horizon is   *)
(* 10 ** 9 steps.                                                          *)
(***************************************************************************)
EXTENDS Naturals, FiniteSets, Sequences

CONSTANTS Columns,   (* predicate columns                                   *)
          NumTasks,  (* workload phases: tasks 0 .. NumTasks - 1            *)
          Draws,     (* query templates of a task                           *)
          Templates  (* PHASE_TEMPLATES: task, draw -> predicate columns    *)

ASSUME EnvAssumption ==
  /\ NumTasks \in Nat \ {0} /\ Draws \in Nat \ {0}
  /\ Templates \in [0 .. NumTasks - 1 -> [1 .. Draws -> SUBSET Columns]]

Tasks == 0 .. NumTasks - 1
Queries == SUBSET Columns
Actions == {"keep", "create", "drop"}

(* An environment; budget is an attribute but no part of a snapshot.       *)
Envs ==
  [task : Tasks, sql : Queries, active : SUBSET Queries, rng : 1 .. Draws,
   budget : Nat]

Covered(env) ==
  env.sql # {} /\ \E cols \in env.active : env.sql \subseteq cols

(* Mutant: one index too many. *)
HasBudgetOffByOne(env) == Cardinality(env.active) <= env.budget

HasBudget(env) == Cardinality(env.active) < env.budget

ValidActions(env) ==
  {"keep"}
    \union {a \in {"create"} : env.sql # {} /\ HasBudget(env) /\ ~Covered(env)}
    \union {a \in {"drop"} : env.sql # {} /\ env.sql \in env.active}

(* What an observation shows of the environment.  The budget, which it is  *)
(* scaled by, is left out: configure changes it under an observation.      *)
Observations == [task : Tasks, sql : Queries, active : SUBSET Queries]
ObsOf(env) == [task |-> env.task, sql |-> env.sql, active |-> env.active]

(* The index configuration after an action that valid_actions allowed.     *)
Reindexed(env, action) ==
  CASE action = "create" -> env.active \union {env.sql}
    [] action = "drop" -> env.active \ {env.sql}
    [] OTHER -> env.active

(* _sample_query; the generator moves on to some next draw.                *)
Sampled(env, next) ==
  [task |-> env.task, sql |-> Templates[env.task][env.rng],
   active |-> env.active, rng |-> next, budget |-> env.budget]

(* step, from where the mask is known.                                     *)
Stepped(env, action, next) ==
  Sampled([env EXCEPT !.active = Reindexed(env, action)], next)

(* reset(task_id=task).                                                    *)
EnvReset(env, task, next) ==
  Sampled([task |-> task, sql |-> env.sql, active |-> {}, rng |-> env.rng,
           budget |-> env.budget], next)

(* restore: everything a snapshot holds.                                   *)
Restore(env, snapshot) == [snapshot EXCEPT !.budget = env.budget]

=============================================================================
