----------------------- MODULE ContinualBenchmarkProofs -----------------------
(***************************************************************************)
(* Proofs about ContinualBenchmark, for any environment, costs, sequence   *)
(* of tasks, pairs and numbers of episodes and steps.                      *)
(***************************************************************************)
EXTENDS ContinualBenchmark, FiniteSetTheorems, TLAPS

-----------------------------------------------------------------------------
(* An environment within its budget, and what the operators do to it.      *)

Sound(x) ==
  /\ x \in Episodes
  /\ x.env.budget = Budget
  /\ IsFiniteSet(x.env.active) /\ Cardinality(x.env.active) <= Budget

LEMMA Fields ==
  ASSUME NEW x \in Episodes
  PROVE  /\ x = [env |-> x.env, selectivity |-> x.selectivity, step |-> x.step]
         /\ x.env \in Envs /\ x.selectivity \in Tasks \union {Coupled} /\ x.step \in Nat
         /\ x.env.task \in Tasks /\ x.env.sql \in Queries
         /\ x.env.active \in SUBSET Queries /\ x.env.rng \in 1 .. Draws
         /\ x.env.budget \in Nat
BY DEF Episodes, Envs

LEMMA Constants ==
  /\ Budget \in Nat \ {0} /\ Draws \in Nat \ {0} /\ 0 \in Tasks
  /\ EpisodesPerTask \in Nat \ {0}
  /\ PreEpisodes \in Nat \ {0} /\ AdaptEpisodes \in Nat \ {0}
  /\ Steps \in Nat \ {0} /\ EnvHorizon \in Nat \ {0}
  /\ Len(TaskOrder) \in Nat \ {0}
  /\ \A k \in 1 .. Len(TaskOrder) : TaskOrder[k] \in Tasks
  /\ \A p \in Pairs : p[1] \in Tasks /\ p[2] \in Tasks
BY EnvAssumption, BenchmarkAssumption DEF EnvAssumption, BenchmarkAssumption, Tasks

LEMMA SampledQuery ==
  ASSUME NEW task \in Tasks, NEW rng \in 1 .. Draws
  PROVE  Templates[task][rng] \in Queries
BY EnvAssumption DEF EnvAssumption, Tasks, Queries

LEMMA MasksAreActions == \A env : ValidActions(env) \subseteq Actions /\ "keep" \in ValidActions(env)
BY DEF ValidActions, Actions

(* A valid action keeps the budget. *)
LEMMA ReindexedSound ==
  ASSUME NEW x, Sound(x), NEW action \in ValidActions(x.env)
  PROVE  /\ Reindexed(x.env, action) \in SUBSET Queries
         /\ IsFiniteSet(Reindexed(x.env, action))
         /\ Cardinality(Reindexed(x.env, action)) <= Budget
         /\ Cardinality(Reindexed(x.env, action)) \in Nat
<1> DEFINE active == x.env.active
           sql == x.env.sql
<1>1. /\ active \in SUBSET Queries /\ sql \in Queries /\ Budget \in Nat
      /\ IsFiniteSet(active) /\ Cardinality(active) \in Nat /\ Cardinality(active) <= Budget
  BY Fields, Constants, FS_CardinalityType DEF Sound
<1>2. CASE action = "create"
  <2>1. Reindexed(x.env, action) = active \union {sql}
    BY <1>2 DEF Reindexed
  <2>2. Cardinality(active) < Budget
    BY <1>2 DEF ValidActions, HasBudget, Sound
  <2>3. /\ IsFiniteSet(active \union {sql})
        /\ Cardinality(active \union {sql})
             = IF sql \in active THEN Cardinality(active) ELSE Cardinality(active) + 1
    BY <1>1, FS_AddElement
  <2> QED
    BY <1>1, <2>1, <2>2, <2>3
<1>3. CASE action = "drop"
  <2>1. Reindexed(x.env, action) = active \ {sql}
    BY <1>3 DEF Reindexed
  <2>2. /\ IsFiniteSet(active \ {sql})
        /\ Cardinality(active \ {sql})
             = IF sql \in active THEN Cardinality(active) - 1 ELSE Cardinality(active)
    BY <1>1, FS_RemoveElement
  <2>3. Cardinality(active \ {sql}) \in Nat
    BY <2>2, FS_CardinalityType
  <2> QED
    BY <1>1, <2>1, <2>2, <2>3
<1>4. CASE action = "keep"
  <2>1. Reindexed(x.env, action) = active
    BY <1>4 DEF Reindexed
  <2> QED
    BY <1>1, <2>1
<1> QED
  BY <1>2, <1>3, <1>4, MasksAreActions DEF Actions

Effect(x, action) == IF action \in ValidActions(x.env) THEN action ELSE "keep"

LEMMA EffectIsValid == ASSUME NEW x, NEW action PROVE Effect(x, action) \in ValidActions(x.env)
BY MasksAreActions DEF Effect

(* The environment whose latency and cost a step has. *)
Indexed(x, action) ==
  [env |-> [task |-> x.env.task, sql |-> x.env.sql,
            active |-> Reindexed(x.env, Effect(x, action)),
            rng |-> x.env.rng, budget |-> x.env.budget],
   selectivity |-> x.selectivity, step |-> x.step]

LEMMA TwoFields ==
  ASSUME NEW x, x = [env |-> x.env, selectivity |-> x.selectivity, step |-> x.step],
         NEW env, NEW step
  PROVE  [x EXCEPT !.env = env, !.step = step]
           = [env |-> env, selectivity |-> x.selectivity, step |-> step]
<1>1. [x EXCEPT !.env = env] = [env |-> env, selectivity |-> x.selectivity, step |-> x.step]
  OBVIOUS
<1>2. [[env |-> env, selectivity |-> x.selectivity, step |-> x.step] EXCEPT !.step = step]
        = [env |-> env, selectivity |-> x.selectivity, step |-> step]
  OBVIOUS
<1>3. [x EXCEPT !.env = env, !.step = step] = [[x EXCEPT !.env = env] EXCEPT !.step = step]
  OBVIOUS
<1> QED
  BY <1>1, <1>2, <1>3, Zenon

(* What comes of a step, field by field. *)
LEMMA OutcomeIs ==
  ASSUME NEW x \in Episodes, NEW action, NEW horizon, NEW next
  PROVE  Outcome(x, action, horizon, next)
           = [after  |-> [env |-> [task |-> x.env.task,
                                   sql |-> Templates[x.env.task][x.env.rng],
                                   active |-> Reindexed(x.env, Effect(x, action)),
                                   rng |-> next, budget |-> x.env.budget],
                          selectivity |-> x.selectivity, step |-> x.step + 1],
              reward |-> Reward(Indexed(x, action), Effect(x, action) = "create"),
              done   |-> x.step + 1 >= horizon]
<1> DEFINE effect == IF action \in ValidActions(x.env) THEN action ELSE "keep"
           indexed == [x EXCEPT !.env.active = Reindexed(x.env, effect)]
           after == [indexed EXCEPT !.env = Sampled(@, next), !.step = @ + 1]
<1>1. effect = Effect(x, action)
  BY DEF Effect
<1>2. x.env = [task |-> x.env.task, sql |-> x.env.sql, active |-> x.env.active,
               rng |-> x.env.rng, budget |-> x.env.budget]
  BY DEF Episodes, Envs
<1>3. x = [env |-> x.env, selectivity |-> x.selectivity, step |-> x.step]
  BY Fields
<1>4. indexed = Indexed(x, action)
  BY <1>1, <1>2, <1>3 DEF Indexed
<1>5. after = [env |-> Sampled(Indexed(x, action).env, next),
               selectivity |-> x.selectivity, step |-> x.step + 1]
  <2>2. /\ Indexed(x, action) = [env |-> Indexed(x, action).env, selectivity |-> x.selectivity,
                                step |-> x.step]
        /\ Indexed(x, action).selectivity = x.selectivity /\ Indexed(x, action).step = x.step
    BY DEF Indexed
  <2>3. after = [Indexed(x, action) EXCEPT !.env = Sampled(Indexed(x, action).env, next),
                                           !.step = x.step + 1]
    BY <1>4, <2>2
  <2> HIDE DEF indexed, after
  <2> QED
    BY <2>2, <2>3, TwoFields
<1>6. Sampled(Indexed(x, action).env, next)
        = [task |-> x.env.task, sql |-> Templates[x.env.task][x.env.rng],
           active |-> Reindexed(x.env, Effect(x, action)),
           rng |-> next, budget |-> x.env.budget]
  BY DEF Sampled, Indexed
<1>7. Outcome(x, action, horizon, next)
        = [after |-> after, reward |-> Reward(indexed, effect = "create"),
           done |-> after.step >= horizon]
  BY DEF Outcome
<1>8. after.step = x.step + 1
  BY <1>5
<1> HIDE DEF effect, indexed, after
<1> QED
  BY <1>1, <1>4, <1>5, <1>6, <1>7, <1>8

LEMMA RewardType ==
  ASSUME NEW x, NEW created \in BOOLEAN, Cardinality(x.env.active) \in Nat
  PROVE  Reward(x, created) \in Int
<1>1. /\ Latency(x) \in Nat /\ ResourceCost \in Nat /\ BuildCost \in Nat
  BY EpisodeAssumption DEF EpisodeAssumption, Latency
<1>2. ResourceCost * Cardinality(x.env.active) \in Nat
  BY <1>1
<1> QED
  BY <1>1, <1>2 DEF Reward

LEMMA OutcomeSound ==
  ASSUME NEW x, Sound(x), NEW action, NEW horizon \in Nat, NEW next \in 1 .. Draws
  PROVE  /\ Sound(Outcome(x, action, horizon, next).after)
         /\ Outcome(x, action, horizon, next).after.env.task = x.env.task
         /\ Outcome(x, action, horizon, next).after.env.rng = next
         /\ Outcome(x, action, horizon, next).after.selectivity = x.selectivity
         /\ Outcome(x, action, horizon, next).done \in BOOLEAN
         /\ Shown(Outcome(x, action, horizon, next).after) \in Shows
         /\ Counterfactual(Outcome(x, action, horizon, next)) \in Results
<1> DEFINE o == Outcome(x, action, horizon, next)
           active == Reindexed(x.env, Effect(x, action))
<1>1. /\ active \in SUBSET Queries /\ IsFiniteSet(active)
      /\ Cardinality(active) <= Budget /\ Cardinality(active) \in Nat
  BY EffectIsValid, ReindexedSound
<1>2. x \in Episodes /\ x.env.budget = Budget
  BY DEF Sound
<1>3. o = [after  |-> [env |-> [task |-> x.env.task,
                                sql |-> Templates[x.env.task][x.env.rng],
                                active |-> active, rng |-> next, budget |-> x.env.budget],
                       selectivity |-> x.selectivity, step |-> x.step + 1],
           reward |-> Reward(Indexed(x, action), Effect(x, action) = "create"),
           done   |-> x.step + 1 >= horizon]
  BY <1>2, OutcomeIs
<1>4. Templates[x.env.task][x.env.rng] \in Queries
  BY <1>2, Fields, SampledQuery
<1>5. o.reward \in Int
  <2>1. Cardinality(Indexed(x, action).env.active) \in Nat
    BY <1>1 DEF Indexed
  <2>2. Reward(Indexed(x, action), Effect(x, action) = "create") \in Int
    BY <2>1, RewardType
  <2> QED
    BY <1>3, <2>2
<1>6. /\ o.after.env = [task |-> x.env.task, sql |-> Templates[x.env.task][x.env.rng],
                        active |-> active, rng |-> next, budget |-> x.env.budget]
      /\ o.after = [env |-> o.after.env, selectivity |-> x.selectivity, step |-> x.step + 1]
      /\ o.done = (x.step + 1 >= horizon)
  BY <1>3
<1>7. o.after.env \in Envs
  BY <1>1, <1>2, <1>4, <1>6, Fields DEF Envs
<1>8. o.after \in Episodes
  BY <1>2, <1>6, <1>7, Fields DEF Episodes
<1>9. Sound(o.after)
  BY <1>1, <1>2, <1>6, <1>8 DEF Sound
<1>10. Shown(o.after) \in Shows
  BY <1>7, <1>8, Fields DEF Shown, Shows, ObsOf, Observations, Envs
<1>11. Counterfactual(o) \in Results
  BY <1>5, <1>6, <1>10, MasksAreActions DEF Counterfactual, Results
<1> QED
  BY <1>6, <1>9, <1>10, <1>11

(* What the generator draws later does not show in what is foreseen. *)
LEMMA ForeseenAnyway ==
  ASSUME NEW x \in Episodes, NEW action, NEW horizon, NEW next, NEW other
  PROVE  Counterfactual(Outcome(x, action, horizon, next))
           = Counterfactual(Outcome(x, action, horizon, other))
<1> DEFINE o == Outcome(x, action, horizon, next)
           p == Outcome(x, action, horizon, other)
<1>1. /\ o.reward = p.reward /\ o.done = p.done /\ o.after.step = p.after.step
      /\ o.after.env.task = p.after.env.task /\ o.after.env.sql = p.after.env.sql
      /\ o.after.env.active = p.after.env.active /\ o.after.env.budget = p.after.env.budget
  BY OutcomeIs
<1>2. ObsOf(o.after.env) = ObsOf(p.after.env)
  BY <1>1 DEF ObsOf
<1>3. ValidActions(o.after.env) = ValidActions(p.after.env)
  BY <1>1 DEF ValidActions, HasBudget, Covered
<1>4. Shown(o.after) = Shown(p.after)
  BY <1>1, <1>2 DEF Shown
<1> HIDE DEF o, p
<1> QED
  BY <1>1, <1>3, <1>4 DEF Counterfactual, o, p

LEMMA ResetSound ==
  ASSUME NEW x, Sound(x), NEW task \in Tasks, NEW next \in 1 .. Draws
  PROVE  /\ Sound(EpisodeReset(x, task, next))
         /\ EpisodeReset(x, task, next).env.task = task
         /\ EpisodeReset(x, task, next).env.rng = next
         /\ EpisodeReset(x, task, next).selectivity = x.selectivity
         /\ Shown(EpisodeReset(x, task, next)) \in Shows
<1> DEFINE r == EpisodeReset(x, task, next)
<1>1. x \in Episodes /\ x.env.budget = Budget /\ x.env.rng \in 1 .. Draws
  BY Fields DEF Sound
<1>2. r.env = [task |-> task, sql |-> Templates[task][x.env.rng], active |-> {},
               rng |-> next, budget |-> x.env.budget]
  BY DEF EpisodeReset, EnvReset, Sampled
<1>3. r = [env |-> r.env, selectivity |-> x.selectivity, step |-> 0]
  BY DEF EpisodeReset
<1>4. r.env \in Envs
  BY <1>1, <1>2, SampledQuery, Constants DEF Envs
<1>5. r \in Episodes
  BY <1>1, <1>3, <1>4, Fields DEF Episodes
<1>6. IsFiniteSet(r.env.active) /\ Cardinality(r.env.active) <= Budget
  BY <1>2, FS_EmptySet, Constants
<1>7. Shown(r) \in Shows
  BY <1>3, <1>4 DEF Shown, Shows, ObsOf, Observations, Envs
<1> HIDE DEF r
<1>8. Sound(r) /\ r.env.task = task /\ r.env.rng = next /\ r.selectivity = x.selectivity
  BY <1>1, <1>2, <1>3, <1>5, <1>6 DEF Sound
<1> QED
  BY <1>7, <1>8 DEF r

LEMMA RewindIsBack ==
  ASSUME NEW x, Sound(x), NEW snapshot_, Sound(snapshot_)
  PROVE  Rewind(x, snapshot_) = snapshot_
<1>1. /\ snapshot_ \in Episodes /\ x.env.budget = snapshot_.env.budget
      /\ snapshot_.env \in Envs
  BY Fields DEF Sound
<1>2. Restore(x.env, snapshot_.env) = snapshot_.env
  BY <1>1 DEF Restore, Envs
<1> QED
  BY <1>1, <1>2, Fields DEF Rewind

(* Assigning an attribute of the environment that is not its configuration. *)
LEMMA RetaskedSound ==
  ASSUME NEW x, Sound(x), NEW task \in Tasks
  PROVE  /\ Sound([x EXCEPT !.env.task = task])
         /\ [x EXCEPT !.env.task = task].env.task = task
         /\ [x EXCEPT !.env.task = task].env.rng = x.env.rng
         /\ [x EXCEPT !.env.task = task].selectivity = x.selectivity
<1> DEFINE y == [x EXCEPT !.env.task = task]
<1>1. x \in Episodes /\ x.env \in Envs
  BY Fields DEF Sound
<1>2. y.env = [x.env EXCEPT !.task = task] /\ y.selectivity = x.selectivity /\ y.step = x.step
      /\ y = [env |-> y.env, selectivity |-> y.selectivity, step |-> y.step]
  BY <1>1 DEF Episodes
<1>3. y.env \in Envs /\ y.env.task = task /\ y.env.rng = x.env.rng
      /\ y.env.active = x.env.active /\ y.env.budget = x.env.budget
  BY <1>1, <1>2 DEF Envs
<1>4. y \in Episodes
  BY <1>1, <1>2, <1>3, Fields DEF Episodes
<1> HIDE DEF y
<1>5. Sound(y)
  BY <1>3, <1>4 DEF Sound
<1> QED
  BY <1>2, <1>3, <1>5 DEF y

LEMMA ReseededSound ==
  ASSUME NEW x, Sound(x), NEW rng \in 1 .. Draws
  PROVE  /\ Sound([x EXCEPT !.env.rng = rng])
         /\ [x EXCEPT !.env.rng = rng].env.task = x.env.task
         /\ [x EXCEPT !.env.rng = rng].env.rng = rng
         /\ [x EXCEPT !.env.rng = rng].selectivity = x.selectivity
<1> DEFINE y == [x EXCEPT !.env.rng = rng]
<1>1. x \in Episodes /\ x.env \in Envs
  BY Fields DEF Sound
<1>2. y.env = [x.env EXCEPT !.rng = rng] /\ y.selectivity = x.selectivity /\ y.step = x.step
      /\ y = [env |-> y.env, selectivity |-> y.selectivity, step |-> y.step]
  BY <1>1 DEF Episodes
<1>3. y.env \in Envs /\ y.env.task = x.env.task /\ y.env.rng = rng
      /\ y.env.active = x.env.active /\ y.env.budget = x.env.budget
  BY <1>1, <1>2 DEF Envs
<1>4. y \in Episodes
  BY <1>1, <1>2, <1>3, Fields DEF Episodes
<1> HIDE DEF y
<1>5. Sound(y)
  BY <1>3, <1>4 DEF Sound
<1> QED
  BY <1>2, <1>3, <1>5 DEF y

LEMMA SelectedSound ==
  ASSUME NEW x, Sound(x), NEW phase \in Tasks
  PROVE  /\ Sound([x EXCEPT !.selectivity = phase])
         /\ [x EXCEPT !.selectivity = phase].env = x.env
         /\ [x EXCEPT !.selectivity = phase].selectivity = phase
<1> DEFINE y == [x EXCEPT !.selectivity = phase]
<1>1. x \in Episodes
  BY DEF Sound
<1>2. y \in Episodes /\ y.env = x.env /\ y.selectivity = phase
  BY <1>1 DEF Episodes
<1> HIDE DEF y
<1>3. Sound(y)
  BY <1>2 DEF Sound
<1> QED
  BY <1>2, <1>3 DEF y

LEMMA NewSound ==
  ASSUME NEW task \in Tasks, NEW rng \in 1 .. Draws
  PROVE  /\ Sound(NewEpisode(task, Budget, rng))
         /\ NewEpisode(task, Budget, rng).selectivity = Coupled
         /\ NewEpisode(task, Budget, rng).env.rng = rng
<1> DEFINE y == NewEpisode(task, Budget, rng)
<1>1. /\ y.env = [task |-> task, sql |-> {}, active |-> {}, rng |-> rng, budget |-> Budget]
      /\ y = [env |-> y.env, selectivity |-> Coupled, step |-> 0]
  BY DEF NewEpisode
<1>2. y.env \in Envs
  BY <1>1, Constants DEF Envs, Queries
<1>3. y \in Episodes
  BY <1>1, <1>2 DEF Episodes
<1>4. IsFiniteSet(y.env.active) /\ Cardinality(y.env.active) <= Budget
  BY <1>1, FS_EmptySet, Constants
<1> HIDE DEF y
<1> QED
  BY <1>1, <1>3, <1>4 DEF Sound, y

-----------------------------------------------------------------------------
(* Types, and where each script can be.                                    *)

Training == {"reset", "choose", "what_if", "act", "episode_over"}
Evaluating == {"evaluate", "rollout"}
Apart == {"evaluate_apart", "rollout_apart", "compared"}

(* Where each script can be, and what its loops have come to there.        *)
Located ==
  /\ program = "sequence" => at \in Training \cup Evaluating \cup {"task", "boundary", "over"}
  /\ program = "baseline" => at \in Evaluating \cup {"over"}
  /\ program = "silent_drift" => at \in Training \cup Apart \cup {"task", "over"}
  /\ at \in Training => ep <= LastEpisode
  /\ at \in Apart => ep - 1 <= LastEpisode
  /\ program = "sequence" =>
       /\ at # "over" => i \in 1 .. Len(TaskOrder)
       /\ at \in Evaluating => j \in 1 .. i
  /\ program = "baseline" =>
       /\ i \in 1 .. Len(Policies) + 1
       /\ at # "over" => i <= Len(Policies)
       /\ j \in 1 .. Len(TaskOrder)

(* What a script may use where it is.                                      *)
Assigned ==
  /\ at = "what_if" => Sound(snapshot)
  /\ at = "rollout" => saved_rng \in 1 .. Draws
  /\ at \in {"rollout_apart", "compared"} => Sound(own)

TypeInv ==
  /\ TypeOK /\ Located /\ Assigned
  /\ Sound(e)
  /\ own = None \/ Sound(own)

LEMMA TypeInit == Init => TypeInv
<1> SUFFICES ASSUME Init PROVE TypeInv
  OBVIOUS
<1>1. Sound(e) /\ e.env.rng \in 1 .. Draws
  BY NewSound, Constants, Fields DEF Init, Sound
<1>2. TypeOK
  BY <1>1, Constants DEF Init, TypeOK, Sound, NoBranches
<1>3. Located
  BY Constants DEF Init, Located, Training, Evaluating, Apart, LastEpisode, Policies
<1>4. Assigned
  BY DEF Init, Assigned
<1> QED
  BY <1>1, <1>2, <1>3, <1>4 DEF Init, TypeInv

LEMMA TypeBeginTask == ASSUME TypeInv, BeginTask PROVE TypeInv'
<1>1. /\ program = "sequence" => TaskOrder[i] \in Tasks
      /\ pair[1] \in Tasks
  <2>1. at = "task" /\ pair \in Pairs
    BY DEF TypeInv, TypeOK, BeginTask
  <2>2. program = "sequence" => i \in 1 .. Len(TaskOrder)
    BY <2>1 DEF TypeInv, Located
  <2>3. pair[1] \in Tasks
    BY <2>1, Constants
  <2>4. ASSUME program = "sequence" PROVE TaskOrder[i] \in Tasks
    BY <2>2, <2>4, Constants
  <2> QED
    BY <2>3, <2>4
<1>2. Sound(e')
  <2>1. CASE program = "sequence"
    <3>1. e' = [e EXCEPT !.env.task = TaskOrder[i]] /\ Sound(e)
      BY <2>1 DEF TypeInv, BeginTask
    <3> QED
      BY <1>1, <2>1, <3>1, RetaskedSound
  <2>2. CASE program # "sequence"
    <3> DEFINE y == [e EXCEPT !.env.task = pair[1]]
    <3>1. Sound(y)
      BY <1>1, RetaskedSound DEF TypeInv
    <3>2. e' = [y EXCEPT !.selectivity = pair[1]]
      <4>1. e' = [e EXCEPT !.env.task = pair[1], !.selectivity = pair[1]]
        BY <2>2 DEF BeginTask
      <4>2. \A p : [e EXCEPT !.env.task = p, !.selectivity = p]
                   = [[e EXCEPT !.env.task = p] EXCEPT !.selectivity = p]
        OBVIOUS
      <4> QED
        BY <4>1, <4>2
    <3> HIDE DEF y
    <3> QED
      BY <1>1, <3>1, <3>2, SelectedSound
  <2> QED
    BY <2>1, <2>2
<1>3. TypeOK'
  BY <1>2, Constants DEF TypeInv, TypeOK, BeginTask, oracle, measured, Sound
<1>4. Located'
  BY Constants DEF TypeInv, TypeOK, Located, BeginTask, Training, Evaluating, Apart, LastEpisode
<1>5. Assigned'
  BY DEF Assigned, BeginTask
<1> QED
  BY <1>2, <1>3, <1>4, <1>5 DEF TypeInv, BeginTask, measured

LEMMA TypeResetEpisode == ASSUME TypeInv, ResetEpisode PROVE TypeInv'
<1>1. (IF program = "sequence" THEN TaskOrder[i] ELSE e.env.task) \in Tasks
  BY Constants, Fields DEF TypeInv, TypeOK, Located, ResetEpisode, Sound
<1>2. Sound(e') /\ Shown(e') \in Shows /\ e'.env.rng \in 1 .. Draws
  BY <1>1, ResetSound DEF TypeInv, ResetEpisode
<1>3. TypeOK'
  BY <1>2 DEF TypeInv, TypeOK, ResetEpisode, oracle, ewc, measured, Sound
<1>4. Located'
  BY DEF TypeInv, Located, ResetEpisode, Training, Evaluating, Apart, LastEpisode
<1>5. Assigned'
  BY DEF Assigned, ResetEpisode
<1> QED
  BY <1>2, <1>3, <1>4, <1>5 DEF TypeInv, ResetEpisode, measured

LEMMA TypeAskOracle == ASSUME TypeInv, AskOracle PROVE TypeInv'
<1>1. Sound(e') /\ e' = e
  BY DEF TypeInv, AskOracle
<1>2. at' \in {"what_if", "act"} /\ at = "choose"
  BY DEF AskOracle
<1>3. TypeOK'
  BY <1>1, <1>2, MasksAreActions
     DEF TypeInv, TypeOK, AskOracle, loops, ewc, measured, Sound, NoBranches
<1>4. Located'
  BY <1>2 DEF TypeInv, Located, AskOracle, Training, Evaluating, Apart, LastEpisode, loops
<1>5. Assigned'
  BY <1>1, <1>2 DEF Assigned, AskOracle
<1> QED
  BY <1>1, <1>3, <1>4, <1>5 DEF TypeInv, AskOracle, measured

LEMMA TypeWhatIf == ASSUME TypeInv, WhatIfBranch \/ WhatIfEnds PROVE TypeInv'
<1>1. /\ at = "what_if" /\ Sound(e) /\ Sound(snapshot) /\ Horizon \in Nat /\ 1 \in 1 .. Draws
      /\ Rewind(e, snapshot) = snapshot
  BY Constants, RewindIsBack DEF WhatIfBranch, WhatIfEnds, TypeInv, Assigned, Horizon
<1>2. CASE WhatIfBranch
  <2>1. PICK a \in todo :
          /\ e' = Outcome(snapshot, a, Horizon, 1).after
          /\ branches' = [b \in DOMAIN branches \union {a} |->
               IF b = a THEN Counterfactual(Outcome(snapshot, a, Horizon, 1)) ELSE branches[b]]
          /\ todo' = todo \ {a}
    BY <1>1, <1>2 DEF WhatIfBranch
  <2>2. Sound(e') /\ Counterfactual(Outcome(snapshot, a, Horizon, 1)) \in Results
    BY <1>1, <2>1, OutcomeSound
  <2>3. DOMAIN branches' \subseteq Actions /\ \A b \in DOMAIN branches' : branches'[b] \in Results
    BY <2>1, <2>2 DEF TypeInv, TypeOK
  <2>4. TypeOK'
    BY <1>2, <2>1, <2>2, <2>3 DEF TypeInv, TypeOK, WhatIfBranch, loops, ewc, measured, Sound
  <2>5. Located' /\ Assigned'
    BY <1>2 DEF TypeInv, Located, Assigned, WhatIfBranch, LastEpisode, loops, measured
  <2> QED
    BY <1>2, <2>2, <2>4, <2>5 DEF TypeInv, WhatIfBranch, measured
<1>3. CASE WhatIfEnds
  <2>1. Sound(e')
    BY <1>1, <1>3 DEF WhatIfEnds
  <2>2. TypeOK'
    BY <1>3, <2>1 DEF TypeInv, TypeOK, WhatIfEnds, loops, ewc, measured, Sound
  <2>3. Located'
    BY <1>3 DEF TypeInv, Located, WhatIfEnds, Training, Evaluating, Apart, LastEpisode, loops
  <2>4. Assigned'
    BY <1>3 DEF Assigned, WhatIfEnds
  <2> QED
    BY <1>3, <2>1, <2>2, <2>3, <2>4 DEF TypeInv, WhatIfEnds, measured
<1> QED
  BY <1>2, <1>3

LEMMA TypeAct == ASSUME TypeInv, NEW action, NEW drift \in BOOLEAN, Act(action, drift) PROVE TypeInv'
<1>1. PICK next \in 1 .. Draws :
        /\ e' = Outcome(e, action, Horizon, next).after
        /\ taken' = [action |-> action,
                     result |-> Counterfactual(Outcome(e, action, Horizon, next))]
        /\ at' \in {"episode_over", "choose"}
  BY DEF Act
<1>2. action \in Actions /\ Horizon \in Nat /\ Sound(e)
  BY Constants, MasksAreActions DEF Act, Horizon, TypeInv
<1>3. /\ Sound(e') /\ Shown(e') \in Shows /\ e'.env.rng \in 1 .. Draws
      /\ taken' \in [action : Actions, result : Results]
  BY <1>1, <1>2, OutcomeSound
<1>4. pending' \subseteq Tasks /\ task_drift' \in Nat
  <2>1. e.env.task \in Tasks
    BY <1>2, Fields DEF Sound
  <2> QED
    BY <2>1 DEF Act, ewc, TypeInv, TypeOK
<1>5. at = "act" /\ t' = t + 1 /\ obs' = Shown(e') /\ stream' = e'.env.rng
      /\ UNCHANGED <<program, cfg, pair, i, ep, j, oracle, measured>>
  BY DEF Act
<1>6. TypeOK'
  BY <1>1, <1>3, <1>4, <1>5 DEF TypeInv, TypeOK, oracle, measured, Sound
<1>7. Located'
  BY <1>1, <1>5 DEF TypeInv, Located, Training, Evaluating, Apart, LastEpisode
<1>8. Assigned'
  BY <1>1, <1>5 DEF Assigned
<1> QED
  BY <1>3, <1>5, <1>6, <1>7, <1>8 DEF TypeInv, measured

LEMMA TypeEpisodeOver == ASSUME TypeInv, EpisodeOver PROVE TypeInv'
<1>1. /\ at = "episode_over" /\ ep' = ep + 1 /\ ep \in Nat /\ ep <= LastEpisode
      /\ LastEpisode \in Nat /\ ep >= 1
  BY Constants DEF TypeInv, TypeOK, Located, EpisodeOver, Training, LastEpisode
<1>2. /\ program \in {"sequence", "silent_drift"}
      /\ \/ program = "silent_drift" /\ at' = "evaluate_apart"
         \/ at' = "reset" /\ ep < LastEpisode
         \/ program = "sequence" /\ at' = "boundary"
  <2>1. program \in {"sequence", "silent_drift"}
    BY <1>1 DEF TypeInv, TypeOK, Located, Evaluating
  <2>2. program = "silent_drift" /\ ep < PreEpisodes => ep < LastEpisode
    BY <1>1, Constants DEF LastEpisode
  <2> QED
    BY <1>1, <2>1, <2>2, Constants DEF EpisodeOver
<1>3. TypeOK'
  <2>1. ep' \in Nat \ {0}
    BY <1>1, Constants
  <2>2. DOMAIN branches' = {} /\ taken' = None
    BY DEF EpisodeOver, NoBranches
  <2>3. UNCHANGED <<program, cfg, pair, e, i, t, j, obs, snapshot, todo, pending, task_drift, own,
                    saved_rng, stream>>
    BY DEF EpisodeOver, ewc, measured
  <2> QED
    BY <1>2, <2>1, <2>2, <2>3 DEF TypeInv, TypeOK
<1>4. Located'
  BY <1>1, <1>2 DEF TypeInv, Located, EpisodeOver, Training, Evaluating, Apart, LastEpisode
<1>5. Assigned'
  BY <1>2 DEF Assigned
<1> QED
  BY <1>3, <1>4, <1>5 DEF TypeInv, EpisodeOver, measured

LEMMA TypeBoundary == ASSUME TypeInv, Boundary PROVE TypeInv'
<1>1. program = "sequence"
  BY DEF TypeInv, TypeOK, Located, Boundary, Training, Evaluating, Apart
<1>2. TypeOK'
  BY DEF TypeInv, TypeOK, Boundary, oracle, measured
<1>3. Located'
  BY <1>1 DEF TypeInv, Located, Boundary, Training, Evaluating, Apart
<1>4. Assigned'
  BY DEF Assigned, Boundary
<1> QED
  BY <1>2, <1>3, <1>4 DEF TypeInv, Boundary, measured

LEMMA TypeEvaluateBegins == ASSUME TypeInv, EvaluateBegins PROVE TypeInv'
<1>1. TaskOrder[j] \in Tasks
  <2>1. j \in 1 .. Len(TaskOrder)
    BY Constants DEF TypeInv, TypeOK, Located, EvaluateBegins, Training, Evaluating, Apart
  <2> QED
    BY <2>1, Constants
<1>2. PICK seeded \in 1 .. Draws, next \in 1 .. Draws :
        e' = EpisodeReset([e EXCEPT !.env.rng = seeded], TaskOrder[j], next)
  BY DEF EvaluateBegins
<1>3. Sound(e')
  BY <1>1, <1>2, ReseededSound, ResetSound DEF TypeInv
<1>4. e.env.rng \in 1 .. Draws
  BY Fields DEF TypeInv, Sound
<1>5. TypeOK'
  BY <1>3, <1>4 DEF TypeInv, TypeOK, EvaluateBegins, oracle, ewc, Sound
<1>6. Located'
  BY DEF TypeInv, Located, EvaluateBegins, Training, Evaluating, Apart
<1>7. Assigned'
  BY <1>4 DEF Assigned, EvaluateBegins
<1> QED
  BY <1>3, <1>5, <1>6, <1>7 DEF TypeInv, EvaluateBegins

LEMMA TypeEvaluateStep == ASSUME TypeInv, NEW action, EvaluateStep(action) PROVE TypeInv'
<1>1. PICK next \in 1 .. Draws, again \in 1 .. Draws :
        e' = IF Outcome(e, action, Horizon, next).done
             THEN EpisodeReset(Outcome(e, action, Horizon, next).after, e.env.task, again)
             ELSE Outcome(e, action, Horizon, next).after
  BY DEF EvaluateStep
<1>2. Sound(e) /\ Horizon \in Nat /\ e.env.task \in Tasks
  BY Constants, Fields DEF TypeInv, Horizon, Sound
<1>3. Sound(e')
  BY <1>1, <1>2, OutcomeSound, ResetSound
<1>4. TypeOK'
  BY <1>3 DEF TypeInv, TypeOK, EvaluateStep, oracle, ewc, measured, Sound
<1>5. Located' /\ Assigned'
  BY DEF TypeInv, Located, Assigned, EvaluateStep, LastEpisode, measured
<1> QED
  BY <1>3, <1>4, <1>5 DEF TypeInv, EvaluateStep, measured

LEMMA TypeEvaluateNext ==
  ASSUME TypeInv, EvaluateNextTask \/ EvaluateNextBaseline
  PROVE  TypeInv'
<1>1. /\ at = "rollout" /\ saved_rng' = None
      /\ UNCHANGED <<program, cfg, pair, ep, t, obs, oracle, taken, ewc, own, stream>>
      /\ e' = [e EXCEPT !.env.rng = saved_rng]
  BY DEF EvaluateNextTask, EvaluateNextBaseline, EvaluateReturns, RngAfterEvaluation
<1>2. Sound(e')
  BY <1>1, ReseededSound DEF TypeInv, Assigned
<1>3. i \in Nat /\ j \in Nat /\ Len(TaskOrder) \in Nat \ {0} /\ Len(Policies) = 3
  BY Constants DEF TypeInv, TypeOK, Policies
<1>4. /\ i' \in Nat /\ j' \in Nat /\ at' \in {"evaluate", "task", "over"}
      /\ Located'
  <2>1. CASE EvaluateNextTask
    <3>1. program = "sequence" /\ i \in 1 .. Len(TaskOrder) /\ j \in 1 .. i
      BY <1>1, <2>1 DEF TypeInv, Located, EvaluateNextTask, Evaluating
    <3>2. \/ j < i /\ j' = j + 1 /\ i' = i /\ at' = "evaluate"
          \/ ~(j < i) /\ i' = i + 1 /\ j' = j /\ i = Len(TaskOrder) /\ at' = "over"
          \/ ~(j < i) /\ i' = i + 1 /\ j' = j /\ i # Len(TaskOrder) /\ at' = "task"
      BY <2>1 DEF EvaluateNextTask
    <3> QED
      BY <1>1, <1>3, <3>1, <3>2 DEF Located, Training, Evaluating, Apart
  <2>2. CASE EvaluateNextBaseline
    <3>1. program = "baseline" /\ i \in 1 .. 3 /\ j \in 1 .. Len(TaskOrder)
      BY <1>1, <1>3, <2>2 DEF TypeInv, Located, EvaluateNextBaseline
    <3>2. /\ \/ j < Len(TaskOrder) /\ j' = j + 1 /\ i' = i
             \/ ~(j < Len(TaskOrder)) /\ j' = 1 /\ i' = i + 1
          /\ at' = IF i' > 3 THEN "over" ELSE "evaluate"
      BY <1>3, <2>2 DEF EvaluateNextBaseline
    <3> QED
      BY <1>1, <1>3, <3>1, <3>2 DEF Located, Training, Evaluating, Apart
  <2> QED
    BY <2>1, <2>2
<1>5. TypeOK'
  BY <1>1, <1>2, <1>4 DEF TypeInv, TypeOK, oracle, ewc, Sound
<1>6. Assigned'
  BY <1>4 DEF Assigned
<1> QED
  BY <1>1, <1>2, <1>4, <1>5, <1>6 DEF TypeInv

LEMMA TypeApart ==
  ASSUME TypeInv, \/ EvaluateApart \/ EvaluatedApart
                  \/ \E action \in Actions : RolloutApart(action)
  PROVE  TypeInv'
<1>1. pair[1] \in Tasks /\ pair[2] \in Tasks /\ pair \in Pairs
  BY Constants DEF TypeInv, TypeOK
<1>2. program = "silent_drift"
  BY DEF TypeInv, TypeOK, Located, EvaluateApart, EvaluatedApart, RolloutApart,
         Training, Evaluating
<1>3. CASE EvaluateApart
  <2>1. PICK seeded \in 1 .. Draws, next \in 1 .. Draws :
          own' = EpisodeReset([NewEpisode(pair[1], Budget, seeded) EXCEPT !.selectivity = pair[2]],
                              pair[1], next)
    BY <1>3 DEF EvaluateApart
  <2>2. Sound(own')
    BY <1>1, <2>1, NewSound, SelectedSound, ResetSound
  <2>3. TypeOK'
    BY <1>3, <2>2 DEF TypeInv, TypeOK, EvaluateApart, oracle, ewc, Sound
  <2>4. Located'
    BY <1>2, <1>3
       DEF TypeInv, Located, EvaluateApart, Training, Evaluating, Apart, LastEpisode
  <2>5. Assigned'
    BY <1>3, <2>2 DEF Assigned, EvaluateApart
  <2> QED
    BY <1>3, <2>2, <2>3, <2>4, <2>5 DEF TypeInv, EvaluateApart
<1>4. CASE \E action \in Actions : RolloutApart(action)
  <2>1. PICK action \in Actions : RolloutApart(action)
    BY <1>4
  <2>2. PICK next \in 1 .. Draws, again \in 1 .. Draws :
          own' \in {EpisodeReset(Outcome(own, action, Horizon, next).after, pair[1], again),
                    Outcome(own, action, Horizon, next).after}
    BY <2>1 DEF RolloutApart
  <2>3. Sound(own) /\ Horizon \in Nat
    BY <2>1, Constants DEF TypeInv, Assigned, RolloutApart, Horizon
  <2>4. Sound(own')
    <3>1. Sound(Outcome(own, action, Horizon, next).after)
      BY <2>3, OutcomeSound
    <3>2. Sound(EpisodeReset(Outcome(own, action, Horizon, next).after, pair[1], again))
      BY <1>1, <3>1, ResetSound
    <3> QED
      BY <2>2, <3>1, <3>2
  <2>5. /\ at = "rollout_apart" /\ at' \in {"rollout_apart", "compared"}
        /\ t' \in Nat /\ j' \in Nat
        /\ UNCHANGED <<program, cfg, pair, e, i, ep, obs, oracle, taken, ewc, saved_rng, R, stream>>
    BY <2>1 DEF RolloutApart, TypeInv, TypeOK
  <2>6. TypeOK'
    BY <2>4, <2>5 DEF TypeInv, TypeOK, oracle, ewc, Sound
  <2>7. Located'
    BY <1>2, <2>5 DEF TypeInv, Located, Training, Evaluating, Apart, LastEpisode
  <2>8. Assigned'
    BY <2>4, <2>5 DEF Assigned
  <2> QED
    BY <2>4, <2>5, <2>6, <2>7, <2>8 DEF TypeInv
<1>5. CASE EvaluatedApart
  <2>1. Sound(e')
    BY <1>1, <1>5, SelectedSound DEF TypeInv, EvaluatedApart
  <2>2. TypeOK'
    BY <1>5, <2>1 DEF TypeInv, TypeOK, EvaluatedApart, oracle, ewc, Sound
  <2>3. Located'
    BY <1>2, <1>5, Constants
       DEF TypeInv, TypeOK, Located, EvaluatedApart, Training, Evaluating, Apart, LastEpisode
  <2>4. Assigned'
    BY <1>5 DEF Assigned, EvaluatedApart
  <2> QED
    BY <1>5, <2>1, <2>2, <2>3, <2>4 DEF TypeInv, EvaluatedApart
<1> QED
  BY <1>3, <1>4, <1>5

LEMMA TypeNext == TypeInv /\ [Next]_vars => TypeInv'
<1> SUFFICES ASSUME TypeInv, [Next]_vars PROVE TypeInv'
  OBVIOUS
<1>1. CASE UNCHANGED vars
  BY <1>1 DEF vars, loops, oracle, ewc, measured, TypeInv, TypeOK, Located, Assigned, LastEpisode
<1> QED
  BY <1>1, TypeBeginTask, TypeResetEpisode, TypeAskOracle, TypeWhatIf, TypeAct, TypeEpisodeOver,
     TypeBoundary, TypeEvaluateBegins, TypeEvaluateStep, TypeEvaluateNext, TypeApart
     DEF Next, TrainEpisode

LEMMA TypeInvariant == Spec => []TypeInv
BY TypeInit, TypeNext, PTL DEF Spec

(* Every variable has its type, and no environment is ever over its budget *)
(* (cldb/sim_env.py:190-204), through resets, branches and evaluations.    *)
THEOREM TypeCorrect == Spec => []TypeOK
BY TypeInvariant, PTL DEF TypeInv


-----------------------------------------------------------------------------
(* The oracle: every valid action has been foreseen or is still to be, and *)
(* what is foreseen does not depend on what the generator draws later.     *)

(* The environment trained in, even while branches of it are tried.        *)
Env == IF at = "what_if" THEN snapshot ELSE e

Foreseen(x, action) == Counterfactual(Outcome(x, action, Horizon, 1))

OracleInv ==
  /\ at \in {"what_if", "act"} =>
       /\ taken = None
       /\ DOMAIN branches = IF cfg.counterfactual THEN ValidActions(Env.env) \ todo ELSE {}
       /\ \A action \in DOMAIN branches : branches[action] = Foreseen(Env, action)
  /\ at = "what_if" => cfg.counterfactual /\ todo \subseteq ValidActions(Env.env)
  /\ at = "act" /\ cfg.counterfactual => todo = {}
  /\ WhatIfComesTrue

LEMMA OracleInit == Init => OracleInv
BY DEF Init, OracleInv, WhatIfComesTrue

(* Away from the oracle it is enough that nothing is taken or that all     *)
(* that is read of it stays. *)
LEMMA OracleElsewhere ==
  ASSUME OracleInv, at' \notin {"what_if", "act"},
         taken' = None \/ UNCHANGED <<cfg, branches, taken>>
  PROVE  OracleInv'
BY DEF OracleInv, WhatIfComesTrue

LEMMA OracleAsks == ASSUME TypeInv, OracleInv, AskOracle PROVE OracleInv'
<1>1. /\ taken' = None /\ DOMAIN branches' = {} /\ cfg' = cfg /\ e' = e
      /\ IF cfg.counterfactual
         THEN snapshot' = e /\ todo' = ValidActions(e.env) /\ at' = "what_if"
         ELSE at' = "act"
  BY DEF AskOracle, NoBranches
<1>2. Env' = e
  BY <1>1 DEF Env
<1> QED
  BY <1>1, <1>2 DEF OracleInv, WhatIfComesTrue

LEMMA OracleBranches == ASSUME TypeInv, OracleInv, WhatIfBranch PROVE OracleInv'
<1>1. at = "what_if" /\ Rewind(e, snapshot) = snapshot /\ Env = snapshot
  BY RewindIsBack DEF WhatIfBranch, TypeInv, Assigned, Env
<1>2. PICK a \in todo :
        /\ branches' = [b \in DOMAIN branches \union {a} |->
             IF b = a THEN Foreseen(snapshot, a) ELSE branches[b]]
        /\ todo' = todo \ {a}
  BY <1>1 DEF WhatIfBranch, Foreseen
<1>3. at' = at /\ snapshot' = snapshot /\ taken' = taken /\ cfg' = cfg /\ program' = program
  BY DEF WhatIfBranch
<1>4. Env' = snapshot /\ \A x, b : Foreseen(x, b)' = Foreseen(x, b)
  BY <1>1, <1>3 DEF Env, Foreseen, Horizon
<1>5. /\ taken = None /\ cfg.counterfactual /\ todo \subseteq ValidActions(snapshot.env)
      /\ DOMAIN branches = ValidActions(snapshot.env) \ todo
      /\ \A b \in DOMAIN branches : branches[b] = Foreseen(snapshot, b)
  BY <1>1 DEF OracleInv
<1>6. /\ DOMAIN branches' = ValidActions(snapshot.env) \ todo'
      /\ \A b \in DOMAIN branches' : branches'[b] = Foreseen(snapshot, b)
  BY <1>2, <1>5
<1> HIDE DEF Foreseen
<1> QED
  BY <1>1, <1>2, <1>3, <1>4, <1>5, <1>6 DEF OracleInv, WhatIfComesTrue

LEMMA OracleEnds == ASSUME TypeInv, OracleInv, WhatIfEnds PROVE OracleInv'
<1>1. at = "what_if" /\ Rewind(e, snapshot) = snapshot /\ Env = snapshot
  BY RewindIsBack DEF WhatIfEnds, TypeInv, Assigned, Env
<1>2. /\ todo = {} /\ todo' = todo /\ e' = snapshot /\ at' = "act" /\ branches' = branches
      /\ taken' = taken /\ cfg' = cfg /\ program' = program
  BY <1>1 DEF WhatIfEnds
<1>3. Env' = snapshot /\ \A x, b : Foreseen(x, b)' = Foreseen(x, b)
  BY <1>1, <1>2 DEF Env, Foreseen, Horizon
<1>4. /\ taken = None /\ cfg.counterfactual
      /\ DOMAIN branches = ValidActions(snapshot.env) \ todo
      /\ \A b \in DOMAIN branches : branches[b] = Foreseen(snapshot, b)
  BY <1>1 DEF OracleInv
<1> QED
  BY <1>1, <1>2, <1>3, <1>4 DEF OracleInv, WhatIfComesTrue

LEMMA OracleAct ==
  ASSUME TypeInv, OracleInv, NEW action, NEW drift, Act(action, drift)
  PROVE  OracleInv'
<1>1. PICK next \in 1 .. Draws :
        /\ taken' = [action |-> action,
                     result |-> Counterfactual(Outcome(e, action, Horizon, next))]
        /\ at' \in {"episode_over", "choose"}
  BY DEF Act
<1>2. at = "act" /\ action \in ValidActions(e.env) /\ branches' = branches /\ cfg' = cfg
  BY DEF Act, oracle
<1>3. e \in Episodes
  BY DEF TypeInv, Sound
<1>4. Counterfactual(Outcome(e, action, Horizon, next)) = Foreseen(e, action)
  BY <1>3, ForeseenAnyway DEF Foreseen
<1>5. ASSUME cfg.counterfactual PROVE branches[action] = Foreseen(e, action)
  <2>1. /\ Env = e /\ todo = {} /\ DOMAIN branches = ValidActions(e.env) \ todo
        /\ \A b \in DOMAIN branches : branches[b] = Foreseen(Env, b)
    BY <1>2, <1>5 DEF OracleInv, Env
  <2> QED
    BY <1>2, <2>1
<1>6. taken'.action = action /\ taken'.result = Foreseen(e, action)
  BY <1>1, <1>4
<1>7. WhatIfComesTrue'
  BY <1>2, <1>5, <1>6 DEF WhatIfComesTrue
<1> QED
  BY <1>1, <1>7 DEF OracleInv

LEMMA OracleNext == TypeInv /\ OracleInv /\ [Next]_vars => OracleInv'
<1> SUFFICES ASSUME TypeInv, OracleInv, [Next]_vars PROVE OracleInv'
  OBVIOUS
<1>1. CASE UNCHANGED vars
  <2>1. UNCHANGED <<program, at, cfg, e, snapshot, todo, branches, taken>>
    BY <1>1 DEF vars, oracle
  <2>2. Env' = Env /\ \A x, b : Foreseen(x, b)' = Foreseen(x, b)
    BY <2>1 DEF Env, Foreseen, Horizon
  <2> QED
    BY <2>1, <2>2 DEF OracleInv, WhatIfComesTrue
<1>2. CASE BeginTask \/ ResetEpisode \/ Boundary
  BY <1>2, OracleElsewhere DEF BeginTask, ResetEpisode, Boundary, oracle
<1>3. CASE EpisodeOver
  BY <1>3, OracleElsewhere DEF EpisodeOver
<1>4. CASE EvaluateBegins \/ \E action \in Actions : EvaluateStep(action)
  BY <1>4, OracleElsewhere DEF EvaluateBegins, EvaluateStep, oracle
<1>5. CASE EvaluateNextTask \/ EvaluateNextBaseline
  BY <1>5, OracleElsewhere DEF EvaluateNextTask, EvaluateNextBaseline, EvaluateReturns, oracle
<1>6. CASE EvaluateApart \/ EvaluatedApart \/ \E action \in Actions : RolloutApart(action)
  BY <1>6, OracleElsewhere DEF EvaluateApart, EvaluatedApart, RolloutApart, oracle
<1> QED
  BY <1>1, <1>2, <1>3, <1>4, <1>5, <1>6, OracleAsks, OracleBranches, OracleEnds, OracleAct
     DEF Next, TrainEpisode

LEMMA OracleInvariant == Spec => []OracleInv
BY OracleInit, OracleNext, TypeInvariant, PTL DEF Spec

(* What the oracle foresaw of the action taken - state, reward, end of the *)
(* episode, mask of the successor - is what happens when it is taken, as   *)
(* sim_env.py:271-277 promises, whatever the branches were and whatever    *)
(* the generator draws. *)
THEOREM WhatIfTrue == Spec => []WhatIfComesTrue
BY OracleInvariant, PTL DEF OracleInv

-----------------------------------------------------------------------------
(* The world trained in: its selectivity is that of the task, or of the    *)
(* phase that truly is; its generator is where training left it.           *)

(* Has the silent drift come?  It comes after the evaluation that ends the *)
(* warm start.                                                             *)
Drifted == IF at \in Apart THEN ep - 1 > PreEpisodes ELSE ep > PreEpisodes

WorldInv ==
  /\ at \in {"choose", "what_if", "act"} => obs = Shown(Env)
  /\ program # "silent_drift" => Env.selectivity = Coupled
  /\ program = "silent_drift" /\ at \in Training \cup Apart =>
       Env.selectivity = IF Drifted THEN pair[2] ELSE pair[1]
  /\ at \in Apart => ep - 1 >= PreEpisodes
  /\ program = "sequence" /\ at \in Training => Env.env.task = TaskOrder[i]
  /\ program # "baseline" =>
       IF at = "rollout" THEN saved_rng = stream ELSE Env.env.rng = stream

LEMMA WorldInit == Init => WorldInv
<1> SUFFICES ASSUME Init PROVE WorldInv
  OBVIOUS
<1>1. at \in {"task", "evaluate"} /\ Env = e /\ stream = e.env.rng
  BY DEF Init, Env
<1>2. e.selectivity = Coupled
  BY DEF Init, NewEpisode
<1> QED
  BY <1>1, <1>2 DEF WorldInv, Training, Apart

LEMMA WorldBeginTask == ASSUME TypeInv, WorldInv, BeginTask PROVE WorldInv'
<1>1. /\ at = "task" /\ at' = "reset" /\ Env = e /\ Env' = e' /\ ep' = 1
      /\ UNCHANGED <<program, pair, i, stream>>
      /\ program \in {"sequence", "silent_drift"}
  BY DEF BeginTask, Env, TypeInv, TypeOK, Located, Evaluating
<1>2. ~Drifted'
  BY <1>1, Constants DEF Drifted, Apart
<1>3. Sound(e)
  BY DEF TypeInv
<1>4. CASE program = "sequence"
  <2>1. e' = [e EXCEPT !.env.task = TaskOrder[i]] /\ TaskOrder[i] \in Tasks
    <3>1. i \in 1 .. Len(TaskOrder)
      BY <1>1, <1>4 DEF TypeInv, Located
    <3> QED
      BY <1>4, <3>1, Constants DEF BeginTask
  <2>2. /\ e'.selectivity = e.selectivity /\ e'.env.task = TaskOrder[i]
        /\ e'.env.rng = e.env.rng
    BY <1>3, <2>1, RetaskedSound
  <2> QED
    BY <1>1, <1>4, <2>2 DEF WorldInv, Apart
<1>5. CASE program = "silent_drift"
  <2> DEFINE y == [e EXCEPT !.env.task = pair[1]]
  <2>1. pair[1] \in Tasks
    BY Constants DEF TypeInv, TypeOK
  <2>2. Sound(y) /\ y.env.rng = e.env.rng
    BY <1>3, <2>1, RetaskedSound
  <2>3. e' = [y EXCEPT !.selectivity = pair[1]]
    <3>1. e' = [e EXCEPT !.env.task = pair[1], !.selectivity = pair[1]]
      BY <1>5 DEF BeginTask
    <3>2. \A p : [e EXCEPT !.env.task = p, !.selectivity = p]
                 = [[e EXCEPT !.env.task = p] EXCEPT !.selectivity = p]
      OBVIOUS
    <3> QED
      BY <3>1, <3>2
  <2> HIDE DEF y
  <2>4. e'.selectivity = pair[1] /\ e'.env.rng = e.env.rng
    BY <2>1, <2>2, <2>3, SelectedSound
  <2> QED
    BY <1>1, <1>2, <1>5, <2>4 DEF WorldInv, Apart
<1> QED
  BY <1>1, <1>4, <1>5

LEMMA WorldResetEpisode == ASSUME TypeInv, WorldInv, ResetEpisode PROVE WorldInv'
<1> DEFINE task == IF program = "sequence" THEN TaskOrder[i] ELSE e.env.task
<1>1. /\ at = "reset" /\ at' = "choose" /\ Env = e /\ Env' = e' /\ obs' = Shown(e')
      /\ stream' = e'.env.rng /\ UNCHANGED <<program, pair, i, ep>>
  BY DEF ResetEpisode, Env
<1>2. task \in Tasks
  BY <1>1, Constants, Fields DEF TypeInv, TypeOK, Located, Sound
<1>3. e'.selectivity = e.selectivity /\ e'.env.task = task
  <2>1. PICK next \in 1 .. Draws : e' = EpisodeReset(e, task, next)
    BY DEF ResetEpisode
  <2> QED
    BY <1>2, <2>1, ResetSound DEF TypeInv
<1> QED
  BY <1>1, <1>3 DEF WorldInv, Drifted, Training, Apart

(* Branches leave the world as it was. *)
LEMMA WorldOracle ==
  ASSUME TypeInv, WorldInv, AskOracle \/ WhatIfBranch \/ WhatIfEnds
  PROVE  WorldInv'
<1>1. Env' = Env
  BY RewindIsBack DEF AskOracle, WhatIfBranch, WhatIfEnds, Env, TypeInv, Assigned
<1>2. /\ at \in {"choose", "what_if"} /\ at' \in {"what_if", "act"}
      /\ UNCHANGED <<program, pair, i, ep, obs, stream>>
  BY DEF AskOracle, WhatIfBranch, WhatIfEnds, loops
<1> QED
  BY <1>1, <1>2 DEF WorldInv, Drifted, Training, Apart

LEMMA WorldAct ==
  ASSUME TypeInv, WorldInv, NEW action, NEW drift, Act(action, drift)
  PROVE  WorldInv'
<1>1. /\ at = "act" /\ at' \in {"episode_over", "choose"} /\ Env = e /\ Env' = e'
      /\ obs' = Shown(e') /\ stream' = e'.env.rng /\ UNCHANGED <<program, pair, i, ep>>
  BY DEF Act, Env
<1>2. e'.selectivity = e.selectivity /\ e'.env.task = e.env.task
  <2>1. PICK next \in 1 .. Draws : e' = Outcome(e, action, Horizon, next).after
    BY DEF Act
  <2>2. Horizon \in Nat /\ Sound(e)
    BY Constants DEF Horizon, TypeInv
  <2> QED
    BY <2>1, <2>2, OutcomeSound
<1> QED
  BY <1>1, <1>2 DEF WorldInv, Drifted, Training, Apart

LEMMA WorldEpisodeOver == ASSUME TypeInv, WorldInv, EpisodeOver PROVE WorldInv'
<1>1. /\ at = "episode_over" /\ at' \in {"evaluate_apart", "reset", "boundary"}
      /\ Env = e /\ Env' = e /\ ep \in Nat /\ ep' = ep + 1
      /\ UNCHANGED <<program, pair, i, stream>>
  BY DEF EpisodeOver, Env, TypeInv, TypeOK
<1>2. program = "silent_drift" =>
        \/ at' = "evaluate_apart" /\ ep >= PreEpisodes
        \/ at' = "reset" /\ ep < PreEpisodes
  BY <1>1, Constants DEF EpisodeOver, LastEpisode
<1>3. program # "silent_drift" => at' # "evaluate_apart"
  BY DEF EpisodeOver
<1>4. program = "silent_drift" => Drifted' = Drifted
  BY <1>1, <1>2, Constants DEF Drifted, Apart
<1>5. at' \in Apart => ep' - 1 >= PreEpisodes
  BY <1>1, <1>2, <1>3, Constants DEF Apart
<1> QED
  BY <1>1, <1>4, <1>5 DEF WorldInv, Training, Apart

LEMMA WorldBoundary == ASSUME TypeInv, WorldInv, Boundary PROVE WorldInv'
<1>1. /\ at = "boundary" /\ at' = "evaluate" /\ Env = e /\ Env' = e
      /\ UNCHANGED <<program, stream>>
  BY DEF Boundary, Env
<1>2. program # "silent_drift"
  BY <1>1 DEF TypeInv, Located, Training, Apart
<1> QED
  BY <1>1, <1>2 DEF WorldInv, Training, Apart

LEMMA WorldEvaluation ==
  ASSUME TypeInv, WorldInv,
         \/ EvaluateBegins \/ EvaluateNextTask \/ EvaluateNextBaseline
         \/ \E action \in Actions : EvaluateStep(action)
  PROVE  WorldInv'
<1>1. /\ at \in Evaluating /\ at' \in {"evaluate", "rollout", "task", "over"} /\ Env = e /\ Env' = e'
      /\ UNCHANGED <<program, stream>>
  BY DEF EvaluateBegins, EvaluateNextTask, EvaluateNextBaseline, EvaluateReturns, EvaluateStep,
         Evaluating, Env
<1>2. program # "silent_drift" /\ Sound(e) /\ Horizon \in Nat /\ e.env.task \in Tasks
  BY <1>1, Constants, Fields DEF TypeInv, Located, Training, Evaluating, Apart, Horizon, Sound
<1>3. CASE EvaluateBegins
  <2>1. TaskOrder[j] \in Tasks
    <3>1. j \in 1 .. Len(TaskOrder)
      BY <1>3, Constants DEF TypeInv, TypeOK, Located, EvaluateBegins, Training, Evaluating, Apart
    <3> QED
      BY <3>1, Constants
  <2>2. PICK seeded \in 1 .. Draws, next \in 1 .. Draws :
          e' = EpisodeReset([e EXCEPT !.env.rng = seeded], TaskOrder[j], next)
    BY <1>3 DEF EvaluateBegins
  <2>3. e'.selectivity = e.selectivity
    <3> DEFINE y == [e EXCEPT !.env.rng = seeded]
    <3>1. Sound(y) /\ y.selectivity = e.selectivity
      BY <1>2, ReseededSound
    <3>2. e' = EpisodeReset(y, TaskOrder[j], next)
      BY <2>2
    <3> HIDE DEF y
    <3> QED
      BY <2>1, <3>1, <3>2, ResetSound
  <2>4. at = "evaluate" /\ at' = "rollout" /\ saved_rng' = e.env.rng
    BY <1>3 DEF EvaluateBegins
  <2> QED
    BY <1>1, <1>2, <2>3, <2>4 DEF WorldInv, Training, Apart
<1>4. CASE \E action \in Actions : EvaluateStep(action)
  <2>1. PICK action \in Actions : EvaluateStep(action)
    BY <1>4
  <2>2. PICK next \in 1 .. Draws, again \in 1 .. Draws :
          e' = IF Outcome(e, action, Horizon, next).done
               THEN EpisodeReset(Outcome(e, action, Horizon, next).after, e.env.task, again)
               ELSE Outcome(e, action, Horizon, next).after
    BY <2>1 DEF EvaluateStep
  <2>3. e'.selectivity = e.selectivity
    BY <1>2, <2>2, OutcomeSound, ResetSound
  <2>4. at = "rollout" /\ at' = "rollout" /\ saved_rng' = saved_rng
    BY <2>1 DEF EvaluateStep, measured
  <2> QED
    BY <1>1, <1>2, <2>3, <2>4 DEF WorldInv, Training, Apart
<1>5. CASE EvaluateNextTask \/ EvaluateNextBaseline
  <2>1. at = "rollout" /\ e' = [e EXCEPT !.env.rng = saved_rng] /\ at' # "rollout"
    BY <1>5 DEF EvaluateNextTask, EvaluateNextBaseline, EvaluateReturns, RngAfterEvaluation
  <2>2. e'.selectivity = e.selectivity /\ e'.env.rng = saved_rng
    BY <1>2, <2>1, ReseededSound DEF TypeInv, Assigned
  <2> QED
    BY <1>1, <1>2, <2>1, <2>2 DEF WorldInv, Training, Apart
<1> QED
  BY <1>3, <1>4, <1>5

LEMMA WorldApart ==
  ASSUME TypeInv, WorldInv, \/ EvaluateApart \/ EvaluatedApart
                            \/ \E action \in Actions : RolloutApart(action)
  PROVE  WorldInv'
<1>1. /\ at \in Apart /\ Env = e /\ Env' = e' /\ UNCHANGED <<program, pair, ep, stream>>
      /\ ep \in Nat /\ pair[2] \in Tasks
  BY Constants DEF EvaluateApart, EvaluatedApart, RolloutApart, Apart, Env, TypeInv, TypeOK
<1>2. program = "silent_drift"
  BY <1>1 DEF TypeInv, TypeOK, Located, Training, Evaluating, Apart
<1>3. CASE EvaluateApart \/ \E action \in Actions : RolloutApart(action)
  <2>1. e' = e /\ at' \in Apart
    BY <1>3 DEF EvaluateApart, RolloutApart, Apart
  <2> QED
    BY <1>1, <1>2, <2>1 DEF WorldInv, Drifted, Training, Apart
<1>4. CASE EvaluatedApart
  <2>1. /\ e' = IF ep - 1 = PreEpisodes THEN [e EXCEPT !.selectivity = pair[2]] ELSE e
        /\ at' \in {"over", "reset"}
    BY <1>4 DEF EvaluatedApart
  <2>2. e'.env = e.env /\ (ep - 1 = PreEpisodes => e'.selectivity = pair[2])
    BY <1>1, <2>1, SelectedSound DEF TypeInv
  <2>3. ep - 1 >= PreEpisodes /\ PreEpisodes \in Nat
    BY <1>1, Constants DEF WorldInv
  <2>4. Drifted' /\ (Drifted <=> ep - 1 # PreEpisodes)
    BY <1>1, <2>1, <2>3 DEF Drifted, Apart
  <2>5. e'.selectivity = pair[2]
    BY <1>1, <1>2, <2>1, <2>2, <2>4 DEF WorldInv
  <2> QED
    BY <1>1, <1>2, <2>1, <2>2, <2>4, <2>5 DEF WorldInv, Training, Apart
<1> QED
  BY <1>3, <1>4

LEMMA WorldNext == TypeInv /\ WorldInv /\ [Next]_vars => WorldInv'
<1> SUFFICES ASSUME TypeInv, WorldInv, [Next]_vars PROVE WorldInv'
  OBVIOUS
<1>1. CASE UNCHANGED vars
  BY <1>1 DEF vars, loops, oracle, measured, WorldInv, Drifted, Env
<1> QED
  BY <1>1, WorldBeginTask, WorldResetEpisode, WorldOracle, WorldAct, WorldEpisodeOver,
     WorldBoundary, WorldEvaluation, WorldApart
     DEF Next, TrainEpisode

LEMMA WorldInvariant == Spec => []WorldInv
BY WorldInit, WorldNext, TypeInvariant, PTL DEF Spec

(* What an index for the current query brings: exactly when its predicate  *)
(* is selective, more than it costs.                                       *)
LEMMA WorthOfAnIndex ==
  ASSUME NEW x, Sound(x), {"keep", "create"} \subseteq ValidActions(x.env)
  PROVE  Reward(Indexed(x, "create"), TRUE) > Reward(Indexed(x, "keep"), FALSE)
           <=> IsSelective(x)
<1> DEFINE n == Cardinality(x.env.active)
           kept == Indexed(x, "keep")
           built == Indexed(x, "create")
<1>1. /\ x.env.sql # {} /\ ~Covered(x.env)
      /\ IsFiniteSet(x.env.active) /\ n \in Nat
  BY FS_CardinalityType DEF ValidActions, Sound
<1>2. /\ kept.env.active = x.env.active /\ kept.env.sql = x.env.sql
      /\ built.env.active = x.env.active \union {x.env.sql} /\ built.env.sql = x.env.sql
  BY DEF Indexed, Effect, Reindexed
<1>3. IsSelective(built) = IsSelective(x) /\ IsSelective(kept) = IsSelective(x)
  BY DEF Indexed, IsSelective, SelectivityOf
<1>4. ~Covered(kept.env) /\ Covered(built.env)
  BY <1>1, <1>2 DEF Covered
<1>5. /\ Latency(kept) = Expensive
      /\ Latency(built) = IF IsSelective(x) THEN Cheap ELSE Expensive
  BY <1>3, <1>4 DEF Latency
<1>6. Cardinality(built.env.active) = n + 1
  <2>1. x.env.sql \notin x.env.active
    BY <1>1 DEF Covered
  <2> QED
    BY <1>1, <1>2, <2>1, FS_AddElement
<1>7. /\ Expensive \in Nat /\ Cheap \in Nat /\ ResourceCost \in Nat /\ BuildCost \in Nat
      /\ Cheap + ResourceCost + BuildCost < Expensive
  BY EpisodeAssumption, WorthBuilding DEF EpisodeAssumption, WorthBuilding
<1>8. /\ ResourceCost * n \in Nat
      /\ ResourceCost * (n + 1) = ResourceCost * n + ResourceCost
  BY <1>1, <1>7
<1>9. /\ Reward(kept, FALSE) = -(Expensive + ResourceCost * n) - 0
       /\ Reward(built, TRUE)
            = -((IF IsSelective(x) THEN Cheap ELSE Expensive) + (ResourceCost * n + ResourceCost))
                - BuildCost
  BY <1>2, <1>5, <1>6, <1>8 DEF Reward
<1> HIDE DEF n, kept, built
<1>10. ASSUME NEW m \in Nat
       PROVE  /\ -(Cheap + (m + ResourceCost)) - BuildCost > -(Expensive + m) - 0
              /\ ~(-(Expensive + (m + ResourceCost)) - BuildCost > -(Expensive + m) - 0)
  BY <1>7
<1>11. Reward(built, TRUE) > Reward(kept, FALSE) <=> IsSelective(x)
  <2>1. CASE IsSelective(x)
    BY <1>8, <1>9, <1>10, <2>1
  <2>2. CASE ~IsSelective(x)
    BY <1>8, <1>9, <1>10, <2>2
  <2> QED
    BY <2>1, <2>2
<1> QED
  BY <1>11 DEF built, kept

LEMMA ForeseenReward ==
  ASSUME NEW x \in Episodes, NEW action \in ValidActions(x.env)
  PROVE  Foreseen(x, action).reward = Reward(Indexed(x, action), action = "create")
<1>1. Effect(x, action) = action
  BY DEF Effect
<1>2. Outcome(x, action, Horizon, 1).reward = Reward(Indexed(x, action), action = "create")
  BY <1>1, OutcomeIs
<1> QED
  BY <1>2 DEF Foreseen, Counterfactual

LEMMA RankingOfWorld ==
  ASSUME TypeInv, OracleInv, WorldInv PROVE RankingFollowsSelectivity
<1> SUFFICES ASSUME at = "act", {"keep", "create"} \subseteq DOMAIN branches
             PROVE  branches["create"].reward > branches["keep"].reward
                      <=> obs.query.sql \intersect TrueSelectivity # {}
  BY DEF RankingFollowsSelectivity
<1>1. Env = e /\ Sound(e) /\ e \in Episodes
  BY DEF Env, TypeInv, Sound
<1>2. /\ {"keep", "create"} \subseteq ValidActions(e.env)
      /\ branches["keep"] = Foreseen(e, "keep")
      /\ branches["create"] = Foreseen(e, "create")
  BY <1>1 DEF OracleInv
<1>3. /\ branches["keep"].reward = Reward(Indexed(e, "keep"), FALSE)
      /\ branches["create"].reward = Reward(Indexed(e, "create"), TRUE)
  <2>1. ("keep" = "create") = FALSE /\ ("create" = "create") = TRUE
    OBVIOUS
  <2>2. /\ Foreseen(e, "keep").reward = Reward(Indexed(e, "keep"), "keep" = "create")
        /\ Foreseen(e, "create").reward = Reward(Indexed(e, "create"), "create" = "create")
    BY <1>1, <1>2, ForeseenReward
  <2> QED
    BY <1>2, <2>1, <2>2
<1>4. SelectivityOf(e) = TrueSelectivity
  <2>1. program \in {"sequence", "silent_drift"}
    BY DEF TypeInv, TypeOK, Located, Evaluating
  <2>2. at \in Training /\ at \notin Apart
    BY DEF Training, Apart
  <2>3. pair[1] \in Tasks /\ pair[2] \in Tasks /\ Coupled \notin Tasks
    BY Constants, EpisodeAssumption DEF TypeInv, TypeOK, EpisodeAssumption
  <2>4. CASE program = "sequence"
    BY <1>1, <2>2, <2>4 DEF WorldInv, SelectivityOf, TrueSelectivity
  <2>5. CASE program = "silent_drift"
    <3>1. e.selectivity = IF ep > PreEpisodes THEN pair[2] ELSE pair[1]
      BY <1>1, <2>2, <2>5 DEF WorldInv, Drifted
    <3>2. ep \in Nat /\ PreEpisodes \in Nat
      BY Constants DEF TypeInv, TypeOK
    <3> QED
      BY <2>3, <2>5, <3>1, <3>2 DEF SelectivityOf, TrueSelectivity
  <2> QED
    BY <2>1, <2>4, <2>5
<1>5. obs.query.sql = e.env.sql
  BY <1>1 DEF WorldInv, Shown, ObsOf
<1> QED
  BY <1>1, <1>2, <1>3, <1>4, <1>5, WorthOfAnIndex DEF IsSelective

(* With the costs of the code, the only signal of a silent drift is the    *)
(* true one (run_cwil_ablation.py:6-7): creating an index is foreseen to   *)
(* be worth more than keeping exactly when the predicate is selective in   *)
(* the phase that truly is, before the drift and after it.                 *)
THEOREM OracleRanksTruly == Spec => []RankingFollowsSelectivity
BY RankingOfWorld, TypeInvariant, OracleInvariant, WorldInvariant, PTL

-----------------------------------------------------------------------------
(* Consolidation: what was not consolidated is of the task under way, and  *)
(* something of it is consolidated or waits for it once it was trained on. *)

ConsolidationInv ==
  cfg.ewc =>
    /\ program = "sequence"
    /\ \A r \in registered : r.states = {TaskOrder[r.name.task]}
    /\ \A k \in 1 .. i - 1 : \E r \in registered : r.name.task = k
    /\ at \in Training \union {"boundary"} => pending \subseteq {TaskOrder[i]}
    /\ at \in {"task"} \union Evaluating => pending = {}
    /\ at \in {"episode_over", "boundary"} \union Evaluating =>
         pending # {} \/ \E r \in registered : r.name.task = i

LEMMA ConsolidationInit == Init => ConsolidationInv
BY DEF Init, ConsolidationInv, Training, Evaluating

(* A consolidation of states of the task under way. *)
LEMMA ConsolidationOf ==
  ASSUME NEW source, NEW states, states = {TaskOrder[i]}, i \in Nat,
         \A r \in registered : r.states = {TaskOrder[r.name.task]},
         Consolidate(PhaseName(source), states)
  PROVE  /\ \A r \in registered' : r.states = {TaskOrder[r.name.task]}
         /\ registered \subseteq registered'
         /\ \E r \in registered' : r.name.task = i
<1> DEFINE new == [name |-> [task |-> i, source |-> source], states |-> states]
<1>1. registered' = registered \union {new} /\ new.name.task = i /\ new.states = {TaskOrder[i]}
  BY DEF Consolidate, PhaseName
<1> HIDE DEF new
<1> QED
  BY <1>1

LEMMA ConsolidationAct ==
  ASSUME TypeInv, WorldInv, ConsolidationInv, NEW action, NEW drift \in BOOLEAN,
         Act(action, drift)
  PROVE  ConsolidationInv'
<1> SUFFICES ASSUME cfg'.ewc PROVE ConsolidationInv'
  BY DEF ConsolidationInv
<1>1. /\ at = "act" /\ at' \in {"episode_over", "choose"} /\ UNCHANGED <<program, cfg, i>>
      /\ i \in Nat
  BY DEF Act, TypeInv, TypeOK
<1>2. /\ program = "sequence"
      /\ \A r \in registered : r.states = {TaskOrder[r.name.task]}
      /\ \A k \in 1 .. i - 1 : \E r \in registered : r.name.task = k
      /\ pending \subseteq {TaskOrder[i]}
  BY <1>1 DEF ConsolidationInv, Training
<1>3. pending \union {e.env.task} = {TaskOrder[i]}
  BY <1>1, <1>2 DEF WorldInv, Env, Training
<1>4. CASE drift
  <2>1. Consolidate(PhaseName(task_drift + 1), {TaskOrder[i]}) /\ pending' = {}
    BY <1>1, <1>2, <1>3, <1>4 DEF Act
  <2>2. /\ \A r \in registered' : r.states = {TaskOrder[r.name.task]}
        /\ registered \subseteq registered'
        /\ \E r \in registered' : r.name.task = i
    BY <1>1, <1>2, <2>1, ConsolidationOf
  <2> QED
    BY <1>1, <1>2, <2>1, <2>2 DEF ConsolidationInv, Evaluating
<1>5. CASE ~drift
  <2>1. pending' = {TaskOrder[i]} /\ registered' = registered
    BY <1>2, <1>3, <1>5 DEF Act
  <2> QED
    BY <1>1, <1>2, <2>1 DEF ConsolidationInv, Evaluating
<1> QED
  BY <1>4, <1>5

LEMMA ConsolidationBoundary ==
  ASSUME TypeInv, ConsolidationInv, Boundary PROVE ConsolidationInv'
<1> SUFFICES ASSUME cfg'.ewc PROVE ConsolidationInv'
  BY DEF ConsolidationInv
<1>1. /\ at = "boundary" /\ at' = "evaluate" /\ UNCHANGED <<program, cfg, i>> /\ i \in Nat
  BY DEF Boundary, TypeInv, TypeOK
<1>2. /\ program = "sequence"
      /\ \A r \in registered : r.states = {TaskOrder[r.name.task]}
      /\ \A k \in 1 .. i - 1 : \E r \in registered : r.name.task = k
      /\ pending \subseteq {TaskOrder[i]}
      /\ pending # {} \/ \E r \in registered : r.name.task = i
  BY <1>1 DEF ConsolidationInv
<1>3. CASE pending = {}
  <2>1. pending' = {} /\ registered' = registered
    BY <1>3 DEF Boundary, NeedsBoundary
  <2> QED
    BY <1>1, <1>2, <1>3, <2>1 DEF ConsolidationInv, Training, Evaluating
<1>4. CASE pending # {}
  <2>1. Consolidate(PhaseName(0), pending) /\ pending' = {} /\ pending = {TaskOrder[i]}
    BY <1>1, <1>2, <1>4 DEF Boundary, NeedsBoundary
  <2>2. /\ \A r \in registered' : r.states = {TaskOrder[r.name.task]}
        /\ registered \subseteq registered'
        /\ \E r \in registered' : r.name.task = i
    BY <1>1, <1>2, <2>1, ConsolidationOf
  <2> QED
    BY <1>1, <1>2, <2>1, <2>2 DEF ConsolidationInv, Training, Evaluating
<1> QED
  BY <1>3, <1>4

LEMMA ConsolidationEvaluateNext ==
  ASSUME TypeInv, ConsolidationInv, EvaluateNextTask PROVE ConsolidationInv'
<1> SUFFICES ASSUME cfg'.ewc PROVE ConsolidationInv'
  BY DEF ConsolidationInv
<1>1. /\ at = "rollout" /\ at' \in {"evaluate", "task", "over"} /\ i \in Nat
      /\ UNCHANGED <<program, cfg, pending, registered>>
      /\ \/ at' = "evaluate" /\ i' = i
         \/ at' # "evaluate" /\ i' = i + 1
  BY DEF EvaluateNextTask, EvaluateReturns, ewc, TypeInv, TypeOK
<1>2. /\ program = "sequence"
      /\ \A r \in registered : r.states = {TaskOrder[r.name.task]}
      /\ \A k \in 1 .. i - 1 : \E r \in registered : r.name.task = k
      /\ pending = {}
      /\ \E r \in registered : r.name.task = i
  BY <1>1 DEF ConsolidationInv, Evaluating
<1>3. \A k \in 1 .. i' - 1 : \E r \in registered : r.name.task = k
  BY <1>1, <1>2
<1> QED
  BY <1>1, <1>2, <1>3 DEF ConsolidationInv, Training, Evaluating

LEMMA ConsolidationNext == TypeInv /\ WorldInv /\ ConsolidationInv /\ [Next]_vars => ConsolidationInv'
<1> SUFFICES ASSUME TypeInv, WorldInv, ConsolidationInv, [Next]_vars PROVE ConsolidationInv'
  OBVIOUS
<1>1. CASE UNCHANGED vars
  BY <1>1 DEF vars, loops, ewc, ConsolidationInv
<1>2. CASE BeginTask \/ EpisodeOver
  BY <1>2 DEF BeginTask, EpisodeOver, ewc, ConsolidationInv, Training, Evaluating
<1>3. CASE ResetEpisode \/ AskOracle \/ WhatIfBranch \/ WhatIfEnds
  BY <1>3 DEF ResetEpisode, AskOracle, WhatIfBranch, WhatIfEnds, loops, ewc, ConsolidationInv,
              Training, Evaluating
<1>4. CASE EvaluateBegins \/ \E action \in Actions : EvaluateStep(action)
  BY <1>4 DEF EvaluateBegins, EvaluateStep, ewc, ConsolidationInv, Training, Evaluating
<1>5. CASE EvaluateNextBaseline
  BY <1>5 DEF EvaluateNextBaseline, EvaluateReturns, ConsolidationInv
<1>6. CASE EvaluateApart \/ EvaluatedApart \/ \E action \in Actions : RolloutApart(action)
  <2>1. at \in Apart
    BY <1>6 DEF EvaluateApart, EvaluatedApart, RolloutApart, Apart
  <2>2. ~cfg.ewc
    BY <2>1 DEF TypeInv, Located, ConsolidationInv, Training, Evaluating, Apart
  <2>3. cfg' = cfg
    BY <1>6 DEF EvaluateApart, EvaluatedApart, RolloutApart
  <2> QED
    BY <2>2, <2>3 DEF ConsolidationInv
<1> QED
  BY <1>1, <1>2, <1>3, <1>4, <1>5, <1>6, ConsolidationAct, ConsolidationBoundary,
     ConsolidationEvaluateNext
     DEF Next, TrainEpisode

LEMMA ConsolidationInvariant == Spec => []ConsolidationInv
BY ConsolidationInit, ConsolidationNext, TypeInvariant, WorldInvariant, PTL DEF Spec

(* "Boundary fallback so EWC always sees each phase" (run_rl_evaluation.py *)
(* :154): whenever a task is evaluated, every task so far is consolidated, *)
(* each under its name and with no states of another, wherever the         *)
(* detector reported drifts.                                               *)
THEOREM PhasesConsolidated == Spec => []EveryPhaseIsConsolidated
<1>1. TypeInv /\ ConsolidationInv => EveryPhaseIsConsolidated
  <2> SUFFICES ASSUME TypeInv, ConsolidationInv, cfg.ewc, at \in {"evaluate", "rollout"}
               PROVE  /\ pending = {}
                      /\ \A r \in registered : r.states = {TaskOrder[r.name.task]}
                      /\ \A k \in 1 .. i : \E r \in registered : r.name.task = k
    BY DEF EveryPhaseIsConsolidated
  <2>1. i \in Nat
    BY DEF TypeInv, TypeOK
  <2> QED
    BY <2>1 DEF ConsolidationInv, Evaluating
<1> QED
  BY <1>1, TypeInvariant, ConsolidationInvariant, PTL

-----------------------------------------------------------------------------
(* Measurements: what is entered is what is due, each of its own task and  *)
(* phase.                                                                  *)

Entries == {<<r.row, r.column>> : r \in R}

(* The entry is due where the script is.                                   *)
IsDue(row, column) ==
  CASE program = "sequence" -> row < i \/ (row = i /\ at \in Evaluating /\ column < j)
    [] program = "baseline" -> row < i \/ (row = i /\ column < j)
    [] OTHER -> row < IF at \in Apart THEN ep - 1 ELSE ep

MeasureInv ==
  /\ Entries \subseteq Read
  /\ \A p \in Read : p \in Entries <=> IsDue(p[1], p[2])
  /\ \A r \in R :
       IF program = "silent_drift" THEN r.task = pair[1] /\ r.selective = Selective[pair[2]]
       ELSE r.task = TaskOrder[r.column] /\ r.selective = Selective[r.task]
  /\ program = "silent_drift" /\ at = "task" => ep = 1
  /\ at = "rollout" => e.env.task = TaskOrder[j]
  /\ at \in {"rollout_apart", "compared"} =>
       own.env.task = pair[1] /\ own.selectivity = pair[2]
  /\ at = "over" => \A p \in Read : IsDue(p[1], p[2])

(* Both of an entry's numbers, in the range its benchmark has.             *)
LEMMA ReadIs ==
  ASSUME TypeInv, NEW p \in Read
  PROVE  /\ p = <<p[1], p[2]>> /\ p[1] \in Nat /\ p[2] \in Nat /\ p[1] >= 1
         /\ program = "sequence" => p[2] >= 1 /\ p[2] <= p[1] /\ p[1] <= Len(TaskOrder)
         /\ program = "baseline" => p[2] >= 1 /\ p[2] <= Len(TaskOrder) /\ p[1] <= 3
         /\ program = "silent_drift" =>
              p[2] = 0 /\ p[1] >= PreEpisodes /\ p[1] <= LastEpisode
<1>1. Len(Policies) = 3
  BY DEF Policies
<1>2. CASE program = "sequence"
  BY <1>2, Constants DEF Read
<1>3. CASE program = "baseline"
  BY <1>1, <1>3, Constants DEF Read
<1>4. CASE program = "silent_drift"
  BY <1>4, Constants DEF Read, LastEpisode
<1> QED
  BY <1>2, <1>3, <1>4 DEF TypeInv, TypeOK

LEMMA Entered ==
  ASSUME NEW row, NEW column, NEW measuring, Enter(row, column, measuring)
  PROVE  /\ Entries' = Entries \union {<<row, column>>}
         /\ \A r \in R' : \/ r \in R
                          \/ /\ r.column = column /\ r.task = measuring.env.task
                             /\ r.selective = SelectivityOf(measuring)
<1> DEFINE new == [row |-> row, column |-> column, task |-> measuring.env.task,
                   selective |-> SelectivityOf(measuring)]
<1>1. /\ R' = R \union {new} /\ new.row = row /\ new.column = column
      /\ new.task = measuring.env.task /\ new.selective = SelectivityOf(measuring)
  BY DEF Enter
<1> HIDE DEF new
<1>2. Entries' = {<<r.row, r.column>> : r \in R'}
  BY DEF Entries
<1> QED
  BY <1>1, <1>2 DEF Entries

LEMMA MeasureInit == Init => MeasureInv
<1> SUFFICES ASSUME Init PROVE MeasureInv
  OBVIOUS
<1>1. TypeInv
  BY TypeInit
<1>2. R = {} /\ Entries = {} /\ i = 1 /\ j = 1 /\ ep = 1 /\ at \in {"task", "evaluate"}
      /\ (program = "sequence" => at = "task")
  BY DEF Init, Entries
<1>3. ASSUME NEW p \in Read PROVE ~IsDue(p[1], p[2])
  BY <1>1, <1>2, <1>3, ReadIs, Constants DEF IsDue, Evaluating, Apart, TypeInv, TypeOK
<1> QED
  BY <1>2, <1>3 DEF MeasureInv

(* Elsewhere nothing is measured, and nothing more becomes due.            *)
LEMMA MeasureElsewhere ==
  ASSUME MeasureInv, UNCHANGED <<program, pair, R>>,
         at' \notin {"rollout", "rollout_apart", "compared", "over"},
         program = "silent_drift" /\ at' = "task" => ep' = 1,
         \A p \in Read : IsDue(p[1], p[2])' <=> IsDue(p[1], p[2])
  PROVE  MeasureInv'
<1>1. Entries' = Entries /\ Read' = Read
  BY DEF Entries, Read, LastEpisode
<1> QED
  BY <1>1 DEF MeasureInv

LEMMA MeasureTraining ==
  ASSUME TypeInv, MeasureInv,
         \/ BeginTask \/ ResetEpisode \/ AskOracle \/ WhatIfBranch \/ WhatIfEnds \/ EpisodeOver
         \/ Boundary \/ \E action \in Actions, drift \in BOOLEAN : Act(action, drift)
  PROVE  MeasureInv'
<1>1. UNCHANGED <<program, pair, i, R>>
  BY DEF BeginTask, ResetEpisode, AskOracle, WhatIfBranch, WhatIfEnds, EpisodeOver, Boundary,
         Act, loops, measured
<1>2. /\ at \in Training \union {"task", "boundary"}
      /\ at' \in {"reset", "choose", "what_if", "act", "episode_over", "boundary", "evaluate",
                  "evaluate_apart"}
      /\ at \notin Evaluating \union Apart
  BY DEF BeginTask, ResetEpisode, AskOracle, WhatIfBranch, WhatIfEnds, EpisodeOver, Boundary,
         Act, Training, Evaluating, Apart
<1>3. program # "baseline" /\ ep \in Nat /\ i \in Nat
  BY <1>2 DEF TypeInv, TypeOK, Located, Training, Evaluating
<1>4. ASSUME NEW p \in Read PROVE IsDue(p[1], p[2])' <=> IsDue(p[1], p[2])
  <2>1. /\ p[1] \in Nat /\ p[2] \in Nat /\ p[1] >= 1 /\ PreEpisodes \in Nat \ {0}
        /\ program = "sequence" => p[2] >= 1
        /\ program = "silent_drift" => p[1] >= PreEpisodes
    BY ReadIs, Constants
  <2>2. CASE program = "sequence"
    <3>1. at' \in Evaluating => j' = 1
      BY <1>2, <2>2 DEF Evaluating, BeginTask, ResetEpisode, AskOracle, WhatIfBranch, WhatIfEnds,
                        EpisodeOver, Boundary, Act
    <3>2. IsDue(p[1], p[2]) <=> p[1] < i
      BY <1>2, <2>2 DEF IsDue
    <3>3. IsDue(p[1], p[2])' <=> p[1] < i
      BY <1>1, <2>1, <2>2, <3>1 DEF IsDue
    <3> QED
      BY <3>2, <3>3
  <2>3. CASE program = "silent_drift"
    <3>1. IsDue(p[1], p[2]) <=> p[1] < ep
      BY <1>2, <2>3 DEF IsDue
    <3>2. IsDue(p[1], p[2])' <=> p[1] < IF at' \in Apart THEN ep' - 1 ELSE ep'
      BY <1>1, <2>3 DEF IsDue
    <3>3. CASE BeginTask
      <4>1. ep = 1 /\ ep' = 1 /\ at' = "reset"
        BY <2>3, <3>3 DEF BeginTask, MeasureInv
      <4> QED
        BY <3>1, <3>2, <4>1 DEF Apart
    <3>4. CASE EpisodeOver
      <4>1. /\ ep' = ep + 1
            /\ \/ at' = "evaluate_apart"
               \/ at' # "evaluate_apart" /\ ep < PreEpisodes
        BY <1>3, <2>1, <2>3, <3>4 DEF EpisodeOver
      <4>2. at' = "evaluate_apart" <=> at' \in Apart
        BY <1>2 DEF Apart
      <4>3. CASE at' \in Apart
        <5>1. ep' - 1 = ep
          BY <1>3, <4>1
        <5> QED
          BY <3>1, <3>2, <4>3, <5>1
      <4>4. CASE at' \notin Apart
        <5>1. ~(p[1] < ep) /\ ~(p[1] < ep')
          BY <1>3, <2>1, <2>3, <4>1, <4>2, <4>4
        <5> QED
          BY <3>1, <3>2, <4>4, <5>1
      <4> QED
        BY <4>3, <4>4
    <3>5. CASE ~BeginTask /\ ~EpisodeOver
      <4>1. ep' = ep /\ at' \notin Apart
        BY <3>5 DEF ResetEpisode, AskOracle, WhatIfBranch, WhatIfEnds, Boundary, Act, Apart, loops
      <4> QED
        BY <3>1, <3>2, <4>1
    <3> QED
      BY <3>3, <3>4, <3>5
  <2> QED
    BY <1>3, <2>2, <2>3 DEF TypeInv, TypeOK
<1> QED
  BY <1>1, <1>2, <1>4, MeasureElsewhere

LEMMA MeasureEvaluate ==
  ASSUME TypeInv, MeasureInv, EvaluateBegins \/ \E action \in Actions : EvaluateStep(action)
  PROVE  MeasureInv'
<1>1. /\ at \in Evaluating /\ at' = "rollout" /\ UNCHANGED <<program, pair, i, ep, j, R>>
  BY DEF EvaluateBegins, EvaluateStep, Evaluating, measured
<1>2. e'.env.task = TaskOrder[j]
  <2>1. Sound(e) /\ Horizon \in Nat /\ e.env.task \in Tasks
    BY Constants, Fields DEF TypeInv, Horizon, Sound
  <2>2. CASE EvaluateBegins
    <3>1. TaskOrder[j] \in Tasks
      <4>1. j \in 1 .. Len(TaskOrder)
        BY <1>1, Constants
           DEF TypeInv, TypeOK, Located, Training, Evaluating, Apart
      <4> QED
        BY <4>1, Constants
    <3>2. PICK seeded \in 1 .. Draws, next \in 1 .. Draws :
            e' = EpisodeReset([e EXCEPT !.env.rng = seeded], TaskOrder[j], next)
      BY <2>2 DEF EvaluateBegins
    <3> DEFINE y == [e EXCEPT !.env.rng = seeded]
    <3>3. Sound(y)
      BY <2>1, ReseededSound
    <3>4. e' = EpisodeReset(y, TaskOrder[j], next)
      BY <3>2
    <3> HIDE DEF y
    <3> QED
      BY <3>1, <3>3, <3>4, ResetSound
  <2>3. CASE \E action \in Actions : EvaluateStep(action)
    <3>1. PICK action \in Actions : EvaluateStep(action)
      BY <2>3
    <3>2. PICK next \in 1 .. Draws, again \in 1 .. Draws :
            e' = IF Outcome(e, action, Horizon, next).done
                 THEN EpisodeReset(Outcome(e, action, Horizon, next).after, e.env.task, again)
                 ELSE Outcome(e, action, Horizon, next).after
      BY <3>1 DEF EvaluateStep
    <3>3. e'.env.task = e.env.task
      BY <2>1, <3>2, OutcomeSound, ResetSound
    <3> QED
      BY <3>1, <3>3 DEF EvaluateStep, MeasureInv
  <2> QED
    BY <2>2, <2>3
<1>3. Entries' = Entries /\ Read' = Read
  BY <1>1 DEF Entries, Read, LastEpisode
<1>4. \A p \in Read : IsDue(p[1], p[2])' <=> IsDue(p[1], p[2])
  BY <1>1 DEF IsDue, Evaluating, Apart
<1> QED
  BY <1>1, <1>2, <1>3, <1>4 DEF MeasureInv

(* What was due with it is now entered.                                    *)
LEMMA MeasureEntered ==
  ASSUME TypeInv, MeasureInv, UNCHANGED <<program, pair>>,
         NEW row, NEW column, NEW measuring, Enter(row, column, measuring),
         <<row, column>> \in Read,
         \A p \in Read : IsDue(p[1], p[2])' <=> IsDue(p[1], p[2]) \/ p = <<row, column>>,
         IF program = "silent_drift"
         THEN measuring.env.task = pair[1] /\ SelectivityOf(measuring) = Selective[pair[2]]
         ELSE measuring.env.task = TaskOrder[column]
              /\ SelectivityOf(measuring) = Selective[TaskOrder[column]],
         at' \in {"evaluate", "task", "over", "reset"},
         at' = "task" => program # "silent_drift",
         at' = "over" => \A p \in Read : IsDue(p[1], p[2])'
  PROVE  MeasureInv'
<1>1. /\ Entries' = Entries \union {<<row, column>>}
      /\ \A r \in R' : \/ r \in R
                       \/ /\ r.column = column /\ r.task = measuring.env.task
                          /\ r.selective = SelectivityOf(measuring)
  BY Entered
<1>2. Read' = Read
  BY DEF Read, LastEpisode
<1>3. Entries' \subseteq Read' /\ \A p \in Read' : p \in Entries' <=> IsDue(p[1], p[2])'
  BY <1>1, <1>2 DEF MeasureInv
<1>4. \A r \in R' :
        IF program' = "silent_drift" THEN r.task = pair'[1] /\ r.selective = Selective[pair'[2]]
        ELSE r.task = TaskOrder[r.column] /\ r.selective = Selective[r.task]
  BY <1>1 DEF MeasureInv
<1> QED
  BY <1>2, <1>3, <1>4 DEF MeasureInv

LEMMA MeasureEvaluateNext ==
  ASSUME TypeInv, WorldInv, MeasureInv, EvaluateNextTask \/ EvaluateNextBaseline
  PROVE  MeasureInv'
<1>1. /\ at = "rollout" /\ at' \in {"evaluate", "task", "over"} /\ UNCHANGED <<program, pair, ep>>
      /\ Enter(i, j, e) /\ program \in {"sequence", "baseline"}
      /\ i \in Nat /\ j \in Nat /\ at \in Evaluating
  BY DEF EvaluateNextTask, EvaluateNextBaseline, EvaluateReturns, Evaluating, TypeInv, TypeOK
<1>2. /\ e.env.task = TaskOrder[j]
      /\ SelectivityOf(e) = Selective[TaskOrder[j]]
  BY <1>1 DEF MeasureInv, WorldInv, Env, SelectivityOf
<1>3. /\ <<i, j>> \in Read
      /\ \A p \in Read : IsDue(p[1], p[2])' <=> IsDue(p[1], p[2]) \/ p = <<i, j>>
      /\ at' = "over" => \A p \in Read : IsDue(p[1], p[2])'
  <2>1. CASE EvaluateNextTask
    <3>1. program = "sequence" /\ i \in 1 .. Len(TaskOrder) /\ j \in 1 .. i
      BY <1>1, <2>1 DEF TypeInv, Located, EvaluateNextTask
    <3>2. <<i, j>> \in Read
      BY <3>1, Constants DEF Read
    <3>3. ASSUME NEW p \in Read
          PROVE  /\ p = <<p[1], p[2]>> /\ p[1] \in Nat /\ p[2] \in Nat /\ p[2] <= p[1]
                 /\ p[1] <= Len(TaskOrder)
                 /\ IsDue(p[1], p[2]) <=> p[1] < i \/ (p[1] = i /\ p[2] < j)
                 /\ IsDue(p[1], p[2])' <=>
                      p[1] < i' \/ (p[1] = i' /\ at' \in Evaluating /\ p[2] < j')
      <4>1. IsDue(p[1], p[2]) <=> p[1] < i \/ (p[1] = i /\ p[2] < j)
        BY <1>1, <3>1 DEF IsDue
      <4>2. IsDue(p[1], p[2])' <=>
              p[1] < i' \/ (p[1] = i' /\ at' \in Evaluating /\ p[2] < j')
        BY <1>1, <3>1 DEF IsDue
      <4> QED
        BY <3>1, <4>1, <4>2, ReadIs
    <3>4. CASE j < i
      <4>1. j' = j + 1 /\ i' = i /\ at' = "evaluate" /\ at' \in Evaluating
        BY <2>1, <3>4 DEF EvaluateNextTask, Evaluating
      <4>2. ASSUME NEW p \in Read
            PROVE  IsDue(p[1], p[2])' <=> IsDue(p[1], p[2]) \/ p = <<i, j>>
        BY <1>1, <3>3, <4>1
      <4> QED
        BY <3>2, <4>1, <4>2
    <3>5. CASE ~(j < i)
      <4>1. /\ i' = i + 1 /\ j = i /\ at' \notin Evaluating
            /\ at' = "over" <=> i = Len(TaskOrder)
        BY <2>1, <3>1, <3>5 DEF EvaluateNextTask, Evaluating
      <4>2. ASSUME NEW p \in Read
            PROVE  /\ IsDue(p[1], p[2])' <=> IsDue(p[1], p[2]) \/ p = <<i, j>>
                   /\ at' = "over" => IsDue(p[1], p[2])'
        BY <1>1, <3>1, <3>3, <4>1
      <4> QED
        BY <3>2, <4>2
    <3> QED
      BY <3>4, <3>5
  <2>2. CASE EvaluateNextBaseline
    <3>1. /\ program = "baseline" /\ Len(Policies) = 3 /\ i \in 1 .. 3
          /\ j \in 1 .. Len(TaskOrder)
      <4>1. program = "baseline" /\ Len(Policies) = 3
        BY <2>2 DEF EvaluateNextBaseline, Policies
      <4> QED
        BY <1>1, <4>1 DEF TypeInv, Located
    <3>2. <<i, j>> \in Read
      BY <3>1, Constants DEF Read
    <3>3. ASSUME NEW p \in Read
          PROVE  /\ p = <<p[1], p[2]>> /\ p[1] \in Nat /\ p[2] \in Nat /\ p[2] >= 1
                 /\ p[2] <= Len(TaskOrder) /\ p[1] <= 3
                 /\ IsDue(p[1], p[2]) <=> p[1] < i \/ (p[1] = i /\ p[2] < j)
                 /\ IsDue(p[1], p[2])' <=> p[1] < i' \/ (p[1] = i' /\ p[2] < j')
      <4>1. IsDue(p[1], p[2]) <=> p[1] < i \/ (p[1] = i /\ p[2] < j)
        BY <3>1 DEF IsDue
      <4>2. IsDue(p[1], p[2])' <=> p[1] < i' \/ (p[1] = i' /\ p[2] < j')
        BY <1>1, <3>1 DEF IsDue
      <4> QED
        BY <3>1, <4>1, <4>2, ReadIs
    <3>4. /\ \/ j < Len(TaskOrder) /\ j' = j + 1 /\ i' = i
             \/ j = Len(TaskOrder) /\ j' = 1 /\ i' = i + 1
          /\ at' = "over" => i' > 3
      BY <2>2, <3>1, Constants DEF EvaluateNextBaseline
    <3>5. ASSUME NEW p \in Read
          PROVE  /\ IsDue(p[1], p[2])' <=> IsDue(p[1], p[2]) \/ p = <<i, j>>
                 /\ at' = "over" => IsDue(p[1], p[2])'
      BY <1>1, <3>1, <3>3, <3>4, Constants
    <3> QED
      BY <3>2, <3>5
  <2> QED
    BY <2>1, <2>2
<1> QED
  BY <1>1, <1>2, <1>3, MeasureEntered

LEMMA MeasureApart ==
  ASSUME TypeInv, MeasureInv,
         EvaluateApart \/ \E action \in Actions : RolloutApart(action)
  PROVE  MeasureInv'
<1>1. /\ at \in Apart /\ at' \in {"rollout_apart", "compared"} /\ UNCHANGED <<program, pair, ep, R>>
      /\ at' \in Apart
  BY DEF EvaluateApart, RolloutApart, Apart
<1>2. program = "silent_drift" /\ pair[1] \in Tasks /\ pair[2] \in Tasks /\ Horizon \in Nat
  BY <1>1, Constants DEF TypeInv, TypeOK, Located, Training, Evaluating, Apart, Horizon
<1>3. own'.env.task = pair[1] /\ own'.selectivity = pair[2]
  <2>1. CASE EvaluateApart
    <3>1. PICK seeded \in 1 .. Draws, next \in 1 .. Draws :
            own' = EpisodeReset([NewEpisode(pair[1], Budget, seeded)
                                   EXCEPT !.selectivity = pair[2]], pair[1], next)
      BY <2>1 DEF EvaluateApart
    <3> DEFINE y == [NewEpisode(pair[1], Budget, seeded) EXCEPT !.selectivity = pair[2]]
    <3>2. Sound(y) /\ y.selectivity = pair[2]
      BY <1>2, NewSound, SelectedSound
    <3>3. own' = EpisodeReset(y, pair[1], next)
      BY <3>1
    <3> HIDE DEF y
    <3> QED
      BY <1>2, <3>2, <3>3, ResetSound
  <2>2. CASE \E action \in Actions : RolloutApart(action)
    <3>1. PICK action \in Actions : RolloutApart(action)
      BY <2>2
    <3>2. PICK next \in 1 .. Draws, again \in 1 .. Draws :
            own' \in {EpisodeReset(Outcome(own, action, Horizon, next).after, pair[1], again),
                      Outcome(own, action, Horizon, next).after}
      BY <3>1 DEF RolloutApart
    <3>3. Sound(own) /\ own.env.task = pair[1] /\ own.selectivity = pair[2]
      BY <3>1 DEF TypeInv, Assigned, RolloutApart, MeasureInv
    <3>4. /\ Sound(Outcome(own, action, Horizon, next).after)
          /\ Outcome(own, action, Horizon, next).after.env.task = pair[1]
          /\ Outcome(own, action, Horizon, next).after.selectivity = pair[2]
      BY <1>2, <3>3, OutcomeSound
    <3> QED
      BY <1>2, <3>2, <3>4, ResetSound
  <2> QED
    BY <2>1, <2>2
<1>4. Entries' = Entries /\ Read' = Read
  BY <1>1 DEF Entries, Read, LastEpisode
<1>5. \A p \in Read : IsDue(p[1], p[2])' <=> IsDue(p[1], p[2])
  BY <1>1, <1>2 DEF IsDue
<1> QED
  BY <1>1, <1>2, <1>3, <1>4, <1>5 DEF MeasureInv

LEMMA MeasureEvaluatedApart ==
  ASSUME TypeInv, WorldInv, MeasureInv, EvaluatedApart PROVE MeasureInv'
<1>1. /\ at = "compared" /\ at' \in {"over", "reset"} /\ UNCHANGED <<program, pair, ep>>
      /\ Enter(ep - 1, 0, own) /\ at \in Apart /\ at' \notin Apart
      /\ at' = "over" <=> ep > LastEpisode
  BY DEF EvaluatedApart, Apart
<1>2. /\ program = "silent_drift" /\ pair[1] \in Tasks /\ pair[2] \in Tasks
      /\ Coupled \notin Tasks
  BY <1>1, Constants, EpisodeAssumption
     DEF TypeInv, TypeOK, Located, Training, Evaluating, Apart, EpisodeAssumption
<1>3. own.env.task = pair[1] /\ SelectivityOf(own) = Selective[pair[2]]
  BY <1>1, <1>2 DEF MeasureInv, SelectivityOf
<1>4. /\ ep - 1 >= PreEpisodes /\ ep \in Nat /\ PreEpisodes \in Nat
      /\ LastEpisode \in Nat /\ ep - 1 <= LastEpisode /\ ep <= LastEpisode + 1
  BY <1>1, <1>2, Constants DEF WorldInv, TypeInv, TypeOK, Located, LastEpisode
<1>5. <<ep - 1, 0>> \in Read
  BY <1>2, <1>4 DEF Read
<1>6. ASSUME NEW p \in Read
      PROVE  /\ IsDue(p[1], p[2])' <=> IsDue(p[1], p[2]) \/ p = <<ep - 1, 0>>
             /\ at' = "over" => IsDue(p[1], p[2])'
  <2>1. IsDue(p[1], p[2]) <=> p[1] < ep - 1
    BY <1>1, <1>2 DEF IsDue
  <2>2. IsDue(p[1], p[2])' <=> p[1] < ep
    BY <1>1, <1>2 DEF IsDue
  <2>3. p = <<p[1], 0>> /\ p[1] \in Nat /\ p[1] <= LastEpisode
    BY <1>2, ReadIs
  <2>4. p[1] < ep <=> p[1] < ep - 1 \/ p[1] = ep - 1
    BY <1>4, <2>3
  <2>5. p = <<ep - 1, 0>> <=> p[1] = ep - 1
    BY <2>3
  <2>6. at' = "over" => p[1] < ep
    BY <1>1, <1>4, <2>3
  <2> QED
    BY <2>1, <2>2, <2>4, <2>5, <2>6, Zenon
<1> QED
  BY <1>1, <1>2, <1>3, <1>5, <1>6, MeasureEntered

LEMMA MeasureNext == TypeInv /\ WorldInv /\ MeasureInv /\ [Next]_vars => MeasureInv'
<1> SUFFICES ASSUME TypeInv, WorldInv, MeasureInv, [Next]_vars PROVE MeasureInv'
  OBVIOUS
<1>1. CASE UNCHANGED vars
  <2>1. UNCHANGED <<program, pair, at, e, i, ep, j, own, R>>
    BY <1>1 DEF vars, loops, measured
  <2>2. Entries' = Entries /\ Read' = Read
    BY <2>1 DEF Entries, Read, LastEpisode
  <2>3. \A p \in Read : IsDue(p[1], p[2])' <=> IsDue(p[1], p[2])
    BY <2>1 DEF IsDue
  <2> QED
    BY <2>1, <2>2, <2>3 DEF MeasureInv
<1> QED
  BY <1>1, MeasureTraining, MeasureEvaluate, MeasureEvaluateNext, MeasureApart,
     MeasureEvaluatedApart
     DEF Next, TrainEpisode

LEMMA MeasureInvariant == Spec => []MeasureInv
BY MeasureInit, MeasureNext, TypeInvariant, WorldInvariant, PTL DEF Spec

(* Evaluations leave no trace in training (sim_env.py:295-311), for any    *)
(* number of tasks and episodes; when a script is over all that its        *)
(* summary reads has been measured, each entry of its own task and phase.  *)
THEOREM EvaluationsTraceless == Spec => []EvaluationsLeaveNoTrace
<1>1. WorldInv /\ MeasureInv => EvaluationsLeaveNoTrace
  <2> SUFFICES ASSUME WorldInv, MeasureInv PROVE EvaluationsLeaveNoTrace
    OBVIOUS
  <2>1. at \notin {"what_if", "rollout"} /\ program # "baseline" => e.env.rng = stream
    BY DEF WorldInv, Env
  <2>2. at = "over" => Entries = Read
    BY DEF MeasureInv
  <2> QED
    BY <2>1, <2>2 DEF MeasureInv, EvaluationsLeaveNoTrace, Entries
<1> QED
  BY <1>1, WorldInvariant, MeasureInvariant, PTL
=============================================================================
