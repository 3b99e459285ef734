------------------------ MODULE TrafficSimulatorProofs ------------------------
(***************************************************************************)
(* Proofs about TrafficSimulator, for any environment, configurations and  *)
(* number of worker threads: its types, the life of its workers, what a    *)
(* request may count on, the environment under its budget, the observation *)
(* around what_if, and the phases the learner remembers.                   *)
(***************************************************************************)
EXTENDS TrafficSimulator, FiniteSetTheorems, SequenceTheorems, TLAPS

-----------------------------------------------------------------------------
(* The operators of the environment.                                       *)

LEMMA ValidActionsAreActions ==
  ASSUME NEW env PROVE ValidActions(env) \subseteq Actions /\ "keep" \in ValidActions(env)
BY DEF ValidActions, Actions

LEMMA SampledType ==
  ASSUME NEW task \in Tasks, NEW sql, NEW active \in SUBSET Queries,
         NEW rng \in 1 .. Draws, NEW budget \in Nat, NEW next \in 1 .. Draws,
         NEW env, env = [task |-> task, sql |-> sql, active |-> active,
                         rng |-> rng, budget |-> budget]
  PROVE  /\ Sampled(env, next) \in Envs
         /\ Sampled(env, next).active = active
         /\ Sampled(env, next).budget = budget
<1>1. Templates[task][rng] \in Queries
  BY EnvAssumption DEF EnvAssumption, Tasks, Queries
<1>2. Sampled(env, next)
        = [task |-> task, sql |-> Templates[task][rng],
           active |-> active, rng |-> next, budget |-> budget]
  BY DEF Sampled
<1> QED
  BY <1>1, <1>2 DEF Envs

LEMMA SteppedType ==
  ASSUME NEW env \in Envs, NEW action \in Actions, NEW next \in 1 .. Draws
  PROVE  /\ Stepped(env, action, next) \in Envs
         /\ Stepped(env, action, next).active = Reindexed(env, action)
         /\ Stepped(env, action, next).budget = env.budget
<1>1. Reindexed(env, action) \in SUBSET Queries
  BY DEF Reindexed, Envs
<1>2. [env EXCEPT !.active = Reindexed(env, action)]
        = [task |-> env.task, sql |-> env.sql, active |-> Reindexed(env, action),
           rng |-> env.rng, budget |-> env.budget]
  BY DEF Envs
<1>3. env.task \in Tasks /\ env.rng \in 1 .. Draws /\ env.budget \in Nat
  BY DEF Envs
<1> QED
  BY <1>1, <1>2, <1>3, SampledType DEF Stepped

LEMMA EnvResetType ==
  ASSUME NEW env, env.rng \in 1 .. Draws, env.budget \in Nat,
         NEW task \in Tasks, NEW next \in 1 .. Draws
  PROVE  /\ EnvReset(env, task, next) \in Envs
         /\ EnvReset(env, task, next).active = {}
         /\ EnvReset(env, task, next).budget = env.budget
BY SampledType DEF EnvReset

LEMMA NewEnvsType ==
  ASSUME NEW budget \in Nat, NEW env \in NewEnvs(budget)
  PROVE  env \in Envs /\ env.active = {} /\ env.budget = budget
<1>1. PICK now \in 1 .. Draws, next \in 1 .. Draws :
        env = EnvReset(BlankEnv(budget, now), 0, next)
  BY DEF NewEnvs
<1>2. 0 \in Tasks
  BY EnvAssumption DEF EnvAssumption, Tasks
<1>3. BlankEnv(budget, now).rng = now /\ BlankEnv(budget, now).budget = budget
  BY DEF BlankEnv
<1> QED
  BY <1>1, <1>2, <1>3, EnvResetType

LEMMA RestoreType ==
  ASSUME NEW env \in Envs, NEW snapshot \in Envs
  PROVE  /\ Restore(env, snapshot) \in Envs
         /\ Restore(env, snapshot).active = snapshot.active
         /\ Restore(env, snapshot).budget = env.budget
BY DEF Restore, Envs

LEMMA ObsType == ASSUME NEW env \in Envs PROVE ObsOf(env) \in Observations
BY DEF ObsOf, Observations, Envs

-----------------------------------------------------------------------------
(* Types.  What a worker's locals hold depends on where it is.             *)

Recording(w) ==
  \/ pc[w] \in {"learn", "record"}
  \/ /\ pc[w] \in {"consolidate", "registering", "pruning"}
     /\ job[w].source = "drift"

LocalsOf(w) ==
  /\ pc[w] \in {"what_if", "act", "apply"} =>
       job[w].env \in 1 .. MaxEnvs /\ envs[job[w].env] \in Envs
  /\ pc[w] = "what_if" => job[w].snapshot \in Envs
  /\ Recording(w) => job[w].next \in Observations
  /\ pc[w] = "registering" => job[w].id \in PhaseIds

LocalsSet == \A w \in Workers : LocalsOf(w)

TypeInv == TypeOK /\ LocalsSet

LEMMA NoJobType == NoJob \in Jobs
<1>1. 0 \in 0 .. MaxBatch
  BY SimulatorAssumption DEF SimulatorAssumption
<1> QED
  BY <1>1 DEF NoJob, Jobs, Actions

LEMMA TypeInit == Init => TypeInv
<1> SUFFICES ASSUME Init PROVE TypeInv
  OBVIOUS
<1> USE SimulatorAssumption DEF SimulatorAssumption
<1>1. config \in Configs /\ config.budget \in Nat
  BY DEF Init
<1>2. PICK e \in NewEnvs(config.budget) :
        /\ envs = [i \in 1 .. MaxEnvs |-> IF i = 1 THEN e ELSE None]
        /\ obs = ObsOf(e)
  BY DEF Init
<1>3. e \in Envs /\ obs \in Observations
  BY <1>1, <1>2, NewEnvsType, ObsType
<1>4. /\ envs \in [1 .. MaxEnvs -> Envs \union {None}] /\ envs[build] \in Envs
      /\ build \in 1 .. MaxEnvs
  BY <1>2, <1>3 DEF Init
<1>5. granted \in [1 .. MaxEnvs -> Nat]
  BY <1>1 DEF Init
<1>6. /\ pc \in [Workers -> Places] /\ job \in [Workers -> Jobs]
      /\ \A w \in Workers : pc[w] = "none"
  BY NoJobType DEF Init, Places
<1>7. phase \in Tasks
  BY EnvAssumption DEF EnvAssumption, Init, Tasks
<1>8. /\ running \in BOOLEAN /\ stop_event \in BOOLEAN /\ paused \in BOOLEAN
      /\ thread \in Workers \union {None}
      /\ ctl \in {"idle", "stop joins", "reset joins", "build", "restart"}
      /\ was_running \in BOOLEAN /\ had_consolidation \in BOOLEAN
  BY DEF Init
<1>11. /\ cycle \in Nat /\ steps_in_phase \in Nat /\ total \in Nat
       /\ states \in 0 .. MinStates /\ overtime \in Nat
       /\ memory \in Seq(PhaseIds) /\ consolidated \in Seq(PhaseIds)
  BY DEF Init
<1>12. mishaps \subseteq {"abandoned", "failed step", "died"}
  BY DEF Init
<1>9. TypeOK
  BY <1>1, <1>3, <1>4, <1>5, <1>6, <1>7, <1>8, <1>11, <1>12 DEF TypeOK
<1>10. LocalsSet
  BY <1>6 DEF LocalsSet, LocalsOf, Recording
<1> QED
  BY <1>9, <1>10 DEF TypeInv

LEMMA OtherLocals ==
  ASSUME TypeInv, NEW w \in Workers,
         \A u \in Workers : u # w => pc'[u] = pc[u] /\ job'[u] = job[u],
         \A i \in 1 .. MaxEnvs : envs[i] \in Envs => envs'[i] \in Envs,
         LocalsOf(w)'
  PROVE  LocalsSet'
<1> SUFFICES ASSUME NEW u \in Workers, u # w PROVE LocalsOf(u)'
  BY DEF LocalsSet
<1>1. LocalsOf(u)
  BY DEF TypeInv, LocalsSet
<1> QED
  BY <1>1 DEF LocalsOf, Recording

(* TypeOK in parts, one for each group of variables that an action keeps.   *)
LifeType ==
  /\ running \in BOOLEAN /\ stop_event \in BOOLEAN /\ paused \in BOOLEAN
  /\ thread \in Workers \union {None}

PlaceType == pc \in [Workers -> Places]
JobType == job \in [Workers -> Jobs]

CallerType ==
  /\ ctl \in {"idle", "stop joins", "reset joins", "build", "restart"}
  /\ was_running \in BOOLEAN

WorldType ==
  /\ build \in 1 .. MaxEnvs
  /\ envs \in [1 .. MaxEnvs -> Envs \union {None}] /\ envs[build] \in Envs
  /\ granted \in [1 .. MaxEnvs -> Nat]

CountersType ==
  /\ obs \in Observations
  /\ phase \in Tasks
  /\ cycle \in Nat /\ steps_in_phase \in Nat /\ total \in Nat
  /\ states \in 0 .. MinStates

ProgressType == CountersType /\ had_consolidation \in BOOLEAN

EwcType == memory \in Seq(PhaseIds) /\ consolidated \in Seq(PhaseIds)

HistoryType ==
  /\ overtime \in Nat
  /\ mishaps \subseteq {"abandoned", "failed step", "died"}

LEMMA TypeParts ==
  TypeOK <=> /\ LifeType /\ config \in Configs /\ PlaceType /\ JobType
             /\ CallerType /\ WorldType /\ ProgressType /\ EwcType /\ HistoryType
BY Zenon DEF TypeOK, LifeType, PlaceType, JobType, CallerType, WorldType,
   CountersType, ProgressType, EwcType, HistoryType

(* The same of the next state. *)
LEMMA NextTypeParts ==
  ASSUME LifeType', (config \in Configs)', PlaceType', JobType', CallerType',
         WorldType', ProgressType', EwcType', HistoryType'
  PROVE  TypeOK'
BY Zenon DEF TypeOK, LifeType, PlaceType, JobType, CallerType, WorldType,
   CountersType, ProgressType, EwcType, HistoryType

(* What an action leaves alone keeps its type. *)
LEMMA Frame ==
  ASSUME TypeOK
  PROVE  /\ UNCHANGED life => LifeType'
         /\ UNCHANGED config => config' \in Configs
         /\ UNCHANGED pc => PlaceType'
         /\ UNCHANGED job => JobType'
         /\ UNCHANGED caller => CallerType'
         /\ UNCHANGED world => WorldType'
         /\ UNCHANGED progress => ProgressType'
         /\ UNCHANGED ewc => EwcType'
         /\ UNCHANGED history => HistoryType'
<1>1. UNCHANGED life => LifeType'
  BY TypeParts DEF LifeType, life
<1>2. UNCHANGED config => config' \in Configs
  BY TypeParts
<1>3. (UNCHANGED pc => PlaceType') /\ (UNCHANGED job => JobType')
  BY TypeParts DEF PlaceType, JobType
<1>4. UNCHANGED caller => CallerType'
  BY TypeParts DEF CallerType, caller
<1>5. UNCHANGED world => WorldType'
  BY TypeParts DEF WorldType, world
<1>6. UNCHANGED progress => ProgressType'
  BY TypeParts DEF ProgressType, CountersType, progress
<1>7. UNCHANGED ewc => EwcType'
  BY TypeParts DEF EwcType, ewc
<1>8. UNCHANGED history => HistoryType'
  BY TypeParts DEF HistoryType, history
<1> QED
  BY <1>1, <1>2, <1>3, <1>4, <1>5, <1>6, <1>7, <1>8

LEMMA TypeControl == TypeInv /\ Control => TypeInv'
<1> SUFFICES ASSUME TypeInv, Control PROVE TypeInv'
  OBVIOUS
<1> USE SimulatorAssumption DEF SimulatorAssumption
<1> USE DEF TypeInv
<1>1. ASSUME pc' = pc \/ \E w \in Workers : pc' = [pc EXCEPT ![w] = "loop"],
             UNCHANGED job,
             \A i \in Held : i \in 1 .. MaxEnvs /\ envs[i] \in Envs => envs'[i] \in Envs
      PROVE  LocalsSet'
  <2> SUFFICES ASSUME NEW u \in Workers PROVE LocalsOf(u)'
    BY DEF LocalsSet
  <2>1. LocalsOf(u) /\ job'[u] = job[u] /\ job[u].env \in Held
    BY <1>1 DEF LocalsSet, Held
  <2>2. pc'[u] = pc[u] \/ pc'[u] = "loop"
    BY <1>1 DEF TypeOK
  <2> QED
    BY <1>1, <2>1, <2>2 DEF LocalsOf, Recording
<1>2. CASE Start
  <2>1. LifeType' /\ PlaceType'
    BY <1>2, TypeParts DEF Start, StartsWorker, LifeType, PlaceType, Places
  <2>2. CallerType'
    BY <1>2 DEF Start, CallerType
  <2>3. HistoryType'
    BY <1>2, TypeParts DEF Start, HistoryType
  <2>4. UNCHANGED <<config, job, world, progress, ewc>>
    BY <1>2 DEF Start
  <2>5. TypeOK'
    BY <2>1, <2>2, <2>3, <2>4, Frame, NextTypeParts
  <2>6. LocalsSet'
    BY <1>2, <1>1 DEF Start, StartsWorker, TypeOK, world
  <2> QED BY <2>5, <2>6
<1>3. CASE Pause \/ Resume
  <2>1. LifeType'
    BY <1>3, TypeParts DEF Pause, Resume, LifeType
  <2>2. HistoryType'
    <3>1. CASE Pause
      BY <3>1, Frame DEF Pause
    <3>2. CASE Resume
      BY <3>2, TypeParts DEF Resume, HistoryType
    <3> QED BY <1>3, <3>1, <3>2
  <2>3. UNCHANGED <<config, pc, job, caller, world, progress, ewc>>
    BY <1>3 DEF Pause, Resume
  <2>4. TypeOK'
    BY <2>1, <2>2, <2>3, Frame, NextTypeParts
  <2>5. LocalsSet'
    BY <1>1, <2>3 DEF world
  <2> QED BY <2>4, <2>5
<1>4. ASSUME NEW resets \in BOOLEAN, Stop(resets) PROVE TypeInv'
  <2>1. LifeType'
    BY <1>4, TypeParts DEF Stop, LifeType
  <2>2. CallerType'
    BY <1>4, TypeParts DEF Stop, CallerType
  <2>3. UNCHANGED <<config, pc, job, world, progress, ewc, history>>
    BY <1>4 DEF Stop
  <2>4. TypeOK'
    BY <2>1, <2>2, <2>3, Frame, NextTypeParts
  <2>5. LocalsSet'
    BY <1>1, <2>3 DEF world
  <2> QED BY <2>4, <2>5
<1>5. CASE Join
  <2>1. LifeType'
    BY <1>5, TypeParts DEF Join, LifeType
  <2>2. CallerType'
    BY <1>5, TypeParts DEF Join, CallerType
  <2>3. HistoryType'
    BY <1>5, TypeParts DEF Join, HistoryType
  <2>4. UNCHANGED <<config, pc, job, world, progress, ewc>>
    BY <1>5 DEF Join
  <2>5. TypeOK'
    BY <2>1, <2>2, <2>3, <2>4, Frame, NextTypeParts
  <2>6. LocalsSet'
    BY <1>1, <2>4 DEF world
  <2> QED BY <2>5, <2>6
<1>6. CASE Build
  <2>1. PICK e \in NewEnvs(config.budget), free \in 1 .. MaxEnvs :
          /\ free \notin Held
          /\ envs' = [i \in 1 .. MaxEnvs |->
                       IF i = free THEN e ELSE IF i \in Held THEN envs[i] ELSE None]
          /\ granted' = [i \in 1 .. MaxEnvs |->
                          IF i = free THEN config.budget
                          ELSE IF i \in Held THEN granted[i] ELSE 0]
          /\ build' = free
          /\ obs' = ObsOf(e)
    BY <1>6 DEF Build
  <2>2. config.budget \in Nat
    BY DEF TypeOK
  <2>3. e \in Envs /\ obs' \in Observations
    BY <2>1, <2>2, NewEnvsType, ObsType
  <2>4. WorldType'
    BY <2>1, <2>2, <2>3, TypeParts DEF WorldType
  <2>5. phase' \in Tasks
    <3>1. phase' = 0
      BY <1>6 DEF Build
    <3> QED
      BY <3>1, EnvAssumption DEF EnvAssumption, Tasks
  <2>6. CountersType' /\ had_consolidation' \in BOOLEAN /\ EwcType'
    <3>1. /\ memory' = <<>> /\ consolidated' = <<>> /\ states' = 0
          /\ cycle' = 0 /\ steps_in_phase' = 0 /\ total' = 0
      BY <1>6 DEF Build
    <3>2. CountersType' /\ EwcType'
      BY <3>1, <2>3, <2>5 DEF CountersType, EwcType
    <3>3. had_consolidation' = FALSE
      BY <1>6 DEF Build
    <3> QED BY <3>2, <3>3
  <2>7. ProgressType' /\ EwcType'
    BY <2>6, Zenon DEF ProgressType
  <2>8. CallerType'
    BY <1>6, TypeParts DEF Build, CallerType
  <2>9. HistoryType'
    BY <1>6, TypeParts DEF Build, HistoryType
  <2>10. UNCHANGED <<life, config, pc, job>>
    BY <1>6 DEF Build
  <2>11. TypeOK'
    BY <2>4, <2>7, <2>8, <2>9, <2>10, Frame, NextTypeParts
  <2>12. LocalsSet'
    BY <1>1, <2>1, <2>3, <2>10
  <2> QED BY <2>11, <2>12
<1>7. CASE SeedRaises
  <2>1. CallerType'
    BY <1>7, TypeParts DEF SeedRaises, CallerType
  <2>2. UNCHANGED <<life, config, pc, job, world, progress, ewc, history>>
    BY <1>7 DEF SeedRaises
  <2>3. TypeOK'
    BY <2>1, <2>2, Frame, NextTypeParts
  <2>4. LocalsSet'
    BY <1>1, <2>2 DEF world
  <2> QED BY <2>3, <2>4
<1>8. ASSUME NEW c \in Configs, Configure(c) PROVE TypeInv'
  <2>1. /\ envs' \in [1 .. MaxEnvs -> Envs \union {None}] /\ envs'[build] \in Envs
        /\ \A i \in 1 .. MaxEnvs : envs[i] \in Envs => envs'[i] \in Envs
    <3>1. [envs[build] EXCEPT !.budget = c.budget] \in Envs
      BY DEF TypeOK, Envs
    <3>2. \/ envs' = envs
          \/ envs' = [envs EXCEPT ![build] = [envs[build] EXCEPT !.budget = c.budget]]
      BY <1>8 DEF Configure
    <3>3. WorldType
      BY TypeParts
    <3> QED
      BY <3>1, <3>2, <3>3 DEF WorldType
  <2>2. granted' \in [1 .. MaxEnvs -> Nat]
    BY <1>8, TypeParts DEF Configure, WorldType, Larger
  <2>3. build' = build /\ config' \in Configs
    BY <1>8 DEF Configure
  <2>4. WorldType'
    BY <2>1, <2>2, <2>3, TypeParts DEF WorldType
  <2>5. UNCHANGED <<life, pc, job, caller, progress, ewc, history>>
    BY <1>8 DEF Configure
  <2>6. TypeOK'
    BY <2>3, <2>4, <2>5, Frame, NextTypeParts
  <2>7. LocalsSet'
    BY <1>1, <2>1, <2>5
  <2> QED BY <2>6, <2>7
<1> QED
  BY <1>2, <1>3, <1>4, <1>5, <1>6, <1>7, <1>8 DEF Control

(* The steps of a worker. *)
LEMMA TypeLoop ==
  ASSUME TypeInv, NEW w \in Workers,
         \/ LoopSeesStop(w) \/ Leave(w) \/ LoopDies(w) \/ BatchEnds(w)
         \/ \E n \in 1 .. MaxBatch : BatchDue(w, n)
  PROVE  TypeInv'
<1> USE SimulatorAssumption DEF SimulatorAssumption
<1> USE DEF TypeInv
<1>1. /\ pc' = [pc EXCEPT ![w] = pc'[w]]
      /\ pc'[w] \in {"none", "loop", "leaving", "batch"}
  BY TypeParts DEF LoopSeesStop, Leave, LoopDies, BatchEnds, BatchDue, Goto, PlaceType
<1>2. PlaceType'
  BY <1>1, TypeParts DEF PlaceType, Places
<1>3. JobType' /\ \A u \in Workers : u # w => job'[u] = job[u]
  <2>1. CASE UNCHANGED job
    BY <2>1, TypeParts DEF JobType
  <2>2. CASE BatchEnds(w)
    BY <2>2, NoJobType, TypeParts DEF BatchEnds, JobType
  <2>3. ASSUME NEW n \in 1 .. MaxBatch, BatchDue(w, n)
        PROVE  JobType' /\ \A u \in Workers : u # w => job'[u] = job[u]
    <3>1. [NoJob EXCEPT !.left = n] \in Jobs
      BY NoJobType DEF Jobs
    <3> QED BY <2>3, <3>1, TypeParts DEF BatchDue, JobType
  <2> QED
    BY <2>1, <2>2, <2>3 DEF LoopSeesStop, Leave, LoopDies
<1>4. LifeType'
  <2>1. CASE UNCHANGED life
    BY <2>1, Frame
  <2>2. CASE Leave(w)
    BY <2>2, TypeParts DEF Leave, LifeType
  <2> QED
    BY <2>1, <2>2 DEF LoopSeesStop, LoopDies, BatchEnds, BatchDue
<1>5. HistoryType'
  <2>1. CASE UNCHANGED history
    BY <2>1, Frame
  <2>2. CASE LoopDies(w)
    BY <2>2, TypeParts DEF LoopDies, HistoryType
  <2>3. CASE Leave(w)
    <3>1. UNCHANGED history
      BY <2>3 DEF Leave, history
    <3> QED BY <3>1, Frame
  <2> QED
    BY <2>1, <2>2, <2>3 DEF LoopSeesStop, BatchEnds, BatchDue
<1>6. UNCHANGED <<config, caller, world, progress, ewc>>
  BY DEF LoopSeesStop, Leave, LoopDies, BatchEnds, BatchDue
<1>7. TypeOK'
  BY <1>2, <1>3, <1>4, <1>5, <1>6, Frame, NextTypeParts
<1>8. LocalsOf(w)'
  BY <1>1 DEF LocalsOf, Recording
<1> QED
  BY <1>1, <1>3, <1>6, <1>7, <1>8, OtherLocals DEF world, PlaceType, TypeOK

LEMMA OwnStep ==
  ASSUME TypeOK, NEW w \in Workers, NEW place \in Places, NEW locals \in Jobs,
         pc' = [pc EXCEPT ![w] = place],
         job' = [job EXCEPT ![w] = locals] \/ (UNCHANGED job /\ locals = job[w])
  PROVE  /\ PlaceType' /\ JobType'
         /\ pc'[w] = place /\ job'[w] = locals
         /\ \A u \in Workers : u # w => pc'[u] = pc[u] /\ job'[u] = job[u]
BY DEF TypeOK, PlaceType, JobType

LEMMA TypeStep ==
  ASSUME TypeInv, NEW w \in Workers,
         \/ BeginStep(w) \/ WhatIfBranch(w) \/ WhatIfEnds(w)
         \/ StepMask(w) \/ StepApply(w)
  PROVE  TypeInv'
<1> USE DEF TypeInv
<1> DEFINE j == job[w]
<1>0. /\ j \in Jobs /\ LocalsOf(w) /\ WorldType
      /\ UNCHANGED <<life, config, caller, progress, ewc, history>>
  <2>1. j \in Jobs /\ LocalsOf(w) /\ WorldType
    BY TypeParts DEF JobType, LocalsSet
  <2>2. UNCHANGED <<life, config, caller, progress, ewc, history>>
    BY DEF BeginStep, WhatIfBranch, WhatIfEnds, StepMask, StepApply
  <2> QED BY <2>1, <2>2
<1>1. ASSUME NEW place \in Places, NEW locals \in Jobs,
             pc' = [pc EXCEPT ![w] = place],
             job' = [job EXCEPT ![w] = locals] \/ (UNCHANGED job /\ locals = j),
             WorldType',
             \A i \in 1 .. MaxEnvs : envs[i] \in Envs => envs'[i] \in Envs,
             place = "what_if" => locals.snapshot \in Envs,
             place \in {"what_if", "act", "apply"} =>
               locals.env \in 1 .. MaxEnvs /\ envs'[locals.env] \in Envs,
             place = "learn" => locals.next \in Observations,
             place \notin {"record", "consolidate", "registering", "pruning"}
      PROVE  TypeInv'
  <2>1. /\ PlaceType' /\ JobType' /\ pc'[w] = place /\ job'[w] = locals
        /\ \A u \in Workers : u # w => pc'[u] = pc[u] /\ job'[u] = job[u]
    BY <1>1, OwnStep
  <2>2. TypeOK'
    BY <1>0, <1>1, <2>1, Frame, NextTypeParts
  <2>3. LocalsOf(w)'
    BY <1>1, <2>1 DEF LocalsOf, Recording
  <2> QED
    BY <1>1, <2>1, <2>2, <2>3, OtherLocals
<1>2. CASE BeginStep(w)
  <2> DEFINE env == envs[build]
  <2>1. env \in Envs /\ build \in 1 .. MaxEnvs
    BY <1>0 DEF WorldType
  <2>2. PICK a \in ValidActions(env) :
          job' = [job EXCEPT ![w] =
                   [NoJob EXCEPT !.left = j.left - 1, !.env = build,
                                 !.action = a,
                                 !.todo = IF config.cwil THEN ValidActions(env) ELSE {},
                                 !.snapshot = IF config.cwil THEN env ELSE None]]
    BY <1>2 DEF BeginStep
  <2> DEFINE locals ==
        [NoJob EXCEPT !.left = j.left - 1, !.env = build, !.action = a,
                      !.todo = IF config.cwil THEN ValidActions(env) ELSE {},
                      !.snapshot = IF config.cwil THEN env ELSE None]
             place == IF config.cwil THEN "what_if" ELSE "act"
  <2>3. job' = [job EXCEPT ![w] = locals]
    BY <2>2
  <2>4. j.left - 1 \in 0 .. MaxBatch
    <3>1. j.left \in 0 .. MaxBatch
      BY <1>0 DEF Jobs
    <3>2. j.left > 0
      BY <1>2 DEF BeginStep
    <3>3. MaxBatch \in Nat
      BY SimulatorAssumption DEF SimulatorAssumption
    <3> HIDE DEF j
    <3> QED BY <3>1, <3>2, <3>3
  <2>5. /\ locals \in Jobs /\ locals.env = build
        /\ config.cwil => locals.snapshot = env
    BY <2>1, <2>4, NoJobType, ValidActionsAreActions DEF Jobs
  <2>6. pc' = [pc EXCEPT ![w] = place] /\ place \in Places /\ UNCHANGED world
    BY <1>2 DEF BeginStep, Goto, Places
  <2>7. WorldType' /\ UNCHANGED envs
    BY <2>6, Frame DEF world
  <2> HIDE DEF locals
  <2>8. place = "what_if" => locals.snapshot \in Envs
    BY <2>1, <2>5
  <2> QED
    BY <1>1, <2>1, <2>3, <2>5, <2>6, <2>7, <2>8
<1>3. CASE WhatIfBranch(w)
  <2> DEFINE env == Restore(envs[j.env], j.snapshot)
             Effect(a) == IF a \in ValidActions(env) THEN a ELSE "keep"
             After(a) == Stepped(env, Effect(a), 1)
  <2>1. j.env \in 1 .. MaxEnvs /\ envs[j.env] \in Envs /\ j.snapshot \in Envs
    BY <1>0, <1>3 DEF WhatIfBranch, LocalsOf
  <2>2. env \in Envs
    BY <2>1, RestoreType
  <2>3. PICK a \in j.todo :
          /\ envs' = [envs EXCEPT ![j.env] = After(a)]
          /\ job' = [job EXCEPT ![w] =
                       [j EXCEPT !.todo = @ \ {a},
                                 !.foreseen = @ \union {After(a).sql}]]
    BY <1>3 DEF WhatIfBranch
  <2>4. Effect(a) \in Actions /\ 1 \in 1 .. Draws
    BY ValidActionsAreActions, EnvAssumption DEF EnvAssumption
  <2>5. After(a) \in Envs
    BY <2>2, <2>4, SteppedType
  <2> DEFINE locals == [j EXCEPT !.todo = @ \ {a},
                                 !.foreseen = @ \union {After(a).sql}]
             place == "what_if"
  <2> HIDE DEF After, Effect, env
  <2>6. job' = [job EXCEPT ![w] = locals]
    BY <2>3
  <2>7. After(a).sql \in Queries
    BY <2>5 DEF Envs
  <2>8. /\ locals \in Jobs
        /\ locals.env = j.env /\ locals.snapshot = j.snapshot
    BY <1>0, <2>7 DEF Jobs
  <2>9. pc' = [pc EXCEPT ![w] = place] /\ place \in Places /\ UNCHANGED <<build, granted>>
    BY <1>3, TypeParts DEF WhatIfBranch, Places, PlaceType
  <2>10. /\ WorldType'
         /\ \A i \in 1 .. MaxEnvs : envs[i] \in Envs => envs'[i] \in Envs
         /\ envs'[j.env] \in Envs
    BY <1>0, <2>1, <2>3, <2>5, <2>9 DEF WorldType
  <2> HIDE DEF locals
  <2> QED
    BY <1>1, <2>1, <2>6, <2>8, <2>9, <2>10
<1>4. CASE WhatIfEnds(w)
  <2> DEFINE env == Restore(envs[j.env], j.snapshot)
  <2>1. j.env \in 1 .. MaxEnvs /\ envs[j.env] \in Envs /\ j.snapshot \in Envs
    BY <1>0, <1>4 DEF WhatIfEnds, LocalsOf
  <2>2. env \in Envs
    BY <2>1, RestoreType
  <2>3. /\ envs' = [envs EXCEPT ![j.env] = env]
        /\ job' = [job EXCEPT ![w] = [@ EXCEPT !.todo = {}, !.snapshot = None]]
    BY <1>4 DEF WhatIfEnds
  <2> DEFINE locals == [j EXCEPT !.todo = {}, !.snapshot = None]
             place == "act"
  <2>4. job' = [job EXCEPT ![w] = locals]
    BY <2>3
  <2>5. locals \in Jobs /\ locals.env = j.env
    BY <1>0 DEF Jobs
  <2>6. pc' = [pc EXCEPT ![w] = place] /\ place \in Places /\ UNCHANGED <<build, granted>>
    BY <1>4 DEF WhatIfEnds, Goto, Places
  <2>7. /\ WorldType'
        /\ \A i \in 1 .. MaxEnvs : envs[i] \in Envs => envs'[i] \in Envs
        /\ envs'[j.env] \in Envs
    BY <1>0, <2>1, <2>2, <2>3, <2>6 DEF WorldType
  <2> HIDE DEF locals
  <2> QED
    BY <1>1, <2>1, <2>4, <2>5, <2>6, <2>7
<1>5. CASE StepMask(w)
  <2> DEFINE action == IF j.action \in ValidActions(envs[j.env]) THEN j.action ELSE "keep"
             locals == [j EXCEPT !.action = action]
             place == "apply"
  <2>1. j.env \in 1 .. MaxEnvs /\ envs[j.env] \in Envs
    BY <1>0, <1>5 DEF StepMask, LocalsOf
  <2>2. job' = [job EXCEPT ![w] = locals]
    BY <1>5, TypeParts DEF StepMask, JobType
  <2>3. action \in Actions
    BY ValidActionsAreActions
  <2>4. locals \in Jobs /\ locals.env = j.env
    BY <1>0, <2>3 DEF Jobs
  <2>5. pc' = [pc EXCEPT ![w] = place] /\ place \in Places /\ UNCHANGED world
    BY <1>5 DEF StepMask, Goto, Places
  <2>6. WorldType' /\ UNCHANGED envs
    BY <2>5, Frame DEF world
  <2> HIDE DEF locals
  <2> QED
    BY <1>1, <2>1, <2>2, <2>4, <2>5, <2>6
<1>6. CASE StepApply(w)
  <2>1. j.env \in 1 .. MaxEnvs /\ envs[j.env] \in Envs
    BY <1>0, <1>6 DEF StepApply, LocalsOf
  <2>2. PICK next \in 1 .. Draws :
          /\ envs' = [envs EXCEPT ![j.env] = Stepped(envs[j.env], j.action, next)]
          /\ job' = [job EXCEPT ![w].next = ObsOf(Stepped(envs[j.env], j.action, next))]
    BY <1>6 DEF StepApply
  <2> DEFINE after == Stepped(envs[j.env], j.action, next)
             locals == [j EXCEPT !.next = ObsOf(after)]
             place == "learn"
  <2>3. j.action \in Actions
    BY <1>0 DEF Jobs
  <2>4. after \in Envs /\ ObsOf(after) \in Observations
    BY <2>1, <2>3, SteppedType, ObsType
  <2>5. job' = [job EXCEPT ![w] = locals]
    BY <2>2, TypeParts DEF JobType
  <2>6. locals \in Jobs /\ locals.next \in Observations
    BY <1>0, <2>4 DEF Jobs
  <2>7. pc' = [pc EXCEPT ![w] = place] /\ place \in Places /\ UNCHANGED <<build, granted>>
    BY <1>6 DEF StepApply, Goto, Places
  <2> HIDE DEF locals
  <2>8. /\ WorldType'
        /\ \A i \in 1 .. MaxEnvs : envs[i] \in Envs => envs'[i] \in Envs
    BY <1>0, <2>1, <2>2, <2>4, <2>7 DEF WorldType
  <2> QED
    BY <1>1, <2>5, <2>6, <2>7, <2>8
<1> QED
  BY <1>2, <1>3, <1>4, <1>5, <1>6

LEMMA TypeLearn ==
  ASSUME TypeInv, NEW w \in Workers,
         Learn(w) \/ Record(w) \/ StepRaises(w)
  PROVE  TypeInv'
<1> USE DEF TypeInv
<1> DEFINE j == job[w]
<1>1. j \in Jobs /\ LocalsOf(w) /\ j.left \in 0 .. MaxBatch
  BY TypeParts DEF JobType, LocalsSet, Jobs
<1>2. UNCHANGED <<config, caller, world, ewc>> /\ UNCHANGED envs
  BY DEF Learn, Record, StepRaises, world
<1>3. PICK place \in Places, locals \in Jobs :
        /\ pc' = [pc EXCEPT ![w] = place]
        /\ job' = [job EXCEPT ![w] = locals] \/ (UNCHANGED job /\ locals = j)
        /\ place \in {"record", "consolidate", "advance", "batch", "leaving"}
        /\ place \in {"record", "consolidate"} => locals.next \in Observations
  <2>1. CASE Learn(w)
    <3>1. [j EXCEPT !.source = "drift"] \in Jobs /\ j.next \in Observations
      BY <1>1, <2>1 DEF Jobs, Learn, LocalsOf, Recording
    <3>2. \/ pc' = [pc EXCEPT ![w] = "record"] /\ UNCHANGED job
          \/ /\ pc' = [pc EXCEPT ![w] = "consolidate"]
             /\ job' = [job EXCEPT ![w] = [j EXCEPT !.source = "drift"]]
      BY <2>1, TypeParts DEF Learn, Goto, JobType
    <3>3. [j EXCEPT !.source = "drift"].next = j.next
      BY <1>1 DEF Jobs
    <3>4. CASE pc' = [pc EXCEPT ![w] = "record"] /\ UNCHANGED job
      <4> "record" \in Places /\ j \in Jobs
        BY <1>1 DEF Places
      <4> WITNESS "record" \in Places, j \in Jobs
      <4> QED BY <1>1, <3>1, <3>4
    <3>5. CASE /\ pc' = [pc EXCEPT ![w] = "consolidate"]
               /\ job' = [job EXCEPT ![w] = [j EXCEPT !.source = "drift"]]
      <4> "consolidate" \in Places /\ [j EXCEPT !.source = "drift"] \in Jobs
        BY <3>1 DEF Places
      <4> WITNESS "consolidate" \in Places, [j EXCEPT !.source = "drift"] \in Jobs
      <4> QED BY <3>1, <3>3, <3>5
    <3> QED BY <3>2, <3>4, <3>5
  <2>2. CASE Record(w)
    <3> DEFINE locals == IF config.limit_ok THEN [NoJob EXCEPT !.left = j.left] ELSE NoJob
               next == IF steps_in_phase' >= config.limit THEN "advance" ELSE "batch"
               place == IF config.limit_ok THEN next ELSE "leaving"
    <3>1. locals \in Jobs
      BY <1>1, NoJobType DEF Jobs
    <3>2. place \in Places /\ place \in {"advance", "batch", "leaving"}
      BY DEF Places
    <3>3. pc' = [pc EXCEPT ![w] = place] /\ job' = [job EXCEPT ![w] = locals]
      <4>1. CASE /\ config.limit_ok /\ Goto(w, next)
                 /\ job' = [job EXCEPT ![w] = [NoJob EXCEPT !.left = job[w].left]]
        BY <4>1 DEF Goto
      <4>2. CASE /\ ~config.limit_ok /\ Goto(w, "leaving")
                 /\ job' = [job EXCEPT ![w] = NoJob]
        BY <4>2 DEF Goto
      <4> QED BY <2>2, <4>1, <4>2, Zenon DEF Record
    <3> HIDE DEF locals, place
    <3> QED BY <3>1, <3>2, <3>3
  <2>3. CASE StepRaises(w)
    <3>1. pc' = [pc EXCEPT ![w] = "leaving"] /\ job' = [job EXCEPT ![w] = NoJob]
      BY <2>3 DEF StepRaises, Goto
    <3> "leaving" \in Places /\ NoJob \in Jobs
      BY NoJobType DEF Places
    <3> WITNESS "leaving" \in Places, NoJob \in Jobs
    <3> QED BY <3>1
  <2> QED BY <2>1, <2>2, <2>3
<1>4. /\ PlaceType' /\ JobType' /\ pc'[w] = place /\ job'[w] = locals
      /\ \A u \in Workers : u # w => pc'[u] = pc[u] /\ job'[u] = job[u]
  <2>1. /\ pc' = [pc EXCEPT ![w] = place]
        /\ job' = [job EXCEPT ![w] = locals] \/ (UNCHANGED job /\ locals = job[w])
    BY <1>3
  <2>2. place \in Places /\ locals \in Jobs
    BY <1>3
  <2>3. TypeOK
    OBVIOUS
  <2>4. /\ pc' \in [Workers -> Places] /\ pc'[w] = place
        /\ \A u \in Workers : u # w => pc'[u] = pc[u]
    BY <2>1, <2>2, <2>3 DEF TypeOK
  <2>5. /\ job' \in [Workers -> Jobs] /\ job'[w] = locals
        /\ \A u \in Workers : u # w => job'[u] = job[u]
    BY <2>1, <2>2, <2>3 DEF TypeOK
  <2> QED BY <2>4, <2>5 DEF PlaceType, JobType
<1>5. LifeType'
  <2>1. CASE UNCHANGED life
    BY <2>1, Frame
  <2>2. CASE StepRaises(w)
    BY <2>2, TypeParts DEF StepRaises, LifeType
  <2>3. CASE Record(w)
    <3>1. UNCHANGED <<running, thread, paused>> /\ stop_event' \in {stop_event, TRUE}
      BY <2>3, Zenon DEF Record
    <3> QED BY <3>1, TypeParts DEF LifeType
  <2> QED
    BY <2>1, <2>2, <2>3 DEF Learn
<1>6. ProgressType'
  <2>1. CASE UNCHANGED progress
    BY <2>1, Frame
  <2>2. CASE Record(w)
    <3>1. j.next \in Observations
      BY <1>1, <2>2 DEF Record, LocalsOf, Recording
    <3>2. obs' \in Observations /\ phase' \in Tasks /\ cycle' \in Nat
      BY <2>2, <3>1, TypeParts DEF Record, ProgressType, CountersType
    <3>3. /\ steps_in_phase' \in Nat /\ total' \in Nat
          /\ states' \in 0 .. MinStates
      BY <2>2, TypeParts, SimulatorAssumption
         DEF Record, ProgressType, CountersType, Remember, Smaller, SimulatorAssumption
    <3>4. had_consolidation' \in BOOLEAN
      BY <2>2, TypeParts DEF Record, ProgressType
    <3> QED BY <3>2, <3>3, <3>4 DEF ProgressType, CountersType
  <2> QED
    BY <2>1, <2>2 DEF Learn, StepRaises
<1>7. HistoryType'
  <2>1. CASE UNCHANGED history
    BY <2>1, Frame
  <2>2. CASE Record(w)
    <3>1. overtime' \in Nat
      <4>1. overtime' = IF paused THEN overtime + 1 ELSE 0
        BY <2>2 DEF Record
      <4>2. overtime \in Nat
        BY TypeParts DEF HistoryType
      <4>3. overtime + 1 \in Nat
        BY <4>2
      <4> QED BY <4>1, <4>3, Zenon
    <3>2. mishaps' = mishaps
      BY <2>2 DEF Record
    <3> QED BY <3>1, <3>2, TypeParts DEF HistoryType
  <2>3. CASE StepRaises(w)
    BY <2>3, TypeParts DEF StepRaises, HistoryType
  <2> QED
    BY <2>1, <2>2, <2>3 DEF Learn
<1>8. TypeOK'
  BY <1>2, <1>4, <1>5, <1>6, <1>7, Frame, NextTypeParts
<1>9. LocalsOf(w)'
  BY <1>3, <1>4 DEF LocalsOf, Recording
<1> QED
  BY <1>2, <1>4, <1>8, <1>9, OtherLocals

LEMMA TypeAdvance ==
  ASSUME TypeInv, NEW w \in Workers,
         \/ BoundaryTest(w) \/ Turn(w) \/ ConsolidateTest(w)
         \/ Register(w) \/ ConsolidateRaises(w) \/ Prune(w)
  PROVE  TypeInv'
<1> USE DEF TypeInv
<1> DEFINE j == job[w]
<1>0. /\ j \in Jobs /\ LocalsOf(w) /\ j.left \in 0 .. MaxBatch
      /\ UNCHANGED <<life, config, caller>>
      /\ WorldType /\ ProgressType /\ EwcType /\ HistoryType
  <2>1. j \in Jobs /\ LocalsOf(w) /\ j.left \in 0 .. MaxBatch
    BY TypeParts DEF JobType, LocalsSet, Jobs
  <2>2. UNCHANGED <<life, config, caller>>
    BY DEF BoundaryTest, Turn, ConsolidateTest, Register, ConsolidateRaises, Prune
  <2> QED BY <2>1, <2>2, TypeParts
<1>1. ASSUME NEW place \in Places, NEW locals \in Jobs,
             pc' = [pc EXCEPT ![w] = place],
             job' = [job EXCEPT ![w] = locals] \/ (UNCHANGED job /\ locals = j),
             WorldType', ProgressType', EwcType', HistoryType',
             \A i \in 1 .. MaxEnvs : envs[i] \in Envs => envs'[i] \in Envs,
             place = "registering" => locals.id \in PhaseIds,
             \/ place \in {"batch", "turn"}
             \/ place = "record" /\ locals.next \in Observations
             \/ /\ place \in {"consolidate", "registering", "pruning"}
                /\ locals.source = "drift" => locals.next \in Observations
      PROVE  TypeInv'
  <2>1. /\ PlaceType' /\ JobType' /\ pc'[w] = place /\ job'[w] = locals
        /\ \A u \in Workers : u # w => pc'[u] = pc[u] /\ job'[u] = job[u]
    <3>1. pc' \in [Workers -> Places] /\ pc'[w] = place
      BY <1>1 DEF TypeOK
    <3>2. job' \in [Workers -> Jobs] /\ job'[w] = locals
      BY <1>1 DEF TypeOK
    <3>3. \A u \in Workers : u # w => pc'[u] = pc[u] /\ job'[u] = job[u]
      BY <1>1 DEF TypeOK
    <3> QED BY <3>1, <3>2, <3>3 DEF PlaceType, JobType
  <2>2. TypeOK'
    BY <1>0, <1>1, <2>1, Frame, NextTypeParts
  <2>3. LocalsOf(w)'
    BY <1>1, <2>1 DEF LocalsOf, Recording
  <2> QED
    BY <1>1, <2>1, <2>2, <2>3, OtherLocals
<1>2. CASE BoundaryTest(w)
  <2>1. /\ UNCHANGED <<world, progress, ewc, history>>
        /\ \/ pc' = [pc EXCEPT ![w] = "turn"] /\ UNCHANGED job
           \/ /\ pc' = [pc EXCEPT ![w] = "consolidate"]
              /\ job' = [job EXCEPT ![w] = [j EXCEPT !.source = "boundary"]]
    BY <1>2, TypeParts DEF BoundaryTest, Goto, JobType
  <2>2. WorldType' /\ ProgressType' /\ EwcType' /\ HistoryType' /\ UNCHANGED envs
    BY <2>1, Frame DEF world
  <2>3. "turn" \in Places /\ "consolidate" \in Places
    BY DEF Places
  <2>4. /\ [j EXCEPT !.source = "boundary"] \in Jobs
        /\ [j EXCEPT !.source = "boundary"].source = "boundary"
    BY <1>0 DEF Jobs
  <2>5. CASE pc' = [pc EXCEPT ![w] = "turn"] /\ UNCHANGED job
    BY <1>0, <1>1, <2>2, <2>3, <2>5
  <2>6. CASE /\ pc' = [pc EXCEPT ![w] = "consolidate"]
             /\ job' = [job EXCEPT ![w] = [j EXCEPT !.source = "boundary"]]
    <3> DEFINE locals == [j EXCEPT !.source = "boundary"]
    <3> HIDE DEF locals
    <3>1. locals \in Jobs /\ locals.source = "boundary" /\ job' = [job EXCEPT ![w] = locals]
      BY <2>4, <2>6 DEF locals
    <3> QED BY <1>1, <2>2, <2>3, <2>6, <3>1
  <2> QED BY <2>1, <2>5, <2>6
<1>3. CASE Turn(w)
  <2>1. PICK next \in 1 .. Draws :
          envs' = [envs EXCEPT ![build] = EnvReset(envs[build], phase', next)]
    BY <1>3 DEF Turn
  <2>2. phase' \in Tasks
    <3>1. phase \in Nat /\ NumTasks \in Nat \ {0}
      BY <1>0, EnvAssumption DEF Tasks, EnvAssumption, ProgressType, CountersType
    <3>2. phase' = (phase + 1) % NumTasks
      BY <1>3 DEF Turn
    <3> QED BY <3>1, <3>2 DEF Tasks
  <2>3. envs[build] \in Envs /\ envs[build].rng \in 1 .. Draws /\ envs[build].budget \in Nat
    BY <1>0 DEF WorldType, Envs
  <2>4. EnvReset(envs[build], phase', next) \in Envs
    BY <2>2, <2>3, EnvResetType
  <2>5. /\ WorldType'
        /\ \A i \in 1 .. MaxEnvs : envs[i] \in Envs => envs'[i] \in Envs
    BY <1>0, <1>3, <2>1, <2>3, <2>4 DEF Turn, WorldType
  <2>6. obs' \in Observations
    BY <1>0, <1>3, <2>1, <2>4, ObsType DEF Turn, WorldType
  <2>7. /\ cycle' \in Nat /\ steps_in_phase' \in Nat /\ total' \in Nat
        /\ states' \in 0 .. MinStates
    <3>1. CountersType
      BY <1>0 DEF ProgressType
    <3>2. /\ cycle' = cycle + 1 \/ cycle' = cycle
          /\ steps_in_phase' = 0 /\ states' = 0 /\ total' = total
      BY <1>3 DEF Turn
    <3> QED BY <3>1, <3>2, SimulatorAssumption DEF CountersType, SimulatorAssumption
  <2>8. had_consolidation' \in BOOLEAN
    BY <1>3 DEF Turn
  <2>9. ProgressType'
    BY <2>2, <2>6, <2>7, <2>8 DEF ProgressType, CountersType
  <2>10. HistoryType'
    BY <1>0, <1>3 DEF Turn, HistoryType
  <2>11. UNCHANGED ewc /\ EwcType'
    BY <1>3, Frame DEF Turn
  <2> DEFINE locals == [NoJob EXCEPT !.left = j.left]
  <2>12. locals \in Jobs
    BY <1>0, NoJobType DEF Jobs
  <2>13. pc' = [pc EXCEPT ![w] = "batch"] /\ job' = [job EXCEPT ![w] = locals]
    BY <1>3 DEF Turn, Goto
  <2>14. "batch" \in Places
    BY DEF Places
  <2> HIDE DEF locals
  <2> QED
    BY <1>1, <2>5, <2>9, <2>10, <2>11, <2>12, <2>13, <2>14
<1>4. ASSUME Return(w), UNCHANGED job, UNCHANGED envs,
             pc[w] \in {"consolidate", "registering", "pruning"},
             WorldType', ProgressType', EwcType', HistoryType'
      PROVE  TypeInv'
  <2> DEFINE place == IF j.source = "drift" THEN "record" ELSE "turn"
  <2>1. pc' = [pc EXCEPT ![w] = place] /\ place \in Places
    BY <1>4 DEF Return, Goto, Places
  <2>2. place = "turn" \/ (place = "record" /\ j.next \in Observations)
    BY <1>0, <1>4 DEF LocalsOf, Recording
  <2> HIDE DEF place
  <2> QED
    BY <1>0, <1>1, <1>4, <2>1, <2>2
<1>5. CASE ConsolidateTest(w)
  <2>1. UNCHANGED <<world, progress, ewc, history>>
    BY <1>5 DEF ConsolidateTest
  <2>2. WorldType' /\ ProgressType' /\ EwcType' /\ HistoryType' /\ UNCHANGED envs
    BY <2>1, Frame DEF world
  <2>3. CASE Return(w) /\ UNCHANGED job
    BY <1>4, <1>5, <2>2, <2>3 DEF ConsolidateTest
  <2>4. CASE /\ Goto(w, "registering")
             /\ job' = [job EXCEPT ![w].id = PhaseId(job[w].source)]
    <3> DEFINE locals == [j EXCEPT !.id = PhaseId(j.source)]
    <3>1. PhaseId(j.source) \in PhaseIds
      BY <1>0 DEF PhaseId, PhaseIds, Jobs, ProgressType, CountersType
    <3>2. /\ locals \in Jobs /\ locals.id \in PhaseIds
          /\ locals.source = j.source /\ locals.next = j.next
      BY <1>0, <3>1 DEF Jobs
    <3>3. pc' = [pc EXCEPT ![w] = "registering"] /\ job' = [job EXCEPT ![w] = locals]
      BY <2>4, TypeParts DEF Goto, JobType
    <3>4. j.source = "drift" => j.next \in Observations
      BY <1>0, <1>5 DEF ConsolidateTest, LocalsOf, Recording
    <3>5. "registering" \in Places
      BY DEF Places
    <3> HIDE DEF locals
    <3> QED BY <1>1, <2>2, <3>2, <3>3, <3>4, <3>5
  <2> QED BY <1>5, <2>3, <2>4 DEF ConsolidateTest
<1>6. CASE Register(w)
  <2>1. j.id \in PhaseIds
    BY <1>0, <1>6 DEF Register, LocalsOf
  <2>2. memory' \in Seq(PhaseIds)
    BY <1>0, <1>6, <2>1 DEF Register, EwcType
  <2>3. consolidated' \in Seq(PhaseIds)
    <3> DEFINE this == [source |-> j.source, cycle |-> cycle, phase |-> phase]
    <3>1. this \in PhaseIds
      BY <1>0 DEF PhaseIds, Jobs, ProgressType, CountersType
    <3>2. consolidated' \in {consolidated, Append(consolidated, this)}
      BY <1>6 DEF Register
    <3> HIDE DEF this
    <3> QED BY <1>0, <3>1, <3>2 DEF EwcType
  <2>4. UNCHANGED <<world, progress, history>> /\ UNCHANGED job
    BY <1>6 DEF Register
  <2>5. WorldType' /\ ProgressType' /\ HistoryType' /\ UNCHANGED envs
    BY <2>4, Frame DEF world
  <2>6. EwcType'
    BY <2>2, <2>3 DEF EwcType
  <2>7. pc' = [pc EXCEPT ![w] = "pruning"] /\ "pruning" \in Places
    BY <1>6 DEF Register, Goto, Places
  <2>8. j.source = "drift" => j.next \in Observations
    BY <1>0, <1>6 DEF Register, LocalsOf, Recording
  <2> QED BY <1>0, <1>1, <2>4, <2>5, <2>6, <2>7, <2>8
<1>7. CASE ConsolidateRaises(w)
  <2>1. UNCHANGED <<world, progress, ewc, history>> /\ UNCHANGED job
    BY <1>7 DEF ConsolidateRaises
  <2>2. WorldType' /\ ProgressType' /\ EwcType' /\ HistoryType' /\ UNCHANGED envs
    BY <2>1, Frame DEF world
  <2> QED
    BY <1>4, <1>7, <2>1, <2>2 DEF ConsolidateRaises
<1>8. CASE Prune(w)
  <2>1. memory' \in Seq(PhaseIds)
    <3> DEFINE first == Larger(1, Len(memory) - KeepPhases + 1)
    <3>1. memory \in Seq(PhaseIds) /\ Len(memory) \in Nat
      BY <1>0 DEF EwcType
    <3>2. KeepPhases \in Nat \ {0}
      BY SimulatorAssumption DEF SimulatorAssumption
    <3>3. first \in 1 .. Len(memory) + 1 /\ Len(memory) \in first - 1 .. Len(memory)
      BY <3>1, <3>2 DEF Larger
    <3>4. memory' = SubSeq(memory, first, Len(memory))
      BY <1>8 DEF Prune
    <3> HIDE DEF first
    <3> QED BY <3>1, <3>3, <3>4, SubSeqProperties
  <2>2. UNCHANGED <<world, history>> /\ UNCHANGED job
    BY <1>8 DEF Prune
  <2>3. WorldType' /\ HistoryType' /\ UNCHANGED envs
    BY <2>2, Frame DEF world
  <2>4. EwcType'
    BY <1>0, <1>8, <2>1 DEF Prune, EwcType
  <2>5. CountersType'
    BY <1>0, <1>8 DEF Prune, ProgressType, CountersType
  <2>6. had_consolidation' \in BOOLEAN
    BY <1>8 DEF Prune
  <2>7. ProgressType'
    BY <2>5, <2>6 DEF ProgressType
  <2> QED
    BY <1>4, <1>8, <2>2, <2>3, <2>4, <2>7 DEF Prune
<1> QED
  BY <1>2, <1>3, <1>5, <1>6, <1>7, <1>8

LEMMA TypeNext == TypeInv /\ [Next]_vars => TypeInv'
<1> SUFFICES ASSUME TypeInv, [Next]_vars PROVE TypeInv'
  OBVIOUS
<1>1. CASE Control
  BY <1>1, TypeControl
<1>2. ASSUME NEW w \in Workers, Run(w) PROVE TypeInv'
  BY <1>2, TypeLoop, TypeStep, TypeLearn, TypeAdvance, Zenon DEF Run
<1>3. CASE UNCHANGED vars
  <2>1. UNCHANGED <<life, config, pc, job, caller, world, progress, ewc, history>>
    BY <1>3 DEF vars
  <2>2. TypeOK'
    BY <2>1, Frame, NextTypeParts DEF TypeInv
  <2>3. LocalsSet'
    BY <2>1 DEF TypeInv, LocalsSet, LocalsOf, Recording, world
  <2> QED BY <2>2, <2>3 DEF TypeInv
<1> QED
  BY <1>1, <1>2, <1>3 DEF Next

(* Every variable keeps its type, and the locals of a worker are what its  *)
(* place in _run and _step needs: an environment to step, a snapshot to    *)
(* rewind to, an observation to record, a phase to register.               *)
THEOREM TypeCorrect == Spec => []TypeOK
<1>1. Spec => []TypeInv
  BY TypeInit, TypeNext, PTL DEF Spec
<1>2. TypeInv => TypeOK
  BY DEF TypeInv
<1> QED
  BY <1>1, <1>2, PTL

-----------------------------------------------------------------------------
(* The life of the worker.  Unless stop gave up on one, a worker that is   *)
(* alive is the thread that stop joins, and _running says so: start finds  *)
(* no reason to start another, and what Leave resets is its own.           *)

LifeInv ==
  "abandoned" \notin mishaps =>
    /\ \A w \in Workers : Alive(w) => running /\ thread = w
    /\ running /\ "died" \notin mishaps => \E w \in Workers : Alive(w)

(* A worker's step that is neither its last nor the loop's control of it. *)
LEMMA WorkingStep ==
  ASSUME TypeOK, NEW w \in Workers, Run(w)
  PROVE  \/ Leave(w) \/ LoopDies(w)
         \/ /\ UNCHANGED <<running, thread>>
            /\ Alive(w) /\ Alive(w)'
            /\ \A u \in Workers : u # w => pc'[u] = pc[u]
            /\ mishaps' \ {"failed step"} = mishaps \ {"failed step"}
<1> SUFFICES ASSUME ~Leave(w), ~LoopDies(w)
             PROVE  /\ UNCHANGED <<running, thread>>
                    /\ Alive(w) /\ Alive(w)'
                    /\ \A u \in Workers : u # w => pc'[u] = pc[u]
                    /\ mishaps' \ {"failed step"} = mishaps \ {"failed step"}
  OBVIOUS
<1> USE DEF Alive, Goto, Return, life, history, TypeOK
<1>1. CASE \/ LoopSeesStop(w) \/ BatchEnds(w) \/ BeginStep(w) \/ WhatIfBranch(w)
           \/ WhatIfEnds(w) \/ StepMask(w) \/ StepApply(w) \/ Learn(w)
           \/ \E n \in 1 .. MaxBatch : BatchDue(w, n)
  <2>1. UNCHANGED <<running, thread, mishaps>>
    BY <1>1 DEF LoopSeesStop, BatchEnds, BeginStep, WhatIfBranch, WhatIfEnds,
       StepMask, StepApply, Learn, BatchDue
  <2>2. /\ pc[w] # "none"
        /\ \E p \in Places \ {"none"} : pc' = [pc EXCEPT ![w] = p]
    <3>1. CASE BeginStep(w)
      <4>1. /\ pc[w] # "none"
            /\ \/ pc' = [pc EXCEPT ![w] = "what_if"]
               \/ pc' = [pc EXCEPT ![w] = "act"]
        BY <3>1 DEF BeginStep
      <4> QED BY <4>1 DEF Places
    <3>2. CASE WhatIfBranch(w)
      <4>1. pc[w] = "what_if" /\ pc' = pc
        BY <3>2 DEF WhatIfBranch
      <4> QED BY <4>1 DEF Places
    <3>3. CASE \/ LoopSeesStop(w) \/ BatchEnds(w) \/ WhatIfEnds(w) \/ StepMask(w)
               \/ StepApply(w) \/ \E n \in 1 .. MaxBatch : BatchDue(w, n)
      BY <3>3 DEF LoopSeesStop, BatchEnds, WhatIfEnds, StepMask, StepApply, BatchDue,
         Places
    <3>4. CASE Learn(w)
      BY <3>4 DEF Learn, Places
    <3> QED BY <1>1, <3>1, <3>2, <3>3, <3>4
  <2> QED BY <2>1, <2>2
<1>2. CASE Record(w) \/ StepRaises(w)
  <2>1. UNCHANGED <<running, thread>> /\ mishaps' \ {"failed step"} = mishaps \ {"failed step"}
    BY <1>2 DEF Record, StepRaises
  <2>2. /\ pc[w] # "none"
        /\ \E p \in Places \ {"none"} : pc' = [pc EXCEPT ![w] = p]
    <3>1. CASE StepRaises(w)
      BY <3>1 DEF StepRaises, Places
    <3>2. CASE Record(w)
      <4>1. /\ pc[w] # "none"
            /\ \/ pc' = [pc EXCEPT ![w] = "advance"]
               \/ pc' = [pc EXCEPT ![w] = "batch"]
               \/ pc' = [pc EXCEPT ![w] = "leaving"]
        BY <3>2 DEF Record
      <4> QED BY <4>1 DEF Places
    <3> QED BY <1>2, <3>1, <3>2
  <2> QED BY <2>1, <2>2
<1>3. CASE \/ BoundaryTest(w) \/ Turn(w) \/ ConsolidateTest(w)
           \/ Register(w) \/ ConsolidateRaises(w) \/ Prune(w)
  <2>1. UNCHANGED <<running, thread>> /\ mishaps' \ {"failed step"} = mishaps \ {"failed step"}
    BY <1>3 DEF BoundaryTest, Turn, ConsolidateTest, Register, ConsolidateRaises, Prune
  <2>2. /\ pc[w] # "none"
        /\ \E p \in Places \ {"none"} : pc' = [pc EXCEPT ![w] = p]
    BY <1>3 DEF BoundaryTest, Turn, ConsolidateTest, Register, ConsolidateRaises,
       Prune, Places
  <2> QED BY <2>1, <2>2
<1> QED
  BY <1>1, <1>2, <1>3, Zenon DEF Run

LEMMA LifeInit == Init => LifeInv
BY DEF Init, LifeInv, Alive

LEMMA LifeNext == TypeOK /\ LifeInv /\ [Next]_vars => LifeInv'
<1> SUFFICES ASSUME TypeOK, LifeInv, [Next]_vars, "abandoned" \notin mishaps'
             PROVE  LifeInv'
  BY DEF LifeInv
<1> USE DEF Alive
<1>1. ASSUME UNCHANGED <<pc, running, thread>>,
             mishaps' \ {"failed step"} = mishaps \ {"failed step"}
      PROVE  LifeInv'
  BY <1>1 DEF LifeInv
<1>2. CASE Start
  <2>1. mishaps' = mishaps
    BY <1>2 DEF Start
  <2>2. CASE UNCHANGED <<running, thread, pc>>
    BY <1>1, <2>1, <2>2
  <2>3. ASSUME ~running, NEW w \in Workers, ~Alive(w), thread' = w, running' = TRUE,
               pc' = [pc EXCEPT ![w] = "loop"]
        PROVE  LifeInv'
    BY <2>1, <2>3 DEF LifeInv, TypeOK
  <2> QED
    BY <1>2, <2>2, <2>3 DEF Start, StartsWorker
<1>3. CASE Pause \/ Resume \/ (\E resets \in BOOLEAN : Stop(resets))
           \/ SeedRaises \/ Build \/ (\E c \in Configs : Configure(c))
  <2>1. UNCHANGED <<pc, running, thread>>
    BY <1>3 DEF Pause, Resume, Stop, SeedRaises, Build, Configure, life
  <2>2. mishaps' \ {"failed step"} = mishaps \ {"failed step"}
    BY <1>3 DEF Pause, Resume, Stop, SeedRaises, Build, Configure, history
  <2> QED BY <1>1, <2>1, <2>2
<1>4. CASE Join
  <2>1. ~(thread # None /\ Alive(thread)) /\ "abandoned" \notin mishaps
    BY <1>4 DEF Join
  <2>2. \A w \in Workers : ~Alive(w)
    BY <2>1, SimulatorAssumption DEF LifeInv, SimulatorAssumption
  <2>3. UNCHANGED pc /\ running' = FALSE
    BY <1>4 DEF Join
  <2> QED
    BY <2>2, <2>3 DEF LifeInv
<1>5. ASSUME NEW w \in Workers, Run(w) PROVE LifeInv'
  <2>1. CASE Leave(w) \/ LoopDies(w)
    <3>1. /\ pc' = [pc EXCEPT ![w] = "none"]
          /\ pc[w] # "none"
          /\ thread' = thread
          /\ running' = FALSE \/ (running' = running /\ "died" \in mishaps')
      BY <2>1 DEF Leave, LoopDies, Goto, life
    <3>2. "abandoned" \notin mishaps
      BY <2>1 DEF Leave, LoopDies, history
    <3>3. \A u \in Workers : pc'[u] = "none"
      BY <3>1, <3>2 DEF LifeInv, TypeOK
    <3> QED BY <3>1, <3>3 DEF LifeInv
  <2>2. CASE /\ UNCHANGED <<running, thread>>
             /\ Alive(w) /\ Alive(w)'
             /\ \A u \in Workers : u # w => pc'[u] = pc[u]
             /\ mishaps' \ {"failed step"} = mishaps \ {"failed step"}
    BY <2>2 DEF LifeInv
  <2> QED BY <1>5, <2>1, <2>2, WorkingStep
<1>6. CASE UNCHANGED vars
  BY <1>1, <1>6 DEF vars, life, history
<1> QED
  BY <1>2, <1>3, <1>4, <1>5, <1>6 DEF Next, Control

LEMMA LifeInvariant == Spec => []LifeInv
BY TypeCorrect, LifeInit, LifeNext, PTL DEF Spec

(* One worker steps the environment, of however many threads were started  *)
(* in the simulator's life, unless a stop gave up on one.                  *)
THEOREM OneWorkerAtATime == Spec => []OneWorker
<1>1. LifeInv => OneWorker
  BY DEF LifeInv, OneWorker
<1> QED
  BY <1>1, LifeInvariant, PTL

(* is_running is neither stale nor early, unless a worker died of its rate *)
(* or was given up on.                                                     *)
THEOREM RunningIsAWorker == Spec => []RunningMeansWorker
<1>1. LifeInv => RunningMeansWorker
  <2> SUFFICES ASSUME LifeInv, mishaps \subseteq {"failed step"}
               PROVE  running <=> \E w \in Workers : Alive(w)
    BY DEF RunningMeansWorker
  <2>1. "abandoned" \notin mishaps /\ "died" \notin mishaps
    OBVIOUS
  <2> QED BY <2>1, Zenon DEF LifeInv
<1> QED
  BY <1>1, LifeInvariant, PTL

(* The two together.                                                       *)
THEOREM TheOneWorker == Spec => []WorkerIsTheOne
<1>1. OneWorker /\ RunningMeansWorker => WorkerIsTheOne
  BY DEF WorkerIsTheOne
<1> QED
  BY <1>1, OneWorkerAtATime, RunningIsAWorker, PTL

-----------------------------------------------------------------------------
(* The pause.  What a worker may still record of the batch under way and   *)
(* what was recorded since the pause make up no more than a batch.         *)

(* The query of the step under way and those left after it. *)
Due(w) ==
  IF \/ pc[w] \in {"what_if", "act", "apply", "learn", "record"}
     \/ pc[w] \in {"consolidate", "registering", "pruning"} /\ job[w].source = "drift"
  THEN job[w].left + 1
  ELSE IF pc[w] \in {"none", "loop", "leaving"} THEN 0 ELSE job[w].left

PauseInv ==
  "abandoned" \notin mishaps =>
    /\ ~paused => overtime = 0
    /\ overtime <= MaxBatch
    /\ \A w \in Workers : overtime + Due(w) <= MaxBatch

LEMMA DueType ==
  ASSUME TypeOK, NEW w \in Workers
  PROVE  Due(w) \in Nat /\ job[w].left \in 0 .. MaxBatch /\ MaxBatch \in Nat
<1>1. job[w].left \in 0 .. MaxBatch
  BY DEF TypeOK, Jobs
<1>2. MaxBatch \in Nat
  BY SimulatorAssumption DEF SimulatorAssumption
<1> QED
  BY <1>1, <1>2 DEF Due

LEMMA PauseInit == Init => PauseInv
<1> SUFFICES ASSUME Init PROVE PauseInv
  OBVIOUS
<1>1. overtime = 0 /\ \A w \in Workers : Due(w) = 0
  BY DEF Init, Due
<1>2. MaxBatch \in Nat
  BY SimulatorAssumption DEF SimulatorAssumption
<1> QED
  BY <1>1, <1>2 DEF PauseInv

(* A step that is neither the start of a batch nor the record of a query   *)
(* leaves no more due.                                                     *)
LEMMA DueOnlyFalls ==
  ASSUME TypeOK, TypeOK', NEW w \in Workers, Run(w), ~Record(w),
         \A n \in 1 .. MaxBatch : ~BatchDue(w, n)
  PROVE  Due(w)' <= Due(w)
<1> DEFINE j == job[w]
<1>0. /\ j \in Jobs /\ j.left \in Nat /\ job \in [Workers -> Jobs]
      /\ pc \in [Workers -> Places]
  <2>1. j \in Jobs /\ job \in [Workers -> Jobs] /\ pc \in [Workers -> Places]
    BY DEF TypeOK
  <2>2. j.left \in Nat
    BY DueType
  <2> QED BY <2>1, <2>2
<1>1. CASE LoopSeesStop(w) \/ Leave(w) \/ LoopDies(w) \/ BatchEnds(w) \/ StepRaises(w)
  <2>1. pc'[w] \in {"none", "loop", "leaving"}
    BY <1>0, <1>1 DEF LoopSeesStop, Leave, LoopDies, BatchEnds, StepRaises, Goto
  <2>2. Due(w)' = 0
    BY <2>1 DEF Due
  <2> QED BY <2>2, DueType
<1>2. CASE BeginStep(w)
  <2>1. pc[w] = "batch" /\ pc'[w] \in {"what_if", "act"}
    <3>1. /\ pc[w] = "batch"
          /\ pc' = [pc EXCEPT ![w] = "what_if"] \/ pc' = [pc EXCEPT ![w] = "act"]
      BY <1>2 DEF BeginStep, Goto
    <3> QED BY <1>0, <3>1
  <2>2. job'[w].left = j.left - 1
    BY <1>0, <1>2 DEF BeginStep, NoJob
  <2> QED
    BY <1>0, <2>1, <2>2 DEF Due
<1>3. CASE WhatIfBranch(w) \/ WhatIfEnds(w) \/ StepMask(w) \/ StepApply(w)
  <2>1. /\ pc[w] \in {"what_if", "act", "apply"}
        /\ pc'[w] \in {"what_if", "act", "apply", "learn"}
    BY <1>0, <1>3 DEF WhatIfBranch, WhatIfEnds, StepMask, StepApply, Goto
  <2>2. job'[w].left = j.left
    <3>1. CASE WhatIfBranch(w)
      <4>1. PICK todo, foreseen :
              job' = [job EXCEPT ![w] = [j EXCEPT !.todo = todo, !.foreseen = foreseen]]
        BY <3>1 DEF WhatIfBranch
      <4>2. [j EXCEPT !.todo = todo, !.foreseen = foreseen].left = j.left
        BY <1>0 DEF Jobs
      <4> QED BY <1>0, <4>1, <4>2
    <3>2. CASE WhatIfEnds(w) \/ StepMask(w) \/ StepApply(w)
      BY <1>0, <3>2 DEF WhatIfEnds, StepMask, StepApply, Jobs
    <3> QED BY <1>3, <3>1, <3>2
  <2> QED
    BY <1>0, <2>1, <2>2 DEF Due
<1>4. CASE Learn(w)
  <2>1. /\ pc[w] = "learn"
        /\ \/ pc'[w] = "record"
           \/ pc'[w] = "consolidate" /\ job'[w].source = "drift"
    BY <1>0, <1>4 DEF Learn, Goto, Jobs
  <2>2. job'[w].left = j.left
    BY <1>0, <1>4 DEF Learn, Jobs
  <2> QED
    BY <1>0, <2>1, <2>2 DEF Due
<1>5. CASE BoundaryTest(w)
  <2>1. /\ pc[w] = "advance"
        /\ \/ pc'[w] = "turn"
           \/ pc'[w] = "consolidate" /\ job'[w].source = "boundary"
    BY <1>0, <1>5 DEF BoundaryTest, Goto, Jobs
  <2>2. job'[w].left = j.left
    BY <1>0, <1>5 DEF BoundaryTest, Jobs
  <2> QED
    BY <1>0, <2>1, <2>2 DEF Due
<1>6. CASE Turn(w)
  <2>1. pc[w] = "turn" /\ pc'[w] = "batch" /\ job'[w].left = j.left
    BY <1>0, <1>6 DEF Turn, Goto, NoJob
  <2> QED
    BY <1>0, <2>1 DEF Due
<1>7. CASE ConsolidateTest(w) \/ Register(w) \/ ConsolidateRaises(w) \/ Prune(w)
  <2>1. job'[w].left = j.left /\ job'[w].source = j.source
    BY <1>0, <1>7 DEF ConsolidateTest, Register, ConsolidateRaises, Prune, Jobs
  <2>2. pc[w] \in {"consolidate", "registering", "pruning"}
    BY <1>7 DEF ConsolidateTest, Register, ConsolidateRaises, Prune
  <2>3. \/ pc'[w] \in {"registering", "pruning"}
        \/ pc'[w] = "record" /\ j.source = "drift"
        \/ pc'[w] = "turn" /\ j.source # "drift"
    BY <1>0, <1>7
       DEF ConsolidateTest, Register, ConsolidateRaises, Prune, Return, Goto
  <2> QED
    BY <1>0, <2>1, <2>2, <2>3 DEF Due
<1> QED
  BY <1>1, <1>2, <1>3, <1>4, <1>5, <1>6, <1>7, Zenon DEF Run

LEMMA PauseNext ==
  TypeOK /\ TypeOK' /\ LifeInv /\ PauseInv /\ [Next]_vars => PauseInv'
<1> SUFFICES ASSUME TypeOK, TypeOK', LifeInv, PauseInv, [Next]_vars,
                    "abandoned" \notin mishaps'
             PROVE  PauseInv'
  BY DEF PauseInv
<1>0. /\ overtime \in Nat /\ MaxBatch \in Nat
      /\ \A w \in Workers : Due(w) \in Nat
  <2>1. overtime \in Nat
    BY DEF TypeOK
  <2>2. MaxBatch \in Nat
    BY SimulatorAssumption DEF SimulatorAssumption
  <2> QED BY <2>1, <2>2, DueType
<1>1. ASSUME "abandoned" \notin mishaps,
             overtime' = 0 \/ (overtime' = overtime /\ (paused' \/ ~paused)),
             \A w \in Workers : Due(w)' <= Due(w)
      PROVE  PauseInv'
  <2>1. overtime' \in Nat /\ overtime' <= overtime
    BY <1>0, <1>1
  <2>2. ~paused' => overtime' = 0
    BY <1>1, Zenon DEF PauseInv
  <2>3. ASSUME NEW w \in Workers PROVE overtime' + Due(w)' <= MaxBatch
    <3>1. overtime + Due(w) <= MaxBatch
      BY <1>1 DEF PauseInv
    <3>2. Due(w) \in Nat /\ Due(w)' \in Nat
      <4>1. job'[w].left \in 0 .. MaxBatch
        BY DEF TypeOK, Jobs
      <4>2. Due(w)' \in Nat
        BY <1>0, <4>1 DEF Due
      <4> QED BY <4>2, DueType
    <3> QED BY <1>0, <1>1, <2>1, <3>1, <3>2
  <2>4. overtime' <= MaxBatch
    BY <1>0, <1>1, <2>1 DEF PauseInv
  <2> QED BY <2>2, <2>3, <2>4, Zenon DEF PauseInv
<1>2. CASE Control
  <2>1. "abandoned" \notin mishaps
    BY <1>2 DEF Control, Start, Pause, Resume, Stop, Join, SeedRaises, Build, Configure, history
  <2>2. overtime' = 0 \/ (overtime' = overtime /\ (paused' \/ ~paused))
    <3>1. CASE Start \/ Resume
      BY <3>1 DEF Start, Resume
    <3>2. CASE Pause
      BY <3>2 DEF Pause, history
    <3>3. CASE Join
      BY <3>3, Zenon DEF Join
    <3>4. CASE \/ \E resets \in BOOLEAN : Stop(resets)
               \/ SeedRaises \/ Build \/ \E c \in Configs : Configure(c)
      <4>1. overtime' = overtime /\ paused' = paused
        BY <3>4 DEF Stop, SeedRaises, Build, Configure, life, history
      <4> QED BY <4>1, Zenon
    <3> QED BY <1>2, <3>1, <3>2, <3>3, <3>4 DEF Control
  <2>3. ASSUME NEW w \in Workers PROVE Due(w)' <= Due(w)
    <3>1. job' = job
      BY <1>2 DEF Control, Start, Pause, Resume, Stop, Join, SeedRaises, Build, Configure
    <3>2. pc' = pc \/ \E u \in Workers : pc' = [pc EXCEPT ![u] = "loop"]
      BY <1>2 DEF Control, Start, StartsWorker, Pause, Resume, Stop, Join, SeedRaises, Build,
                  Configure
    <3>3. pc'[w] = pc[w] \/ pc'[w] = "loop"
      BY <3>2 DEF TypeOK
    <3>4. Due(w) \in Nat
      BY DueType
    <3>5. CASE pc'[w] = pc[w]
      <4>1. Due(w)' = Due(w)
        BY <3>1, <3>5 DEF Due
      <4> QED BY <3>4, <4>1
    <3>6. CASE pc'[w] = "loop"
      <4>1. Due(w)' = 0
        BY <3>6 DEF Due
      <4> QED BY <3>4, <4>1
    <3> QED BY <3>3, <3>5, <3>6
  <2> QED BY <1>1, <2>1, <2>2, <2>3
<1>3. ASSUME NEW w \in Workers, Run(w) PROVE PauseInv'
  <2>1. "abandoned" \notin mishaps
    BY <1>3, WorkingStep DEF Leave, LoopDies, history
  <2>2. ASSUME NEW u \in Workers, u # w PROVE Due(u)' = Due(u)
    <3>1. pc'[u] = pc[u]
      BY <1>3, <2>2, WorkingStep DEF Leave, LoopDies, Goto, TypeOK
    <3>2. job'[u] = job[u]
      <4>1. CASE \/ LoopSeesStop(w) \/ Leave(w) \/ LoopDies(w) \/ BatchEnds(w)
                 \/ \E n \in 1 .. MaxBatch : BatchDue(w, n)
        BY <2>2, <4>1 DEF LoopSeesStop, Leave, LoopDies, BatchEnds, BatchDue, TypeOK
      <4>2. CASE \/ BeginStep(w) \/ WhatIfBranch(w) \/ WhatIfEnds(w)
                 \/ StepMask(w) \/ StepApply(w)
        BY <2>2, <4>2
           DEF BeginStep, WhatIfBranch, WhatIfEnds, StepMask, StepApply, TypeOK
      <4>3. CASE Learn(w) \/ Record(w) \/ StepRaises(w) \/ BoundaryTest(w) \/ Turn(w)
        BY <2>2, <4>3 DEF Learn, Record, StepRaises, BoundaryTest, Turn, TypeOK
      <4>4. CASE ConsolidateTest(w) \/ Register(w) \/ ConsolidateRaises(w) \/ Prune(w)
        BY <2>2, <4>4
           DEF ConsolidateTest, Register, ConsolidateRaises, Prune, TypeOK
      <4> QED BY <1>3, <4>1, <4>2, <4>3, <4>4, Zenon DEF Run
    <3> QED BY <3>1, <3>2 DEF Due
  <2>3. ASSUME NEW n \in 1 .. MaxBatch, BatchDue(w, n) PROVE PauseInv'
    <3>1. overtime = 0 /\ overtime' = 0
      BY <2>1, <2>3 DEF BatchDue, PauseInv, history
    <3>2. Due(w)' = n
      <4>1. pc'[w] = "batch" /\ job'[w].left = n
        BY <2>3 DEF BatchDue, Goto, NoJob, TypeOK
      <4> QED BY <4>1 DEF Due
    <3>3. ASSUME NEW u \in Workers PROVE overtime' + Due(u)' <= MaxBatch
      <4>1. CASE u = w
        BY <1>0, <3>1, <3>2, <4>1
      <4>2. CASE u # w
        BY <1>0, <2>1, <2>2, <3>1, <4>2 DEF PauseInv
      <4> QED BY <4>1, <4>2
    <3> QED BY <1>0, <3>1, <3>3 DEF PauseInv
  <2>4. CASE Record(w)
    <3>1. \A u \in Workers : u # w => pc[u] = "none"
      BY <2>1, <2>4 DEF LifeInv, Alive, Record
    <3>2. Due(w) = job[w].left + 1
      BY <2>4 DEF Record, Due
    <3>3. Due(w)' \in {0, job[w].left}
      <4>1. \/ /\ pc' = [pc EXCEPT ![w] = "advance"] \/ pc' = [pc EXCEPT ![w] = "batch"]
               /\ job' = [job EXCEPT ![w] = [NoJob EXCEPT !.left = job[w].left]]
            \/ pc' = [pc EXCEPT ![w] = "leaving"]
        BY <2>4 DEF Record, Goto
      <4>2. \/ pc'[w] \in {"advance", "batch"} /\ job'[w].left = job[w].left
            \/ pc'[w] = "leaving"
        <5>1. DOMAIN pc = Workers /\ DOMAIN job = Workers
          BY DEF TypeOK
        <5>2. ASSUME job' = [job EXCEPT ![w] = [NoJob EXCEPT !.left = job[w].left]]
              PROVE job'[w].left = job[w].left
          BY <5>1, <5>2 DEF NoJob
        <5>3. ASSUME NEW place, pc' = [pc EXCEPT ![w] = place] PROVE pc'[w] = place
          BY <5>1, <5>3
        <5> QED BY <4>1, <5>2, <5>3
      <4> QED BY <4>2 DEF Due
    <3>4. \A u \in Workers : u # w => Due(u)' = 0
      BY <2>2, <3>1 DEF Due
    <3>5. job[w].left \in Nat
      BY DueType, <1>0
    <3>6. overtime' = IF paused THEN overtime + 1 ELSE 0
      BY <2>4 DEF Record
    <3>7. overtime' \in Nat /\ overtime' <= overtime + 1
      BY <1>0, <3>6
    <3>8. overtime + Due(w) <= MaxBatch
      BY <2>1 DEF PauseInv
    <3>9. \A u \in Workers : overtime' + Due(u)' <= MaxBatch
      BY <1>0, <3>2, <3>3, <3>4, <3>5, <3>7, <3>8
    <3>10. overtime' <= MaxBatch
      BY <1>0, <3>2, <3>5, <3>7, <3>8
    <3>11. ~paused' => overtime' = 0
      <4>1. paused' = paused
        BY <2>4 DEF Record
      <4> QED BY <3>6, <4>1, Zenon
    <3> QED BY <3>9, <3>10, <3>11, Zenon DEF PauseInv
  <2>5. ASSUME ~Record(w), \A n \in 1 .. MaxBatch : ~BatchDue(w, n) PROVE PauseInv'
    <3>1. overtime' = overtime /\ paused' = paused
      <4>1. CASE LoopSeesStop(w) \/ Leave(w) \/ LoopDies(w) \/ BatchEnds(w)
        BY <4>1 DEF LoopSeesStop, Leave, LoopDies, BatchEnds, life, history
      <4>2. CASE \/ BeginStep(w) \/ WhatIfBranch(w) \/ WhatIfEnds(w)
                 \/ StepMask(w) \/ StepApply(w)
        BY <4>2 DEF BeginStep, WhatIfBranch, WhatIfEnds, StepMask, StepApply, life, history
      <4>3. CASE Learn(w) \/ StepRaises(w) \/ BoundaryTest(w) \/ Turn(w)
        BY <4>3 DEF Learn, StepRaises, BoundaryTest, Turn, life, history
      <4>4. CASE ConsolidateTest(w) \/ Register(w) \/ ConsolidateRaises(w) \/ Prune(w)
        BY <4>4 DEF ConsolidateTest, Register, ConsolidateRaises, Prune, life, history
      <4> QED BY <1>3, <2>5, <4>1, <4>2, <4>3, <4>4, Zenon DEF Run
    <3>2. \A u \in Workers : Due(u)' <= Due(u)
      <4>1. Due(w)' <= Due(w)
        BY <1>3, <2>5, DueOnlyFalls
      <4> QED BY <1>0, <2>2, <4>1
    <3>3. overtime' = 0 \/ (overtime' = overtime /\ (paused' \/ ~paused))
      BY <3>1, Zenon
    <3> QED BY <1>1, <2>1, <3>2, <3>3
  <2> QED BY <2>3, <2>4, <2>5
<1>4. CASE UNCHANGED vars
  <2>1. /\ paused' = paused /\ overtime' = overtime /\ mishaps' = mishaps
        /\ pc' = pc /\ job' = job
    BY <1>4 DEF vars, life, history
  <2>2. \A w \in Workers : Due(w)' = Due(w)
    BY <2>1 DEF Due
  <2> QED BY <2>1, <2>2, Zenon DEF PauseInv
<1> QED
  BY <1>2, <1>3, <1>4 DEF Next

(* Once paused, the simulator records at most the batch that was due, for  *)
(* any size of a batch.                                                    *)
THEOREM PauseIsSoonHeeded == Spec => []PauseIsHeeded
<1>1. PauseInv => PauseIsHeeded
  BY DEF PauseInv, PauseIsHeeded
<1>2. Spec => []PauseInv
  BY TypeCorrect, LifeInvariant, PauseInit, PauseNext, PTL DEF Spec
<1> QED
  BY <1>1, <1>2, PTL

-----------------------------------------------------------------------------
(* The environment under the step.  The one worker steps the environment   *)
(* that self.env refers to: a reset builds another only after the worker   *)
(* has gone.                                                               *)

(* The query that the environment's generator draws next.                  *)
Upcoming(env) == Templates[env.task][env.rng]

BuildInv ==
  /\ IsFiniteSet(envs[build].active)
  /\ Cardinality(envs[build].active) <= granted[build]
  /\ envs[build].budget <= granted[build]
  /\ ctl = "build" => ~running

(* what_if's snapshot is as good as the environment it rewinds, its        *)
(* branches foresee what the environment draws next, and an index that the *)
(* mask allowed still fits.                                                *)
StepInv(w) ==
  /\ pc[w] \in {"what_if", "act", "apply"} => job[w].env = build
  /\ pc[w] = "what_if" =>
       /\ IsFiniteSet(job[w].snapshot.active)
       /\ Cardinality(job[w].snapshot.active) <= granted[build]
       /\ job[w].foreseen \subseteq {Upcoming(job[w].snapshot)}
  /\ pc[w] \in {"act", "apply"} => job[w].foreseen \subseteq {Upcoming(envs[build])}
  /\ pc[w] = "apply" /\ job[w].action = "create" =>
       Cardinality(envs[build].active) < granted[build]
  /\ pc[w] = "learn" => job[w].foreseen \subseteq {job[w].next.sql}

WorldInv == "abandoned" \notin mishaps => BuildInv /\ \A w \in Workers : StepInv(w)

LEMMA ReindexedBound ==
  ASSUME NEW env \in Envs, IsFiniteSet(env.active), NEW action, NEW n \in Nat,
         Cardinality(env.active) <= n,
         action = "create" => Cardinality(env.active) < n
  PROVE  /\ IsFiniteSet(Reindexed(env, action))
         /\ Cardinality(Reindexed(env, action)) <= n
<1>1. Cardinality(env.active) \in Nat
  BY FS_CardinalityType
<1>2. CASE action = "create"
  <2>1. Reindexed(env, action) = env.active \union {env.sql}
    BY <1>2 DEF Reindexed
  <2>2. /\ IsFiniteSet(env.active \union {env.sql})
        /\ Cardinality(env.active \union {env.sql})
             = IF env.sql \in env.active THEN Cardinality(env.active)
               ELSE Cardinality(env.active) + 1
    BY FS_AddElement
  <2>3. IsFiniteSet(Reindexed(env, action))
    BY <2>1, <2>2, Zenon
  <2>4. \/ Cardinality(Reindexed(env, action)) = Cardinality(env.active)
        \/ Cardinality(Reindexed(env, action)) = Cardinality(env.active) + 1
    BY <2>1, <2>2, Zenon
  <2> QED
    BY <1>1, <1>2, <2>3, <2>4
<1>3. CASE action = "drop"
  <2>1. Reindexed(env, action) = env.active \ {env.sql}
    BY <1>3 DEF Reindexed
  <2>2. /\ IsFiniteSet(env.active \ {env.sql})
        /\ Cardinality(env.active \ {env.sql})
             = IF env.sql \in env.active THEN Cardinality(env.active) - 1
               ELSE Cardinality(env.active)
    BY FS_RemoveElement
  <2>3. IsFiniteSet(Reindexed(env, action))
    BY <2>1, <2>2, Zenon
  <2>4. \/ Cardinality(Reindexed(env, action)) = Cardinality(env.active)
        \/ Cardinality(Reindexed(env, action)) = Cardinality(env.active) - 1
    BY <2>1, <2>2, Zenon
  <2> QED
    BY <1>1, <2>3, <2>4
<1>4. CASE action \notin {"create", "drop"}
  <2>1. Reindexed(env, action) = env.active
    BY <1>4 DEF Reindexed
  <2> QED
    BY <2>1
<1> QED
  BY <1>2, <1>3, <1>4

LEMMA CreateHasBudget ==
  ASSUME NEW env, "create" \in ValidActions(env)
  PROVE  Cardinality(env.active) < env.budget
BY DEF ValidActions, HasBudget

LEMMA SteppedDraws ==
  ASSUME NEW env \in Envs, NEW action, NEW next
  PROVE  Stepped(env, action, next).sql = Upcoming(env)
BY DEF Stepped, Sampled, Upcoming, Envs

LEMMA RestoreDraws ==
  ASSUME NEW env, NEW snapshot \in Envs
  PROVE  Upcoming(Restore(env, snapshot)) = Upcoming(snapshot)
BY DEF Restore, Upcoming, Envs

(* Where one worker is at work there is no other.                          *)
LEMMA OthersAreNone ==
  ASSUME TypeInv, LifeInv, "abandoned" \notin mishaps', NEW w \in Workers, Run(w)
  PROVE  /\ "abandoned" \notin mishaps
         /\ \A u \in Workers : u # w => pc[u] = "none" /\ pc'[u] = "none"
<1>1. "abandoned" \notin mishaps
  BY WorkingStep DEF TypeInv, Leave, LoopDies, history
<1>2. Alive(w) /\ \A u \in Workers : u # w => pc'[u] = pc[u]
  BY WorkingStep DEF TypeInv, TypeOK, Leave, LoopDies, Alive, Goto
<1> QED
  BY <1>1, <1>2 DEF LifeInv, Alive

(* A step of the worker that does not touch the environment and is no step *)
(* towards the action.                                                     *)
LEMMA ElsewhereKeepsWorld ==
  ASSUME TypeInv, WorldInv, "abandoned" \notin mishaps, NEW w \in Workers,
         \A u \in Workers : u # w => pc'[u] = "none",
         pc'[w] \notin {"what_if", "act", "apply", "learn"},
         UNCHANGED <<world, ctl>>, ~running => ~running'
  PROVE  WorldInv'
<1>1. BuildInv'
  BY DEF WorldInv, BuildInv, world
<1>2. \A u \in Workers : StepInv(u)'
  BY DEF StepInv
<1> QED
  BY <1>1, <1>2 DEF WorldInv

LEMMA WhatIfKeepsWorld ==
  ASSUME TypeInv, WorldInv, "abandoned" \notin mishaps, NEW w \in Workers,
         \A u \in Workers : u # w => pc'[u] = "none",
         WhatIfBranch(w) \/ WhatIfEnds(w)
  PROVE  WorldInv'
<1> DEFINE env == Restore(envs[build], job[w].snapshot)
<1>1. /\ pc[w] = "what_if" /\ job[w].env = build /\ build \in 1 .. MaxEnvs
      /\ envs[build] \in Envs /\ job[w].snapshot \in Envs /\ job[w] \in Jobs
      /\ job \in [Workers -> Jobs] /\ pc \in [Workers -> Places]
      /\ envs \in [1 .. MaxEnvs -> Envs \union {None}]
      /\ granted[build] \in Nat
      /\ UNCHANGED <<ctl, running, build, granted>>
  BY DEF WorldInv, StepInv, WhatIfBranch, WhatIfEnds, TypeInv, TypeOK, LocalsSet, LocalsOf,
         life, caller
<1>2. /\ IsFiniteSet(job[w].snapshot.active)
      /\ Cardinality(job[w].snapshot.active) <= granted[build]
      /\ job[w].foreseen \subseteq {Upcoming(job[w].snapshot)}
      /\ envs[build].budget <= granted[build] /\ envs[build].budget \in Nat
      /\ ctl = "build" => ~running
  BY <1>1 DEF WorldInv, StepInv, BuildInv, Envs
<1>3. /\ env \in Envs /\ env.active = job[w].snapshot.active /\ env.budget = envs[build].budget
      /\ Upcoming(env) = Upcoming(job[w].snapshot)
  BY <1>1, RestoreType, RestoreDraws
<1>4. CASE WhatIfEnds(w)
  <2>1. /\ envs'[build] = env
        /\ pc'[w] = "act"
        /\ job'[w].env = build /\ job'[w].foreseen = job[w].foreseen
    BY <1>1, <1>4 DEF WhatIfEnds, Goto, Jobs
  <2>2. BuildInv'
    BY <1>1, <1>2, <1>3, <2>1 DEF BuildInv
  <2>3. StepInv(w)'
    BY <1>1, <1>2, <1>3, <2>1 DEF StepInv
  <2>4. \A u \in Workers : StepInv(u)'
    BY <2>3 DEF StepInv
  <2> QED
    BY <2>2, <2>4 DEF WorldInv
<1>5. CASE WhatIfBranch(w)
  <2>1. PICK a \in job[w].todo :
          LET effect == IF a \in ValidActions(env) THEN a ELSE "keep"
              after == Stepped(env, effect, 1)
          IN  /\ envs' = [envs EXCEPT ![build] = after]
              /\ job' = [job EXCEPT ![w] = [job[w] EXCEPT !.todo = @ \ {a},
                                              !.foreseen = @ \union {after.sql}]]
    BY <1>1, <1>5 DEF WhatIfBranch
  <2> DEFINE effect == IF a \in ValidActions(env) THEN a ELSE "keep"
             after == Stepped(env, effect, 1)
  <2>2. effect \in ValidActions(env) /\ effect \in Actions
    BY ValidActionsAreActions
  <2>3. effect = "create" => Cardinality(env.active) < granted[build]
    <3>1. effect = "create" => Cardinality(env.active) < env.budget
      BY <2>2, CreateHasBudget
    <3>2. Cardinality(env.active) \in Nat
      BY <1>2, <1>3, FS_CardinalityType
    <3> QED
      BY <1>1, <1>2, <1>3, <3>1, <3>2
  <2>4. 1 \in 1 .. Draws
    BY EnvAssumption DEF EnvAssumption
  <2>5. /\ after \in Envs /\ after.active = Reindexed(env, effect)
        /\ after.budget = env.budget
    BY <1>3, <2>2, <2>4, SteppedType
  <2>6. after.sql = Upcoming(job[w].snapshot)
    BY <1>3, SteppedDraws
  <2>7. IsFiniteSet(after.active) /\ Cardinality(after.active) <= granted[build]
    BY <1>1, <1>2, <1>3, <2>3, <2>5, ReindexedBound
  <2>8. envs'[build] = after
    BY <1>1, <2>1
  <2>9. BuildInv'
    BY <1>1, <1>2, <1>3, <2>5, <2>7, <2>8 DEF BuildInv
  <2>10. /\ job'[w].env = build /\ job'[w].snapshot = job[w].snapshot
         /\ job'[w].foreseen = job[w].foreseen \union {after.sql}
    BY <1>1, <2>1 DEF Jobs
  <2>11. pc' = pc
    BY <1>5 DEF WhatIfBranch
  <2>12. StepInv(w)'
    BY <1>1, <1>2, <2>6, <2>10, <2>11 DEF StepInv
  <2>13. \A u \in Workers : StepInv(u)'
    BY <2>12 DEF StepInv
  <2> QED
    BY <2>9, <2>13 DEF WorldInv
<1> QED
  BY <1>4, <1>5

LEMMA ActKeepsWorld ==
  ASSUME TypeInv, WorldInv, "abandoned" \notin mishaps, NEW w \in Workers,
         \A u \in Workers : u # w => pc'[u] = "none",
         BeginStep(w) \/ StepMask(w) \/ StepApply(w)
  PROVE  WorldInv'
<1>1. /\ build \in 1 .. MaxEnvs /\ envs[build] \in Envs /\ job[w] \in Jobs
      /\ job \in [Workers -> Jobs] /\ pc \in [Workers -> Places]
      /\ envs \in [1 .. MaxEnvs -> Envs \union {None}]
      /\ granted[build] \in Nat
      /\ UNCHANGED <<ctl, running, build, granted>>
  BY DEF BeginStep, StepMask, StepApply, TypeInv, TypeOK, life, caller, world
<1>2. /\ IsFiniteSet(envs[build].active)
      /\ Cardinality(envs[build].active) <= granted[build]
      /\ envs[build].budget <= granted[build] /\ envs[build].budget \in Nat
      /\ Cardinality(envs[build].active) \in Nat
      /\ ctl = "build" => ~running
  <2>1. BuildInv /\ envs[build].budget \in Nat
    BY <1>1 DEF WorldInv, Envs
  <2> QED
    BY <2>1, FS_CardinalityType DEF BuildInv
<1>3. SUFFICES BuildInv' /\ StepInv(w)'
  <2>1. \A u \in Workers : u # w => StepInv(u)'
    BY DEF StepInv
  <2> QED
    BY <2>1 DEF WorldInv
<1>4. CASE BeginStep(w)
  <2>1. PICK a \in ValidActions(envs[build]) : job' = [job EXCEPT ![w] =
          [NoJob EXCEPT !.left = job[w].left - 1, !.env = build, !.action = a,
                        !.todo = IF config.cwil THEN ValidActions(envs[build]) ELSE {},
                        !.snapshot = IF config.cwil THEN envs[build] ELSE None]]
    BY <1>4 DEF BeginStep
  <2>2. /\ job'[w].env = build /\ job'[w].foreseen = {}
        /\ job'[w].snapshot = IF config.cwil THEN envs[build] ELSE None
    BY <1>1, <2>1 DEF NoJob
  <2>3. pc'[w] = IF config.cwil THEN "what_if" ELSE "act"
    BY <1>1, <1>4 DEF BeginStep, Goto
  <2>4. UNCHANGED envs
    BY <1>4 DEF BeginStep, world
  <2>5. BuildInv'
    BY <1>1, <1>2, <2>4 DEF BuildInv
  <2>6. StepInv(w)'
    BY <1>1, <1>2, <2>2, <2>3, <2>4 DEF StepInv
  <2> QED
    BY <2>5, <2>6
<1>5. CASE StepMask(w)
  <2>1. /\ pc[w] = "act" /\ pc'[w] = "apply" /\ job[w].env = build
        /\ job[w].foreseen \subseteq {Upcoming(envs[build])}
        /\ UNCHANGED envs
    BY <1>1, <1>5 DEF StepMask, Goto, WorldInv, StepInv, world
  <2>2. /\ job'[w].env = build /\ job'[w].foreseen = job[w].foreseen
        /\ job'[w].action = IF job[w].action \in ValidActions(envs[build])
                            THEN job[w].action ELSE "keep"
    BY <1>1, <1>5, <2>1 DEF StepMask, Jobs
  <2>3. job'[w].action = "create" => Cardinality(envs[build].active) < granted[build]
    <3>1. job'[w].action = "create" => Cardinality(envs[build].active) < envs[build].budget
      BY <2>2, CreateHasBudget
    <3> QED
      BY <1>1, <1>2, <3>1
  <2>4. BuildInv'
    BY <1>1, <1>2, <2>1 DEF BuildInv
  <2>5. StepInv(w)'
    BY <1>1, <2>1, <2>2, <2>3 DEF StepInv
  <2> QED
    BY <2>4, <2>5
<1>6. CASE StepApply(w)
  <2>1. /\ pc[w] = "apply" /\ pc'[w] = "learn" /\ job[w].env = build
        /\ job[w].foreseen \subseteq {Upcoming(envs[build])}
        /\ job[w].action = "create" => Cardinality(envs[build].active) < granted[build]
    BY <1>1, <1>6 DEF StepApply, Goto, WorldInv, StepInv
  <2>2. PICK next \in 1 .. Draws :
          LET after == Stepped(envs[build], job[w].action, next)
          IN  /\ envs' = [envs EXCEPT ![build] = after]
              /\ job' = [job EXCEPT ![w].next = ObsOf(after)]
    BY <1>6, <2>1 DEF StepApply
  <2> DEFINE after == Stepped(envs[build], job[w].action, next)
  <2>3. job[w].action \in Actions
    BY <1>1 DEF Jobs
  <2>4. /\ after \in Envs /\ after.active = Reindexed(envs[build], job[w].action)
        /\ after.budget = envs[build].budget
    BY <1>1, <2>3, SteppedType
  <2>5. after.sql = Upcoming(envs[build])
    BY <1>1, SteppedDraws
  <2>6. IsFiniteSet(after.active) /\ Cardinality(after.active) <= granted[build]
    BY <1>1, <1>2, <2>1, <2>4, ReindexedBound
  <2>7. /\ envs'[build] = after
        /\ job'[w].foreseen = job[w].foreseen /\ job'[w].next = ObsOf(after)
    BY <1>1, <2>2 DEF Jobs
  <2>8. BuildInv'
    BY <1>1, <1>2, <2>4, <2>6, <2>7 DEF BuildInv
  <2>9. StepInv(w)'
    BY <1>1, <2>1, <2>5, <2>7 DEF StepInv, ObsOf
  <2> QED
    BY <2>8, <2>9
<1> QED
  BY <1>4, <1>5, <1>6

LEMMA TurnKeepsWorld ==
  ASSUME TypeInv, WorldInv, "abandoned" \notin mishaps, NEW w \in Workers,
         \A u \in Workers : u # w => pc'[u] = "none", Turn(w)
  PROVE  WorldInv'
<1>1. /\ build \in 1 .. MaxEnvs /\ envs[build] \in Envs
      /\ pc \in [Workers -> Places]
      /\ envs \in [1 .. MaxEnvs -> Envs \union {None}]
      /\ granted \in [1 .. MaxEnvs -> Nat]
      /\ UNCHANGED <<ctl, running, build>>
  BY DEF Turn, TypeInv, TypeOK, life, caller
<1>2. PICK next \in 1 .. Draws : envs' = [envs EXCEPT ![build] = EnvReset(@, phase', next)]
  BY DEF Turn
<1>3. phase' \in Tasks
  <2>1. TypeInv'
    BY TypeAdvance DEF Turn
  <2> QED
    BY <2>1 DEF TypeInv, TypeOK
<1>4. /\ envs'[build].active = {} /\ envs'[build].budget = envs[build].budget
      /\ envs[build].budget \in Nat
  <2>1. envs[build].rng \in 1 .. Draws /\ envs[build].budget \in Nat
    BY <1>1 DEF Envs
  <2> QED
    BY <1>1, <1>2, <1>3, <2>1, EnvResetType
<1>5. granted'[build] = envs[build].budget /\ pc'[w] = "batch"
  BY <1>1 DEF Turn, Goto
<1>6. BuildInv'
  <2>1. IsFiniteSet({}) /\ Cardinality({}) = 0
    BY FS_EmptySet
  <2> QED
    BY <1>1, <1>4, <1>5, <2>1 DEF BuildInv, WorldInv
<1>7. \A u \in Workers : StepInv(u)'
  BY <1>5 DEF StepInv
<1> QED
  BY <1>6, <1>7 DEF WorldInv

LEMMA RunKeepsWorld ==
  ASSUME TypeInv, LifeInv, WorldInv, "abandoned" \notin mishaps',
         NEW w \in Workers, Run(w)
  PROVE  WorldInv'
<1>1. /\ "abandoned" \notin mishaps
      /\ \A u \in Workers : u # w => pc'[u] = "none"
  BY OthersAreNone
<1>2. ASSUME pc'[w] \notin {"what_if", "act", "apply", "learn"},
             UNCHANGED <<world, ctl>>, ~running => ~running'
      PROVE  WorldInv'
  BY <1>1, <1>2, ElsewhereKeepsWorld
<1>3. CASE \/ LoopSeesStop(w) \/ Leave(w) \/ LoopDies(w) \/ BatchEnds(w)
           \/ \E n \in 1 .. MaxBatch : BatchDue(w, n)
  <2>1. UNCHANGED <<world, ctl>> /\ (~running => ~running')
    BY <1>3 DEF LoopSeesStop, Leave, LoopDies, BatchEnds, BatchDue, life, caller
  <2>2. pc'[w] \in {"leaving", "none", "loop", "batch"}
    BY <1>3 DEF LoopSeesStop, Leave, LoopDies, BatchEnds, BatchDue, Goto, TypeInv, TypeOK
  <2> QED
    BY <1>2, <2>1, <2>2
<1>4. CASE Learn(w) \/ Record(w) \/ StepRaises(w) \/ BoundaryTest(w)
  <2>1. UNCHANGED <<world, ctl, running>>
    BY <1>4 DEF Learn, Record, StepRaises, BoundaryTest, life, caller
  <2>2. \E place \in {"record", "consolidate", "advance", "batch", "leaving", "turn"} :
          pc' = [pc EXCEPT ![w] = place]
    <3>1. CASE Record(w)
      BY <3>1, Zenon DEF Record, Goto
    <3>2. CASE Learn(w) \/ StepRaises(w) \/ BoundaryTest(w)
      BY <3>2 DEF Learn, StepRaises, BoundaryTest, Goto
    <3> QED
      BY <1>4, <3>1, <3>2
  <2>3. pc'[w] \in {"record", "consolidate", "advance", "batch", "leaving", "turn"}
    BY <2>2 DEF TypeInv, TypeOK
  <2> QED
    BY <1>2, <2>1, <2>3
<1>5. CASE ConsolidateTest(w) \/ Register(w) \/ ConsolidateRaises(w) \/ Prune(w)
  <2>1. UNCHANGED <<world, ctl, running>>
    BY <1>5 DEF ConsolidateTest, Register, ConsolidateRaises, Prune, life, caller
  <2>2. pc'[w] \in {"registering", "pruning", "record", "turn"}
    BY <1>5 DEF ConsolidateTest, Register, ConsolidateRaises, Prune, Return, Goto,
                TypeInv, TypeOK
  <2> QED
    BY <1>2, <2>1, <2>2
<1> QED
  BY <1>1, <1>3, <1>4, <1>5, WhatIfKeepsWorld, ActKeepsWorld, TurnKeepsWorld, Zenon DEF Run

LEMMA ControlKeepsWorld ==
  ASSUME TypeInv, LifeInv, WorldInv, "abandoned" \notin mishaps', Control
  PROVE  WorldInv'
<1>1. "abandoned" \notin mishaps
  BY DEF Control, Start, Pause, Resume, Stop, Join, SeedRaises, Build, Configure, history
<1>2. BuildInv /\ \A w \in Workers : StepInv(w)
  BY <1>1 DEF WorldInv
<1>3. CASE Start \/ Pause \/ Resume \/ (\E resets \in BOOLEAN : Stop(resets)) \/ Join
           \/ SeedRaises
  <2>1. UNCHANGED <<world, job>> /\ (ctl' = "build" => ~running')
    BY <1>3, <1>2 DEF Start, Pause, Resume, Stop, Join, SeedRaises, BuildInv, caller, life
  <2>2. \A w \in Workers : pc'[w] = pc[w] \/ pc'[w] = "loop"
    BY <1>3 DEF Start, StartsWorker, Pause, Resume, Stop, Join, SeedRaises, TypeInv, TypeOK
  <2>3. \A w \in Workers : StepInv(w)'
    BY <1>2, <2>1, <2>2 DEF StepInv, world
  <2>4. BuildInv'
    BY <1>2, <2>1 DEF BuildInv, world
  <2> QED
    BY <2>3, <2>4 DEF WorldInv
<1>4. CASE Build
  <2>1. \A w \in Workers : pc'[w] = "none"
    BY <1>1, <1>2, <1>4 DEF Build, BuildInv, LifeInv, Alive
  <2>2. PICK e \in NewEnvs(config.budget), free \in 1 .. MaxEnvs :
          /\ envs' = [i \in 1 .. MaxEnvs |->
                       IF i = free THEN e ELSE IF i \in Held THEN envs[i] ELSE None]
          /\ granted' = [i \in 1 .. MaxEnvs |->
                          IF i = free THEN config.budget ELSE IF i \in Held THEN granted[i] ELSE 0]
          /\ build' = free
    BY <1>4 DEF Build
  <2>3. envs'[build'] = e /\ granted'[build'] = config.budget /\ ctl' # "build"
    BY <1>4, <2>2 DEF Build
  <2>4. config.budget \in Nat
    BY SimulatorAssumption DEF SimulatorAssumption, TypeInv, TypeOK
  <2>5. e.active = {} /\ e.budget = config.budget
    BY <2>4, NewEnvsType
  <2>6. IsFiniteSet({}) /\ Cardinality({}) = 0
    BY FS_EmptySet
  <2>7. BuildInv'
    BY <2>3, <2>4, <2>5, <2>6 DEF BuildInv
  <2>8. \A w \in Workers : StepInv(w)'
    BY <2>1 DEF StepInv
  <2> QED
    BY <2>7, <2>8 DEF WorldInv
<1>5. ASSUME NEW c \in Configs, Configure(c) PROVE WorldInv'
  <2>1. /\ build \in 1 .. MaxEnvs /\ envs[build] \in Envs
        /\ envs \in [1 .. MaxEnvs -> Envs \union {None}]
        /\ granted \in [1 .. MaxEnvs -> Nat]
        /\ c.budget \in Nat
    BY SimulatorAssumption DEF SimulatorAssumption, TypeInv, TypeOK
  <2>2. UNCHANGED <<pc, job, ctl, running, build>>
    BY <1>5 DEF Configure, life, caller
  <2>3. /\ envs'[build].active = envs[build].active
        /\ Upcoming(envs'[build]) = Upcoming(envs[build])
        /\ granted[build] \in Nat /\ granted'[build] \in Nat
        /\ granted[build] <= granted'[build]
        /\ envs'[build].budget <= granted'[build]
    <3>1. CASE UNCHANGED <<envs, granted>>
      BY <1>2, <2>1, <3>1 DEF BuildInv
    <3>2. CASE /\ envs' = [envs EXCEPT ![build].budget = c.budget]
               /\ granted' = [granted EXCEPT ![build] = Larger(@, c.budget)]
      <4>1. /\ envs'[build] = [envs[build] EXCEPT !.budget = c.budget]
            /\ granted'[build] = Larger(granted[build], c.budget)
            /\ granted[build] \in Nat
        BY <2>1, <3>2
      <4>2. /\ envs'[build].active = envs[build].active
            /\ envs'[build].task = envs[build].task
            /\ envs'[build].rng = envs[build].rng
            /\ envs'[build].budget = c.budget
        BY <2>1, <4>1 DEF Envs
      <4> QED
        BY <2>1, <4>1, <4>2 DEF Larger, Upcoming
    <3> QED
      BY <1>5, <3>1, <3>2 DEF Configure
  <2>4. Cardinality(envs[build].active) \in Nat
    BY <1>2, FS_CardinalityType DEF BuildInv
  <2>5. BuildInv'
    BY <1>2, <2>2, <2>3, <2>4 DEF BuildInv
  <2>6. ASSUME NEW w \in Workers PROVE StepInv(w)'
    <3>1. StepInv(w)
      BY <1>2
    <3>2. pc[w] = "what_if" => Cardinality(job[w].snapshot.active) \in Nat
      BY <3>1, FS_CardinalityType DEF StepInv
    <3> QED
      BY <2>2, <2>3, <2>4, <3>1, <3>2 DEF StepInv
  <2> QED
    BY <2>5, <2>6 DEF WorldInv
<1> QED
  BY <1>3, <1>4, <1>5 DEF Control

LEMMA WorldNext == TypeInv /\ LifeInv /\ WorldInv /\ [Next]_vars => WorldInv'
<1> SUFFICES ASSUME TypeInv, LifeInv, WorldInv, [Next]_vars, "abandoned" \notin mishaps'
             PROVE  WorldInv'
  BY DEF WorldInv
<1>1. CASE UNCHANGED vars
  <2>1. UNCHANGED <<life, pc, job, caller, world, history>>
    BY <1>1 DEF vars
  <2> QED
    BY <2>1 DEF WorldInv, BuildInv, StepInv, life, caller, world, history
<1> QED
  BY <1>1, RunKeepsWorld, ControlKeepsWorld DEF Next

LEMMA WorldInit == Init => WorldInv
<1> SUFFICES ASSUME Init PROVE BuildInv /\ \A w \in Workers : StepInv(w)
  BY DEF WorldInv
<1>1. config.budget \in Nat /\ 1 \in 1 .. MaxEnvs
  BY SimulatorAssumption DEF SimulatorAssumption, Init
<1>2. PICK e \in NewEnvs(config.budget) :
        envs = [i \in 1 .. MaxEnvs |-> IF i = 1 THEN e ELSE None]
  BY DEF Init
<1>3. e.active = {} /\ e.budget = config.budget
  BY <1>1, <1>2, NewEnvsType
<1>4. envs[build] = e /\ granted[build] = config.budget /\ ctl = "idle"
  BY <1>1, <1>2 DEF Init
<1>5. IsFiniteSet({}) /\ Cardinality({}) = 0
  BY FS_EmptySet
<1>6. \A w \in Workers : pc[w] = "none"
  BY DEF Init
<1>7. BuildInv
  BY <1>1, <1>3, <1>4, <1>5 DEF BuildInv
<1> QED
  BY <1>6, <1>7 DEF StepInv

LEMMA TypeInvariant == Spec => []TypeInv
BY TypeInit, TypeNext, PTL DEF Spec

LEMMA WorldInvariant == Spec => []WorldInv
BY TypeInvariant, LifeInvariant, WorldInit, WorldNext, PTL DEF Spec

(* Whatever is configured between the mask and the action and whatever     *)
(* what_if rewinds, the environment has no more indexes than the largest   *)
(* budget since they were cleared (sim_env.py:208-232).                    *)
THEOREM IndexesWithinBudget == Spec => []WithinBudget
<1>1. WorldInv => WithinBudget
  BY DEF WorldInv, BuildInv, WithinBudget
<1> QED
  BY <1>1, WorldInvariant, PTL

(* What what_if's branches observed is what the step then taken observes.  *)
LEMMA StepsMeetTheForeseen == Spec => []SuccessorsWereForeseen
<1>1. WorldInv => SuccessorsWereForeseen
  BY DEF WorldInv, StepInv, SuccessorsWereForeseen
<1> QED
  BY <1>1, WorldInvariant, PTL

-----------------------------------------------------------------------------
(* The observation.  Between steps it shows the environment, and so does   *)
(* the next one that a step takes with it to where it is recorded; while   *)
(* what_if and act are under way nobody relies on it.                      *)

ObsInv ==
  mishaps \subseteq {"died"} =>
    /\ Quiet => obs = ObsOf(envs[build])
    /\ \A w \in Workers : Recording(w) => job[w].next = ObsOf(envs[build])

AtRest == {"none", "loop", "batch", "leaving"}

LEMMA ControlKeepsObs ==
  ASSUME TypeInv, LifeInv, WorldInv, ObsInv, Control, mishaps' \subseteq {"died"}
  PROVE  ObsInv'
<1>1. CASE Build
  <2>1. PICK e \in NewEnvs(config.budget), free \in 1 .. MaxEnvs :
          /\ envs' = [i \in 1 .. MaxEnvs |->
                       IF i = free THEN e ELSE IF i \in Held THEN envs[i] ELSE None]
          /\ build' = free
          /\ obs' = ObsOf(e)
    BY <1>1 DEF Build
  <2>2. obs' = ObsOf(envs'[build'])
    BY <2>1
  <2>3. "abandoned" \notin mishaps /\ pc' = pc
    <3>1. mishaps' = mishaps \ {"failed step"} /\ pc' = pc
      BY <1>1, Zenon DEF Build
    <3>2. "abandoned" \in mishaps => "abandoned" \in mishaps'
      BY <3>1, Zenon
    <3>3. "abandoned" \notin mishaps'
      OBVIOUS
    <3> QED
      BY <3>1, <3>2, <3>3, Zenon
  <2>4. \A w \in Workers : pc'[w] = "none"
    BY <1>1, <2>3 DEF Build, WorldInv, BuildInv, LifeInv, Alive
  <2>5. \A w \in Workers : ~Recording(w)'
    BY <2>4 DEF Recording
  <2> QED
    BY <2>2, <2>5 DEF ObsInv
<1>2. ASSUME ~Build PROVE ObsInv'
  <2>1. mishaps \subseteq {"died"} /\ UNCHANGED <<job, obs, build>>
    BY <1>2 DEF Control, Start, Pause, Resume, Stop, Join, SeedRaises, Configure, history,
                world, progress
  <2>2. ObsOf(envs'[build]) = ObsOf(envs[build])
    <3>1. CASE UNCHANGED envs
      BY <3>1
    <3>2. ASSUME NEW c \in Configs, envs' = [envs EXCEPT ![build].budget = c.budget]
          PROVE  ObsOf(envs'[build]) = ObsOf(envs[build])
      <4>1. /\ build \in 1 .. MaxEnvs /\ envs[build] \in Envs
            /\ envs \in [1 .. MaxEnvs -> Envs \union {None}]
        BY DEF TypeInv, TypeOK
      <4>2. envs'[build] = [envs[build] EXCEPT !.budget = c.budget]
        BY <3>2, <4>1
      <4> QED
        BY <4>1, <4>2 DEF ObsOf, Envs
    <3> QED
      BY <1>2, <3>1, <3>2 DEF Control, Start, Pause, Resume, Stop, Join, SeedRaises,
                              Configure, world
  <2>3. \A w \in Workers : pc'[w] = pc[w] \/ (pc[w] = "none" /\ pc'[w] = "loop")
    BY <1>2 DEF Control, Start, StartsWorker, Alive, Pause, Resume, Stop, Join, SeedRaises,
                Configure, TypeInv, TypeOK
  <2>4. Quiet' => Quiet
    BY <2>3 DEF Quiet
  <2>5. \A w \in Workers : Recording(w)' => Recording(w)
    BY <2>1, <2>3 DEF Recording
  <2> QED
    BY <2>1, <2>2, <2>4, <2>5 DEF ObsInv
<1> QED
  BY <1>1, <1>2

LEMMA RunKeepsObs ==
  ASSUME TypeInv, LifeInv, WorldInv, ObsInv, mishaps' \subseteq {"died"},
         NEW w \in Workers, Run(w)
  PROVE  ObsInv'
<1>1. /\ "abandoned" \notin mishaps
      /\ \A u \in Workers : u # w => pc[u] = "none" /\ pc'[u] = "none"
  BY OthersAreNone
<1>2. SUFFICES /\ pc'[w] \in AtRest => obs' = ObsOf(envs'[build'])
               /\ Recording(w)' => job'[w].next = ObsOf(envs'[build'])
  BY <1>1 DEF ObsInv, Quiet, Recording, AtRest
<1>3. ASSUME mishaps \subseteq {"died"}
      PROVE  /\ pc[w] \in AtRest => obs = ObsOf(envs[build])
             /\ Recording(w) => job[w].next = ObsOf(envs[build])
  BY <1>1, <1>3 DEF ObsInv, Quiet, AtRest
<1>4. /\ pc \in [Workers -> Places] /\ job \in [Workers -> Jobs] /\ job[w] \in Jobs
      /\ build \in 1 .. MaxEnvs /\ envs \in [1 .. MaxEnvs -> Envs \union {None}]
  BY DEF TypeInv, TypeOK
<1>5. CASE \/ LoopSeesStop(w) \/ Leave(w) \/ LoopDies(w) \/ BatchEnds(w)
           \/ \E n \in 1 .. MaxBatch : BatchDue(w, n)
  <2>1. /\ pc[w] \in AtRest /\ UNCHANGED <<world, obs>>
        /\ mishaps \subseteq {"died"}
    BY <1>5 DEF LoopSeesStop, Leave, LoopDies, BatchEnds, BatchDue, AtRest, progress, history
  <2>2. pc'[w] \in AtRest
    BY <1>4, <1>5 DEF LoopSeesStop, Leave, LoopDies, BatchEnds, BatchDue, Goto, AtRest
  <2> QED
    BY <1>3, <2>1, <2>2 DEF world, Recording, AtRest
<1>6. CASE BeginStep(w) \/ WhatIfBranch(w) \/ WhatIfEnds(w) \/ StepMask(w)
  <2>1. \/ pc' = pc /\ pc[w] = "what_if"
        \/ \E place \in {"what_if", "act", "apply"} : pc' = [pc EXCEPT ![w] = place]
    <3>1. CASE BeginStep(w)
      BY <3>1, Zenon DEF BeginStep, Goto
    <3>2. CASE WhatIfBranch(w) \/ WhatIfEnds(w) \/ StepMask(w)
      BY <3>2 DEF WhatIfBranch, WhatIfEnds, StepMask, Goto
    <3> QED
      BY <1>6, <3>1, <3>2
  <2>2. pc'[w] \in {"what_if", "act", "apply"}
    BY <1>4, <2>1
  <2> QED
    BY <2>2 DEF Recording, AtRest
<1>7. CASE StepApply(w)
  <2>1. pc[w] = "apply" /\ pc'[w] = "learn" /\ job[w].env = build /\ build' = build
    BY <1>1, <1>4, <1>7 DEF StepApply, Goto, WorldInv, StepInv
  <2>2. \E after : /\ envs' = [envs EXCEPT ![build] = after]
                   /\ job' = [job EXCEPT ![w].next = ObsOf(after)]
    BY <1>7, <2>1 DEF StepApply
  <2>3. job'[w].next = ObsOf(envs'[build'])
    BY <1>4, <2>1, <2>2 DEF Jobs
  <2> QED
    BY <2>1, <2>3 DEF AtRest
<1>8. CASE Learn(w)
  <2>1. /\ pc[w] = "learn" /\ UNCHANGED world /\ mishaps \subseteq {"died"}
        /\ pc'[w] \in {"record", "consolidate"}
    BY <1>4, <1>8 DEF Learn, Goto, history
  <2>2. job'[w].next = job[w].next
    BY <1>4, <1>8 DEF Learn, Jobs
  <2> QED
    BY <1>3, <2>1, <2>2 DEF Recording, AtRest, world
<1>9. CASE Record(w)
  <2>1. /\ Recording(w) /\ obs' = job[w].next /\ UNCHANGED world
        /\ mishaps \subseteq {"died"}
    BY <1>9 DEF Record, Recording
  <2>2. \E place \in {"advance", "batch", "leaving"} : pc' = [pc EXCEPT ![w] = place]
    BY <1>9, Zenon DEF Record, Goto
  <2>3. pc'[w] \in {"advance", "batch", "leaving"}
    BY <1>4, <2>2
  <2> QED
    BY <1>3, <2>1, <2>3 DEF Recording, world
<1>10. CASE StepRaises(w)
  BY <1>10 DEF StepRaises
<1>11. CASE BoundaryTest(w)
  <2>1. \/ pc'[w] = "turn"
        \/ pc'[w] = "consolidate" /\ job'[w].source = "boundary"
    BY <1>4, <1>11 DEF BoundaryTest, Goto, Jobs
  <2> QED
    BY <2>1 DEF Recording, AtRest
<1>12. CASE Turn(w)
  <2>1. obs' = ObsOf(envs'[build]) /\ build' = build /\ pc'[w] = "batch"
    BY <1>4, <1>12 DEF Turn, Goto
  <2> QED
    BY <2>1 DEF Recording
<1>13. CASE ConsolidateTest(w) \/ Register(w) \/ ConsolidateRaises(w) \/ Prune(w)
  <2>1. /\ pc[w] \in {"consolidate", "registering", "pruning"} /\ UNCHANGED world
        /\ mishaps \subseteq {"died"}
    BY <1>13 DEF ConsolidateTest, Register, ConsolidateRaises, Prune, history
  <2>2. job'[w].next = job[w].next /\ job'[w].source = job[w].source
    BY <1>4, <1>13 DEF ConsolidateTest, Register, ConsolidateRaises, Prune, Jobs
  <2>3. \/ pc'[w] \in {"registering", "pruning"}
        \/ pc'[w] = "record" /\ job[w].source = "drift"
        \/ pc'[w] = "turn"
    BY <1>4, <1>13 DEF ConsolidateTest, Register, ConsolidateRaises, Prune, Return, Goto
  <2>4. Recording(w)' => Recording(w)
    BY <2>1, <2>2, <2>3 DEF Recording
  <2> QED
    BY <1>3, <2>1, <2>2, <2>3, <2>4 DEF AtRest, world
<1> QED
  BY <1>5, <1>6, <1>7, <1>8, <1>9, <1>10, <1>11, <1>12, <1>13, Zenon DEF Run

LEMMA ObsNext == TypeInv /\ LifeInv /\ WorldInv /\ ObsInv /\ [Next]_vars => ObsInv'
<1> SUFFICES ASSUME TypeInv, LifeInv, WorldInv, ObsInv, [Next]_vars, mishaps' \subseteq {"died"}
             PROVE  ObsInv'
  BY DEF ObsInv
<1>1. CASE UNCHANGED vars
  <2>1. UNCHANGED <<pc, job, world, obs, history>>
    BY <1>1 DEF vars, progress
  <2> QED
    BY <2>1 DEF ObsInv, Quiet, Recording, world, history
<1> QED
  BY <1>1, RunKeepsObs, ControlKeepsObs DEF Next

LEMMA ObsInit == Init => ObsInv
<1> SUFFICES ASSUME Init PROVE ObsInv
  OBVIOUS
<1>1. 1 \in 1 .. MaxEnvs
  BY SimulatorAssumption DEF SimulatorAssumption
<1>2. \E e : /\ envs = [i \in 1 .. MaxEnvs |-> IF i = 1 THEN e ELSE None]
             /\ obs = ObsOf(e)
  BY DEF Init
<1>3. obs = ObsOf(envs[build])
  BY <1>1, <1>2 DEF Init
<1>4. \A w \in Workers : pc[w] = "none"
  BY DEF Init
<1> QED
  BY <1>3, <1>4 DEF ObsInv, Recording

(* However branches, phase changes, resets and budgets interleave, the     *)
(* agent acts on what the environment shows, and meets the query that its  *)
(* branches met (traffic.py:252-266, sim_env.py:267-).                     *)
THEOREM WhatIfIsInvisible == Spec => []WhatIfLeavesNoTrace
<1>1. Spec => []ObsInv
  BY TypeInvariant, LifeInvariant, WorldInvariant, ObsInit, ObsNext, PTL DEF Spec
<1>2. ObsInv /\ SuccessorsWereForeseen => WhatIfLeavesNoTrace
  BY DEF ObsInv, ActsOnCurrentObservation, WhatIfLeavesNoTrace
<1> QED
  BY <1>1, <1>2, StepsMeetTheForeseen, PTL

-----------------------------------------------------------------------------
(* What is remembered of the phases.                                       *)

LEMMA LastOfElements ==
  ASSUME NEW S, NEW s \in Seq(S), NEW n \in Nat \ {0}
  PROVE  /\ LastOf(s, n) \in Seq(S)
         /\ Len(LastOf(s, n)) = Smaller(n, Len(s))
         /\ \A i \in 1 .. Smaller(n, Len(s)) :
              LastOf(s, n)[i] = s[Len(s) - Smaller(n, Len(s)) + i]
<1> DEFINE first == Larger(1, Len(s) - n + 1)
<1>1. /\ Len(s) \in Nat /\ first \in Nat /\ first >= 1
      /\ first = Len(s) - Smaller(n, Len(s)) + 1
      /\ Smaller(n, Len(s)) \in Nat
  <2>1. Len(s) \in Nat /\ n \in Nat /\ n >= 1
    BY LenProperties
  <2>2. CASE n < Len(s)
    <3>1. first = Len(s) - n + 1 /\ Smaller(n, Len(s)) = n
      BY <2>1, <2>2 DEF Larger, Smaller
    <3> QED
      BY <2>1, <2>2, <3>1
  <2>3. CASE ~(n < Len(s))
    <3>1. first = 1 /\ Smaller(n, Len(s)) = Len(s)
      BY <2>1, <2>3 DEF Larger, Smaller
    <3> QED
      BY <2>1, <2>3, <3>1
  <2> QED
    BY <2>2, <2>3
<1>2. \A i \in first .. Len(s) : s[i] \in S
  BY <1>1, ElementOfSeq
<1>3. /\ SubSeq(s, first, Len(s)) \in Seq(S)
      /\ Len(SubSeq(s, first, Len(s)))
           = IF first <= Len(s) THEN Len(s) - first + 1 ELSE 0
      /\ \A i \in 1 .. Len(s) - first + 1 : SubSeq(s, first, Len(s))[i] = s[first + i - 1]
  BY <1>1, <1>2, SubSeqProperties
<1>4. LastOf(s, n) = SubSeq(s, first, Len(s))
  BY DEF LastOf
<1>5. Len(s) - first + 1 = Smaller(n, Len(s))
  BY <1>1
<1>6. \A i \in 1 .. Smaller(n, Len(s)) : first + i - 1 = Len(s) - Smaller(n, Len(s)) + i
  BY <1>1
<1>7. Len(LastOf(s, n)) = Smaller(n, Len(s))
  BY <1>1, <1>3, <1>4, <1>5
<1>8. \A i \in 1 .. Smaller(n, Len(s)) :
        LastOf(s, n)[i] = s[Len(s) - Smaller(n, Len(s)) + i]
  BY <1>3, <1>4, <1>5, <1>6
<1> QED
  BY <1>3, <1>4, <1>7, <1>8

(* s is the end of t. *)
EndOf(s, t) ==
  /\ Len(s) <= Len(t)
  /\ \A i \in 1 .. Len(s) : s[i] = t[Len(t) - Len(s) + i]

LEMMA LastOfIsEnd ==
  ASSUME NEW S, NEW s \in Seq(S), NEW t \in Seq(S), EndOf(s, t), NEW n \in Nat \ {0}
  PROVE  EndOf(LastOf(s, n), t)
<1>1. /\ Len(LastOf(s, n)) = Smaller(n, Len(s))
      /\ \A i \in 1 .. Smaller(n, Len(s)) :
           LastOf(s, n)[i] = s[Len(s) - Smaller(n, Len(s)) + i]
  BY LastOfElements
<1>2. /\ Len(s) \in Nat /\ Len(t) \in Nat /\ Smaller(n, Len(s)) \in 0 .. Len(s)
  BY LenProperties DEF Smaller
<1>3. ASSUME NEW i \in 1 .. Smaller(n, Len(s))
      PROVE  LastOf(s, n)[i] = t[Len(t) - Smaller(n, Len(s)) + i]
  <2> DEFINE j == Len(s) - Smaller(n, Len(s)) + i
  <2>1. j \in 1 .. Len(s) /\ Len(t) - Len(s) + j = Len(t) - Smaller(n, Len(s)) + i
    BY <1>2
  <2>2. LastOf(s, n)[i] = s[j]
    BY <1>1
  <2>3. s[j] = t[Len(t) - Len(s) + j]
    BY <2>1 DEF EndOf
  <2> QED
    BY <2>1, <2>2, <2>3
<1>4. Smaller(n, Len(s)) <= Len(t)
  BY <1>2 DEF EndOf
<1>5. \A i \in 1 .. Len(LastOf(s, n)) :
        LastOf(s, n)[i] = t[Len(t) - Len(LastOf(s, n)) + i]
  BY <1>1, <1>3
<1>6. Len(LastOf(s, n)) <= Len(t)
  BY <1>1, <1>4
<1> QED
  BY <1>5, <1>6 DEF EndOf

(* The last n of an end that has n, or everything, are the last n.         *)
LEMMA SameLast ==
  ASSUME NEW S, NEW s \in Seq(S), NEW t \in Seq(S), EndOf(s, t), NEW n \in Nat \ {0},
         Len(s) < n => Len(s) = Len(t)
  PROVE  LastOf(s, n) = LastOf(t, n)
<1>1. /\ LastOf(s, n) \in Seq(S) /\ LastOf(t, n) \in Seq(S)
      /\ Len(LastOf(s, n)) = Smaller(n, Len(s)) /\ Len(LastOf(t, n)) = Smaller(n, Len(t))
      /\ \A i \in 1 .. Smaller(n, Len(t)) :
           LastOf(t, n)[i] = t[Len(t) - Smaller(n, Len(t)) + i]
  BY LastOfElements
<1>2. Smaller(n, Len(s)) = Smaller(n, Len(t))
  <2>1. Len(s) \in Nat /\ Len(t) \in Nat /\ Len(s) <= Len(t)
    BY LenProperties DEF EndOf
  <2> QED
    BY <2>1 DEF Smaller
<1>3. \A i \in 1 .. Smaller(n, Len(s)) :
        LastOf(s, n)[i] = t[Len(t) - Smaller(n, Len(s)) + i]
  <2>1. EndOf(LastOf(s, n), t)
    BY LastOfIsEnd
  <2> QED
    BY <1>1, <2>1 DEF EndOf
<1>4. \A i \in 1 .. Len(LastOf(s, n)) : LastOf(s, n)[i] = LastOf(t, n)[i]
  BY <1>1, <1>2, <1>3
<1> QED
  BY <1>1, <1>2, <1>4, SeqEqual

LEMMA AppendToEnd ==
  ASSUME NEW S, NEW s \in Seq(S), NEW t \in Seq(S), EndOf(s, t), NEW e \in S
  PROVE  /\ EndOf(Append(s, e), Append(t, e))
         /\ Len(Append(s, e)) = Len(s) + 1 /\ Len(Append(t, e)) = Len(t) + 1
<1>1. /\ Len(s) \in Nat /\ Len(t) \in Nat /\ Len(s) <= Len(t)
      /\ \A i \in 1 .. Len(s) : s[i] = t[Len(t) - Len(s) + i]
  BY LenProperties DEF EndOf
<1>2. /\ Len(Append(s, e)) = Len(s) + 1 /\ Len(Append(t, e)) = Len(t) + 1
      /\ \A i \in 1 .. Len(s) : Append(s, e)[i] = s[i]
      /\ \A i \in 1 .. Len(t) : Append(t, e)[i] = t[i]
      /\ Append(s, e)[Len(s) + 1] = e /\ Append(t, e)[Len(t) + 1] = e
  BY AppendProperties
<1>3. ASSUME NEW i \in 1 .. Len(s) + 1
      PROVE  Append(s, e)[i] = Append(t, e)[Len(t) + 1 - (Len(s) + 1) + i]
  <2>1. CASE i = Len(s) + 1
    <3>1. Len(t) + 1 - (Len(s) + 1) + i = Len(t) + 1
      BY <1>1, <2>1
    <3> QED
      BY <1>2, <2>1, <3>1
  <2>2. CASE i \in 1 .. Len(s)
    <3>1. /\ Len(t) + 1 - (Len(s) + 1) + i = Len(t) - Len(s) + i
          /\ Len(t) - Len(s) + i \in 1 .. Len(t)
      BY <1>1, <2>2
    <3> QED
      BY <1>1, <1>2, <2>2, <3>1
  <2>3. i = Len(s) + 1 \/ i \in 1 .. Len(s)
    <3>1. Len(s) \in Nat
      BY LenProperties
    <3> QED
      BY <3>1
  <2> QED
    BY <2>1, <2>2, <2>3
<1>4. \A i \in 1 .. Len(Append(s, e)) :
        Append(s, e)[i] = Append(t, e)[Len(Append(t, e)) - Len(Append(s, e)) + i]
  <2>1. Len(Append(s, e)) = Len(s) + 1 /\ Len(Append(t, e)) = Len(t) + 1
    BY <1>2
  <2>2. ASSUME NEW i \in 1 .. Len(Append(s, e))
        PROVE  Append(s, e)[i] = Append(t, e)[Len(Append(t, e)) - Len(Append(s, e)) + i]
    <3>1. i \in 1 .. Len(s) + 1
      BY <2>1
    <3>2. Append(s, e)[i] = Append(t, e)[Len(t) + 1 - (Len(s) + 1) + i]
      BY <1>3, <3>1
    <3>3. Len(Append(t, e)) - Len(Append(s, e)) + i = Len(t) + 1 - (Len(s) + 1) + i
      BY <2>1
    <3> QED
      BY <3>2, <3>3
  <2> QED
    BY <2>2
<1>5. Len(Append(s, e)) <= Len(Append(t, e))
  BY <1>1, <1>2
<1> QED
  BY <1>2, <1>4, <1>5 DEF EndOf

(* Ids of consolidations, before the phase under way and of it.            *)
Earlier(id) == id.cycle < cycle \/ (id.cycle = cycle /\ id.phase < phase)
Current(id) == id.cycle = cycle /\ id.phase = phase
LastIsCurrent == consolidated # <<>> /\ Current(Last(consolidated))

(* The current phase has been consolidated under one id at most, the last  *)
(* one: by its drifts, after which its boundary is not consolidated, or by *)
(* its boundary, after which it is over.  So an id that the dictionary has *)
(* is its last one, and the dictionary is the end of the chronicle.        *)
Chronicle ==
  /\ \A i \in 1 .. Len(consolidated) :
       Earlier(consolidated[i]) \/ (i = Len(consolidated) /\ Current(consolidated[i]))
  /\ LastIsCurrent =>
       IF Last(consolidated).source = "drift"
       THEN had_consolidation \/ \E w \in Workers : pc[w] = "pruning"
       ELSE \E w \in Workers : pc[w] \in {"pruning", "turn"} /\ job[w].source = "boundary"

Consolidating(w) ==
  /\ pc[w] \in {"consolidate", "registering"} /\ job[w].source = "boundary" => ~LastIsCurrent
  /\ pc[w] = "registering" =>
       job[w].id = [source |-> job[w].source, cycle |-> cycle, phase |-> phase]

Remembered ==
  /\ EndOf(memory, consolidated)
  /\ Len(memory) < KeepPhases => Len(memory) = Len(consolidated)

MemoryInv ==
  "abandoned" \notin mishaps =>
    Chronicle /\ Remembered /\ \A w \in Workers : Consolidating(w)

LEMMA NextPhase ==
  ASSUME NEW p \in Tasks
  PROVE  (p + 1) % NumTasks = IF p + 1 = NumTasks THEN 0 ELSE p + 1
<1>1. p \in Nat /\ NumTasks \in Nat \ {0} /\ p + 1 <= NumTasks
  BY EnvAssumption DEF EnvAssumption, Tasks
<1>2. CASE p + 1 = NumTasks
  BY <1>1, <1>2
<1>3. CASE p + 1 < NumTasks
  BY <1>1, <1>3
<1> QED
  BY <1>1, <1>2, <1>3

(* A step that consolidates nothing and ends no phase.                     *)
LEMMA PhaseGoesOn ==
  ASSUME TypeInv, MemoryInv, "abandoned" \notin mishaps, NEW w \in Workers,
         \A u \in Workers : u # w => pc[u] = "none" /\ pc'[u] = "none",
         pc[w] \notin {"pruning", "turn"},
         UNCHANGED <<memory, consolidated, cycle, phase, had_consolidation>>,
         pc'[w] \in {"consolidate", "registering"} /\ job'[w].source = "boundary" =>
           ~LastIsCurrent,
         pc'[w] = "registering" =>
           job'[w].id = [source |-> job'[w].source, cycle |-> cycle, phase |-> phase]
  PROVE  MemoryInv'
<1>1. LastIsCurrent' = LastIsCurrent
  BY DEF LastIsCurrent, Current
<1>2. ASSUME LastIsCurrent PROVE Last(consolidated).source = "drift" /\ had_consolidation
  BY <1>2 DEF MemoryInv, Chronicle
<1>3. Chronicle'
  BY <1>1, <1>2 DEF MemoryInv, Chronicle, Earlier, Current
<1>4. Remembered'
  BY DEF MemoryInv, Remembered
<1>5. \A u \in Workers : Consolidating(u)'
  BY <1>1 DEF Consolidating
<1> QED
  BY <1>3, <1>4, <1>5 DEF MemoryInv

LEMMA RegisterRemembers ==
  ASSUME TypeInv, MemoryInv, "abandoned" \notin mishaps, NEW w \in Workers,
         \A u \in Workers : u # w => pc[u] = "none" /\ pc'[u] = "none",
         Register(w)
  PROVE  MemoryInv'
<1> DEFINE this == [source |-> job[w].source, cycle |-> cycle, phase |-> phase]
<1>1. /\ job[w].id = this /\ this \in PhaseIds
      /\ pc[w] = "registering" /\ pc'[w] = "pruning"
      /\ UNCHANGED <<job, cycle, phase, had_consolidation>>
  <2>1. /\ pc[w] = "registering" /\ pc'[w] = "pruning"
        /\ UNCHANGED <<job, cycle, phase, had_consolidation>>
    BY DEF Register, Goto, progress, TypeInv, TypeOK
  <2>2. job[w].id = this /\ job[w].id \in PhaseIds
    BY <2>1 DEF MemoryInv, Consolidating, TypeInv, LocalsSet, LocalsOf
  <2> QED
    BY <2>1, <2>2
<1>2. /\ memory \in Seq(PhaseIds) /\ consolidated \in Seq(PhaseIds)
      /\ Len(memory) \in Nat /\ Len(consolidated) \in Nat
      /\ cycle \in Nat /\ phase \in Nat
      /\ KeepPhases \in Nat \ {0}
      /\ job[w].source \in {"drift", "boundary"}
  <2>1. /\ memory \in Seq(PhaseIds) /\ consolidated \in Seq(PhaseIds)
        /\ cycle \in Nat /\ phase \in Tasks /\ job[w] \in Jobs
    BY DEF TypeInv, TypeOK
  <2> QED
    BY <2>1, LenProperties, SimulatorAssumption, EnvAssumption
       DEF SimulatorAssumption, EnvAssumption, Tasks, Jobs
<1>3. Chronicle /\ Remembered /\ Consolidating(w)
  BY DEF MemoryInv
<1>4. \A u \in Workers : Consolidating(u)'
  BY <1>1 DEF Consolidating
<1>5. CASE LastIsCurrent
  <2>1. consolidated # <<>> /\ Len(consolidated) >= 1
    BY <1>2, <1>5, EmptySeq DEF LastIsCurrent
  <2>2. Last(consolidated) \in PhaseIds
    BY <1>2, <2>1, ElementOfSeq DEF Last
  <2>3. job[w].source = "drift" /\ Last(consolidated).source = "drift"
    BY <1>1, <1>2, <1>3, <1>5 DEF Chronicle, Consolidating
  <2>4. Last(consolidated) = this
    BY <1>5, <2>2, <2>3 DEF LastIsCurrent, Current, PhaseIds
  <2>5. Len(memory) >= 1 /\ memory[Len(memory)] = consolidated[Len(consolidated)]
    BY <1>2, <1>3, <2>1 DEF Remembered, EndOf
  <2>6. Contains(memory, this)
    BY <1>2, <2>4, <2>5 DEF Contains, Last
  <2>7. UNCHANGED <<memory, consolidated>>
    BY <1>1, <2>1, <2>4, <2>6 DEF Register
  <2>8. Remembered'
    BY <1>3, <2>7 DEF Remembered
  <2>9. Chronicle'
    BY <1>1, <1>3, <2>3, <2>7 DEF Chronicle, Earlier, Current, LastIsCurrent
  <2> QED
    BY <1>4, <2>8, <2>9 DEF MemoryInv
<1>6. CASE ~LastIsCurrent
  <2>1. ASSUME NEW i \in 1 .. Len(consolidated)
        PROVE  Earlier(consolidated[i]) /\ consolidated[i] # this
    <3>1. consolidated # <<>>
      BY <1>2, <2>1, EmptySeq
    <3>2. ~(i = Len(consolidated) /\ Current(consolidated[i]))
      BY <1>6, <3>1 DEF LastIsCurrent, Last
    <3>3. Earlier(consolidated[i])
      BY <1>3, <3>2 DEF Chronicle
    <3>4. ~Earlier(this)
      BY <1>2 DEF Earlier
    <3> QED
      BY <3>3, <3>4
  <2>2. ~Contains(memory, this)
    <3>1. ASSUME NEW i \in 1 .. Len(memory) PROVE memory[i] # this
      <4>1. /\ Len(consolidated) - Len(memory) + i \in 1 .. Len(consolidated)
            /\ memory[i] = consolidated[Len(consolidated) - Len(memory) + i]
        BY <1>2, <1>3 DEF Remembered, EndOf
      <4> QED
        BY <2>1, <4>1
    <3> QED
      BY <3>1 DEF Contains
  <2>3. ~(consolidated # <<>> /\ Last(consolidated) = this)
    <3>1. consolidated # <<>> => Len(consolidated) \in 1 .. Len(consolidated)
      BY <1>2, EmptySeq
    <3> QED
      BY <2>1, <3>1 DEF Last
  <2>4. memory' = Append(memory, this) /\ consolidated' = Append(consolidated, this)
    BY <1>1, <2>2, <2>3 DEF Register
  <2>5. Remembered'
    BY <1>1, <1>2, <1>3, <2>4, AppendToEnd DEF Remembered
  <2>6. /\ Len(consolidated') = Len(consolidated) + 1
        /\ \A i \in 1 .. Len(consolidated) : consolidated'[i] = consolidated[i]
        /\ consolidated'[Len(consolidated) + 1] = this
    BY <1>1, <1>2, <2>4, AppendProperties
  <2>7. \A i \in 1 .. Len(consolidated') :
          Earlier(consolidated[i])' \/ (i = Len(consolidated') /\ Current(consolidated[i])')
    <3>1. UNCHANGED <<cycle, phase>>
      BY <1>1
    <3>2. ASSUME NEW i \in 1 .. Len(consolidated) PROVE Earlier(consolidated[i])'
      BY <2>1, <2>6, <3>1 DEF Earlier
    <3>3. Current(consolidated[Len(consolidated)])'
      BY <2>6, <3>1 DEF Current
    <3>4. \A i \in 1 .. Len(consolidated') :
            i = Len(consolidated') \/ i \in 1 .. Len(consolidated)
      BY <1>2, <2>6
    <3> QED
      BY <3>2, <3>3, <3>4
  <2>8. Last(consolidated') = this
    BY <2>6 DEF Last
  <2>9. Chronicle'
    <3>1. \/ job[w].source = "drift" /\ Last(consolidated').source = "drift"
          \/ job[w].source = "boundary" /\ Last(consolidated').source = "boundary"
      BY <1>2, <2>8
    <3>2. \E u \in Workers : pc'[u] = "pruning" /\ job'[u].source = job[w].source
      BY <1>1
    <3> QED
      BY <2>7, <3>1, <3>2 DEF Chronicle
  <2> QED
    BY <1>4, <2>5, <2>9 DEF MemoryInv
<1> QED
  BY <1>5, <1>6

LEMMA PruneRemembers ==
  ASSUME TypeInv, MemoryInv, "abandoned" \notin mishaps, NEW w \in Workers,
         \A u \in Workers : u # w => pc[u] = "none" /\ pc'[u] = "none",
         Prune(w)
  PROVE  MemoryInv'
<1>1. /\ pc[w] = "pruning" /\ had_consolidation' = TRUE
      /\ pc'[w] = IF job[w].source = "drift" THEN "record" ELSE "turn"
      /\ UNCHANGED <<job, cycle, phase, consolidated>>
      /\ memory' = LastOf(memory, KeepPhases)
  BY DEF Prune, Return, Goto, LastOf, TypeInv, TypeOK
<1>2. /\ memory \in Seq(PhaseIds) /\ consolidated \in Seq(PhaseIds)
      /\ KeepPhases \in Nat \ {0} /\ Len(memory) \in Nat /\ Len(consolidated) \in Nat
  BY SimulatorAssumption, LenProperties DEF SimulatorAssumption, TypeInv, TypeOK
<1>3. Chronicle /\ Remembered
  BY DEF MemoryInv
<1>4. Remembered'
  <2>1. EndOf(memory', consolidated)
    BY <1>1, <1>2, <1>3, LastOfIsEnd DEF Remembered
  <2>2. Len(memory') = Smaller(KeepPhases, Len(memory))
    BY <1>1, <1>2, LastOfElements
  <2> QED
    BY <1>1, <1>2, <1>3, <2>1, <2>2 DEF Remembered, Smaller
<1>5. Chronicle'
  BY <1>1, <1>3 DEF Chronicle, LastIsCurrent, Earlier, Current
<1>6. \A u \in Workers : Consolidating(u)'
  BY <1>1 DEF Consolidating
<1> QED
  BY <1>4, <1>5, <1>6 DEF MemoryInv

LEMMA TurnRemembers ==
  ASSUME TypeInv, MemoryInv, "abandoned" \notin mishaps, NEW w \in Workers,
         \A u \in Workers : u # w => pc[u] = "none" /\ pc'[u] = "none",
         Turn(w)
  PROVE  MemoryInv'
<1>1. /\ phase' = (phase + 1) % NumTasks
      /\ cycle' = IF phase' = 0 THEN cycle + 1 ELSE cycle
      /\ pc'[w] = "batch"
      /\ UNCHANGED <<memory, consolidated>>
  BY DEF Turn, Goto, TypeInv, TypeOK, ewc
<1>2. /\ consolidated \in Seq(PhaseIds) /\ Len(consolidated) \in Nat
      /\ cycle \in Nat /\ phase \in Tasks /\ phase \in Nat
  <2>1. consolidated \in Seq(PhaseIds) /\ cycle \in Nat /\ phase \in Tasks
    BY DEF TypeInv, TypeOK
  <2> QED
    BY <2>1, LenProperties, EnvAssumption DEF EnvAssumption, Tasks
<1>3. \/ phase' = 0 /\ cycle' = cycle + 1
      \/ phase' = phase + 1 /\ cycle' = cycle
  <2>1. phase' = IF phase + 1 = NumTasks THEN 0 ELSE phase + 1
    BY <1>1, <1>2, NextPhase
  <2>2. phase + 1 # 0
    BY <1>2
  <2>3. CASE phase + 1 = NumTasks
    BY <1>1, <2>1, <2>3
  <2>4. CASE phase + 1 # NumTasks
    <3>1. phase' = phase + 1
      BY <2>1, <2>4
    <3> QED
      BY <1>1, <2>2, <3>1
  <2> QED
    BY <2>3, <2>4
<1>4. ASSUME NEW i \in 1 .. Len(consolidated)
      PROVE  Earlier(consolidated[i])' /\ ~Current(consolidated[i])'
  <2>1. consolidated[i] \in PhaseIds
    BY <1>2, ElementOfSeq
  <2>2. consolidated[i].cycle \in Nat /\ consolidated[i].phase \in Nat
    BY <2>1, EnvAssumption DEF EnvAssumption, PhaseIds, Tasks
  <2>3. Earlier(consolidated[i]) \/ Current(consolidated[i])
    BY DEF MemoryInv, Chronicle
  <2> QED
    BY <1>1, <1>2, <1>3, <2>2, <2>3 DEF Earlier, Current
<1>5. ~LastIsCurrent'
  <2>1. consolidated # <<>> => Len(consolidated) \in 1 .. Len(consolidated)
    BY <1>2, EmptySeq
  <2> QED
    BY <1>1, <1>4, <2>1 DEF LastIsCurrent, Last
<1>6. Chronicle'
  BY <1>1, <1>4, <1>5 DEF Chronicle
<1>7. Remembered'
  BY <1>1 DEF MemoryInv, Remembered
<1>8. \A u \in Workers : Consolidating(u)'
  BY <1>1 DEF Consolidating
<1> QED
  BY <1>6, <1>7, <1>8 DEF MemoryInv

LEMMA RunRemembers ==
  ASSUME TypeInv, LifeInv, MemoryInv, "abandoned" \notin mishaps', NEW w \in Workers, Run(w)
  PROVE  MemoryInv'
<1>1. /\ "abandoned" \notin mishaps
      /\ \A u \in Workers : u # w => pc[u] = "none" /\ pc'[u] = "none"
  BY OthersAreNone
<1>2. ASSUME pc[w] \notin {"pruning", "turn"},
             UNCHANGED <<memory, consolidated, cycle, phase, had_consolidation>>,
             pc'[w] \in {"consolidate", "registering"} /\ job'[w].source = "boundary" =>
               ~LastIsCurrent,
             pc'[w] = "registering" =>
               job'[w].id = [source |-> job'[w].source, cycle |-> cycle, phase |-> phase]
      PROVE  MemoryInv'
  BY <1>1, <1>2, PhaseGoesOn
<1>3. pc \in [Workers -> Places] /\ job \in [Workers -> Jobs] /\ job[w] \in Jobs
  BY DEF TypeInv, TypeOK
<1>4. CASE \/ LoopSeesStop(w) \/ Leave(w) \/ LoopDies(w) \/ BatchEnds(w)
           \/ \E n \in 1 .. MaxBatch : BatchDue(w, n)
  <2>1. /\ pc[w] \notin {"pruning", "turn"}
        /\ UNCHANGED <<memory, consolidated, cycle, phase, had_consolidation>>
    BY <1>4 DEF LoopSeesStop, Leave, LoopDies, BatchEnds, BatchDue, progress, ewc
  <2>2. pc'[w] \in {"leaving", "none", "loop", "batch"}
    BY <1>3, <1>4 DEF LoopSeesStop, Leave, LoopDies, BatchEnds, BatchDue, Goto
  <2> QED
    BY <1>2, <2>1, <2>2
<1>5. CASE BeginStep(w) \/ WhatIfBranch(w) \/ WhatIfEnds(w) \/ StepMask(w) \/ StepApply(w)
  <2>1. /\ pc[w] \notin {"pruning", "turn"}
        /\ UNCHANGED <<memory, consolidated, cycle, phase, had_consolidation>>
    BY <1>5 DEF BeginStep, WhatIfBranch, WhatIfEnds, StepMask, StepApply, progress, ewc
  <2>2. \/ pc' = pc /\ pc[w] = "what_if"
        \/ \E place \in {"what_if", "act", "apply", "learn"} : pc' = [pc EXCEPT ![w] = place]
    <3>1. CASE BeginStep(w)
      BY <3>1, Zenon DEF BeginStep, Goto
    <3>2. CASE WhatIfBranch(w) \/ WhatIfEnds(w) \/ StepMask(w) \/ StepApply(w)
      BY <3>2 DEF WhatIfBranch, WhatIfEnds, StepMask, StepApply, Goto
    <3> QED
      BY <1>5, <3>1, <3>2
  <2>3. pc'[w] \in {"what_if", "act", "apply", "learn"}
    BY <1>3, <2>2
  <2> QED
    BY <1>2, <2>1, <2>3
<1>6. CASE Record(w) \/ StepRaises(w)
  <2>1. /\ pc[w] \notin {"pruning", "turn"}
        /\ UNCHANGED <<memory, consolidated, cycle, phase, had_consolidation>>
    BY <1>6 DEF Record, StepRaises, progress, ewc
  <2>2. \E place \in {"advance", "batch", "leaving"} : pc' = [pc EXCEPT ![w] = place]
    BY <1>6, Zenon DEF Record, StepRaises, Goto
  <2>3. pc'[w] \in {"advance", "batch", "leaving"}
    BY <1>3, <2>2
  <2> QED
    BY <1>2, <2>1, <2>3
<1>7. CASE Learn(w)
  <2>1. /\ pc[w] \notin {"pruning", "turn"}
        /\ UNCHANGED <<memory, consolidated, cycle, phase, had_consolidation>>
    BY <1>7 DEF Learn, progress, ewc
  <2>2. \/ pc'[w] = "record"
        \/ pc'[w] = "consolidate" /\ job'[w].source = "drift"
    BY <1>3, <1>7 DEF Learn, Goto, Jobs
  <2> QED
    BY <1>2, <2>1, <2>2
<1>8. CASE BoundaryTest(w)
  <2>1. /\ pc[w] = "advance"
        /\ UNCHANGED <<memory, consolidated, cycle, phase, had_consolidation>>
    BY <1>8 DEF BoundaryTest, progress, ewc
  <2>2. \/ pc'[w] = "turn"
        \/ pc'[w] = "consolidate" /\ ~had_consolidation
    BY <1>3, <1>8 DEF BoundaryTest, Goto
  <2>3. LastIsCurrent => had_consolidation
    BY <1>1, <2>1 DEF MemoryInv, Chronicle
  <2> QED
    BY <1>2, <2>1, <2>2, <2>3
<1>9. CASE ConsolidateTest(w)
  <2>1. /\ pc[w] = "consolidate"
        /\ UNCHANGED <<memory, consolidated, cycle, phase, had_consolidation>>
    BY <1>9 DEF ConsolidateTest, progress, ewc
  <2>2. \/ pc'[w] \in {"record", "turn"}
        \/ /\ pc'[w] = "registering" /\ job'[w].source = job[w].source
           /\ job'[w].id = PhaseId(job[w].source)
    BY <1>3, <1>9 DEF ConsolidateTest, Return, Goto, Jobs
  <2>3. job[w].source = "boundary" => ~LastIsCurrent
    BY <1>1, <2>1 DEF MemoryInv, Consolidating
  <2> QED
    BY <1>2, <2>1, <2>2, <2>3 DEF PhaseId
<1>10. CASE ConsolidateRaises(w)
  <2>1. /\ pc[w] = "registering"
        /\ UNCHANGED <<memory, consolidated, cycle, phase, had_consolidation>>
    BY <1>10 DEF ConsolidateRaises, progress, ewc
  <2>2. pc'[w] \in {"record", "turn"}
    BY <1>3, <1>10 DEF ConsolidateRaises, Return, Goto
  <2> QED
    BY <1>2, <2>1, <2>2
<1> QED
  BY <1>1, <1>4, <1>5, <1>6, <1>7, <1>8, <1>9, <1>10, RegisterRemembers, PruneRemembers,
     TurnRemembers, Zenon DEF Run

LEMMA ControlRemembers ==
  ASSUME TypeInv, LifeInv, WorldInv, MemoryInv, "abandoned" \notin mishaps', Control
  PROVE  MemoryInv'
<1>1. "abandoned" \notin mishaps
  BY DEF Control, Start, Pause, Resume, Stop, Join, SeedRaises, Build, Configure, history
<1>2. CASE Build
  <2>1. /\ \A w \in Workers : pc'[w] = "none"
        /\ memory' = <<>> /\ consolidated' = <<>>
    BY <1>1, <1>2 DEF Build, WorldInv, BuildInv, LifeInv, Alive
  <2>2. Chronicle' /\ Remembered' /\ \A w \in Workers : Consolidating(w)'
    BY <2>1 DEF Chronicle, LastIsCurrent, Remembered, EndOf, Consolidating
  <2> QED
    BY <2>2 DEF MemoryInv
<1>3. ASSUME ~Build PROVE MemoryInv'
  <2>1. UNCHANGED <<job, memory, consolidated, cycle, phase, had_consolidation>>
    BY <1>3 DEF Control, Start, Pause, Resume, Stop, Join, SeedRaises, Configure, progress, ewc
  <2>2. \A w \in Workers : pc'[w] = pc[w] \/ (pc[w] = "none" /\ pc'[w] = "loop")
    BY <1>3 DEF Control, Start, StartsWorker, Alive, Pause, Resume, Stop, Join, SeedRaises,
                Configure, TypeInv, TypeOK
  <2>3. LastIsCurrent' = LastIsCurrent
    BY <2>1 DEF LastIsCurrent, Current
  <2>4. \A w \in Workers : pc[w] \in {"pruning", "turn"} => pc'[w] = pc[w]
    BY <2>2
  <2>5. Chronicle'
    BY <1>1, <2>1, <2>3, <2>4 DEF MemoryInv, Chronicle, Earlier, Current
  <2>6. Remembered'
    BY <1>1, <2>1 DEF MemoryInv, Remembered
  <2>7. \A w \in Workers : Consolidating(w)'
    BY <1>1, <2>1, <2>2, <2>3 DEF MemoryInv, Consolidating
  <2> QED
    BY <2>5, <2>6, <2>7 DEF MemoryInv
<1> QED
  BY <1>2, <1>3

LEMMA MemoryNext ==
  TypeInv /\ LifeInv /\ WorldInv /\ MemoryInv /\ [Next]_vars => MemoryInv'
<1> SUFFICES ASSUME TypeInv, LifeInv, WorldInv, MemoryInv, [Next]_vars,
                    "abandoned" \notin mishaps'
             PROVE  MemoryInv'
  BY DEF MemoryInv
<1>1. CASE UNCHANGED vars
  <2>1. UNCHANGED <<pc, job, memory, consolidated, cycle, phase, had_consolidation, mishaps>>
    BY <1>1 DEF vars, progress, ewc, history
  <2>2. LastIsCurrent' = LastIsCurrent
    BY <2>1 DEF LastIsCurrent, Current
  <2>3. Chronicle' = Chronicle
    BY <2>1, <2>2 DEF Chronicle, Earlier, Current
  <2> QED
    BY <2>1, <2>2, <2>3 DEF MemoryInv, Remembered, Consolidating
<1> QED
  BY <1>1, RunRemembers, ControlRemembers DEF Next

LEMMA MemoryInit == Init => MemoryInv
BY DEF Init, MemoryInv, Chronicle, LastIsCurrent, Remembered, EndOf, Consolidating

(* The dictionary of optimal weights, in whose order _prune_ewc forgets,   *)
(* ends with the phases consolidated last, although one that it has keeps  *)
(* its place (traffic.py:420-431): none is consolidated again after        *)
(* another one.                                                            *)
THEOREM PruningKeepsTheRecent == Spec => []MemoryKeepsMostRecent
<1>1. Spec => []MemoryInv
  BY TypeInvariant, LifeInvariant, WorldInvariant, MemoryInit, MemoryNext, PTL DEF Spec
<1>2. TypeInv /\ MemoryInv => MemoryKeepsMostRecent
  <2> SUFFICES ASSUME TypeInv, MemoryInv, "abandoned" \notin mishaps
               PROVE  LastOf(memory, KeepPhases) = LastOf(consolidated, KeepPhases)
    BY DEF MemoryKeepsMostRecent
  <2>1. /\ memory \in Seq(PhaseIds) /\ consolidated \in Seq(PhaseIds)
        /\ KeepPhases \in Nat \ {0}
    BY SimulatorAssumption DEF SimulatorAssumption, TypeInv, TypeOK
  <2> QED
    BY <2>1, SameLast DEF MemoryInv, Remembered
<1> QED
  BY <1>1, <1>2, TypeInvariant, PTL

=============================================================================
