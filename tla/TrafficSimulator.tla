--------------------------- MODULE TrafficSimulator ---------------------------
(***************************************************************************)
(* The live traffic simulator of cldb/traffic.py: a worker thread steps    *)
(* the agent through the environment while the event loop of the web app   *)
(* (cldb/webapp.py) starts, pauses, stops, resets and reconfigures it.     *)
(* The environment is IndexAdvisorEnv.  The counters and series that only  *)
(* the snapshot shows are left out, and so is training, PolicyAgent's part *)
(***************************************************************************)
EXTENDS IndexAdvisorEnv, SequencesExt

CONSTANTS Workers,   (* worker threads that may be alive at once            *)
          Configs,   (* what configure may be given                         *)
          MinStates, (* states a consolidation needs: 32                    *)
          KeepPhases,(* phases _prune_ewc keeps: 6                          *)
          MaxBatch,  (* bound: queries due at a wake-up, 500                *)
          MaxSteps,  (* bound: queries of a build                           *)
          MaxEnvs,   (* bound: environments referred to at once             *)
          None       (* no thread, nothing                                  *)

ASSUME SimulatorAssumption ==
  /\ Configs \subseteq [budget : Nat \ {0}, limit : Nat \ {0},
                        ewc : BOOLEAN, cwil : BOOLEAN, qps_ok : BOOLEAN, limit_ok : BOOLEAN]
  /\ MinStates \in Nat \ {0} /\ KeepPhases \in Nat \ {0}
  /\ MaxBatch \in Nat \ {0} /\ MaxSteps \in Nat /\ MaxEnvs \in Nat \ {0}
  /\ None \notin Workers

VARIABLES
  running, stop_event, thread, paused, (* the simulator's life              *)
  config,    (* budget, steps_per_phase, ewc, cwil and whether qps and      *)
             (* steps_per_phase are numbers                                 *)
  pc, job,   (* where each worker is in _run and _step, and its locals      *)
  ctl,       (* where the event loop is in stop() and reset()               *)
  was_running,                         (* its local variable in reset()     *)
  envs, build,                         (* environments, the one in self.env *)
  obs,       (* _obs                                                        *)
  phase,     (* _phase_index, which is also the task                        *)
  cycle, steps_in_phase, states, had_consolidation,
  total,     (* _total_queries                                              *)
  memory,    (* phases with optimal weights, in the dictionary's order      *)
  consolidated, (* history: phases consolidated, the latest last, one that  *)
             (* is consolidated again at once counted once                  *)
  granted,   (* history: for each environment, the largest budget since its *)
             (* indexes were last cleared                                   *)
  overtime,  (* history: queries recorded since the pause under way         *)
  mishaps    (* history: "abandoned", a stop gave up on a worker; "died", a *)
             (* worker did outside _step's try, since the last stop;        *)
             (* "failed step", one raised since the last phase change,      *)
             (* before its bookkeeping                                      *)

life == <<running, stop_event, thread, paused>>
caller == <<ctl, was_running>>
world == <<envs, build, granted>>
progress == <<obs, phase, cycle, steps_in_phase, states, had_consolidation, total>>
ewc == <<memory, consolidated>>
history == <<overtime, mishaps>>
vars == <<life, config, pc, job, caller, world, progress, ewc, history>>

-----------------------------------------------------------------------------

Larger(m, n) == IF m > n THEN m ELSE n
Smaller(m, n) == IF m < n THEN m ELSE n

(* Locals of a worker: queries left of its batch, the environment and the  *)
(* action of its step, what_if's snapshot and actions still to try, the    *)
(* successors it foresaw, the next observation, the phase being            *)
(* consolidated.                                                           *)
NoJob ==
  [left |-> 0, env |-> None, action |-> "keep", todo |-> {}, snapshot |-> None,
   foreseen |-> {}, next |-> None, source |-> "drift", id |-> None]

Places ==
  {"none", "loop", "leaving", "batch", "what_if", "act", "apply", "learn",
   "record", "advance", "turn", "consolidate", "registering", "pruning"}

PhaseIds == [source : {"drift", "boundary"}, cycle : Nat, phase : Tasks]

Jobs ==
  [left : 0 .. MaxBatch, env : (1 .. MaxEnvs) \union {None}, action : Actions,
   todo : SUBSET Actions, snapshot : Envs \union {None},
   foreseen : SUBSET Queries, next : Observations \union {None},
   source : {"drift", "boundary"}, id : PhaseIds \union {None}]

Alive(w) == pc[w] # "none"
Quiet == \A w \in Workers : pc[w] \in {"none", "loop", "batch", "leaving"}

BlankEnv(budget, rng) ==
  [task |-> 0, sql |-> {}, active |-> {}, rng |-> rng, budget |-> budget]

(* An environment built and reset.                                         *)
NewEnvs(budget) ==
  {EnvReset(BlankEnv(budget, now), 0, next) : now \in 1 .. Draws, next \in 1 .. Draws}

(* Environments a step holds on to; the others are garbage once replaced.  *)
Held == {job[w].env : w \in Workers}

Init ==
  /\ running = FALSE /\ stop_event = FALSE /\ thread = None /\ paused = FALSE
  /\ config \in {c \in Configs : c.qps_ok /\ c.limit_ok}
  /\ pc = [w \in Workers |-> "none"]
  /\ job = [w \in Workers |-> NoJob]
  /\ ctl = "idle" /\ was_running = FALSE
  /\ \E e \in NewEnvs(config.budget) :
       /\ envs = [i \in 1 .. MaxEnvs |-> IF i = 1 THEN e ELSE None]
       /\ obs = ObsOf(e)
  /\ build = 1
  /\ granted = [i \in 1 .. MaxEnvs |-> IF i = 1 THEN config.budget ELSE 0]
  /\ phase = 0 /\ cycle = 0 /\ steps_in_phase = 0 /\ states = 0
  /\ had_consolidation = FALSE /\ total = 0
  /\ memory = <<>> /\ consolidated = <<>>
  /\ overtime = 0
  /\ mishaps = {}

-----------------------------------------------------------------------------
(* The event loop: one operation at a time.                                *)

(* The body of start, unless the simulator runs.  Thread ids are reused.   *)
StartsWorker ==
  \/ /\ running
     /\ UNCHANGED <<running, stop_event, thread, pc>>
  \/ /\ ~running
     /\ \E w \in Workers :
          /\ ~Alive(w)
          /\ thread' = w
          /\ pc' = [pc EXCEPT ![w] = "loop"]
     /\ running' = TRUE
     /\ stop_event' = FALSE

Start ==
  /\ ctl \in {"idle", "restart"}
  /\ ctl' = "idle"
  /\ paused' = FALSE /\ overtime' = 0
  /\ was_running' = FALSE
  /\ StartsWorker
  /\ UNCHANGED <<config, job, world, progress, ewc, mishaps>>

Pause ==
  /\ ctl = "idle"
  /\ paused' = TRUE
  /\ UNCHANGED <<running, stop_event, thread, config, pc, job, caller, world,
                 progress, ewc, history>>

Resume ==
  /\ ctl = "idle"
  /\ paused' = FALSE /\ overtime' = 0
  /\ UNCHANGED <<running, stop_event, thread, config, pc, job, caller, world,
                 progress, ewc, mishaps>>

(* stop and, to begin with, reset.                                         *)
Stop(resets) ==
  /\ ctl = "idle"
  /\ was_running' = (resets /\ running)
  /\ stop_event' = TRUE
  /\ ctl' = IF resets THEN "reset joins" ELSE "stop joins"
  /\ UNCHANGED <<running, thread, paused, config, pc, job, world, progress,
                 ewc, history>>

(* join: the thread is over, or has been for three seconds in a step.      *)
Join ==
  /\ ctl \in {"stop joins", "reset joins"}
  /\ mishaps' = IF thread # None /\ Alive(thread)
                THEN mishaps \union {"abandoned"}
                ELSE mishaps \ {"died"}
  /\ ctl' = IF ctl = "stop joins" THEN "idle" ELSE "build"
  /\ running' = FALSE
  /\ thread' = None
  /\ was_running' = (was_running /\ ctl' = "build")
  /\ UNCHANGED <<stop_event, paused, config, pc, job, world, progress, ewc,
                 overtime>>

(* int(seed) raises: the simulator stays stopped and as it was.            *)
SeedRaises ==
  /\ ctl = "build"
  /\ ctl' = "idle"
  /\ was_running' = FALSE
  /\ UNCHANGED <<life, config, pc, job, world, progress, ewc, history>>

(* The rest of reset, up to start, which a rate that is no number keeps it *)
(* from: _build raises on it when nearly everything is built.              *)
Build ==
  /\ ctl = "build"
  /\ was_running' = (was_running /\ config.qps_ok)
  /\ ctl' = IF was_running' THEN "restart" ELSE "idle"
  /\ \E e \in NewEnvs(config.budget), free \in 1 .. MaxEnvs :
       /\ free \notin Held /\ \A i \in 1 .. free - 1 : i \in Held
       /\ envs' = [i \in 1 .. MaxEnvs |->
                    IF i = free THEN e ELSE IF i \in Held THEN envs[i] ELSE None]
       /\ granted' = [i \in 1 .. MaxEnvs |->
                       IF i = free THEN config.budget
                       ELSE IF i \in Held THEN granted[i] ELSE 0]
       /\ build' = free
       /\ obs' = ObsOf(e)
  /\ phase' = 0 /\ cycle' = 0 /\ steps_in_phase' = 0 /\ states' = 0
  /\ had_consolidation' = FALSE /\ total' = 0
  /\ memory' = <<>> /\ consolidated' = <<>>
  /\ mishaps' = mishaps \ {"failed step"}
  /\ UNCHANGED <<life, config, pc, job, overtime>>

(* configure: what is no number is stored too, then clamped raises and the *)
(* budget does not reach the environment.                                  *)
Configure(c) ==
  /\ ctl = "idle"
  /\ c # config
  /\ config' = c
  /\ IF c.qps_ok /\ c.limit_ok
     THEN /\ envs' = [envs EXCEPT ![build].budget = c.budget]
          /\ granted' = [granted EXCEPT ![build] = Larger(@, c.budget)]
     ELSE UNCHANGED <<envs, granted>>
  /\ UNCHANGED <<life, pc, job, caller, build, progress, ewc, history>>

-----------------------------------------------------------------------------
(* _run, the worker's loop.                                                *)

Goto(w, place) == pc' = [pc EXCEPT ![w] = place]

LoopSeesStop(w) ==
  /\ pc[w] = "loop"
  /\ stop_event
  /\ Goto(w, "leaving")
  /\ UNCHANGED <<life, config, job, caller, world, progress, ewc, history>>

(* Mutant: the worker does not reset _running. *)
LeaveRunning(w) ==
  /\ pc[w] = "leaving"
  /\ Goto(w, "none")
  /\ UNCHANGED <<life, config, job, caller, world, progress, ewc, history>>

Leave(w) ==
  /\ pc[w] = "leaving"
  /\ Goto(w, "none")
  /\ running' = FALSE
  /\ UNCHANGED <<stop_event, thread, paused, config, job, caller, world,
                 progress, ewc, history>>

(* float(qps) raises outside the try: the thread is gone, _running stays.  *)
LoopDies(w) ==
  /\ pc[w] = "loop"
  /\ ~stop_event /\ ~paused /\ ~config.qps_ok
  /\ Goto(w, "none")
  /\ mishaps' = mishaps \union {"died"}
  /\ UNCHANGED <<life, config, job, caller, world, progress, ewc, overtime>>

(* Mutant: a paused worker goes on. *)
BatchDueAlways(w, n) ==
  /\ pc[w] = "loop"
  /\ ~stop_event /\ config.qps_ok
  /\ total + n <= MaxSteps
  /\ Goto(w, "batch")
  /\ job' = [job EXCEPT ![w] = [NoJob EXCEPT !.left = n]]
  /\ UNCHANGED <<life, config, caller, world, progress, ewc, history>>

(* n queries are due; a paused worker sleeps instead.                      *)
BatchDue(w, n) ==
  /\ pc[w] = "loop"
  /\ ~stop_event /\ ~paused /\ config.qps_ok
  /\ total + n <= MaxSteps
  /\ Goto(w, "batch")
  /\ job' = [job EXCEPT ![w] = [NoJob EXCEPT !.left = n]]
  /\ UNCHANGED <<life, config, caller, world, progress, ewc, history>>

BatchEnds(w) ==
  /\ pc[w] = "batch"
  /\ job[w].left = 0 \/ stop_event
  /\ Goto(w, "loop")
  /\ job' = [job EXCEPT ![w] = NoJob]
  /\ UNCHANGED <<life, config, caller, world, progress, ewc, history>>

-----------------------------------------------------------------------------
(* _step.                                                                  *)

(* Up to the call of what_if, or of act.  The action that act will choose  *)
(* is one of the mask computed here.  what_if asks for the mask once more, *)
(* at once: a budget changed in between adds or drops a branch.            *)
BeginStep(w) ==
  LET env == envs[build] IN
  /\ pc[w] = "batch"
  /\ job[w].left > 0 /\ ~stop_event
  /\ \E a \in ValidActions(env) :
       job' = [job EXCEPT ![w] =
                [NoJob EXCEPT !.left = job[w].left - 1, !.env = build,
                              !.action = a,
                              !.todo = IF config.cwil THEN ValidActions(env) ELSE {},
                              !.snapshot = IF config.cwil THEN env ELSE None]]
  /\ Goto(w, IF config.cwil THEN "what_if" ELSE "act")
  /\ UNCHANGED <<life, config, caller, world, progress, ewc, history>>

(* One branch of what_if: restore, step.  step asks for the mask again.    *)
(* What the generator would draw after the branch is never drawn: any      *)
(* number does.                                                            *)
WhatIfBranch(w) ==
  LET e == job[w].env
      env == Restore(envs[e], job[w].snapshot)
  IN
  /\ pc[w] = "what_if"
  /\ \E a \in job[w].todo :
       LET effect == IF a \in ValidActions(env) THEN a ELSE "keep"
           after == Stepped(env, effect, 1)
       IN
       /\ envs' = [envs EXCEPT ![e] = after]
       /\ job' = [job EXCEPT ![w] =
                    [job[w] EXCEPT !.todo = @ \ {a},
                                   !.foreseen = @ \union {after.sql}]]
  /\ UNCHANGED <<life, config, pc, caller, build, granted, progress, ewc, history>>

(* The finally clause, after the last branch or one that raised.           *)
WhatIfEnds(w) ==
  /\ pc[w] = "what_if"
  /\ envs' = [envs EXCEPT ![job[w].env] = Restore(@, job[w].snapshot)]
  /\ job' = [job EXCEPT ![w] = [@ EXCEPT !.todo = {}, !.snapshot = None]]
  /\ Goto(w, "act")
  /\ UNCHANGED <<life, config, caller, build, granted, progress, ewc, history>>

(* env.step, its mask: what the action will do.                            *)
StepMask(w) ==
  /\ pc[w] = "act"
  /\ job' = [job EXCEPT ![w].action =
               IF @ \in ValidActions(envs[job[w].env]) THEN @ ELSE "keep"]
  /\ Goto(w, "apply")
  /\ UNCHANGED <<life, config, caller, world, progress, ewc, history>>

StepApply(w) ==
  LET e == job[w].env IN
  /\ pc[w] = "apply"
  /\ \E next \in 1 .. Draws :
       LET after == Stepped(envs[e], job[w].action, next) IN
       /\ envs' = [envs EXCEPT ![e] = after]
       /\ job' = [job EXCEPT ![w].next = ObsOf(after)]
  /\ Goto(w, "learn")
  /\ UNCHANGED <<life, config, caller, build, granted, progress, ewc, history>>

(* The transition is stored and trained on; the detector may report a      *)
(* drift.                                                                  *)
Learn(w) ==
  /\ pc[w] = "learn"
  /\ \/ Goto(w, "record") /\ UNCHANGED job
     \/ /\ config.ewc
        /\ Goto(w, "consolidate")
        /\ job' = [job EXCEPT ![w].source = "drift"]
  /\ UNCHANGED <<life, config, caller, world, progress, ewc, history>>

(* deque(maxlen=256).append, counted as far as a consolidation needs.      *)
Remember(n) == Smaller(n + 1, MinStates)

(* The bookkeeping under the lock.  Its last line compares with            *)
(* steps_per_phase, which ends the loop if that is no number.              *)
Record(w) ==
  /\ pc[w] = "record"
  /\ total' = total + 1
  /\ overtime' = IF paused THEN overtime + 1 ELSE 0
  /\ steps_in_phase' = steps_in_phase + 1
  /\ states' = Remember(states)
  /\ obs' = job[w].next
  /\ \/ /\ config.limit_ok
        /\ job' = [job EXCEPT ![w] = [NoJob EXCEPT !.left = job[w].left]]
        /\ Goto(w, IF steps_in_phase' >= config.limit THEN "advance" ELSE "batch")
        /\ UNCHANGED stop_event
     \/ /\ ~config.limit_ok
        /\ job' = [job EXCEPT ![w] = NoJob]
        /\ Goto(w, "leaving")
        /\ stop_event' = TRUE
  /\ UNCHANGED <<running, thread, paused, config, caller, world, phase, cycle,
                 had_consolidation, ewc, mishaps>>

(* An exception in _step before the bookkeeping ends the loop.             *)
StepRaises(w) ==
  /\ pc[w] \in {"act", "learn"}
  /\ stop_event' = TRUE
  /\ mishaps' = mishaps \union {"failed step"}
  /\ job' = [job EXCEPT ![w] = NoJob]
  /\ Goto(w, "leaving")
  /\ UNCHANGED <<running, thread, paused, config, caller, world, progress, ewc,
                 overtime>>

-----------------------------------------------------------------------------
(* _advance_phase and _consolidate.                                        *)

BoundaryTest(w) ==
  /\ pc[w] = "advance"
  /\ \/ /\ config.ewc /\ ~had_consolidation
        /\ Goto(w, "consolidate")
        /\ job' = [job EXCEPT ![w].source = "boundary"]
     \/ /\ ~config.ewc \/ had_consolidation
        /\ Goto(w, "turn")
        /\ UNCHANGED job
  /\ UNCHANGED <<life, config, caller, world, progress, ewc, history>>

(* Mutant: the phase's name does not tell cycles apart. *)
PhaseIdWithoutCycle(source) == [source |-> source, cycle |-> 0, phase |-> phase]

PhaseId(source) == [source |-> source, cycle |-> cycle, phase |-> phase]

(* Where _consolidate returns to.                                          *)
Return(w) == Goto(w, IF job[w].source = "drift" THEN "record" ELSE "turn")

ConsolidateTest(w) ==
  /\ pc[w] = "consolidate"
  /\ \/ /\ config.ewc /\ states >= MinStates
        /\ Goto(w, "registering")
        /\ job' = [job EXCEPT ![w].id = PhaseId(job[w].source)]
     \/ /\ ~config.ewc \/ states < MinStates
        /\ Return(w)
        /\ UNCHANGED job
  /\ UNCHANGED <<life, config, caller, world, progress, ewc, history>>

(* agent.consolidate: a dictionary keeps the place of a key it has.        *)
Register(w) ==
  LET id == job[w].id IN
  /\ pc[w] = "registering"
  /\ memory' = IF Contains(memory, id) THEN memory ELSE Append(memory, id)
  /\ LET this == [source |-> job[w].source, cycle |-> cycle, phase |-> phase]
     IN consolidated' = IF consolidated # <<>> /\ Last(consolidated) = this
                        THEN consolidated
                        ELSE Append(consolidated, this)
  /\ Goto(w, "pruning")
  /\ UNCHANGED <<life, config, job, caller, world, progress, history>>

ConsolidateRaises(w) ==
  /\ pc[w] = "registering"
  /\ Return(w)
  /\ UNCHANGED <<life, config, job, caller, world, progress, ewc, history>>

Prune(w) ==
  /\ pc[w] = "pruning"
  /\ had_consolidation' = TRUE
  /\ memory' = SubSeq(memory, Larger(1, Len(memory) - KeepPhases + 1), Len(memory))
  /\ Return(w)
  /\ UNCHANGED <<life, config, job, caller, world, obs, phase, cycle,
                 steps_in_phase, states, total, consolidated, history>>

(* Mutant: the observation of the old phase is kept. *)
TurnKeepingObs(w) ==
  /\ pc[w] = "turn"
  /\ phase' = (phase + 1) % NumTasks
  /\ cycle' = IF phase' = 0 THEN cycle + 1 ELSE cycle
  /\ steps_in_phase' = 0 /\ states' = 0 /\ had_consolidation' = FALSE
  /\ \E next \in 1 .. Draws :
       envs' = [envs EXCEPT ![build] = EnvReset(@, phase', next)]
  /\ granted' = [granted EXCEPT ![build] = envs[build].budget]
  /\ job' = [job EXCEPT ![w] = [NoJob EXCEPT !.left = job[w].left]]
  /\ Goto(w, "batch")
  /\ mishaps' = mishaps \ {"failed step"}
  /\ UNCHANGED <<life, config, caller, build, obs, total, ewc, overtime>>

(* The rest of _advance_phase, under the lock.                             *)
Turn(w) ==
  /\ pc[w] = "turn"
  /\ phase' = (phase + 1) % NumTasks
  /\ cycle' = IF phase' = 0 THEN cycle + 1 ELSE cycle
  /\ steps_in_phase' = 0 /\ states' = 0 /\ had_consolidation' = FALSE
  /\ \E next \in 1 .. Draws :
       envs' = [envs EXCEPT ![build] = EnvReset(@, phase', next)]
  /\ granted' = [granted EXCEPT ![build] = envs[build].budget]
  /\ obs' = ObsOf(envs'[build])
  /\ job' = [job EXCEPT ![w] = [NoJob EXCEPT !.left = job[w].left]]
  /\ Goto(w, "batch")
  /\ mishaps' = mishaps \ {"failed step"}
  /\ UNCHANGED <<life, config, caller, build, total, ewc, overtime>>

-----------------------------------------------------------------------------

Run(w) ==
  \/ LoopSeesStop(w) \/ Leave(w) \/ LoopDies(w)
  \/ \E n \in 1 .. MaxBatch : BatchDue(w, n)
  \/ BatchEnds(w)
  \/ BeginStep(w) \/ WhatIfBranch(w) \/ WhatIfEnds(w)
  \/ StepMask(w) \/ StepApply(w) \/ Learn(w) \/ Record(w) \/ StepRaises(w)
  \/ BoundaryTest(w) \/ Turn(w)
  \/ ConsolidateTest(w) \/ Register(w) \/ ConsolidateRaises(w) \/ Prune(w)

Control ==
  \/ Start \/ Pause \/ Resume
  \/ \E resets \in BOOLEAN : Stop(resets)
  \/ Join \/ SeedRaises \/ Build
  \/ \E c \in Configs : Configure(c)

Next == Control \/ \E w \in Workers : Run(w)

Spec == Init /\ [][Next]_vars

-----------------------------------------------------------------------------

(* Type invariant. *)
TypeOK ==
  /\ running \in BOOLEAN /\ stop_event \in BOOLEAN /\ paused \in BOOLEAN
  /\ thread \in Workers \union {None}
  /\ config \in Configs
  /\ pc \in [Workers -> Places]
  /\ job \in [Workers -> Jobs]
  /\ ctl \in {"idle", "stop joins", "reset joins", "build", "restart"}
  /\ was_running \in BOOLEAN
  /\ build \in 1 .. MaxEnvs
  /\ envs \in [1 .. MaxEnvs -> Envs \union {None}] /\ envs[build] \in Envs
  /\ granted \in [1 .. MaxEnvs -> Nat]
  /\ obs \in Observations
  /\ memory \in Seq(PhaseIds) /\ consolidated \in Seq(PhaseIds)
  /\ phase \in Tasks
  /\ cycle \in Nat /\ steps_in_phase \in Nat /\ total \in Nat
  /\ states \in 0 .. MinStates
  /\ had_consolidation \in BOOLEAN
  /\ overtime \in Nat
  /\ mishaps \subseteq {"abandoned", "failed step", "died"}

(* "a background worker steps the environment": as long as no stop gave up *)
(* on a worker, however starts, stops, resets and failing steps interleave *)
(* there is never a second one.                                            *)
OneWorker ==
  "abandoned" \notin mishaps =>
    \A v, w \in Workers : Alive(v) /\ Alive(w) => v = w

(* is_running tells whether a worker is at work, unless one died of a rate *)
(* that is no number since the last stop.                                  *)
RunningMeansWorker ==
  mishaps \subseteq {"failed step"} =>
    (running <=> \E w \in Workers : Alive(w))

(* Together: the simulator has one worker when it says so, and none else.  *)
WorkerIsTheOne == OneWorker /\ RunningMeansWorker

(* The agent acts on an observation of what the environment is about to be *)
(* stepped from: what-if branches, phase changes and resets leave none     *)
(* behind.                                                                 *)
ActsOnCurrentObservation ==
  mishaps \subseteq {"died"} /\ Quiet => obs = ObsOf(envs[build])

(* "all actions observe the same successor query", and the step that is    *)
(* then taken observes it too: the branches leave no trace in the random   *)
(* generator, whatever is configured meanwhile.                            *)
SuccessorsWereForeseen ==
  "abandoned" \notin mishaps =>
    \A w \in Workers :
      pc[w] = "learn" => job[w].foreseen \subseteq {job[w].next.sql}

(* Branches leave no trace: neither before the action nor after it.        *)
WhatIfLeavesNoTrace == ActsOnCurrentObservation /\ SuccessorsWereForeseen

(* There are never more indexes than the largest budget in force since     *)
(* they were cleared: a budget lowered between the mask and the action     *)
(* costs no more than that.                                                *)
WithinBudget ==
  "abandoned" \notin mishaps =>
    Cardinality(envs[build].active) <= granted[build]

LastOf(s, n) == SubSeq(s, Larger(1, Len(s) - n + 1), Len(s))

(* _prune_ewc is "retaining only the most recent phases": the dictionary's *)
(* order is the order of the consolidations, although a phase consolidated *)
(* again keeps its place in it.                                            *)
MemoryKeepsMostRecent ==
  "abandoned" \notin mishaps =>
    LastOf(memory, KeepPhases) = LastOf(consolidated, KeepPhases)

(* A paused worker finishes the batch under way and takes no further one.  *)
PauseIsHeeded == "abandoned" \notin mishaps => overtime <= MaxBatch
=============================================================================
