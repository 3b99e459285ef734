# CLDB in TLA+

CLDB is an index advisor that learns while it works. Queries arrive over HTTP;
for each one it decides whether to create an index, drop one or do nothing,
measures what came of it, stores the transition for reinforcement learning,
trains in the background, notices when the workload drifts, and consolidates
what it knows (elastic weight consolidation, EWC) so that the next phase does
not overwrite it. A second program, the traffic simulator, drives the same
agent through a simulated database behind a live web page. Scripts measure how
well it learns without forgetting, in that simulated database and with a
supervised predecessor of the agent.

Nothing here is a distributed system: the difficulty is threads. Request
threads, a scheduler loop, training threads, a simulator worker, an asyncio
event loop and signal handlers share Python objects, some behind locks, many
not; and a database, a vector store and a process that may be gone at any
moment keep what they were told half of. This directory holds TLA+ models of
those parts, TLC configurations that check them on small instances, and TLAPS
proofs for every value of the constants.

All paths below are relative to `src/cldb/` unless they say otherwise. The line
numbers behind each definition are in `PROJECT.json` under `map`.


## 1. The system

### Components

| Component | Source | State | Operations |
|---|---|---|---|
| Circuit breaker | `resilience.py` | state, failure count, half-open count, time of the last failure | `call`, `state`, `reset` |
| Vector store | `enhanced_vector_store.py` | a Qdrant collection, two fallback dictionaries, a breaker | store, search, count, delete, clear |
| Health checks | `health.py`, `server.py` | none of their own; they read, and so move, the breakers | a report, two readiness pages |
| Replay buffer | `replay_buffer.py` | deque of experiences, action counts, a JSON file | `add`, `sample_transitions`, `update_priorities(_td)`, `save`, `load` |
| Online scheduler | `online_scheduler.py` | query counter, `is_training`, `is_running`, a loop thread, training threads | `start`, `stop`, `increment_query_count`, `trigger_drift_training`, the loop |
| Service process | `server.py` | the HTTP server and its thread, request threads, signal handlers | `serve`, `start`, `stop`, `_shutdown` |
| Drift detector | `drift_detection.py` | window of recent embeddings, baseline centroid, phase number | `add_experience`, `get_current_phase`, `force_new_phase` |
| Query pipeline | `pipeline.py` | the transition not yet finalised, recent states, a shared context buffer | `process_query`, `_record_learning` |
| Decision path and safety layer | `pipeline.py`, `decision_engine.py`, `enhanced_safety.py`, `executor.py`, `feedback.py`, `reward.py` | active operations, audit log, counters; indexes and rows of the database | decide, measure, log, judge, execute, persist, feed back; `execute_with_rollback` |
| Rate limiter and retries | `resilience.py` | token bucket | `acquire`, `retry_with_backoff` |
| Policy agent and EWC | `rl_agent.py`, `ewc.py`, `counterfactual.py` | online and target weights, gradients, the network's mode, Fisher matrices and optimal weights by phase | act, `train_from_buffer`, counterfactual updates, `consolidate` |
| Traffic simulator | `traffic.py`, `webapp.py` | worker thread, pause and stop flags, configuration, phase and cycle, environment, agent | start, pause, resume, stop, reset, configure, `_run`, `_step`, `_advance_phase` |
| Index-advisor environment | `sim_env.py` | active indexes, current query, random generator, budget, step, selectivity phase | `reset`, `valid_actions`, `step`, `snapshot`, `restore`, `what_if`, `evaluate` |
| Continual learning engine | `enhanced_cl_engine.py` | a supervised network, a prediction cache, EWC | train, predict, register a phase, save, load |
| Training utilities | `training.py` | early stopping, checkpoints on disk and listed | `fit`, `load_best`, pruning |
| Forgetting test | `src/experiments/run_evaluation.py` | one engine per variant, accuracies after each phase | train on a phase, measure |
| Continual-learning benchmark | `src/experiments/run_rl_evaluation.py`, `run_cwil_ablation.py` | an environment, an agent, states pending consolidation, a matrix of returns | `run_sequence`, `baseline_matrix`, `run_pair` |
| Metrics, metadata | `metrics.py`, `metadata_repo.py` | counters; rows | increment, read; insert, update |
| The rest | parsing, features, embeddings, workload monitor, configuration, dashboard, paper | none that changes concurrently | pure functions, queries, scripts, presentation |

### Interactions

    signal -> _shutdown -> CLDBServer.stop, scheduler.stop
    HTTP request thread
        -> QueryPipeline -> vector store search -> breaker -> Qdrant | fallback
              |   |   \
              |   |    -> decision -> safety layer -> executor -> database
              |   |                                     \-> rows, feedback -> vector store
              |   -> replay buffer.add
              |   -> scheduler.increment_query_count
              -> drift detector -> scheduler.trigger_drift_training
                             \-> agent.consolidate
    health page thread -> HealthChecker -> database, Qdrant, breakers
    scheduler loop thread -> training thread -> agent.train_from_buffer
                                                   -> replay buffer.sample / update_priorities_td
    web app's event loop -> TrafficSimulator (start, pause, stop, reset, configure)
    simulator worker thread -> environment, agent, EWC memory
    experiments -> environment.what_if / evaluate, agent | engine, Trainer

Objects that several threads touch: the replay buffer, the breaker, the
detector, the limiter and the scheduler's flag (each behind a lock of its own);
the fallback dictionaries, the pipeline's `_last_transition`, `_context_buffer`
and `_recent_states`, the network's weights, gradients and mode, the EWC
dictionaries, the server's `_httpd` and `_thread`, and every attribute of the
simulator (no lock, or a lock around some uses only).

### What is hard, and what correctness means

* **Circuit breaker and health.** Calls admitted in one state report their
  result in another, and a report reads the breaker between other checks. It
  must stay open long enough, never be left in a half-open state that admits
  nobody, close only on successes that nothing contradicts; breaker and
  readiness must follow a system that has settled.
* **Vector store.** Qdrant may fail after doing what it was asked; two
  dictionaries without a lock take its place. What was stored must be found.
* **Replay buffer.** Frequencies are maintained incrementally while
  evictions, loads and updates run; samples are used after the lock is released.
* **Scheduler and service.** The loop and drifts may both want to train; a
  callback may raise, a thread may not start; a signal may interrupt the handler
  of another, while requests are in flight, or come before there is a handler.
  At most one training, a flag that means it, due work eventually trained on,
  and a shutdown that completes.
* **Drift detector.** A changed workload must be noticed within bounded time
  and a stable one never declared drifted. The lock must be released.
* **Query pipeline.** A transition is completed by the *next* query, perhaps of
  another thread; any step may raise.
* **Decision path.** Six transactions and as many counters per decision, any of
  which may fail or be the last; names that depend on the order in which a set
  of strings is enumerated; a token bucket that waiters compete for.
* **Policy agent.** Training, acting and consolidating use one network, one
  parameter at a time, and switch its mode.
* **Simulator.** A control action may fall between any two steps of the worker.
* **Engine and trainer.** A cache that outlives the weights it is of;
  checkpoints that are pruned by age across tasks; losses that are no numbers.
* **Benchmark.** Everything it measures is measured on the environment it
  trains in, whose state and random numbers must come back.

`PROJECT.json` lists these hazards line by line under `hazards`, with the
properties that cover each, or the reason none does.


## 2. Plan

In order of importance to the system; a tick marks what exists.

| | Module | Abstract specification or composition |
|---|---|---|
| ✔ | `ReplayBuffer` | |
| ✔ | `CircuitBreaker` | with its callers and its dependency |
| ✔ | `HealthReport` | extends `CircuitBreaker` by the reports that read it |
| ✔ | `VectorStore` | extends `CircuitBreaker` by the calls it guards and the fallback behind them |
| ✔ | `OnlineScheduler` | |
| ✔ | `Service` | composes the scheduler with request threads and signals |
| ✔ | `DriftDetector` | implements `PhaseClock` |
| ✔ | `QueryPipeline` | has `PhaseClock` as its drift detector |
| ✔ | `RateLimiter`, `Executor`, `SafetyLayer`, `DecisionPath` | each extends the ones before it |
| ✔ | `PolicyAgent` | acting, training and consolidating threads on one network |
| ✔ | `IndexAdvisorEnv`, `TrafficSimulator` | the simulator extends the environment |
| ✔ | `EpisodeEnv`, `ContinualBenchmark` | the environment with rewards, episodes and silent drift, and the programs that measure on it |
| ✔ | `ContinualEngine`, `ForgettingTest`, `Trainer`, `SupervisedLearning` | the engine under the test and under the trainer |
| | `TrafficSimulator`, continued | the statistics of its page, the learning switch |
| | `PolicyAgent`, continued | the exploration schedule and its reheat |
| | `AdaptationLoop` | `QueryPipeline` with the scheduler's flag and the agent's memory |

Every safety property that a run checks is proved (section 5), so the theorems
still worth proving are about the modules to come: that `QueryPipeline` still
takes its turns when `AdaptationLoop` composes it with training, for which
its invariants are stated over its own variables only.


## 3. The modules

Every component has a module with its state, one action per operation or per
atomic step of one, and its properties; `MC<Component>` gives TLC an instance;
`<Component>Proofs` holds the theorems (`LearningProofs` those of `ReplayBuffer`,
`DriftDetector` and `SupervisedLearning`). An action is the code between two points
where another thread can be seen to interfere: a whole method under a lock, or one
statement where there is no lock. Definitions introduced as *Mutant* are
plausible slips in a definition (a dropped reset, an off-by-one), kept
beside the original: substituting one must violate the property it is listed with.

### CircuitBreaker and HealthReport

`state`, `failure_count`, `half_open_calls` are the attributes of the class;
`since_failure` is the age of `_last_failure_time`, which is all the code asks
of it. `pc` places each caller before its call, inside the guarded function, or
past it; `up` says whether the dependency answers. Admission, the
result on success and on failure, `reset` and reading `state` are
one action each, as each holds the lock. Reading the state is not read-only: it may turn
an open breaker half open.

`HealthReport` adds the checker, `get_system_health` one check at a time:
database, vector store (which probes Qdrant itself, past the breaker), model,
embeddings, and last the breakers, whose states it reads and thereby moves.
`worst` is what the report has seen, `report` what the last one said; a checker
has all parts, as `serve` makes it, or none. The two `/ready` pages are two
operators, since they disagree: `server.py:79` accepts a degraded system,
`health.py:237` does not.

### VectorStore

Each caller stores a point or searches. The breaker is asked, Qdrant is called
and may fail having done its work, the outcome is recorded, and a refused or
failed call goes to the fallback: two dictionaries, written one after the other,
and a search that notices if they changed size under it, raises and is
retried. The janitor deletes points that are old or clears everything, one
dictionary after the other, in a thread of its own for each of the two. The listing of
old points raises if the dictionary changed size under it and may or may not see what
came meanwhile; a deletion raises on a key that a clear took away. `_connected` is what the
constructor found, for good. The breaker's own variables are `CircuitBreaker`'s, and its
actions are used as they are.

### ReplayBuffer

`buffer` is the deque; `action_counts` is maintained exactly as in the code,
`file` is what `save` last wrote. An experience keeps the action, its impact and the frequency
its priority was computed from, because the priority is a function of those and
is not recomputed when frequencies change. `Add` evicts the experience of least
priority *after* counting the newcomer. A training thread holds the positions it
sampled while the buffer changes, and comes back with errors for them.

### OnlineScheduler and Service

`Loop(l)` is the loop thread: wake, read the counter under the lock, leave the
lock, take the flag under the lock in `_try_start_training`, leave it, and start a
training thread. That start may fail: the flag stays set and the loop thread ends of the
exception, or the query that reported the drift. A training thread runs the callback, resets the
counter, and clears the flag in the `finally`. `Start`, `Stop` and `JoinReturns`
model an owner who may stop a loop that is asleep, wait for it with a timeout,
and start another.

`Service` is `serve()` around it. The main thread builds the pipeline, binds the
port (or dies of a port that is taken), starts the server, installs the signal handlers and
serves; a signal before that ends the process as it is. A request thread per request
counts its queries and may report drifts; a signal pushes `_shutdown` on the stack
`frames`, on top of one that is still running, and each of its statements is an action.
What the upper frame sets to `None` the lower one may dereference: the exception
ends the main thread and with it every daemon thread. Of a query only what
concerns the scheduler is in the module. `CallbackRaises` of `OnlineScheduler` is not a
step of the service, because the pipeline's callback swallows its exceptions.

### DriftDetector and PhaseClock

Embeddings are integer vectors in the plane, and the cosine distance is compared
with its threshold by cross-multiplying squares, so no arithmetic is rounded. The
centroid of a window at least half full, the zero-vector case, the baseline taken when the window first fills and the
clearing of the window at a drift are the code's. The lock is explicit, since
`force_new_phase` takes it twice. `PhaseClock` is the promise to the
pipeline: phases go up by one, and one that nobody forces begins only after half a window of
queries since the last. A forced phase is the last event of its clock, since the thread that
forces one never gives the lock back; nothing else may turn the phase early.
`ImplementsPhaseClock` is the refinement; `MaxPhase` bounds the phase number.

### QueryPipeline

Each client thread runs `process_query` step by step: observe, search, test the previous
transition, take it, store it, clear it, decide and execute (one step which may raise), set
its own transition as the last, feed the detector, read the phase, consolidate, trigger. Any
step that can raise in the code can fail in the model: an observation, which asks the
database, and a search leave the pending transition where it is, and `missed` remembers which queries
failed so. The detector is `PhaseClock` without forced phases, the abstract specification that
`DriftDetector` is shown to implement. A transition is known by its query; what a
state contains is left out.

### RateLimiter, Executor, SafetyLayer and DecisionPath

`RateLimiter` is the token bucket: `tokens` and `last` as the last look left
them, the refill at each look, a wait that is a choice to look again or not at
the next instant, and the two ways a timeout ends it. `grants` remembers when tokens were taken.

`Executor` is the database: `indexes` by name, `catalog` the metadata's index
rows, which nothing in the code writes, and `order`, the lists this process may
make of sets of column names: one for each set, as a process enumerates equal
sets of strings alike - unless the hashes of its columns collide in the set's
table, where the order is that of insertion and the process may make several.
`collided` remembers for which sets that was so in any process so far.
`_index_exists` is translated as it is: it ignores the table and compares the
number of columns.

`SafetyLayer` has the checks of a decision and `execute_with_rollback`: list the
record, acquire a token, execute, compare latencies, mark, delist. An operation's
name is its table, action and second, so two may share one.

`DecisionPath` is `process_query` from the policy's choice to the feedback row:
the mask, the counted prediction, the first measurement, the log row, the judgement,
the execution, the decision row, the second measurement and the reward, the status,
the vector, the replay row. Each commit may fail where the code catches it, and one that raises may
have been carried out: the index is then there and the code takes it that it is not. `Restart`
ends the process anywhere, keeping the database, and gives the next process
other lists of columns. `counters` are the metrics, `rows` the tables' sizes by status.

### PolicyAgent

The network has the parameters `Params`; a weight is the number of optimizer steps
taken, and a gradient the set of things that were accumulated into it: the loss made with dropout (`"loss"`)
or without (`"thin"`), the Fisher estimate made without (`"fisher"`) or with it (`"noisy"`),
what was left by earlier work (`"old"`). `mode` is the network's. A training
runs on replayed transitions or on counterfactual alternatives: forward, penalty phase by phase,
zero, backward, one parameter's step at a time, the target. A consolidation copies the weights, estimates Fisher information
chunk by chunk and registers the phase. Acting sets the mode, then uses the network.
Each may fail where the code can raise. `user` is who owns the agent: in the pipeline threads overlap,
in the simulator one worker does everything; `disturbed` remembers whether a training overlapped other work.

### IndexAdvisorEnv, TrafficSimulator, EpisodeEnv and ContinualBenchmark

`IndexAdvisorEnv` is operators only: an environment is a record of its task, its
query, active indexes, random generator and budget; `EnvStep`, `EnvReset`,
`ValidActions`, snapshot and restore are functions of it. A query is the
columns it filters on, and the random generator is the next draw.

`TrafficSimulator` has a worker at the granularity of its reads and writes of shared attributes:
the loop head, the batch, the what-if branches one action at a time, choosing an action,
stepping the environment, learning, recording, advancing a phase (`cycle`, then the phase),
and the loops of a consolidation and of pruning. The
event loop's handlers are serial, as the web application's are coroutines that do not
await within a change; `stop` is three steps (set flags, join, give up or clear)
because the join waits, and `reset` replaces its attributes and then restarts what it saw running.
A reset with a seed that is no number leaves the simulator stopped as it was, one with a rate that is no number leaves
it rebuilt and stopped; a phase length that is no number makes every step raise where it is compared.
`run_for` is a start followed by a stop. Rewards are not needed here; the
simulator's horizon is so large that its episodes never end.

`EpisodeEnv` wraps an environment into an episode: the step index, the
selectivity phase that silent drift sets apart from the task, latencies and rewards
as integers with the code's costs as constants, the end after the horizon, and the
alternatives of a counterfactual set. `ContinualBenchmark` has three programs: the
sequence of tasks (train with the oracle, consolidate at drifts and at the
boundary, evaluate on every task so far), the matrix of the baselines, and a pair
with a silent drift, evaluated in an environment of its own. Actions of the agent
are a free choice among the valid ones, so what holds does so whatever it learnt.

### ContinualEngine, ForgettingTest, Trainer and SupervisedLearning

A network is the number of its weights: training makes weights that never were,
loading brings back older ones. `cache` maps an input to the weights that answered
for it; a full cache is neither asked nor filled. `ForgettingTest` is the loop of
`run_evaluation.py` over the phases, for one of its trained variants.
`Trainer` is `fit`: an epoch, a validation loss that is an integer or NaN (which
compares with nothing), the best state, the checkpoint and its pruning, the
`EarlyStopping` object that all fits share, and `load_best`. A save that raises may leave a file, whole or
torn, that no list names. `SupervisedLearning`
composes them: the test and the trainer, each with an engine, never in one run of the program.


## 4. The runs

Distinct states and rough times on two workers; symmetry applies where given.

| Run | Instance | States | Time |
|---|---|---|---|
| `CircuitBreaker` | 2 callers, threshold 2, timeout 2, 2 half-open calls; a checker with all parts or none | 304 624 | 2 min |
| `VectorStore` | 2 callers symmetric, threshold 1, timeout 1, 1 half-open call, 2 points, 2 attempts | 3 839 954 | 1.5 min |
| `ReplayBuffer` | 3 actions symmetric, impacts 1 and 2, capacity 2, 1 training thread | 29 256 | 5 s |
| `Service` | 2 loop threads, 2 training threads, 1 request thread, 2 signals, batches of 1 | 259 468 | 3 min |
| `DriftDetector` | 3 embeddings (two orthogonal, two opposite), window 5, 2 callers symmetric, 4 phases | 9 169 | 5 s |
| `QueryPipeline` | 2 clients symmetric, 4 queries, a drift after any query | 445 082 | 10 s |
| `PolicyAgent` | 2 parameters, 2 phases, target every 2 trainings, 2 Fisher chunks; both symmetric | 3 170 377 | 45 s |
| `TrafficSimulator` | 2 workers symmetric, 2 tasks, 2 columns, 3 configurations, batches of 2, 2 phases kept, 3 queries per build, 2 environments at once | 2 594 984 | 1.5 min |
| `DecisionPath` | 2 threads symmetric, 2 tables, 2 columns, 2 calls, 1 restart, a bucket of 1 token, 1 s | 2 318 114 | 2 min |
| `SupervisedLearning` | 4 phases over 3 inputs, caches of 2 and 1000; 3 fits of 3 epochs of 2 tasks symmetric, losses 1, 2, 4 and NaN, 2 checkpoints | 2 602 646 | 2 min |
| `ContinualBenchmark` | 2 tasks, 2 columns, 2 draws, episodes of 2 steps, 2 per task, 2 before and 3 after a silent drift, budget 1 | 158 698 | 15 s |
| `RetentionCached` | as `SupervisedLearning` | violation | |

### What each shows

**CircuitBreaker.** `BreakerSafe`: a closed breaker has fewer failures than the
threshold, whatever order results come in; an open one has a failure time for its timeout to run
from and a half-open one a probe left to give, although a failed recovery does not reset the probe
count; it is half-open only because the timeout has passed or a success was recorded since
the failure. `RecoveryIsEarned`: it closes only after as many successes since the last failure
as it asks for, those of other half-open times not among them. `FollowsTheDependency`, under fairness: a dependency that stays up ends with a closed
breaker and, if the other parts work, two pages that are READY; one that stays down opens the breaker
again and again; a part that stays broken is reported for good, by both pages, although a
report mixes what it saw at different moments.
*Bounds*: two callers let the result of an earlier state arrive in a later one; a
threshold of 2 lets a breaker be one failure short; two half-open calls allow a
probe to be refused; a timeout of 2 can be half over.

**VectorStore.** `NothingStoredIsLost`: what `store_experience` returned True for, and no
delete or clear was to remove, is in Qdrant or whole in the fallback. That is presence: a search asks Qdrant while the breaker
is closed and the fallback while it is open, never both. `OrphansComeFromClears`: a vector without its payload,
which a search answers with empty fields, is one that a removal was about.
*Bounds*: two points are one that is stored while the other is searched or
removed; two attempts of a search are one failure and its retry; `MaxPoints` bounds what is stored; a breaker that opens at
the first failure and closes at the first success has all of its states in few steps, and the run of `CircuitBreaker`
has those in between.

**ReplayBuffer.** `CountsMatchBuffer` and `PrioritiesAreSane`, through every mix
of adds, evictions (also of the newcomer's own action), updates, saves and loads. *Bounds*: at capacity 2
evictions happen at once and the evicted action may be either.

**Service.** `SlotSafe`: one training at a time, and `is_training` exactly while it is being started or lasts, whatever
handlers, loops and signals do - or for good, once a training thread failed to start. `NothingHangs`: a training ends, due queries are trained on while the
scheduler runs, a stopped scheduler's loops die, the same exception made. `ShutdownCompletes`: from the first signal the
process reaches, and never leaves, a state in which the port is closed, the requests in flight are answered,
no training runs and no loop lives - or it is dead. This begins with the first signal that has a handler. `DiesStopped`: when a second signal makes the interrupted
handler raise, the handler on top had closed the port and stopped the scheduler.
*Bounds*: two loops are the old one, which survived a timed-out join, and the new one; two training threads would show any overlap;
two signals are one on top of another; one request thread reports a drift while the loop
starts a training, and several would do so in atomic steps of the same kind; the counter stops at
`MinQueries`, beyond which the code does not distinguish.

**DriftDetector.** `SettlesInTime`: after a window and a half of equal queries the
baseline is within the threshold of them, and from there on they cause no drift. `ImplementsPhaseClock`.
*Bounds*: a window of 5 has a half that is rounded; opposite vectors give a zero centroid; `MaxRun` 8 reaches past a window and a
half, and four phases let three drifts follow one another. Deadlock is not checked: `force_new_phase` does deadlock (see below).

**QueryPipeline.** While queries take turns, `TurnsAreExact`: each transition is stored once, with the state of the first
later query that did not fail before finalising it, and none is lost. However they overlap: `StoredOncePerClient`, at most one
copy per thread; `NamesAreFresh`, where the phase is read after the lock under which the drift was found: a
drift is consolidated once at most, under the phase it began or a later one, and no thread overwrites what it consolidated before.
*Bounds*: four queries of two clients suffice for two drifts of each, for one drift between another's finding and naming,
and for failing queries between two good ones; windows of 1 let any query be a drift, which is more than any other window allows.

**PolicyAgent.** `PenaltyHasFisher`: whatever phase the penalty loop finds has its Fisher matrix,
though it is registered meanwhile. `QuietWorkIsExact`: actions, trainings and consolidations that met no training of another thread, as
all of the simulator's do, compute what their formulas say, whatever mode and gradients earlier or failed work left (of work that overlaps a training it says nothing:
its copy of the weights may be torn). `TargetIsRecent`: the target
lags by less than an interval of optimizer steps between trainings, and by no more than one during them.
*Bounds*: two parameters are the least that can be torn; two phases let one be registered
while another is read; with a target every second training both sides of the interval's boundary occur.

**TrafficSimulator.** `WorkerIsTheOne`: never a second worker, and `_running` is set exactly while there is
one, unless one died of a rate that is no number. `WhatIfLeavesNoTrace`: the observation acted upon is the
environment's, unless a step failed, and the successors that what-if saw are
those the step then meets. `WithinBudget`: no more indexes than the largest budget since they were cleared, which forgives an index that
a budget lowered too late, as the code does, and no more than that.
`MemoryKeepsMostRecent`: pruning keeps the phases consolidated last. `PauseIsHeeded`: after a pause at
most a batch of queries is still recorded. *Bounds*: two workers are the one that leaves and
the one that is started; two columns and a budget of 1 or 2 make the budget bind;
three queries and phases of one let phases turn, a cycle end and pruning happen. The state
constraint `NobodyAbandoned` stops where `stop` gives up on a worker after three
seconds: from there two workers share everything, nearly every property
excuses that history, and the hazards list it.

**DecisionPath.** `BurstIsBounded`: any consecutive grants are at most a full bucket and what was
refilled between the first and the last. `DecisionsAreAccountedFor`: each counted prediction comes
to one counted end, is on its way, or its query is counted as an error. `HistoryIsGrounded`: no decision row
without an execution, no EXECUTED row without a logged query, no replay row without an EXECUTED one, whatever
commits failed and wherever processes ended. `OneIndexPerProcess`: for a set of columns of a table there
are at most as many indexes as there were processes - one each, as a restart may enumerate the columns
differently - unless the columns' hashes collided in one of them. `RanIsDelisted`: what stays listed as an active operation was never run. *Bounds*: two calls of two threads give two
operations in one second, two that compete for one token, and one that a restart interrupts; one second refills the bucket once;
two columns have two orders, of which a process has either or both;
with catalogs empty and not, `_index_exists` answers both ways, for the wrong table too.

**SupervisedLearning.** `StalenessIsExplained`: a prediction is of older weights only when the cache has
space and the weights have changed since it was empty - never from a full one. `CheckpointsKeepTheBest`: a fit
leaves the weights of its best epoch in the network, and what `load_best` would load is on disk, of its task, and the
best of its fit, whatever other tasks' checkpoints have pushed out and whatever a save that raised left behind. *Bounds*: four phases of which the last repeats the first
are the script's; losses 1, 2, 4 and NaN improve by more or less than `MinDelta`, get worse or do not compare;
two checkpoints make pruning happen in a fit of three epochs.
**RetentionCached** violates `RetentionIsMeasured`, see below.

**ContinualBenchmark.** `WhatIfComesTrue`: the branch of the action then taken had the same successor, reward, end and
next mask. `RankingFollowsSelectivity`: the oracle ranks creating an index above keeping exactly when the predicate is
selective in the true phase, drifted silently or not: the costs say by how much, what is checked is that resets, branches, drifts and evaluations keep the two apart. `EveryPhaseIsConsolidated`: before a task is evaluated, all its
states since the last drift are consolidated, under its name and without another's. `EvaluationsLeaveNoTrace`:
training draws the queries it would have drawn without evaluations (which leave the environment reset, as the next episode
does anyway), and at the end exactly the entries that are
read have been measured, each on its own task and phase (`nanmean` would pass over a missing one in silence).
*Bounds*: two tasks of which the second makes one column unselective; two draws and two columns let a query be about an indexed column or not; a
budget of 1 binds; the horizon of 3 lies beyond the 2 steps, as in the script, and `TypeOK` includes the budget.

### Fairness

* `CircuitBreaker`: time passes (`WF Tick`), a thread inside a guarded call goes
  on and, while it is let through, calls again (`WF Call(c)`), and somebody polls the health page
  (`README.md:76`, `docker-compose.yml:87`). Nobody need reset.
* `Service`: `WF` of each request that was accepted, of `serve_forever`'s poll, of a
  signal handler, of each loop thread (it sleeps a bounded time) and of each training thread
  (the callback returns); a thread that is started may still fail to. Requests, drifts, signals and the owner's starts and stops are not fair: they
  are the environment's.
* All other properties are safety properties; their specifications state no fairness.

### A disagreement with the code's own words

`src/experiments/run_evaluation.py:148` says that phase 1 accuracy must be tested at every step. `predict`
(`enhanced_cl_engine.py:241`) answers from a cache by input that no training clears, and the
script asks for the same phase 1 tensors each time: after phases 2, 3 and 4 it measures the predictions of the network as it
was after phase 1. `RetentionCached` shows it.

### Noted without a run

* `drift_detection.py:98` calls `get_current_phase` under the non-reentrant lock that it takes (line 87 promises a
  new phase): `ForceNewPhase` never returns in the model either. Nothing in `src/` but tests could call it.
* `replay_buffer.py:191` refines whatever now holds a sampled position; `pipeline.py:241` lets two threads
  finalise one transition, and `pipeline.py:219` lets a drift be consolidated under the name of another thread's; `rl_agent.py:325`
  and `335` tear a consolidation that a training overlaps. The models have these behaviours, and the
  properties are stated so that they say what remains true: `StoredOncePerClient`, `NamesAreFresh`, `QuietWorkIsExact`.
* `pipeline.py:240` finalises the previous transition "now that its successor is known". When a query fails in its
  observation or its search, the transition before it stays pending and gets the state of a later query as its successor:
  `TurnsAreExact` says so, and that only queries that failed lie between the two.
* `pipeline.py:156` stores a view of a shared array as a state's context; contents of states are not in the models.
* `online_scheduler.py:78` starts a thread outside the lock under which the flag was set: when the start fails, `is_training` stays
  set and nothing is ever trained again, and from the loop thread the exception ends the loop.
* `server.py:188` installs the signal handlers once the server listens: an earlier signal ends the process with its port open.
  When the loop thread or the server's thread cannot be started is not modelled.
* A delete of old points may raise midway when a store or a clear meets it (`enhanced_vector_store.py:167`); the rest stays.
* A query whose second measurement fails is rewarded as if its latency were zero (`pipeline.py:291`).
* The index limit never refuses (`enhanced_safety.py:69`): nothing writes the rows it counts. The limiter
  bounds the rate of operations, not how many run at once. `execute_with_rollback` marks a rollback and
  executes none; an operation that the limiter refuses stays active for ever; only tests call it.
* Points that went to the fallback are never moved to Qdrant, and a store that found no Qdrant at its start never connects,
  so the page of `health.py:237` is never READY. `/health` answers 200 whatever it reports, so the container's
  health check (`Dockerfile:50`) sees no trouble; `README.md:190` names port 8080 for it, `serve` listens on 5000.
* `serve`'s handler stops everything and returns to `while True` (`server.py:192`): the process stays until it is killed.
* A worker that died of a rate that is no number leaves `_running` set (`traffic.py:222`); one abandoned by
  `stop` resets the flag of its successor. A reset with such a rate, or with a seed that is no number, leaves the simulator stopped.
* `EarlyStopping` lives as long as its trainer: after a first loss that is NaN nothing improves on it. `get_latest`
  falls back to any task's file, a torn one included, which then does not load. `HyperparameterTuner.tune` passes `fit` what it does not take. A phase whose Fisher
  estimate raises keeps an anchor without a matrix, and every later penalty raises.
* `run_rl_evaluation.py` ends its episodes after 30 steps of an environment with horizon 60: `done` is never set in them.


## 5. The proofs

The proofs hold for every value of the constants that satisfies the modules' assumptions, which ask
only what the code does (positive capacities and thresholds, a window of at least
two, model values that are none of the data). Two are worth naming. `WorthBuilding`, of the
benchmark, says of its latencies and costs what follows from the code's defaults (`sim_env.py:82`): what an index saves on one
selective query is more than building it and keeping it for that step cost. `NoZeroEmbedding` is a hypothesis of
`DetectorSettlesInTime` alone. The embedders normalise what they return, so only a text without tokens, or one whose
tokens cancel in the hashing fallback (`embeddings.py:32`), has the zero vector; it is at cosine 0
from everything, itself too, and a run of it would be reported as a drift every half a window.

| Module | Theorems |
|---|---|
| `CircuitBreakerProofs` | `BreakerIsSafe`, `RecoveryEarned` of the breaker alone, with their parts; `BreakerIsSafeInReports`, `ReportsAreTyped` with the health reports; `BreakerIsSafeInStore` with the vector store; `StoredIsKept`, `OrphansAreCleared` of the store |
| `OnlineSchedulerProofs` | `TypeCorrect`, `MutualExclusion`, `FlagCorrect` of the scheduler; `ServiceKeepsSlot`, `ServiceDiesStopped` of the process around it |
| `QueryPipelineProofs` | `TypeCorrect`, `DuplicatesBounded`, `SequentialStoresOnce`, `SequentialTurnsAreExact`, `ConsolidationNamesAreFresh` |
| `PolicyAgentProofs` | `TypeCorrect`, `PenaltyFindsFisher`, `QuietWork`, `TargetLags` |
| `TrafficSimulatorProofs` | `TypeCorrect`, `OneWorkerAtATime`, `RunningIsAWorker`, `TheOneWorker`, `PauseIsSoonHeeded`, `IndexesWithinBudget`, `WhatIfIsInvisible`, `PruningKeepsTheRecent` |
| `DecisionPathProofs` | `BurstsAreBounded`, `WhatRanIsDelisted`, `DecisionsAccounted`, `HistoryGrounded`, `RestartsBoundIndexes` |
| `LearningProofs` | of the replay buffer: `TypeCorrect`, `CapacityHolds`, `CountsCorrect`, `PrioritiesSane`; of the drift detector: `ClockRefinement`, that it implements `PhaseClock`, `DetectorTypes`, `DetectorSettlesInTime`; of the engine, the forgetting test and the trainer: `LearningTypes`, `StalenessHasACause`, `BestIsKept` |
| `ContinualBenchmarkProofs` | `TypeCorrect`, `WhatIfTrue`, `OracleRanksTruly`, `PhasesConsolidated`, `EvaluationsTraceless` |

The inductive invariants, and why the properties alone are not inductive:

* **BreakerInv.** That the breaker closes only on earned successes needs what the half-open count
  means: while half open, every counted probe is a success since the last failure. A report's
  steps leave the breaker alone or are its own `ReadState`, so the invariant carries over without a new induction.
* **StoreInv.** The store uses the breaker's actions or leaves it alone, so `BreakerInv` holds in it without a new induction. What is
  stored stays found because the fallback writes payload, then vector, then reports success; the invariant
  says what a caller between the two has written, and that the janitor deletes only what was to be forgotten.
* **ReplayInv.** A load replaces the buffer by the file, so the file must satisfy what the buffer does; the capacity is
  needed to know that an eviction has a victim, and that frequencies are bounded.
* **SchedulerInv, StackInv.** Mutual exclusion alone is lost when a training clears the flag; it must
  be stated together with what `is_training` means: a training, one that somebody is about to start, or one that never started. The service's dying step empties both at once. That a
  process dies stopped needs the whole stack of handlers: a frame that can raise has one above it which
  has cleared the field, and so has closed the port and stopped the scheduler before it returned.
* **WindowInv.** The clock's age is the length of the window, so the refinement needs that the window is a
  sequence of at most `Window` embeddings, cleared when a phase begins. What the centroids are does not matter to the clock.
* **SettlingInv.** That the baseline is near the run after a window and a half needs when the two were compared: the window ends with the
  run; and once the run fills the window to at least its half, or filled one before, the baseline
  has been compared with a window of nothing else, or is one, and is near. A centroid is a sum over a sequence, a fold that the library defines
  by recursion on sets of positions; its value for equal embeddings is proved by taking the smallest set
  where it would fail, and `FarScales` that the distance does not depend on how many were added.
* **OnceInv, TurnInv.** A thread that stored a transition is about to clear it, or it is the last one no more and the
  thread is not about to store it again: this is why duplicates are at most one per thread. While
  queries take turns at most one thread is inside a query, and what it is about to store is not in the buffer.
* **ChainInv.** That no transition is lost says nothing of where the last one waits. The invariant says
  what the one thread inside a query finds: until it has finalised, the last transition is of the query before its own; what it
  took is what still waits there, and from its clearing to its recording nothing waits. Once nobody is finalising, all queries after
  the one that waits have failed before they could.
* **NameInv.** The detector's phase only grows, and what a thread read of it stays between the phase its drift began and the
  present one, so that the thread's next drift begins a later phase; no two drifts under way, or done, began the same phase.
* **FisherInv, QuietInv.** `register_phase_matrix` publishes the Fisher matrix before the weights, so the
  invariant adds what the consolidating thread holds between the two; quiet threads carry
  through their loops over chunks and parameters what they have already done, and in which mode.
* **RecentInv.** A parameter is ahead of its target by the trainings since the last copy, which is the update
  count modulo the interval, and by one more once the training under way has come by it; what can fail in a training fails
  before its first parameter moves. The bound must hold per parameter and place, as parameters without a gradient stay behind.
* **LifeInv, PauseInv.** Unless a worker was abandoned, one that is alive is the simulator's
  thread and the flag is set, which is more than that there is only one; a set flag has a live
  worker unless it died; the queries recorded since a pause
  plus those still due in the worker's batch are at most a batch.
* **WorldInv.** The budget is tested by the mask and used by a later step. Between them the index that the mask allowed
  still fits because the worker's environment is the simulator's: a reset builds another only when the worker has gone,
  which is `LifeInv`. The snapshot that what-if rewinds to satisfies what the environment does, and its branches foresee the query that the
  environment's generator draws next: of that, `WhatIfLeavesNoTrace` is the consequence at the step.
* **ObsInv.** Unless a step failed, the observation is the environment's whenever nobody is between a step and its recording,
  and what the step returned is it while somebody is.
* **MemoryInv.** The dictionary forgets by insertion order, in which a phase consolidated again keeps its old place. That this is the
  order of the consolidations too needs their chronicle: every phase in it comes before the one under way, which is
  there once at most and last; by its boundary only if no drift has consolidated it. So the dictionary is an end of the chronicle, the
  whole of it while it is short.
* **BucketInv.** The bound on bursts that *end now* is tightened by the tokens left: any run of grants up to the last, plus the tokens in the
  bucket, is at most the capacity and what was refilled since its first. The products are hidden behind an operator,
  whose two laws (monotone, additive) are all the induction needs.
* **ListingInv.** A marked record has a thread at `delist` whose operation has the record's name, which need not be the
  thread that listed it, as operations of one second share a name: what leaves `delist` removes every such record.
* **AccountInv.** The difference of the counters is a cardinality, of the threads between two places: a step of
  one thread changes it by at most one, and the proof pairs each change with a counter.
* **GroundedInv.** The three inequalities are not inductive, since a status is set long after its row: a PENDING row is
  promised to the thread that will set its status, and log and EXECUTED rows to those that build on them. The promises are counted as sets
  of threads; a restart only drops promises.
* **OneIndexInv.** Of the indexes alike, those that no list of this process names are inherited, at most one per restart, and outside
  `collided` this process has one list for a set. A new process may turn its predecessor's index into an inherited one, and only that.

* **EngineInv.** That a prediction was of older weights is excused by `fresh` being false, so the invariant says what `fresh` means:
  everything cached is then of the present weights. That the cache is finite is needed to count it against its size.
  **TestInv** adds how far the forgetting test's loops are.
* **Filed, Scored, Tracked** (the trainer's). That `load_best` finds the best checkpoint of a fit is not a property of one save: the list is in the order of
  the weights and every checkpoint in it is on disk, whole (Filed); a fit saves only improvements, so of a task's checkpoints the last listed has the
  lowest loss of its fit (Scored); and the best weights kept in memory are of an epoch in the trail, with the lowest loss
  there that compares (Tracked). Pruning takes the list's oldest, of whatever task, which may lose a task's checkpoints
  altogether but never the last before an earlier one.
* **TypeInv, OracleInv, WorldInv** (the benchmark's). Where each of the three scripts can be, with sound environments. While the
  oracle works, every valid action has been foreseen or is still to be, and what was foreseen is what the environment would
  do, whatever its generator draws later: `WhatIfComesTrue` is that at the step. The environment's selectivity is that of the phase that
  truly is, before the silent drift and after, and its generator is where training left it, or will be once the
  evaluation under way puts it back.
* **ConsolidationInv, MeasureInv.** While a task is trained on, only its states are pending, and every earlier one is registered under its own name;
  before its evaluation nothing pends or it is registered. Entries are measured exactly when they are due: at the end that is all that is read.

**Only model-checked**: the liveness properties (`FollowsTheDependency`, `NothingHangs`, `ShutdownCompletes`), which are beyond the
proof system.


## 6. What is not modelled

* Of the **health checks**: `HealthServer`'s life cycle, which nothing in `src/` starts, and the text of the pages.
* Of the **pipeline**: warm-starting from the database. Of the **retries**: the delays.
* Of the **agent**: the exploration schedule and its reheat, which only choose actions that the models choose freely;
  the lock-free `steps += 1` of `select_action`; `save` and `load`, which only tests call.
* Of the **simulator**: snapshot and statistics of its page, the web socket, the learning switch, and what a training does to the weights.
* Of the **engine** and the **training utilities**: the quantized engine, normalisation and tuning, which are
  numerical or cannot run.
* Of the **experiments**: seeds, tables, plots; the periodic and static baselines against a live database; `simulate.py`.
* **Parsing, features, embeddings, Q-values, the counterfactual regret loss** are numerical functions without state; the
  models have the identities they produce. Distances and filters of the vector store likewise.
* The **metadata repository** is in `DecisionPath` as the rows decisions leave, **metrics** as the counters of decisions;
  histograms and their exposition are not. Of the **workload monitor** there is in `QueryPipeline` that it asks
  the database and may fail.
* **Dashboard, web page, configuration, logging, the paper** are presentation, environment variables and typesetting.


## 7. Running

    tlc -config CircuitBreaker.cfg MCCircuitBreaker
    tlapm CircuitBreakerProofs.tla

and likewise for the others; `RetentionCached.cfg` belongs to `MCSupervisedLearning`.
