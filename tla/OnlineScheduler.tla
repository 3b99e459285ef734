-------------------------- MODULE OnlineScheduler --------------------------
(***************************************************************************)
(* The background training scheduler of cldb/online_scheduler.py.          *)
(*                                                                         *)
(* Four kinds of threads share it: query threads (increment_query_count,   *)
(* and trigger_drift when the drift detector fires), the owner (start,     *)
(* stop), the loop threads running _run_loop - more than one when stop     *)
(* gives up waiting and start is called again - and the threads running    *)
(* _execute_training.                                                      *)
(*                                                                         *)
(* queries_since_last_train is only compared with the minimum, so it       *)
(* saturates there.  The set of loop threads bounds how many may be alive  *)
(* at once.  _try_start_training takes the flag in a step of its own: the  *)
(* training thread is created and started outside the lock, and starting   *)
(* a thread may fail, which nothing in the scheduler handles.              *)
(***************************************************************************)
EXTENDS Naturals

CONSTANTS MinQueries, (* min_queries_before_train                           *)
          Loops,      (* threads that may run _run_loop                     *)
          Trainers,   (* threads that may run _execute_training             *)
          None        (* no loop thread yet                                 *)

ASSUME SchedulerAssumption == MinQueries \in Nat /\ None \notin Loops

VARIABLES
  queries,     (* queries_since_last_train, up to MinQueries                *)
  is_running,
  is_training,
  thread,      (* _thread, the loop thread started last                     *)
  stopping,    (* is the owner inside stop?                                 *)
  loop,        (* where each loop thread is                                 *)
  reporting,   (* has a query thread that reports a drift taken the flag,   *)
               (* and not yet started the training?                         *)
  trainer,     (* where each training thread is                             *)
  unstarted    (* has a training thread failed to start?                    *)

owner == <<is_running, thread, stopping>>
vars == <<queries, owner, is_training, loop, reporting, trainer, unstarted>>

-----------------------------------------------------------------------------

Init ==
  /\ queries = 0
  /\ is_running = FALSE
  /\ is_training = FALSE
  /\ thread = None
  /\ stopping = FALSE
  /\ loop = [l \in Loops |-> "none"]
  /\ reporting = FALSE
  /\ trainer = [t \in Trainers |-> "none"]
  /\ unstarted = FALSE

Active(t) == trainer[t] # "none"

(* _try_start_training under the lock: the flag is set afterwards, and the *)
(* caller that found it clear goes on to start the thread.                 *)
TryStart == is_training' = TRUE

(* Threads are alike: the one that is started is any that is not alive.    *)
StartTrainer ==
  /\ \E t \in Trainers : ~Active(t)
  /\ trainer' = [trainer EXCEPT ![CHOOSE t \in Trainers : ~Active(t)] = "training"]
  /\ UNCHANGED <<is_training, unstarted>>

(* train_thread.start() raises: nobody gives the flag back. *)
StartFails ==
  /\ unstarted' = TRUE
  /\ UNCHANGED <<is_training, trainer>>

-----------------------------------------------------------------------------
(* Query threads and the owner.                                            *)

IncrementQueryCount ==
  /\ queries < MinQueries
  /\ queries' = queries + 1
  /\ UNCHANGED <<owner, is_training, loop, reporting, trainer, unstarted>>

TriggerDrift ==
  /\ TryStart
  /\ reporting' = (reporting \/ ~is_training)
  /\ UNCHANGED <<queries, owner, loop, trainer, unstarted>>

(* It goes on, and returns or raises in the query that reported the drift. *)
ReportEnds ==
  /\ reporting
  /\ StartTrainer \/ StartFails
  /\ reporting' = FALSE
  /\ UNCHANGED <<queries, owner, loop>>

Start(l) ==
  /\ ~stopping
  /\ ~is_running
  /\ loop[l] = "none"
  /\ is_running' = TRUE
  /\ thread' = l
  /\ loop' = [loop EXCEPT ![l] = "test"]
  /\ UNCHANGED <<queries, stopping, is_training, reporting, trainer, unstarted>>

Stop ==
  /\ is_running
  /\ is_running' = FALSE
  /\ stopping' = TRUE
  /\ UNCHANGED <<queries, thread, is_training, loop, reporting, trainer, unstarted>>

(* The join in stop ends with the loop thread, or gives up after two       *)
(* seconds on one that is asleep, which it may be for check_interval.      *)
JoinReturns ==
  /\ stopping
  /\ loop[thread] \in {"none", "asleep"}
  /\ stopping' = FALSE
  /\ UNCHANGED <<queries, is_running, thread, is_training, loop, reporting, trainer,
                 unstarted>>

-----------------------------------------------------------------------------
(* A loop thread.                                                          *)

(* Mutant: the loop never looks at is_running again. *)
LoopTestForever(l) ==
  /\ loop[l] = "test"
  /\ loop' = [loop EXCEPT ![l] = "asleep"]
  /\ UNCHANGED <<queries, owner, is_training, reporting, trainer, unstarted>>

(* while self.is_running: sleep *)
LoopTest(l) ==
  /\ loop[l] = "test"
  /\ loop' = [loop EXCEPT ![l] = IF is_running THEN "asleep" ELSE "none"]
  /\ UNCHANGED <<queries, owner, is_training, reporting, trainer, unstarted>>

(* Mutant: the minimum itself is not enough. *)
LoopWakeOffByOne(l) ==
  /\ loop[l] = "asleep"
  /\ loop' = [loop EXCEPT ![l] = IF queries > MinQueries THEN "due" ELSE "test"]
  /\ UNCHANGED <<queries, owner, is_training, reporting, trainer, unstarted>>

(* should_train is computed under the lock and used after its release. *)
LoopWake(l) ==
  /\ loop[l] = "asleep"
  /\ loop' = [loop EXCEPT ![l] = IF queries >= MinQueries THEN "due" ELSE "test"]
  /\ UNCHANGED <<queries, owner, is_training, reporting, trainer, unstarted>>

LoopTry(l) ==
  /\ loop[l] = "due"
  /\ TryStart
  /\ loop' = [loop EXCEPT ![l] = IF is_training THEN "test" ELSE "starting"]
  /\ UNCHANGED <<queries, owner, reporting, trainer, unstarted>>

(* What start() raises ends the loop thread: _run_loop catches nothing.    *)
LoopStarts(l) ==
  /\ loop[l] = "starting"
  /\ \/ StartTrainer /\ loop' = [loop EXCEPT ![l] = "test"]
     \/ StartFails /\ loop' = [loop EXCEPT ![l] = "none"]
  /\ UNCHANGED <<queries, owner, reporting>>

-----------------------------------------------------------------------------
(* A training thread: _execute_training.                                   *)

(* train_callback raises: the counter is kept. *)
CallbackRaises(t) ==
  /\ trainer[t] = "training"
  /\ trainer' = [trainer EXCEPT ![t] = "ending"]
  /\ UNCHANGED <<queries, owner, is_training, loop, reporting, unstarted>>

(* Mutant: the flag is given back together with the counter. *)
ResetCountReleasing(t) ==
  /\ trainer[t] = "training"
  /\ queries' = 0
  /\ is_training' = FALSE
  /\ trainer' = [trainer EXCEPT ![t] = "ending"]
  /\ UNCHANGED <<owner, loop, reporting, unstarted>>

(* It returns, and the counter is reset under the lock. *)
ResetCount(t) ==
  /\ trainer[t] = "training"
  /\ queries' = 0
  /\ trainer' = [trainer EXCEPT ![t] = "ending"]
  /\ UNCHANGED <<owner, is_training, loop, reporting, unstarted>>

(* finally *)
ClearFlag(t) ==
  /\ trainer[t] = "ending"
  /\ is_training' = FALSE
  /\ trainer' = [trainer EXCEPT ![t] = "none"]
  /\ UNCHANGED <<queries, owner, loop, reporting, unstarted>>

Loop(l) == LoopTest(l) \/ LoopWake(l) \/ LoopTry(l) \/ LoopStarts(l)

Train(t) == CallbackRaises(t) \/ ResetCount(t) \/ ClearFlag(t)

Next ==
  \/ IncrementQueryCount
  \/ TriggerDrift
  \/ ReportEnds
  \/ \E l \in Loops : Start(l)
  \/ Stop
  \/ JoinReturns
  \/ \E l \in Loops : Loop(l)
  \/ \E t \in Trainers : Train(t)

Spec == Init /\ [][Next]_vars

-----------------------------------------------------------------------------

(* Type invariant. *)
TypeOK ==
  /\ queries \in 0 .. MinQueries
  /\ is_running \in BOOLEAN
  /\ thread \in Loops \union {None}
  /\ stopping \in BOOLEAN
  /\ is_training \in BOOLEAN
  /\ loop \in [Loops -> {"none", "test", "asleep", "due", "starting"}]
  /\ reporting \in BOOLEAN
  /\ unstarted \in BOOLEAN
  /\ trainer \in [Trainers -> {"none", "training", "ending"}]

(* Has someone taken the flag and not yet started the training?            *)
Starting == reporting \/ \E l \in Loops : loop[l] = "starting"

(* Two trainings never overlap, whoever asks for them: several loops and   *)
(* any number of query threads reporting drift at once.  Who is about to   *)
(* start one is alone as well, and after a failed start there is none.     *)
OneTraining ==
  /\ \A t, u \in Trainers : Active(t) /\ Active(u) => t = u
  /\ \A l, k \in Loops : loop[l] = "starting" /\ loop[k] = "starting" => l = k
  /\ reporting => \A l \in Loops : loop[l] # "starting"
  /\ Starting => ~unstarted
  /\ Starting \/ unstarted => \A t \in Trainers : ~Active(t)

(* is_training is set exactly while a training thread is alive or about to *)
(* be started: were it ever left set without one, nothing would be trained *)
(* again.  That happens in one way only, when a thread fails to start, and *)
(* then for good.                                                          *)
FlagMeansTraining ==
  is_training <=> (\E t \in Trainers : Active(t)) \/ Starting \/ unstarted

(* The two belong together: the flag is what excludes a second training.   *)
SlotSafe == OneTraining /\ FlagMeansTraining

(* Any training, failed or not, ends and frees the flag, unless its thread *)
(* never started.                                                          *)
TrainingEnds == is_training ~> (~is_training \/ unstarted)

(* After a final stop every loop thread dies, one left asleep by the join  *)
(* included.                                                               *)
LoopsDieAfterStop == (<>[]~is_running) => <>[](\A l \in Loops : loop[l] = "none")
=============================================================================
