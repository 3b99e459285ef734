------------------------ MODULE OnlineSchedulerProofs ------------------------
(***************************************************************************)
(* Proofs about OnlineScheduler, alone and inside Service, for every       *)
(* number of loop threads, training threads, request threads and signals.  *)
(***************************************************************************)
EXTENDS Service, TLAPS

(* Mutual exclusion is inductive only together with the meaning of the     *)
(* flag that the lock protects, because the training is started outside    *)
(* the lock.                                                               *)
SchedulerInv ==
  /\ TypeOK
  /\ OneTraining
  /\ FlagMeansTraining

LEMMA InitInv == Init => SchedulerInv
<1> SUFFICES ASSUME Init PROVE SchedulerInv
  OBVIOUS
<1>1. TypeOK
  <2>1. queries \in 0 .. MinQueries
    BY SchedulerAssumption DEF Init
  <2>2. /\ is_running \in BOOLEAN /\ stopping \in BOOLEAN /\ is_training \in BOOLEAN
        /\ reporting \in BOOLEAN /\ unstarted \in BOOLEAN
    BY DEF Init
  <2>3. thread \in Loops \union {None}
    BY DEF Init
  <2>4. /\ loop \in [Loops -> {"none", "test", "asleep", "due", "starting"}]
        /\ trainer \in [Trainers -> {"none", "training", "ending"}]
    BY DEF Init
  <2> QED
    BY <2>1, <2>2, <2>3, <2>4 DEF TypeOK
<1>2. ~is_training /\ ~unstarted /\ ~Starting /\ \A t \in Trainers : ~Active(t)
  BY DEF Init, Active, Starting
<1> QED
  BY <1>1, <1>2 DEF SchedulerInv, OneTraining, FlagMeansTraining, Starting

(* The part of the invariant about who has the slot.                       *)
SlotFields == <<is_training, reporting, unstarted, trainer>>

(* A step that leaves the flag, the trainings and whoever is about to      *)
(* start one as they are keeps the slot safe.                              *)
LEMMA SlotUntouched ==
  ASSUME SchedulerInv, UNCHANGED SlotFields,
         \A l \in Loops : loop'[l] = "starting" <=> loop[l] = "starting"
  PROVE  OneTraining' /\ FlagMeansTraining'
<1>1. /\ \A t \in Trainers : Active(t)' <=> Active(t)
      /\ Starting' <=> Starting
      /\ reporting' = reporting /\ unstarted' = unstarted /\ is_training' = is_training
  BY DEF SlotFields, Active, Starting
<1>2. OneTraining'
  BY <1>1 DEF SchedulerInv, OneTraining
<1>3. FlagMeansTraining'
  BY <1>1 DEF SchedulerInv, FlagMeansTraining
<1> QED
  BY <1>2, <1>3

(* Whoever finds the flag clear under the lock is alone: nothing trains,   *)
(* nothing is about to, and no start has failed.                           *)
LEMMA ClearFlagMeansFree ==
  ASSUME SchedulerInv, ~is_training
  PROVE  ~Starting /\ ~unstarted /\ \A t \in Trainers : ~Active(t)
BY DEF SchedulerInv, FlagMeansTraining

(* Whoever is about to start the training starts it, or fails and leaves   *)
(* the flag to nobody.                                                     *)
LEMMA StartEffect ==
  ASSUME SchedulerInv, Starting, StartTrainer \/ StartFails, ~Starting'
  PROVE  /\ trainer' \in [Trainers -> {"none", "training", "ending"}]
         /\ is_training' \in BOOLEAN /\ unstarted' \in BOOLEAN
         /\ OneTraining' /\ FlagMeansTraining'
<1>1. is_training /\ ~unstarted /\ \A t \in Trainers : trainer[t] = "none"
  BY DEF SchedulerInv, OneTraining, FlagMeansTraining, Active
<1>2. is_training' = is_training
  BY DEF StartTrainer, StartFails
<1>3. ~reporting' /\ \A l \in Loops : loop'[l] # "starting"
  BY DEF Starting
<1>4. CASE StartTrainer
  <2>1. PICK t \in Trainers : trainer' = [trainer EXCEPT ![t] = "training"]
    BY <1>4 DEF StartTrainer
  <2>2. /\ trainer'[t] = "training"
        /\ \A u \in Trainers : u # t => trainer'[u] = "none"
        /\ trainer' \in [Trainers -> {"none", "training", "ending"}]
    BY <1>1, <2>1 DEF SchedulerInv, TypeOK
  <2>3. unstarted' = unstarted
    BY <1>4 DEF StartTrainer
  <2>4. Active(t)' /\ \A u \in Trainers : Active(u)' => u = t
    BY <2>2 DEF Active
  <2>5. OneTraining'
    BY <1>1, <1>3, <2>3, <2>4 DEF OneTraining, Starting
  <2>6. FlagMeansTraining'
    BY <1>1, <1>2, <2>4 DEF FlagMeansTraining
  <2> QED
    BY <1>1, <1>2, <2>2, <2>3, <2>5, <2>6 DEF SchedulerInv, TypeOK
<1>5. CASE StartFails
  <2>1. unstarted' = TRUE /\ trainer' = trainer
    BY <1>5 DEF StartFails
  <2>2. \A t \in Trainers : ~Active(t)'
    BY <1>1, <2>1 DEF Active
  <2> QED
    BY <1>1, <1>2, <1>3, <2>1, <2>2
       DEF SchedulerInv, TypeOK, OneTraining, FlagMeansTraining, Starting
<1> QED
  BY <1>4, <1>5

LEMMA StepInv == SchedulerInv /\ [Next]_vars => SchedulerInv'
<1> SUFFICES ASSUME SchedulerInv, [Next]_vars
             PROVE  SchedulerInv'
  OBVIOUS
<1> USE SchedulerAssumption
<1>1. CASE IncrementQueryCount
  <2>1. UNCHANGED SlotFields /\ UNCHANGED <<owner, loop>> /\ queries' \in 0 .. MinQueries
    BY <1>1 DEF IncrementQueryCount, SlotFields, SchedulerInv, TypeOK
  <2>2. OneTraining' /\ FlagMeansTraining'
    BY <2>1, SlotUntouched
  <2> QED
    BY <2>1, <2>2 DEF SchedulerInv, TypeOK, owner, SlotFields
<1>2. CASE TriggerDrift
  <2>1. /\ is_training' = TRUE /\ reporting' = (reporting \/ ~is_training)
        /\ UNCHANGED <<queries, owner, loop, trainer, unstarted>>
    BY <1>2 DEF TriggerDrift, TryStart
  <2>2. reporting' \in BOOLEAN
    BY <2>1 DEF SchedulerInv, TypeOK
  <2>3. TypeOK'
    BY <2>1, <2>2 DEF SchedulerInv, TypeOK, owner
  <2>4. CASE is_training
    <3>1. reporting' = reporting /\ is_training' = is_training
      BY <2>1, <2>4 DEF SchedulerInv, TypeOK
    <3>2. OneTraining' /\ FlagMeansTraining'
      BY <2>1, <3>1, SlotUntouched DEF SlotFields
    <3> QED
      BY <2>3, <3>2 DEF SchedulerInv
  <2>5. CASE ~is_training
    <3>1. ~Starting /\ ~unstarted /\ \A t \in Trainers : ~Active(t)
      BY <2>5, ClearFlagMeansFree
    <3>2. /\ reporting' /\ ~unstarted' /\ \A t \in Trainers : ~Active(t)'
          /\ \A l \in Loops : loop'[l] # "starting"
      BY <2>1, <2>5, <3>1 DEF Starting, Active
    <3>3. OneTraining' /\ FlagMeansTraining'
      BY <2>1, <3>2 DEF OneTraining, FlagMeansTraining, Starting
    <3> QED
      BY <2>3, <3>3 DEF SchedulerInv
  <2> QED
    BY <2>4, <2>5
<1>3. CASE ReportEnds
  <2>1. /\ reporting /\ reporting' = FALSE
        /\ StartTrainer \/ StartFails
        /\ UNCHANGED <<queries, owner, loop>>
    BY <1>3 DEF ReportEnds
  <2>2. \A l \in Loops : loop[l] # "starting"
    BY <2>1 DEF SchedulerInv, OneTraining
  <2>3. Starting /\ ~Starting'
    BY <2>1, <2>2 DEF Starting
  <2>4. /\ trainer' \in [Trainers -> {"none", "training", "ending"}]
        /\ is_training' \in BOOLEAN /\ unstarted' \in BOOLEAN
        /\ OneTraining' /\ FlagMeansTraining'
    BY <2>1, <2>3, StartEffect
  <2> QED
    BY <2>1, <2>4 DEF SchedulerInv, TypeOK, owner
<1>4. ASSUME NEW l \in Loops, Start(l)
      PROVE  SchedulerInv'
  <2>1. /\ loop[l] = "none" /\ loop' = [loop EXCEPT ![l] = "test"]
        /\ is_running' = TRUE /\ thread' = l
        /\ UNCHANGED <<queries, stopping>> /\ UNCHANGED SlotFields
    BY <1>4 DEF Start, SlotFields
  <2>2. /\ loop' \in [Loops -> {"none", "test", "asleep", "due", "starting"}]
        /\ \A k \in Loops : loop'[k] = "starting" <=> loop[k] = "starting"
    BY <2>1 DEF SchedulerInv, TypeOK
  <2>3. OneTraining' /\ FlagMeansTraining'
    BY <2>1, <2>2, SlotUntouched
  <2> QED
    BY <2>1, <2>2, <2>3 DEF SchedulerInv, TypeOK, SlotFields
<1>5. CASE Stop \/ JoinReturns \/ UNCHANGED vars
  <2>1. /\ UNCHANGED <<queries, thread, loop>> /\ UNCHANGED SlotFields
        /\ is_running' \in BOOLEAN /\ stopping' \in BOOLEAN
    BY <1>5 DEF Stop, JoinReturns, vars, owner, SlotFields, SchedulerInv, TypeOK
  <2>2. OneTraining' /\ FlagMeansTraining'
    BY <2>1, SlotUntouched
  <2> QED
    BY <2>1, <2>2 DEF SchedulerInv, TypeOK, SlotFields
<1>6. ASSUME NEW l \in Loops, LoopTest(l) \/ LoopWake(l)
      PROVE  SchedulerInv'
  <2>1. PICK p \in {"none", "test", "asleep", "due"} : loop' = [loop EXCEPT ![l] = p]
    BY <1>6 DEF LoopTest, LoopWake
  <2>2. loop[l] # "starting" /\ UNCHANGED <<queries, owner>> /\ UNCHANGED SlotFields
    BY <1>6 DEF LoopTest, LoopWake, SlotFields
  <2>3. /\ loop' \in [Loops -> {"none", "test", "asleep", "due", "starting"}]
        /\ \A k \in Loops : loop'[k] = "starting" <=> loop[k] = "starting"
    BY <2>1, <2>2 DEF SchedulerInv, TypeOK
  <2>4. OneTraining' /\ FlagMeansTraining'
    BY <2>2, <2>3, SlotUntouched
  <2> QED
    BY <2>2, <2>3, <2>4 DEF SchedulerInv, TypeOK, owner, SlotFields
<1>7. ASSUME NEW l \in Loops, LoopTry(l)
      PROVE  SchedulerInv'
  <2>1. /\ loop[l] = "due" /\ is_training' = TRUE
        /\ loop' = [loop EXCEPT ![l] = IF is_training THEN "test" ELSE "starting"]
        /\ UNCHANGED <<queries, owner, reporting, trainer, unstarted>>
    BY <1>7 DEF LoopTry, TryStart
  <2>2. loop' \in [Loops -> {"none", "test", "asleep", "due", "starting"}]
    BY <2>1 DEF SchedulerInv, TypeOK
  <2>3. TypeOK'
    BY <2>1, <2>2 DEF SchedulerInv, TypeOK, owner
  <2>4. CASE is_training
    <3>1. /\ is_training' = is_training
          /\ \A k \in Loops : loop'[k] = "starting" <=> loop[k] = "starting"
      BY <2>1, <2>4 DEF SchedulerInv, TypeOK
    <3>2. OneTraining' /\ FlagMeansTraining'
      BY <2>1, <3>1, SlotUntouched DEF SlotFields
    <3> QED
      BY <2>3, <3>2 DEF SchedulerInv
  <2>5. CASE ~is_training
    <3>1. ~Starting /\ ~unstarted /\ \A t \in Trainers : ~Active(t)
      BY <2>5, ClearFlagMeansFree
    <3>2. /\ ~reporting' /\ ~unstarted' /\ \A t \in Trainers : ~Active(t)'
          /\ loop'[l] = "starting" /\ \A k \in Loops : loop'[k] = "starting" => k = l
      BY <2>1, <2>5, <3>1 DEF Starting, Active, SchedulerInv, TypeOK
    <3>3. OneTraining' /\ FlagMeansTraining'
      BY <2>1, <3>2 DEF OneTraining, FlagMeansTraining, Starting
    <3> QED
      BY <2>3, <3>3 DEF SchedulerInv
  <2> QED
    BY <2>4, <2>5
<1>8. ASSUME NEW l \in Loops, LoopStarts(l)
      PROVE  SchedulerInv'
  <2>1. PICK p \in {"test", "none"} : loop' = [loop EXCEPT ![l] = p]
    BY <1>8 DEF LoopStarts
  <2>2. /\ loop[l] = "starting"
        /\ StartTrainer \/ StartFails
        /\ UNCHANGED <<queries, owner, reporting>>
    BY <1>8 DEF LoopStarts
  <2>3. ~reporting /\ Starting /\ \A k \in Loops : k # l => loop[k] # "starting"
    BY <2>2 DEF Starting, SchedulerInv, OneTraining
  <2>4. ~Starting'
    BY <2>1, <2>2, <2>3 DEF Starting, SchedulerInv, TypeOK
  <2>5. loop' \in [Loops -> {"none", "test", "asleep", "due", "starting"}]
    BY <2>1 DEF SchedulerInv, TypeOK
  <2>6. /\ trainer' \in [Trainers -> {"none", "training", "ending"}]
        /\ is_training' \in BOOLEAN /\ unstarted' \in BOOLEAN
        /\ OneTraining' /\ FlagMeansTraining'
    BY <2>2, <2>3, <2>4, StartEffect
  <2> QED
    BY <2>2, <2>5, <2>6 DEF SchedulerInv, TypeOK, owner
<1>9. ASSUME NEW t \in Trainers, CallbackRaises(t) \/ ResetCount(t)
      PROVE  SchedulerInv'
  <2>1. /\ trainer[t] = "training" /\ trainer' = [trainer EXCEPT ![t] = "ending"]
        /\ UNCHANGED <<owner, is_training, loop, reporting, unstarted>>
        /\ queries' \in 0 .. MinQueries
    BY <1>9 DEF CallbackRaises, ResetCount, SchedulerInv, TypeOK
  <2>2. /\ trainer' \in [Trainers -> {"none", "training", "ending"}]
        /\ \A u \in Trainers : Active(u)' <=> Active(u)
    BY <2>1 DEF SchedulerInv, TypeOK, Active
  <2>3. Starting' <=> Starting
    BY <2>1 DEF Starting
  <2>4. OneTraining'
    BY <2>1, <2>2, <2>3 DEF SchedulerInv, OneTraining
  <2>5. FlagMeansTraining'
    BY <2>1, <2>2, <2>3 DEF SchedulerInv, FlagMeansTraining
  <2> QED
    BY <2>1, <2>2, <2>4, <2>5 DEF SchedulerInv, TypeOK, owner
<1>10. ASSUME NEW t \in Trainers, ClearFlag(t)
       PROVE  SchedulerInv'
  <2>1. /\ Active(t) /\ is_training' = FALSE
        /\ trainer' = [trainer EXCEPT ![t] = "none"]
        /\ UNCHANGED <<queries, owner, loop, reporting, unstarted>>
    BY <1>10 DEF ClearFlag, Active
  <2>2. ~Starting /\ \A u \in Trainers : u # t => trainer[u] = "none"
    BY <2>1 DEF SchedulerInv, OneTraining, Active
  <2>3. /\ trainer' \in [Trainers -> {"none", "training", "ending"}]
        /\ \A u \in Trainers : trainer'[u] = "none"
    BY <2>1, <2>2 DEF SchedulerInv, TypeOK
  <2>4. ~unstarted
    BY <2>1 DEF SchedulerInv, OneTraining, Active
  <2>5. ~Starting' /\ ~unstarted' /\ \A u \in Trainers : ~Active(u)'
    BY <2>1, <2>2, <2>3, <2>4 DEF Starting, Active
  <2>6. OneTraining' /\ FlagMeansTraining'
    BY <2>1, <2>5 DEF OneTraining, FlagMeansTraining, Starting
  <2> QED
    BY <2>1, <2>3, <2>6 DEF SchedulerInv, TypeOK, owner
<1> QED
  BY <1>1, <1>2, <1>3, <1>4, <1>5, <1>6, <1>7, <1>8, <1>9, <1>10
     DEF Next, Loop, Train

LEMMA Invariance == Spec => []SchedulerInv
<1>1. Init => SchedulerInv
  BY InitInv
<1>2. SchedulerInv /\ [Next]_vars => SchedulerInv'
  BY StepInv
<1> QED
  BY <1>1, <1>2, PTL DEF Spec

(* The scheduler's fields keep their types.                                *)
THEOREM TypeCorrect == Spec => []TypeOK
<1>1. SchedulerInv => TypeOK
  BY DEF SchedulerInv
<1> QED
  BY <1>1, Invariance, PTL

(* Trainings never overlap, for any number of loops and query threads.     *)
THEOREM MutualExclusion == Spec => []OneTraining
<1>1. SchedulerInv => OneTraining
  BY DEF SchedulerInv
<1> QED
  BY <1>1, Invariance, PTL

(* The flag never survives its training, and never precedes it by more     *)
(* than the start of its thread, unless that fails.                        *)
THEOREM FlagCorrect == Spec => []FlagMeansTraining
<1>1. SchedulerInv => FlagMeansTraining
  BY DEF SchedulerInv
<1> QED
  BY <1>1, Invariance, PTL

-----------------------------------------------------------------------------
(* In the service.  Whatever the service does is a step of the scheduler,  *)
(* none, or the end of the process.                                        *)

LEMMA SchedulerInService ==
  ASSUME [ServiceNext]_serviceVars
  PROVE  [Next]_vars \/ Dies
<1>1. CASE BuildPipeline
  BY <1>1 DEF BuildPipeline, StartScheduler, Next
<1>2. CASE StartServer \/ InstallHandlers \/ AcceptorEnds \/ Signal \/ UNCHANGED serviceVars
  BY <1>2 DEF StartServer, InstallHandlers, AcceptorEnds, Signal, serviceVars
<1>3. CASE BindFails \/ EarlySignal
  BY <1>3 DEF BindFails, EarlySignal
<1>4. ASSUME NEW h \in Handlers, Accept(h) \/ Handle(h)
      PROVE  [Next]_vars
  BY <1>4 DEF Accept, Handle, ProcessQuery, DriftTest, Report, Reply, Next
<1>5. CASE Shutdown
  <2>1. CASE \/ TestHttpd \/ AskAcceptor \/ CloseServer \/ ClearHttpd
             \/ TestThread \/ JoinThread \/ ForgetThread
    BY <2>1 DEF TestHttpd, AskAcceptor, CloseServer, ClearHttpd, TestThread, JoinThread,
                ForgetThread
  <2>2. CASE StopScheduler \/ HandlerReturns
    BY <2>2 DEF StopScheduler, HandlerReturns, Next
  <2>3. CASE HandlerRaises
    BY <2>3 DEF HandlerRaises
  <2> QED
    BY <1>5, <2>1, <2>2, <2>3 DEF Shutdown
<1>6. CASE OwnPipeline
  BY <1>6 DEF OwnPipeline, StartScheduler, Next
<1>7. ASSUME NEW l \in Loops, Background(Loop(l))
      PROVE  [Next]_vars
  BY <1>7 DEF Background, Next
<1>8. ASSUME NEW t \in Trainers, Background(ExecuteOnlineTraining(t))
      PROVE  [Next]_vars
  BY <1>8 DEF Background, ExecuteOnlineTraining, Train, Next
<1> QED
  BY <1>1, <1>2, <1>3, <1>4, <1>5, <1>6, <1>7, <1>8 DEF ServiceNext

(* The end of the process ends its training, if any.                       *)
LEMMA DyingFreesSlot ==
  ASSUME SchedulerInv, Dies
  PROVE  SchedulerInv'
<1>1. /\ UNCHANGED <<queries, is_running, thread, stopping>>
      /\ loop' = [l \in Loops |-> "none"]
      /\ trainer' = [t \in Trainers |-> "none"]
      /\ is_training' = FALSE /\ reporting' = FALSE /\ unstarted' = FALSE
  BY DEF Dies, owner
<1>2. ~Starting' /\ \A t \in Trainers : ~Active(t)'
  BY <1>1 DEF Active, Starting
<1>3. TypeOK'
  BY <1>1 DEF SchedulerInv, TypeOK
<1> QED
  BY <1>1, <1>2, <1>3 DEF SchedulerInv, OneTraining, FlagMeansTraining, Starting

LEMMA ServiceStep ==
  SchedulerInv /\ [ServiceNext]_serviceVars => SchedulerInv'
BY SchedulerInService, DyingFreesSlot, StepInv

LEMMA ServiceInvariance == ServiceSpec => []SchedulerInv
<1>1. ServiceInit => SchedulerInv
  BY InitInv DEF ServiceInit
<1> QED
  BY <1>1, ServiceStep, PTL DEF ServiceSpec

(* One training at a time and a flag that says so, for any requests,       *)
(* drifts, restarts of the scheduler, signals and the death of the process *)
THEOREM ServiceKeepsSlot == ServiceSpec => []SlotSafe
<1>1. SchedulerInv => SlotSafe
  BY DEF SchedulerInv, SlotSafe
<1> QED
  BY <1>1, ServiceInvariance, PTL

-----------------------------------------------------------------------------
(* The stack of signal handlers.  A handler raises at a field that another *)
(* one above it has cleared.  That one went on from there to stop the      *)
(* scheduler before the lower one ran again: as long as the scheduler is   *)
(* running, a handler that has cleared _httpd and not yet stopped it lies  *)
(* above every one that may still use the field, and so for _thread.       *)

Places == {"httpd?", "shutdown", "close", "clear", "thread?", "join", "forget", "stop", "wait"}

PastClear == {"thread?", "join", "forget", "stop"}

StackInv ==
  /\ main \in {"building", "binding", "installing", "serving", "dead"}
  /\ signals \in Nat
  /\ frames \in Seq(Places)
  /\ main \in {"building", "binding", "installing"} => signals = 0
  /\ signals = 0 => frames = <<>>
  /\ main # "serving" => frames = <<>>
  /\ main \in {"installing", "serving"} /\ (~httpd \/ ~has_thread) => signals > 0
  /\ main = "serving" /\ ~httpd => ~open
  /\ \A i \in DOMAIN frames : frames[i] = "clear" => ~open
  /\ \A i \in DOMAIN frames : frames[i] \in PastClear \union {"wait"} => ~httpd
  /\ \A i \in DOMAIN frames : frames[i] = "wait" => ~is_running
  /\ ~httpd /\ is_running =>
       \A j \in DOMAIN frames : frames[j] \in {"shutdown", "close"} =>
         \E i \in DOMAIN frames : i < j /\ frames[i] \in PastClear
  /\ ~has_thread /\ is_running =>
       \A j \in DOMAIN frames : frames[j] = "join" =>
         \E i \in DOMAIN frames : i < j /\ frames[i] = "stop"
  /\ DiesStopped

LEMMA StackInit == ServiceInit => StackInv
BY DEF ServiceInit, StackInv, DiesStopped

LEMMA ConsEffect ==
  ASSUME NEW S, NEW s \in Seq(S), NEW x \in S
  PROVE  /\ <<x>> \o s \in Seq(S) /\ Len(<<x>> \o s) = Len(s) + 1
         /\ \A i \in 1 .. Len(s) + 1 : (<<x>> \o s)[i] = IF i = 1 THEN x ELSE s[i - 1]
<1>1. <<x>> \in Seq(S) /\ Len(<<x>>) = 1 /\ <<x>>[1] = x
  OBVIOUS
<1> QED
  BY <1>1

(* The stack after Proceed, Signal and HandlerReturns, element by element. *)
LEMMA ProceedEffect ==
  ASSUME frames \in Seq(Places), frames # <<>>, NEW next \in Places, Proceed(next)
  PROVE  /\ frames' \in Seq(Places) /\ frames' # <<>>
         /\ DOMAIN frames' = DOMAIN frames /\ 1 \in DOMAIN frames
         /\ DOMAIN frames \subseteq Nat \ {0}
         /\ frames'[1] = next /\ frames[1] = Head(frames)
         /\ \A i \in DOMAIN frames : i # 1 => frames'[i] = frames[i]
<1>1. /\ Tail(frames) \in Seq(Places) /\ Len(Tail(frames)) = Len(frames) - 1
      /\ Len(frames) \in Nat \ {0} /\ DOMAIN frames = 1 .. Len(frames)
      /\ \A i \in 1 .. Len(frames) - 1 : Tail(frames)[i] = frames[i + 1]
      /\ Head(frames) = frames[1]
  OBVIOUS
<1>2. frames' = <<next>> \o Tail(frames)
  BY DEF Proceed
<1>3. /\ frames' \in Seq(Places) /\ Len(frames') = Len(Tail(frames)) + 1
      /\ \A i \in 1 .. Len(Tail(frames)) + 1 :
           frames'[i] = IF i = 1 THEN next ELSE Tail(frames)[i - 1]
  BY <1>1, <1>2, ConsEffect
<1>4. \A i \in 1 .. Len(frames) : i # 1 => frames'[i] = frames[i]
  BY <1>1, <1>3
<1> QED
  BY <1>1, <1>3, <1>4

LEMMA PushEffect ==
  ASSUME frames \in Seq(Places), NEW next \in Places, frames' = <<next>> \o frames
  PROVE  /\ frames' \in Seq(Places) /\ frames'[1] = next
         /\ DOMAIN frames = 1 .. Len(frames) /\ Len(frames) \in Nat
         /\ DOMAIN frames' = 1 .. Len(frames) + 1
         /\ \A i \in DOMAIN frames : frames'[i + 1] = frames[i]
         /\ \A i \in DOMAIN frames' : i # 1 => i - 1 \in DOMAIN frames /\ frames'[i] = frames[i - 1]
<1>1. /\ frames' \in Seq(Places) /\ Len(frames') = Len(frames) + 1 /\ Len(frames) \in Nat
      /\ \A i \in 1 .. Len(frames) + 1 :
           frames'[i] = IF i = 1 THEN next ELSE frames[i - 1]
  BY ConsEffect
<1> QED
  BY <1>1

LEMMA PopEffect ==
  ASSUME frames \in Seq(Places), frames # <<>>, frames' = Tail(frames)
  PROVE  /\ frames' \in Seq(Places)
         /\ \A i \in DOMAIN frames' : i + 1 \in DOMAIN frames /\ frames'[i] = frames[i + 1]
OBVIOUS

(* The scheduler alone, request threads and background threads do not stop *)
(* or start anything once there is a signal.                               *)
LEMMA OthersKeepStack ==
  ASSUME StackInv,
         \/ BuildPipeline \/ StartServer \/ InstallHandlers \/ BindFails \/ EarlySignal
         \/ AcceptorEnds \/ OwnPipeline
         \/ \E h \in Handlers : Accept(h) \/ Handle(h)
         \/ \E l \in Loops : Background(Loop(l))
         \/ \E t \in Trainers : Background(ExecuteOnlineTraining(t))
         \/ UNCHANGED serviceVars
  PROVE  StackInv'
<1>1. CASE BuildPipeline
  BY <1>1 DEF BuildPipeline, StackInv, DiesStopped
<1>2. CASE StartServer \/ InstallHandlers
  BY <1>2 DEF StartServer, InstallHandlers, vars, owner, StackInv, DiesStopped
<1>3. CASE BindFails \/ EarlySignal
  BY <1>3 DEF BindFails, EarlySignal, Dies, StackInv, DiesStopped
<1>4. CASE AcceptorEnds \/ UNCHANGED serviceVars
  <2>1. UNCHANGED <<main, httpd, has_thread, open, frames, signals, is_running>>
    BY <1>4 DEF AcceptorEnds, serviceVars, server, vars, owner
  <2> QED
    BY <2>1 DEF StackInv, DiesStopped
<1>5. CASE OwnPipeline
  BY <1>5 DEF OwnPipeline, server, StackInv, DiesStopped
<1>6. ASSUME NEW h \in Handlers, Accept(h) \/ Handle(h)
      PROVE  UNCHANGED <<main, httpd, has_thread, open, frames, signals, is_running>>
  BY <1>6 DEF Accept, Handle, ProcessQuery, DriftTest, Report, Reply, server, vars, owner,
              IncrementQueryCount, TriggerDrift, ReportEnds
<1>7. ASSUME NEW l \in Loops, Background(Loop(l))
      PROVE  UNCHANGED <<main, httpd, has_thread, open, frames, signals, is_running>>
  BY <1>7 DEF Background, server, owner, Loop, LoopTest, LoopWake, LoopTry, LoopStarts
<1>8. ASSUME NEW t \in Trainers, Background(ExecuteOnlineTraining(t))
      PROVE  UNCHANGED <<main, httpd, has_thread, open, frames, signals, is_running>>
  BY <1>8 DEF Background, server, owner, ExecuteOnlineTraining, ResetCount, ClearFlag
<1>9. CASE UNCHANGED <<main, httpd, has_thread, open, frames, signals, is_running>>
  BY <1>9 DEF StackInv, DiesStopped
<1> QED
  BY <1>1, <1>2, <1>3, <1>4, <1>5, <1>6, <1>7, <1>8, <1>9

LEMMA SignalKeepsStack ==
  ASSUME StackInv, Signal
  PROVE  StackInv'
<1>1. /\ main = "serving" /\ signals' = signals + 1 /\ frames' = <<"httpd?">> \o frames
      /\ UNCHANGED <<main, httpd, has_thread, open, is_running>>
  BY DEF Signal, vars, owner, server
<1>2. frames \in Seq(Places) /\ "httpd?" \in Places
  BY DEF StackInv, Places
<1>3. /\ frames' \in Seq(Places) /\ frames'[1] = "httpd?"
      /\ DOMAIN frames = 1 .. Len(frames) /\ Len(frames) \in Nat
      /\ DOMAIN frames' = 1 .. Len(frames) + 1
      /\ \A i \in DOMAIN frames : frames'[i + 1] = frames[i]
      /\ \A i \in DOMAIN frames' : i # 1 => i - 1 \in DOMAIN frames /\ frames'[i] = frames[i - 1]
  BY <1>1, <1>2, PushEffect
<1>4. ASSUME ~httpd, is_running, NEW j \in DOMAIN frames', frames'[j] \in {"shutdown", "close"}
      PROVE  \E i \in DOMAIN frames' : i < j /\ frames'[i] \in PastClear
  <2>1. j # 1 /\ j - 1 \in DOMAIN frames /\ frames[j - 1] \in {"shutdown", "close"}
    BY <1>3, <1>4
  <2>2. PICK i \in DOMAIN frames : i < j - 1 /\ frames[i] \in PastClear
    BY <1>4, <2>1 DEF StackInv
  <2>3. i + 1 \in DOMAIN frames' /\ i + 1 < j
    BY <1>3, <2>2
  <2>4. frames'[i + 1] \in PastClear
    BY <1>3, <2>2
  <2> QED
    BY <2>3, <2>4
<1>5. ASSUME ~has_thread, is_running, NEW j \in DOMAIN frames', frames'[j] = "join"
      PROVE  \E i \in DOMAIN frames' : i < j /\ frames'[i] = "stop"
  <2>1. j # 1 /\ j - 1 \in DOMAIN frames /\ frames[j - 1] = "join"
    BY <1>3, <1>5
  <2>2. PICK i \in DOMAIN frames : i < j - 1 /\ frames[i] = "stop"
    BY <1>5, <2>1 DEF StackInv
  <2> QED
    BY <1>3, <2>1, <2>2
<1>6. \A i \in DOMAIN frames' : \/ frames'[i] = "httpd?"
                                \/ i - 1 \in DOMAIN frames /\ frames'[i] = frames[i - 1]
  BY <1>3
<1>7. signals' \in Nat /\ signals' > 0
  BY <1>1 DEF StackInv
<1>8. /\ \A i \in DOMAIN frames' : frames'[i] = "clear" => ~open'
      /\ \A i \in DOMAIN frames' : frames'[i] \in PastClear \union {"wait"} => ~httpd'
      /\ \A i \in DOMAIN frames' : frames'[i] = "wait" => ~is_running'
  BY <1>1, <1>6 DEF StackInv, PastClear
<1> QED
  BY <1>1, <1>3, <1>4, <1>5, <1>7, <1>8 DEF StackInv, DiesStopped

(* The frame that runs goes on to another place and leaves the rest.       *)
LEMMA ShutdownKeepsStack ==
  ASSUME StackInv, Shutdown
  PROVE  StackInv'
<1> USE DEF PastClear
<1>1. frames \in Seq(Places) /\ PastClear \subseteq Places
  BY DEF StackInv, Places
<1>2. ASSUME NEW next \in Places, frames # <<>>, Proceed(next)
      PROVE  /\ frames' \in Seq(Places) /\ frames' # <<>>
             /\ DOMAIN frames' = DOMAIN frames /\ 1 \in DOMAIN frames
             /\ DOMAIN frames \subseteq Nat \ {0}
             /\ frames'[1] = next /\ frames[1] = Head(frames)
             /\ \A i \in DOMAIN frames : i # 1 => frames'[i] = frames[i]
  BY <1>1, <1>2, ProceedEffect
<1>3. CASE TestHttpd
  <2>1. /\ frames # <<>> /\ Head(frames) = "httpd?"
        /\ UNCHANGED <<main, httpd, has_thread, open, signals, is_running>>
    BY <1>3 DEF TestHttpd, Running, vars, owner, server
  <2>2. PICK next \in {"shutdown", "thread?"} : Proceed(next) /\ (next = "shutdown" <=> httpd)
    BY <1>3 DEF TestHttpd
  <2>3. next \in Places
    BY <2>2 DEF Places
  <2> QED
    BY <1>2, <2>1, <2>2, <2>3 DEF StackInv, DiesStopped
<1>4. CASE AskAcceptor
  <2>1. /\ frames # <<>> /\ Head(frames) = "shutdown" /\ httpd /\ Proceed("close")
        /\ UNCHANGED <<main, httpd, has_thread, open, signals, is_running>>
    BY <1>4 DEF AskAcceptor, Running, vars, owner
  <2>2. "close" \in Places
    BY DEF Places
  <2> QED
    BY <1>2, <2>1, <2>2 DEF StackInv, DiesStopped
<1>5. CASE CloseServer
  <2>1. /\ frames # <<>> /\ Head(frames) = "close" /\ httpd /\ Proceed("clear") /\ ~open'
        /\ UNCHANGED <<main, httpd, has_thread, signals, is_running>>
    BY <1>5 DEF CloseServer, Running, vars, owner
  <2>2. "clear" \in Places
    BY DEF Places
  <2> QED
    BY <1>2, <2>1, <2>2 DEF StackInv, DiesStopped
<1>6. CASE ClearHttpd
  <2>1. /\ frames # <<>> /\ Head(frames) = "clear" /\ ~httpd' /\ Proceed("thread?")
        /\ UNCHANGED <<main, has_thread, open, signals, is_running>>
    BY <1>6 DEF ClearHttpd, Running, vars, owner
  <2>2. "thread?" \in Places
    BY DEF Places
  <2>3. /\ DOMAIN frames' = DOMAIN frames /\ 1 \in DOMAIN frames
        /\ DOMAIN frames \subseteq Nat \ {0}
        /\ frames'[1] = "thread?" /\ frames[1] = "clear"
        /\ \A i \in DOMAIN frames : i # 1 => frames'[i] = frames[i]
    BY <1>2, <2>1, <2>2
  <2>4. \A j \in DOMAIN frames' : frames'[j] \in {"shutdown", "close"} =>
          \E i \in DOMAIN frames' : i < j /\ frames'[i] \in PastClear
    BY <2>3
  <2>5. ~open /\ signals > 0 /\ main = "serving"
    BY <2>1, <2>3 DEF StackInv
  <2> QED
    BY <1>2, <2>1, <2>2, <2>3, <2>4, <2>5 DEF StackInv, DiesStopped
<1>7. CASE TestThread
  <2>1. /\ frames # <<>> /\ Head(frames) = "thread?"
        /\ UNCHANGED <<main, httpd, has_thread, open, signals, is_running>>
    BY <1>7 DEF TestThread, Running, vars, owner, server
  <2>2. PICK next \in {"join", "stop"} : Proceed(next) /\ (next = "join" <=> has_thread)
    BY <1>7 DEF TestThread
  <2>3. next \in Places
    BY <2>2 DEF Places
  <2> QED
    BY <1>2, <2>1, <2>2, <2>3 DEF StackInv, DiesStopped
<1>8. CASE JoinThread
  <2>1. /\ frames # <<>> /\ Head(frames) = "join" /\ has_thread /\ Proceed("forget")
        /\ UNCHANGED <<main, httpd, has_thread, open, signals, is_running>>
    BY <1>8 DEF JoinThread, Running, vars, owner, server
  <2>2. "forget" \in Places
    BY DEF Places
  <2> QED
    BY <1>2, <2>1, <2>2 DEF StackInv, DiesStopped
<1>9. CASE ForgetThread
  <2>1. /\ frames # <<>> /\ Head(frames) = "forget" /\ ~has_thread' /\ Proceed("stop")
        /\ UNCHANGED <<main, httpd, open, signals, is_running>>
    BY <1>9 DEF ForgetThread, Running, vars, owner
  <2>2. "stop" \in Places
    BY DEF Places
  <2>3. /\ DOMAIN frames' = DOMAIN frames /\ 1 \in DOMAIN frames
        /\ DOMAIN frames \subseteq Nat \ {0}
        /\ frames'[1] = "stop" /\ frames[1] = "forget"
        /\ \A i \in DOMAIN frames : i # 1 => frames'[i] = frames[i]
    BY <1>2, <2>1, <2>2
  <2>4. \A j \in DOMAIN frames' : frames'[j] = "join" =>
          \E i \in DOMAIN frames' : i < j /\ frames'[i] = "stop"
    BY <2>3
  <2>5. signals # 0 /\ signals \in Nat
    BY <2>1 DEF StackInv
  <2> QED
    BY <1>2, <2>1, <2>2, <2>3, <2>4, <2>5 DEF StackInv, DiesStopped
<1>10. CASE StopScheduler
  <2>1. /\ frames # <<>> /\ Head(frames) = "stop" /\ ~is_running' /\ Proceed("wait")
        /\ UNCHANGED <<main, httpd, has_thread, open, signals>>
    BY <1>10 DEF StopScheduler, Running, Stop, vars, owner, server
  <2>2. "wait" \in Places
    BY DEF Places
  <2> QED
    BY <1>2, <2>1, <2>2 DEF StackInv, DiesStopped
<1>11. CASE HandlerReturns
  <2>1. /\ frames # <<>> /\ Head(frames) = "wait" /\ frames' = Tail(frames)
        /\ UNCHANGED <<main, httpd, has_thread, open, signals, is_running>>
    BY <1>11 DEF HandlerReturns, Running, JoinReturns, vars, owner, server
  <2>2. /\ frames' \in Seq(Places)
        /\ \A i \in DOMAIN frames' : i + 1 \in DOMAIN frames /\ frames'[i] = frames[i + 1]
    BY <1>1, <2>1, PopEffect
  <2>3. 1 \in DOMAIN frames /\ frames[1] = "wait"
    BY <1>1, <2>1
  <2>4. ~is_running /\ main = "serving" /\ signals # 0
    BY <2>1, <2>3 DEF StackInv
  <2> QED
    BY <2>1, <2>2, <2>4 DEF StackInv, DiesStopped
<1>12. CASE HandlerRaises
  <2>1. frames # <<>> /\ 1 \in DOMAIN frames /\ Head(frames) = frames[1]
        /\ DOMAIN frames \subseteq Nat \ {0}
    BY <1>1, <1>12 DEF HandlerRaises, Running
  <2>2. /\ main' = "dead" /\ frames' = <<>>
        /\ UNCHANGED <<httpd, has_thread, open, signals, is_running>>
    BY <1>12 DEF HandlerRaises, Dies, owner
  <2>3. main = "serving" /\ signals # 0 /\ signals \in Nat
    BY <2>1 DEF StackInv
  <2>4. ~httpd /\ ~is_running
    <3>1. CASE Running("shutdown") \/ Running("close")
      <4>1. ~httpd /\ frames[1] \in {"shutdown", "close"}
        BY <1>12, <2>1, <3>1 DEF HandlerRaises, Running
      <4> QED
        BY <2>1, <4>1 DEF StackInv
    <3>2. CASE Running("join") /\ ~has_thread
      <4>1. frames[1] = "join"
        BY <2>1, <3>2 DEF Running
      <4> QED
        BY <2>1, <3>2, <4>1 DEF StackInv
    <3> QED
      BY <1>12, <3>1, <3>2 DEF HandlerRaises
  <2> QED
    BY <2>2, <2>3, <2>4 DEF StackInv, DiesStopped
<1> QED
  BY <1>3, <1>4, <1>5, <1>6, <1>7, <1>8, <1>9, <1>10, <1>11, <1>12 DEF Shutdown

(* However many signals interrupt each other: if that ends the process, it *)
(* ends one whose port is closed and whose scheduler is stopped.           *)
THEOREM ServiceDiesStopped == ServiceSpec => []DiesStopped
<1>1. StackInv /\ [ServiceNext]_serviceVars => StackInv'
  BY OthersKeepStack, SignalKeepsStack, ShutdownKeepsStack DEF ServiceNext
<1>2. StackInv => DiesStopped
  BY DEF StackInv
<1> QED
  BY <1>1, <1>2, StackInit, PTL DEF ServiceSpec

=============================================================================
