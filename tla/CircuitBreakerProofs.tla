------------------------ MODULE CircuitBreakerProofs ------------------------
(***************************************************************************)
(* Proofs about CircuitBreaker for every threshold, timeout, number of     *)
(* probes and set of callers, about HealthReport, which reads it, and      *)
(* about VectorStore, which uses it, for every number of points and        *)
(* attempts as well.                                                       *)
(***************************************************************************)
EXTENDS VectorStore, HealthReport, TLAPS

(* The three safety invariants are inductive together with a bound that    *)
(* links the probe counter to the history: while half-open, every counted  *)
(* probe is a success recorded since the last failure.                     *)
ProbesAreFresh == state = "HALF_OPEN" => half_open_calls <= streak

BreakerInv ==
  /\ TypeOK
  /\ ClosedBelowThreshold
  /\ NeverLockedOut
  /\ ProbeIsJustified
  /\ ProbesAreFresh

(* Saturating increment stays within its cap, and reaches a positive cap.  *)
LEMMA BumpType ==
  ASSUME NEW n \in Nat, NEW cap \in Nat, n <= cap
  PROVE  /\ Bump(n, cap) \in 0 .. cap
         /\ cap > 0 => Bump(n, cap) > 0
         /\ Bump(n, cap) >= n
         /\ n < cap => Bump(n, cap) = n + 1
BY DEF Bump

LEMMA InitInv == Init => BreakerInv
BY BreakerAssumption
   DEF Init, BreakerInv, TypeOK, ClosedBelowThreshold, NeverLockedOut,
       ProbeIsJustified, ProbesAreFresh

(* No method of the breaker, run at any point of any thread's call,        *)
(* disturbs the invariant.                                                 *)
LEMMA StepInv == BreakerInv /\ [Next]_vars => BreakerInv'
<1> SUFFICES ASSUME BreakerInv, [Next]_vars
             PROVE  BreakerInv'
  OBVIOUS
<1> USE BreakerAssumption
        DEF BreakerInv, TypeOK, ClosedBelowThreshold, NeverLockedOut,
            ProbeIsJustified, ProbesAreFresh
<1>1. ASSUME NEW c \in Callers, AllowRequest(c)
      PROVE  BreakerInv'
  BY <1>1 DEF AllowRequest, TimedOut, BecomeHalfOpen, breaker
<1>2. ASSUME NEW c \in Callers, Answer(c)
      PROVE  BreakerInv'
  BY <1>2 DEF Answer, breaker
<1>3. ASSUME NEW c \in Callers, Succeed(c)
      PROVE  BreakerInv'
  <2>1. /\ streak' \in 0 .. HalfOpenMaxCalls
        /\ streak' > 0
        /\ streak < HalfOpenMaxCalls => streak' = streak + 1
        /\ streak = HalfOpenMaxCalls => streak' = HalfOpenMaxCalls
    BY <1>3, BumpType DEF Succeed, Bump
  <2>2. pc' \in [Callers -> {"idle", "waiting", "answered", "failed"}]
    BY <1>3 DEF Succeed
  <2>3. CASE state = "CLOSED"
    BY <1>3, <2>1, <2>2, <2>3 DEF Succeed, RecordSuccess
  <2>4. CASE state = "OPEN"
    BY <1>3, <2>1, <2>2, <2>4 DEF Succeed, RecordSuccess
  <2>5. CASE state = "HALF_OPEN"
    BY <1>3, <2>1, <2>2, <2>5 DEF Succeed, RecordSuccess
  <2> QED
    BY <2>3, <2>4, <2>5
<1>4. ASSUME NEW c \in Callers, Fail(c)
      PROVE  BreakerInv'
  <2>1. failure_count' \in 0 .. FailureThreshold
    BY <1>4, BumpType DEF Fail, RecordFailure
  <2>2. state' \in {"CLOSED", "OPEN"}
    BY <1>4 DEF Fail, RecordFailure
  <2>3. state' = "CLOSED" => failure_count' < FailureThreshold
    BY <1>4, <2>1 DEF Fail, RecordFailure
  <2> QED
    BY <1>4, <2>1, <2>2, <2>3 DEF Fail, RecordFailure
<1>5. CASE ReadState
  BY <1>5 DEF ReadState, TimedOut, BecomeHalfOpen
<1>6. CASE Reset
  BY <1>6 DEF Reset
<1>7. CASE Tick
  BY <1>7 DEF Tick
<1>8. CASE DependencyFlips
  BY <1>8 DEF DependencyFlips, breaker
<1>9. CASE UNCHANGED vars
  BY <1>9 DEF vars
<1> QED
  BY <1>1, <1>2, <1>3, <1>4, <1>5, <1>6, <1>7, <1>8, <1>9 DEF Next, Call

LEMMA Invariance == Spec => []BreakerInv
<1>1. Init => BreakerInv
  BY InitInv
<1>2. BreakerInv /\ [Next]_vars => BreakerInv'
  BY StepInv
<1> QED
  BY <1>1, <1>2, PTL DEF Spec

(* Whatever the interleaving of calls, late outcomes, resets, health       *)
(* checks and clock ticks, the breaker's fields keep their types.          *)
THEOREM TypeCorrect == Spec => []TypeOK
<1>1. BreakerInv => TypeOK
  BY DEF BreakerInv
<1> QED
  BY <1>1, Invariance, PTL

(* A closed breaker has counted fewer failures than its threshold.         *)
THEOREM ClosedIsBelowThreshold == Spec => []ClosedBelowThreshold
<1>1. BreakerInv => ClosedBelowThreshold
  BY DEF BreakerInv
<1> QED
  BY <1>1, Invariance, PTL

(* The breaker never reaches a state that refuses every caller for good.   *)
THEOREM BreakerNeverLocksOut == Spec => []NeverLockedOut
<1>1. BreakerInv => NeverLockedOut
  BY DEF BreakerInv
<1> QED
  BY <1>1, Invariance, PTL

(* A half-open breaker waited for its timeout or saw a success since the   *)
(* last failure.                                                           *)
THEOREM ProbesAreJustified == Spec => []ProbeIsJustified
<1>1. BreakerInv => ProbeIsJustified
  BY DEF BreakerInv
<1> QED
  BY <1>1, Invariance, PTL

(* All three at once.                                                      *)
THEOREM BreakerIsSafe == Spec => []BreakerSafe
<1>1. BreakerInv => BreakerSafe
  BY DEF BreakerInv, BreakerSafe
<1> QED
  BY <1>1, Invariance, PTL

(* Closing again takes half_open_max_calls successes without a failure     *)
(* between them (reset apart).                                             *)
THEOREM RecoveryEarned == Spec => RecoveryIsEarned
<1> DEFINE Earned == state # "CLOSED" /\ state' = "CLOSED" /\ since_failure' # None
                       => streak' = HalfOpenMaxCalls
<1>1. BreakerInv /\ [Next]_vars => [Earned]_vars
  <2> SUFFICES ASSUME BreakerInv, Next, state # "CLOSED", state' = "CLOSED",
                      since_failure' # None
               PROVE  streak' = HalfOpenMaxCalls
    OBVIOUS
  <2>1. PICK c \in Callers : Succeed(c)
    BY DEF Next, Call, AllowRequest, Answer, Fail, RecordFailure, ReadState,
           Reset, Tick, DependencyFlips, BecomeHalfOpen, breaker, BreakerInv, TypeOK
  <2>2. CASE state = "OPEN"
    BY <2>1, <2>2, BreakerAssumption
       DEF Succeed, RecordSuccess, Bump, BreakerInv, TypeOK
  <2>3. CASE state = "HALF_OPEN"
    BY <2>1, <2>3, BreakerAssumption
       DEF Succeed, RecordSuccess, Bump, BreakerInv, TypeOK, ProbesAreFresh
  <2> QED
    BY <2>2, <2>3 DEF BreakerInv, TypeOK
<1> QED
  BY <1>1, Invariance, PTL DEF Spec, RecoveryIsEarned

-----------------------------------------------------------------------------

(* A step of a health report moves the breaker as ReadState does, or not   *)
(* at all.                                                                 *)
LEMMA ReportStepIsBreakerStep == [ReportNext]_reportVars => [Next]_vars
<1> SUFFICES ASSUME [ReportNext]_reportVars
             PROVE  [Next]_vars
  OBVIOUS
<1>1. CASE GetSystemHealth
  BY <1>1 DEF GetSystemHealth, BeginReport, Check, CheckDatabase, CheckVectorStore, CheckModel,
              CheckEmbeddings, CheckCircuitBreakers, Next
<1>2. CASE PartFlips
  BY <1>2 DEF PartFlips
<1>3. CASE UNCHANGED reportVars
  BY <1>3 DEF reportVars
<1> QED
  BY <1>1, <1>2, <1>3 DEF ReportNext

(* With health reports running, the breaker is safe too.                   *)
THEOREM BreakerIsSafeInReports == ReportSpec => []BreakerSafe
<1>1. ReportInit => Init
  BY DEF ReportInit
<1> QED
  BY <1>1, ReportStepIsBreakerStep, BreakerIsSafe, PTL DEF ReportSpec, Spec

(* A report under way and the last one have statuses, whatever moved       *)
(* between the checks.                                                     *)
THEOREM ReportsAreTyped == ReportSpec => []ReportTypeOK
<1> DEFINE Typed == /\ configured \in Configurations
                    /\ store_connected \in BOOLEAN
                    /\ failing \subseteq {"database", "embeddings"}
                    /\ checking \in Parts \union {"idle", "breakers"}
                    /\ worst \in {"healthy", "degraded", "unhealthy"}
                    /\ report \in {"healthy", "degraded", "unhealthy", None}
<1>1. ReportInit => Init /\ Typed
  BY DEF ReportInit
<1>2. Typed /\ [ReportNext]_reportVars => Typed'
  <2> SUFFICES ASSUME Typed, [ReportNext]_reportVars
               PROVE  Typed'
    OBVIOUS
  <2>1. CASE Next /\ UNCHANGED <<checker, checking, worst, report>>
    BY <2>1 DEF checker
  <2>2. CASE BeginReport
    BY <2>2 DEF BeginReport, checker, Parts
  <2>3. ASSUME NEW part, NEW status, NEW next \in Parts \union {"breakers"},
               Check(part, status, next)
        PROVE  Typed'
    BY <2>3 DEF Check, checker, Worse, Parts
  <2>4. CASE CheckCircuitBreakers
    BY <2>4 DEF CheckCircuitBreakers, checker, Worse
  <2>5. CASE PartFlips
    BY <2>5 DEF PartFlips
  <2>6. CASE UNCHANGED reportVars
    BY <2>6 DEF reportVars, checker
  <2> QED
    BY <2>1, <2>2, <2>3, <2>4, <2>5, <2>6
       DEF ReportNext, GetSystemHealth, CheckDatabase, CheckVectorStore, CheckModel,
           CheckEmbeddings, Parts
<1>3. TypeOK /\ Typed => ReportTypeOK
  BY DEF ReportTypeOK
<1> QED
  BY <1>1, <1>2, <1>3, ReportStepIsBreakerStep, TypeCorrect, PTL DEF ReportSpec, Spec

-----------------------------------------------------------------------------

(* Every step of the store, of its searches, of a removal and of a         *)
(* health check is a step of the breaker's specification or leaves the     *)
(* breaker and its callers alone.                                          *)
LEMMA StoreStepIsBreakerStep == [StoreNext]_storeVars => [Next]_vars
<1> SUFFICES ASSUME [StoreNext]_storeVars
             PROVE  [Next]_vars
  OBVIOUS
<1>1. ASSUME NEW c \in Callers, CallerStep(c)
      PROVE  [Next]_vars
  <2>1. CASE StoreExperience(c)
    BY <2>1 DEF StoreExperience, Ask, Next, Call
  <2>2. CASE FindSimilar(c)
    BY <2>2 DEF FindSimilar, Ask, Next, Call
  <2>3. CASE Reply(c)
    BY <2>3 DEF Reply, Next, Call
  <2>4. CASE Done(c)
    BY <2>4 DEF Done, Next, Call
  <2>5. CASE FallBack(c)
    BY <2>5 DEF FallBack, Next, Call
  <2>6. CASE Remember(c)
    BY <2>6 DEF Remember
  <2>7. CASE BeginScan(c) \/ EndScan(c) \/ ScanRaises(c)
    BY <2>7 DEF BeginScan, EndScan, ScanRaises
  <2> QED
    BY <1>1, <2>1, <2>2, <2>3, <2>4, <2>5, <2>6, <2>7 DEF CallerStep
<1>2. CASE CleaningStep
  BY <1>2 DEF CleaningStep, DeleteRemote, BeginList, EndList, ListRaises, DeletePayload,
              HasVector, DeleteVector, DeleteRaises, Deleted, ClearRemote, ClearPayloads,
              ClearVectors
<1>3. CASE Outside(ReadState) \/ Outside(Reset) \/ Outside(Tick) \/ Outside(DependencyFlips)
  BY <1>3 DEF Outside, Next
<1>4. CASE UNCHANGED storeVars
  BY <1>4 DEF storeVars
<1> QED
  BY <1>1, <1>2, <1>3, <1>4 DEF StoreNext

LEMMA StoreUsesBreaker == StoreSpec => Spec
<1>1. StoreInit => Init
  BY DEF StoreInit
<1> QED
  BY <1>1, StoreStepIsBreakerStep, PTL DEF StoreSpec, Spec

(* So the breaker is safe in the store too.                                *)
THEOREM BreakerIsSafeInStore == StoreSpec => []BreakerSafe
BY StoreUsesBreaker, BreakerIsSafe, PTL

-----------------------------------------------------------------------------

(* What makes the fallback lossless.  A guarded call whose answer came has *)
(* its point in Qdrant, a store that has written the payload has it in     *)
(* _memory_store - unless somebody asked to remove the point meanwhile -   *)
(* and the janitor deletes only what it was asked to.                      *)
Guarded == \A c \in Callers : pc[c] # "idle" => at[c] = "guarded"
AnsweredIsRemote ==
  \A c \in Callers : pc[c] = "answered" /\ point[c] # 0 => point[c] \in remote \union forgotten
SecondHasPayload ==
  \A c \in Callers : at[c] = "second" => point[c] \in payloads \union forgotten
JanitorIsAsked ==
  /\ janitor \in {"list", "listing", "payload", "vector", "unlink"} => doomed \subseteq forgotten
  /\ janitor \in {"vector", "unlink"} => victim \in forgotten

StoreInv ==
  /\ TypeOK
  /\ at \in [Callers -> {"idle", "guarded", "first", "second", "scan", "scanning", "retry"}]
  /\ point \in [Callers -> Nat]
  /\ written \in Nat
  /\ Guarded
  /\ AnsweredIsRemote
  /\ SecondHasPayload
  /\ JanitorIsAsked
  /\ NothingStoredIsLost
  /\ OrphansComeFromClears

LEMMA StoreInitInv == StoreInit => StoreInv
<1> SUFFICES ASSUME StoreInit PROVE StoreInv
  OBVIOUS
<1>1. TypeOK
  BY InitInv DEF StoreInit, BreakerInv
<1> QED
  BY <1>1 DEF StoreInit, Init, StoreInv, Guarded, AnsweredIsRemote, SecondHasPayload,
     JanitorIsAsked, NothingStoredIsLost, OrphansComeFromClears

LEMMA StoreStepInv == BreakerInv /\ StoreInv /\ [StoreNext]_storeVars => StoreInv'
<1> SUFFICES ASSUME BreakerInv, StoreInv, [StoreNext]_storeVars
             PROVE  StoreInv'
  OBVIOUS
<1>0. TypeOK'
  BY StoreStepIsBreakerStep, StepInv DEF BreakerInv
<1>t. /\ pc \in [Callers -> {"idle", "waiting", "answered", "failed"}]
      /\ at \in [Callers -> {"idle", "guarded", "first", "second", "scan", "scanning", "retry"}]
      /\ point \in [Callers -> Nat]
      /\ written \in Nat
  BY DEF StoreInv, TypeOK
<1> USE DEF StoreInv
<1>1. ASSUME NEW c \in Callers, CallerStep(c)
      PROVE  StoreInv'
  <2>1. CASE StoreExperience(c)
    BY <1>0, <1>t, <2>1 DEF StoreExperience, Ask, AllowRequest, vars, memory, cleaning, deleting, Guarded, AnsweredIsRemote,
       SecondHasPayload, JanitorIsAsked, NothingStoredIsLost, OrphansComeFromClears
  <2>2. CASE FindSimilar(c)
    BY <1>0, <1>t, <2>2 DEF FindSimilar, Ask, AllowRequest, vars, memory, cleaning, deleting, Guarded, AnsweredIsRemote,
       SecondHasPayload, JanitorIsAsked, NothingStoredIsLost, OrphansComeFromClears
  <2>3. CASE Reply(c)
    BY <1>0, <1>t, <2>3 DEF Reply, Answer, Carried, callers, memory, cleaning, deleting, Guarded, AnsweredIsRemote,
       SecondHasPayload, JanitorIsAsked, NothingStoredIsLost, OrphansComeFromClears
  <2>4. CASE Done(c)
    BY <1>0, <1>t, <2>4 DEF Done, Succeed, memory, cleaning, deleting, Guarded, AnsweredIsRemote,
       SecondHasPayload, JanitorIsAsked, NothingStoredIsLost, OrphansComeFromClears
  <2>5. CASE FallBack(c)
    BY <1>0, <1>t, <2>5 DEF FallBack, Fail, memory, cleaning, deleting, Guarded, AnsweredIsRemote,
       SecondHasPayload, JanitorIsAsked, NothingStoredIsLost, OrphansComeFromClears
  <2>6. CASE Remember(c)
    BY <1>0, <1>t, <2>6 DEF Remember, vars, cleaning, deleting, Guarded, AnsweredIsRemote,
       SecondHasPayload, JanitorIsAsked, NothingStoredIsLost, OrphansComeFromClears
  <2>7. CASE BeginScan(c) \/ EndScan(c) \/ ScanRaises(c)
    BY <1>0, <1>t, <2>7 DEF BeginScan, EndScan, ScanRaises, vars, memory, cleaning, deleting, Guarded, AnsweredIsRemote,
       SecondHasPayload, JanitorIsAsked, NothingStoredIsLost, OrphansComeFromClears
  <2> QED
    BY <1>1, <2>1, <2>2, <2>3, <2>4, <2>5, <2>6, <2>7 DEF CallerStep
<1>2. CASE CleaningStep
  <2> USE <1>0, <1>t DEF vars, callers, memory, deleting, DeleteOver, Guarded,
       AnsweredIsRemote, SecondHasPayload, JanitorIsAsked, NothingStoredIsLost,
       OrphansComeFromClears
  <2>1. ASSUME NEW before \in 2 .. MaxPoints + 1, DeleteRemote(before)
        PROVE  StoreInv'
    BY <2>1 DEF DeleteRemote, Carried
  <2>2. CASE BeginList
    BY <2>2 DEF BeginList
  <2>3. CASE EndList
    BY <2>3 DEF EndList
  <2>4. ASSUME NEW p \in Points, DeletePayload(p)
        PROVE  StoreInv'
    BY <2>4 DEF DeletePayload
  <2>5. CASE HasVector
    BY <2>5 DEF HasVector
  <2>6. CASE DeleteVector
    BY <2>6 DEF DeleteVector
  <2>7. CASE ListRaises \/ DeleteRaises \/ Deleted
    BY <2>7 DEF ListRaises, DeleteRaises, Deleted
  <2>8. CASE ClearRemote
    BY <2>8 DEF ClearRemote, Carried
  <2>9. CASE ClearPayloads \/ ClearVectors
    BY <2>9 DEF ClearPayloads, ClearVectors
  <2> QED
    BY <1>2, <2>1, <2>2, <2>3, <2>4, <2>5, <2>6, <2>7, <2>8, <2>9 DEF CleaningStep
<1>3. CASE Outside(ReadState) \/ Outside(Reset) \/ Outside(Tick) \/ Outside(DependencyFlips)
  BY <1>0, <1>t, <1>3 DEF Outside, ReadState, Reset, Tick, DependencyFlips, callers, memory, cleaning, deleting,
     Guarded, AnsweredIsRemote, SecondHasPayload, JanitorIsAsked, NothingStoredIsLost,
     OrphansComeFromClears
<1>4. CASE UNCHANGED storeVars
  BY <1>0, <1>t, <1>4 DEF storeVars, vars, callers, memory, cleaning, deleting,
     Guarded, AnsweredIsRemote, SecondHasPayload, JanitorIsAsked, NothingStoredIsLost,
     OrphansComeFromClears
<1> QED
  BY <1>1, <1>2, <1>3, <1>4 DEF StoreNext

LEMMA StoreInvariance == StoreSpec => []StoreInv
<1>1. StoreSpec => []BreakerInv
  BY StoreUsesBreaker, Invariance, PTL
<1> QED
  BY <1>1, StoreInitInv, StoreStepInv, PTL DEF StoreSpec

(* A point reported as stored is found again unless somebody asked to      *)
(* remove it, however Qdrant fails and whatever the breaker refuses.       *)
THEOREM StoredIsKept == StoreSpec => []NothingStoredIsLost
BY StoreInvariance, PTL DEF StoreInv

(* The fallback exposes half a point only while that point is removed.     *)
THEOREM OrphansAreCleared == StoreSpec => []OrphansComeFromClears
BY StoreInvariance, PTL DEF StoreInv

=============================================================================
