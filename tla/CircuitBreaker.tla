--------------------------- MODULE CircuitBreaker ---------------------------
(***************************************************************************)
(* The circuit breaker of cldb/resilience.py, shared by the threads that   *)
(* call one guarded dependency (Qdrant, through enhanced_vector_store.py,  *)
(* or any function wrapped by the circuit_breaker decorator).              *)
(*                                                                         *)
(* Every method of the class holds the breaker's lock from its first line  *)
(* to its return, so each one is a single action on the breaker; a guarded *)
(* call is three steps of a thread - allow_request, the dependency's       *)
(* answer, record_success or record_failure - and other threads, health    *)
(* checks, resets and the clock run between them.                          *)
(*                                                                         *)
(* Abstractions.  Time is a count of ticks, and only the age of the last   *)
(* failure matters, so since_failure saturates at RecoveryTimeout.         *)
(* _failure_count is compared only with failure_threshold, so it saturates *)
(* there.  _success_count is written and never read, so it is left out.    *)
(***************************************************************************)
EXTENDS Naturals

CONSTANTS Callers,          (* threads that call the dependency              *)
          FailureThreshold, (* failure_threshold                             *)
          RecoveryTimeout,  (* recovery_timeout, in ticks                    *)
          HalfOpenMaxCalls, (* half_open_max_calls                           *)
          None              (* _last_failure_time before any failure         *)

ASSUME BreakerAssumption ==
  /\ FailureThreshold \in Nat \ {0}
  /\ RecoveryTimeout \in Nat
  /\ HalfOpenMaxCalls \in Nat \ {0}
  /\ None \notin Nat

VARIABLES
  state,            (* _state                                               *)
  failure_count,    (* _failure_count                                       *)
  half_open_calls,  (* _half_open_calls                                     *)
  since_failure,    (* ticks since _last_failure_time, or None              *)
  pc,               (* where each caller is in its guarded call             *)
  up,               (* does the dependency answer?                          *)
  streak            (* history: successes recorded since the last failure   *)

breaker == <<state, failure_count, half_open_calls, since_failure>>
vars == <<state, failure_count, half_open_calls, since_failure, pc, up, streak>>

-----------------------------------------------------------------------------

Bump(n, cap) == IF n >= cap THEN cap ELSE n + 1

Init ==
  /\ state = "CLOSED"
  /\ failure_count = 0
  /\ half_open_calls = 0
  /\ since_failure = None
  /\ pc = [c \in Callers |-> "idle"]
  /\ up \in BOOLEAN
  /\ streak = 0

(* The recovery timeout of an open breaker has run out. *)
TimedOut ==
  /\ state = "OPEN"
  /\ since_failure # None
  /\ since_failure >= RecoveryTimeout

(* Mutant: the probes of the last recovery are not forgotten. *)
BecomeHalfOpenKeepingCalls ==
  /\ state' = "HALF_OPEN"
  /\ UNCHANGED <<failure_count, half_open_calls, since_failure>>

BecomeHalfOpen ==
  /\ state' = "HALF_OPEN"
  /\ half_open_calls' = 0
  /\ UNCHANGED <<failure_count, since_failure>>

(* record_success: a success recorded while OPEN starts the recovery probe *)
(* and already counts towards it.                                          *)
RecordSuccess ==
  /\ failure_count' = 0
  /\ IF state = "CLOSED"
     THEN UNCHANGED <<state, half_open_calls>>
     ELSE LET calls == IF state = "OPEN" THEN 1 ELSE half_open_calls + 1
          IN /\ half_open_calls' = calls
             /\ state' = IF calls >= HalfOpenMaxCalls THEN "CLOSED" ELSE "HALF_OPEN"
  /\ UNCHANGED since_failure

(* Mutant: the threshold is compared with the old count. *)
RecordFailureTripsLate ==
  /\ failure_count' = Bump(failure_count, FailureThreshold)
  /\ since_failure' = 0
  /\ state' = IF state = "HALF_OPEN" \/ failure_count >= FailureThreshold
              THEN "OPEN" ELSE state
  /\ UNCHANGED half_open_calls

(* Mutant: only a half-open breaker opens. *)
RecordFailureProbesOnly ==
  /\ failure_count' = Bump(failure_count, FailureThreshold)
  /\ since_failure' = 0
  /\ state' = IF state = "HALF_OPEN" THEN "OPEN" ELSE state
  /\ UNCHANGED half_open_calls

(* record_failure: a half-open breaker reopens on any failure, a closed    *)
(* one at the threshold; the recovery timeout starts again either way.     *)
RecordFailure ==
  /\ failure_count' = Bump(failure_count, FailureThreshold)
  /\ since_failure' = 0
  /\ state' = IF state = "HALF_OPEN" \/ failure_count' >= FailureThreshold
              THEN "OPEN" ELSE state
  /\ UNCHANGED half_open_calls

-----------------------------------------------------------------------------

(* allow_request returns True: closed, or half-open with probes left, or   *)
(* open past the timeout (and the breaker becomes half-open).  A caller    *)
(* that is refused takes its fallback and changes nothing.                 *)
AllowRequest(c) ==
  /\ pc[c] = "idle"
  /\ \/ state = "CLOSED" /\ UNCHANGED breaker
     \/ state = "HALF_OPEN" /\ half_open_calls < HalfOpenMaxCalls /\ UNCHANGED breaker
     \/ TimedOut /\ BecomeHalfOpen
  /\ pc' = [pc EXCEPT ![c] = "waiting"]
  /\ UNCHANGED <<up, streak>>

(* The dependency answers the call, or fails it. *)
Answer(c) ==
  /\ pc[c] = "waiting"
  /\ pc' = [pc EXCEPT ![c] = IF up THEN "answered" ELSE "failed"]
  /\ UNCHANGED <<breaker, up, streak>>

(* The caller records the outcome, however late. *)
Succeed(c) ==
  /\ pc[c] = "answered"
  /\ RecordSuccess
  /\ streak' = Bump(streak, HalfOpenMaxCalls)
  /\ pc' = [pc EXCEPT ![c] = "idle"]
  /\ UNCHANGED up

Fail(c) ==
  /\ pc[c] = "failed"
  /\ RecordFailure
  /\ streak' = 0
  /\ pc' = [pc EXCEPT ![c] = "idle"]
  /\ UNCHANGED up

(* The state property, read by get_all_status for every health report:     *)
(* reading an open breaker past its timeout makes it half-open.            *)
ReadState ==
  /\ TimedOut
  /\ BecomeHalfOpen
  /\ UNCHANGED <<pc, up, streak>>

Reset ==
  /\ state' = "CLOSED"
  /\ failure_count' = 0
  /\ half_open_calls' = 0
  /\ since_failure' = None
  /\ UNCHANGED <<pc, up, streak>>

Tick ==
  /\ since_failure # None
  /\ since_failure < RecoveryTimeout
  /\ since_failure' = since_failure + 1
  /\ UNCHANGED <<state, failure_count, half_open_calls, pc, up, streak>>

DependencyFlips ==
  /\ up' = ~up
  /\ UNCHANGED <<breaker, pc, streak>>

(* One guarded call, as the circuit_breaker decorator and the vector store make it. *)
Call(c) == AllowRequest(c) \/ Answer(c) \/ Succeed(c) \/ Fail(c)

Next ==
  \/ \E c \in Callers : Call(c)
  \/ ReadState
  \/ Reset
  \/ Tick
  \/ DependencyFlips

Spec == Init /\ [][Next]_vars

-----------------------------------------------------------------------------

(* Type invariant. *)
TypeOK ==
  /\ state \in {"CLOSED", "OPEN", "HALF_OPEN"}
  /\ failure_count \in 0 .. FailureThreshold
  /\ half_open_calls \in 0 .. HalfOpenMaxCalls
  /\ since_failure \in (0 .. RecoveryTimeout) \union {None}
  /\ pc \in [Callers -> {"idle", "waiting", "answered", "failed"}]
  /\ up \in BOOLEAN
  /\ streak \in 0 .. HalfOpenMaxCalls

(* A closed breaker has seen fewer than failure_threshold failures since   *)
(* its last success: no interleaving of late failures with resets and      *)
(* probes leaves it closed with the threshold reached.                     *)
ClosedBelowThreshold == state = "CLOSED" => failure_count < FailureThreshold

(* The breaker never locks its callers out for good: an open breaker has a *)
(* failure time for its timeout to run from, and a half-open one still has *)
(* a probe to give, although _half_open_calls survives a failed recovery.  *)
NeverLockedOut ==
  /\ state = "OPEN" => since_failure # None
  /\ state = "HALF_OPEN" => half_open_calls < HalfOpenMaxCalls

(* A breaker is half-open only once the recovery timeout has passed since  *)
(* the last recorded failure, or on the strength of a success recorded     *)
(* after it: a failed probe always closes the gate for a whole timeout.    *)
ProbeIsJustified ==
  state = "HALF_OPEN" => since_failure = RecoveryTimeout \/ streak > 0

(* Leaving half-open for closed takes half_open_max_calls successes with   *)
(* no failure between them; probes of an earlier, failed recovery do not   *)
(* count.  (reset, which forgets the failure time, is the only other way.) *)
RecoveryIsEarned ==
  [][ state # "CLOSED" /\ state' = "CLOSED" /\ since_failure' # None
        => streak' = HalfOpenMaxCalls ]_vars

(* The three together: the breaker is never wrong about what it has seen,  *)
(* never shut for good, and never probes without a reason.                 *)
BreakerSafe ==
  /\ ClosedBelowThreshold
  /\ NeverLockedOut
  /\ ProbeIsJustified
=============================================================================
