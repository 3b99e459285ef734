---------------------------- MODULE RateLimiter ----------------------------
(***************************************************************************)
(* The token bucket of cldb/resilience.py.                                 *)
(*                                                                         *)
(* Time is counted in the seconds of the limiter's rate, and sampled when  *)
(* the lock is taken; a bucket holds whole tokens.  A waiting caller       *)
(* sleeps at most a tenth of a second between two looks at the bucket, so  *)
(* between two instants it may look or not.                                *)
(***************************************************************************)
EXTENDS Integers, Sequences

CONSTANTS Rate,     (* tokens added per second                              *)
          Capacity, (* tokens a full bucket holds                           *)
          Timeout,  (* timeout of acquire                                   *)
          MaxTime   (* bound: last instant explored                         *)

ASSUME LimiterAssumption ==
  /\ Rate \in Nat \ {0}
  /\ Capacity \in Nat \ {0}
  /\ Timeout \in Nat \ {0}
  /\ MaxTime \in Nat

VARIABLES
  now,    (* the clock                                                      *)
  tokens, (* _tokens, as the last call left it                              *)
  last,   (* _last_update                                                   *)
  grants  (* history: the instants at which a token was taken               *)

bucket == <<tokens, last, grants>>

LimiterInit ==
  /\ now = 0
  /\ tokens = Capacity
  /\ last = 0
  /\ grants = <<>>

Tick ==
  /\ now < MaxTime
  /\ now' = now + 1

(* _refill: the tokens there are at this instant. *)
Refilled ==
  LET topped == tokens + (now - last) * Rate
  IN  IF topped > Capacity THEN Capacity ELSE topped

(* Mutant: the instant of the update is not moved, so time is counted twice. *)
RefillKeepingInstant(taken) ==
  /\ tokens' = Refilled - taken
  /\ UNCHANGED last

Refill(taken) ==
  /\ tokens' = Refilled - taken
  /\ last' = now

(* acquire(1) at this instant: a token is taken, ... *)
Grant ==
  /\ Refilled >= 1
  /\ Refill(1)
  /\ grants' = Append(grants, now)

(* ... or, for a caller that began to wait at start, the wait for the      *)
(* token that is missing would end after the timeout, ...                  *)
Refuse(start) ==
  /\ Refilled < 1
  /\ (now - start) * Rate + (1 - Refilled) > Timeout * Rate
  /\ Refill(0)
  /\ UNCHANGED grants

(* ... or the caller goes to sleep, and when it wakes looks again unless   *)
(* its time is up.                                                         *)
KeepWaiting(start) ==
  /\ Refilled < 1
  /\ (now - start) * Rate + (1 - Refilled) <= Timeout * Rate
  /\ Refill(0)
  /\ UNCHANGED grants

TimeIsUp(start) == now - start >= Timeout

-----------------------------------------------------------------------------

(* What a token bucket promises (cldb/resilience.py:164-190): among any    *)
(* consecutive grants, no more than a full bucket and what was poured in   *)
(* between the first and the last of them.                                 *)
BurstIsBounded ==
  \A i, j \in 1..Len(grants) :
    i <= j => j - i + 1 <= Capacity + Rate * (grants[j] - grants[i])
=============================================================================
