------------------------- MODULE DecisionPathProofs -------------------------
(***************************************************************************)
(* Proofs about DecisionPath for every rate and capacity of the limiter,   *)
(* any set of clients, tables, columns, queries and decisions, and any     *)
(* number of calls and restarts: the limiter's promise, what stays listed  *)
(* in _active_operations, where predictions end, what the rows of the      *)
(* metadata database claim, and how many indexes of the same columns there *)
(* can be.                                                                 *)
(***************************************************************************)
EXTENDS DecisionPath, FiniteSetTheorems, TLAPS

(* What flows into the bucket between two instants. *)
Poured(from, to) == Rate * (to - from)

LEMMA PouredNat == \A a, b \in Nat : a <= b => Poured(a, b) \in Nat
<1>1. \A r, x \in Nat : r * x \in Nat
  BY SMT
<1>2. \A a, b \in Nat : a <= b => b - a \in Nat
  OBVIOUS
<1> QED
  BY <1>1, <1>2, LimiterAssumption DEF Poured

LEMMA PouredAddsUp ==
  \A a, b, c \in Nat : a <= b /\ b <= c => Poured(a, c) = Poured(a, b) + Poured(b, c)
<1>1. \A r, x, y \in Nat : r * (x + y) = r * x + r * y
  BY SMT
<1>2. \A a, b, c \in Nat : a <= b /\ b <= c =>
        b - a \in Nat /\ c - b \in Nat /\ c - a = (b - a) + (c - b)
  OBVIOUS
<1> QED
  BY <1>1, <1>2, LimiterAssumption DEF Poured

LEMMA PouredAtOnce == \A a \in Nat : Poured(a, a) = 0
<1>1. \A r \in Nat : r * 0 = 0
  BY SMT
<1>2. \A a \in Nat : a - a = 0
  OBVIOUS
<1> QED
  BY <1>1, <1>2, LimiterAssumption DEF Poured

(* Why bursts are bounded: a grant made since the bucket was new leaves    *)
(* fewer tokens than were in a full bucket and have been poured in since   *)
(* it, by as many as were granted from it on.                              *)
BucketInv ==
  /\ now \in Nat
  /\ last \in Nat /\ last <= now
  /\ tokens \in 0..Capacity
  /\ grants \in Seq(Nat)
  /\ \A i \in 1..Len(grants) :
       /\ grants[i] <= last
       /\ tokens + (Len(grants) - i + 1) <= Capacity + Poured(grants[i], last)
  /\ \A i, j \in 1..Len(grants) :
       i <= j => j - i + 1 <= Capacity + Poured(grants[i], grants[j])

LEMMA RefilledBound ==
  ASSUME BucketInv
  PROVE  /\ Refilled \in 0..Capacity
         /\ Refilled <= tokens + Poured(last, now)
<1>1. Poured(last, now) \in Nat
  BY PouredNat DEF BucketInv
<1>2. (now - last) * Rate = Poured(last, now)
  <2>1. \A x, y \in Nat : x * y = y * x
    BY SMT
  <2>2. now - last \in Nat /\ Rate \in Nat
    BY LimiterAssumption DEF BucketInv
  <2> QED
    BY <2>1, <2>2 DEF Poured
<1>3. Refilled = IF tokens + Poured(last, now) > Capacity THEN Capacity
                 ELSE tokens + Poured(last, now)
  BY <1>2, Zenon DEF Refilled
<1> QED
  BY <1>1, <1>3, LimiterAssumption DEF BucketInv

(* A refill keeps what is said of earlier grants, whatever it finds.       *)
LEMMA RefillKeepsBound ==
  ASSUME BucketInv, NEW i \in 1..Len(grants)
  PROVE  /\ grants[i] \in Nat /\ grants[i] <= now
         /\ Poured(grants[i], now) \in Nat
         /\ Refilled + (Len(grants) - i + 1) <= Capacity + Poured(grants[i], now)
<1>1. grants[i] \in Nat /\ Len(grants) \in Nat
  BY DEF BucketInv
<1>2. grants[i] <= last /\ tokens + (Len(grants) - i + 1) <= Capacity + Poured(grants[i], last)
  BY DEF BucketInv
<1>3. last \in Nat /\ now \in Nat /\ last <= now /\ tokens \in Int
  BY DEF BucketInv
<1>4. Poured(grants[i], last) \in Nat /\ Poured(last, now) \in Nat
  BY <1>1, <1>2, <1>3, PouredNat
<1>5. Poured(grants[i], now) = Poured(grants[i], last) + Poured(last, now)
  BY <1>1, <1>2, <1>3, PouredAddsUp
<1>6. Refilled \in Int /\ Refilled <= tokens + Poured(last, now)
  BY RefilledBound, LimiterAssumption
<1> QED
  BY <1>1, <1>2, <1>3, <1>4, <1>5, <1>6, LimiterAssumption

(* A look at the bucket that takes no token keeps the invariant, ... *)
LEMMA LookKeepsBucket ==
  ASSUME BucketInv, Refill(0), UNCHANGED <<now, grants>>
  PROVE  BucketInv'
<1>1. tokens' = Refilled /\ last' = now /\ now' = now /\ grants' = grants
  BY RefilledBound, LimiterAssumption DEF Refill
<1> QED
  BY <1>1, RefillKeepsBound, RefilledBound DEF BucketInv

(* ... and so does a grant, which is within the bound of every earlier one. *)
LEMMA GrantKeepsBucket ==
  ASSUME BucketInv, Grant, UNCHANGED now
  PROVE  BucketInv'
<1>1. /\ Refilled >= 1 /\ tokens' = Refilled - 1 /\ last' = now /\ now' = now
      /\ grants' = Append(grants, now)
  BY DEF Grant, Refill
<1>2. /\ grants' \in Seq(Nat)
      /\ Len(grants') = Len(grants) + 1
      /\ grants'[Len(grants) + 1] = now
      /\ \A i \in 1..Len(grants) : grants'[i] = grants[i]
      /\ Len(grants) \in Nat
  BY <1>1 DEF BucketInv
<1>3. now \in Nat /\ Poured(now, now) = 0
  BY PouredAtOnce DEF BucketInv
<1>4. ASSUME NEW i \in 1..Len(grants')
      PROVE  /\ grants'[i] <= now
             /\ tokens' + (Len(grants') - i + 1) <= Capacity + Poured(grants'[i], now)
  <2>1. CASE i = Len(grants) + 1
    BY <1>1, <1>2, <1>3, <2>1, RefilledBound, LimiterAssumption
  <2>2. CASE i \in 1..Len(grants)
    BY <1>1, <1>2, <2>2, RefillKeepsBound, RefilledBound, LimiterAssumption
  <2> QED
    BY <1>2, <2>1, <2>2
<1>5. ASSUME NEW i \in 1..Len(grants'), NEW j \in 1..Len(grants'), i <= j
      PROVE  j - i + 1 <= Capacity + Poured(grants'[i], grants'[j])
  <2>1. CASE j \in 1..Len(grants)
    <3>1. i \in 1..Len(grants)
      BY <1>2, <1>5, <2>1
    <3>2. j - i + 1 <= Capacity + Poured(grants[i], grants[j])
      BY <1>5, <2>1, <3>1 DEF BucketInv
    <3>3. grants'[i] = grants[i] /\ grants'[j] = grants[j]
      BY <1>2, <2>1, <3>1
    <3> QED
      BY <3>2, <3>3, Zenon
  <2>2. CASE j = Len(grants) + 1 /\ i \in 1..Len(grants)
    BY <1>1, <1>2, <2>2, RefillKeepsBound, RefilledBound, LimiterAssumption
  <2>3. CASE j = Len(grants) + 1 /\ i = Len(grants) + 1
    BY <1>2, <1>3, <2>3, LimiterAssumption
  <2> QED
    BY <1>2, <1>5, <2>1, <2>2, <2>3
<1>6. tokens' \in 0..Capacity
  BY <1>1, RefilledBound, LimiterAssumption
<1>7. \A i \in 1..Len(grants') :
         /\ grants'[i] <= last'
         /\ tokens' + (Len(grants') - i + 1) <= Capacity + Poured(grants'[i], last')
  BY <1>1, <1>4, Zenon
<1>8. now' \in Nat /\ last' \in Nat /\ last' <= now'
  BY <1>1, <1>3
<1>9. grants' \in Seq(Nat)
  BY <1>2
<1> QED
  BY <1>5, <1>6, <1>7, <1>8, <1>9, Zenon DEF BucketInv

(* A query's steps leave the limiter alone. *)
LEMMA QueryLeavesLimiter ==
  ASSUME NEW c \in Clients, QueryStep(c)
  PROVE  UNCHANGED <<now, bucket>>
BY DEF QueryStep, Raise, Choose, Measure, LogQuery, Keep, Reject, Approve, Execute,
       PersistDecision, Remeasure, RecordOutcome, RecordReplay, OutcomeLost, Finish, limiter

LEMMA BucketStep == BucketInv /\ [Next]_vars => BucketInv'
<1> SUFFICES ASSUME BucketInv, [Next]_vars
             PROVE  BucketInv'
  OBVIOUS
<1>1. CASE UNCHANGED <<now, bucket>>
  BY <1>1 DEF BucketInv, bucket
<1>2. ASSUME NEW c \in Clients, Acquire(c)
      PROVE  BucketInv'
  <2>1. CASE Grant
    BY <1>2, <2>1, GrantKeepsBucket DEF Acquire
  <2>2. CASE KeepWaiting(job[c].start) \/ Refuse(job[c].start)
    BY <1>2, <2>2, LookKeepsBucket DEF Acquire, KeepWaiting, Refuse
  <2> QED
    BY <1>2, <2>1, <2>2 DEF Acquire
<1>3. ASSUME NEW c \in Clients, OperationStep(c), ~Acquire(c)
      PROVE  UNCHANGED <<now, bucket>>
  BY <1>3 DEF OperationStep, WakeUp, RunExecutor, InitiateRollback, CloseOperation, Delist
<1>4. ASSUME NEW c \in Clients, Call(c)
      PROVE  UNCHANGED <<now, bucket>>
  BY <1>4 DEF Call, Begin, BeginOperation, limiter
<1>5. CASE Restart
  <2>1. now' = now /\ last' = now /\ tokens' = Capacity /\ grants' = <<>>
    BY <1>5 DEF Restart
  <2> QED
    BY <2>1, LimiterAssumption DEF BucketInv
<1>6. CASE Pass
  <2>1. now' = now + 1 /\ UNCHANGED <<tokens, last, grants>>
    BY <1>6 DEF Pass, Tick, bucket
  <2> QED
    BY <2>1 DEF BucketInv
<1>7. CASE UNCHANGED vars
  BY <1>7, <1>1 DEF vars, limiter
<1> QED
  BY <1>1, <1>2, <1>3, <1>4, <1>5, <1>6, <1>7, QueryLeavesLimiter DEF Next

(* Whatever the threads do and whenever the process restarts, no burst of  *)
(* grants exceeds a full bucket and what is poured in meanwhile.           *)
THEOREM BurstsAreBounded == Spec => []BurstIsBounded
<1>1. Init => BucketInv
  BY LimiterAssumption DEF Init, LimiterInit, BucketInv
<1>2. BucketInv => BurstIsBounded
  BY DEF BucketInv, BurstIsBounded, Poured
<1> QED
  BY <1>1, <1>2, BucketStep, PTL DEF Spec

-----------------------------------------------------------------------------

(* Threads and their locals are there, and what has run is on its way out. *)
ListingInv ==
  /\ DOMAIN pc = Clients
  /\ DOMAIN job = Clients
  /\ \A r \in active : {"name", "client", "status"} \subseteq DOMAIN r
  /\ RanIsDelisted

(* A thread that is not about to delist moves, and the list stays. *)
LEMMA OthersKeepListing ==
  ASSUME ListingInv, NEW c \in Clients, pc[c] # "delist", UNCHANGED active,
         NEW place, pc' = [pc EXCEPT ![c] = place],
         \/ UNCHANGED job
         \/ \E value : job' = [job EXCEPT ![c] = value]
  PROVE  ListingInv'
<1>1. DOMAIN pc' = Clients /\ DOMAIN job' = Clients
  BY DEF ListingInv
<1>2. ASSUME NEW d \in Clients, pc[d] = "delist"
      PROVE  pc'[d] = "delist" /\ job'[d] = job[d]
  BY <1>2 DEF ListingInv
<1> QED
  BY <1>1, <1>2 DEF ListingInv, RanIsDelisted

LEMMA QueryKeepsListing ==
  ASSUME ListingInv, NEW c \in Clients, QueryStep(c)
  PROVE  ListingInv'
<1>1. pc[c] # "delist" /\ UNCHANGED active
  BY DEF QueryStep, Raise, MayRaise, Choose, Measure, LogQuery, Keep, Reject, Approve, Execute,
         PersistDecision, Remeasure, RecordOutcome, RecordReplay, OutcomeLost, Finish, safety
<1>2. \E place : pc' = [pc EXCEPT ![c] = place]
  BY DEF QueryStep, Raise, Choose, Measure, LogQuery, Keep, Reject, Approve, Execute,
         PersistDecision, Remeasure, RecordOutcome, RecordReplay, OutcomeLost, Finish, Goto,
         Return
<1>3. UNCHANGED job \/ \E value : job' = [job EXCEPT ![c] = value]
  BY DEF QueryStep, Raise, Choose, Measure, LogQuery, Keep, Reject, Approve, Execute,
         PersistDecision, Remeasure, RecordOutcome, RecordReplay, OutcomeLost, Finish, Return
<1> QED
  BY <1>1, <1>2, <1>3, OthersKeepListing

LEMMA ListingStep == ListingInv /\ [Next]_vars => ListingInv'
<1> SUFFICES ASSUME ListingInv, [Next]_vars
             PROVE  ListingInv'
  OBVIOUS
<1>1. ASSUME NEW c \in Clients, OperationStep(c)
      PROVE  ListingInv'
  <2>1. CASE Acquire(c) \/ WakeUp(c) \/ RunExecutor(c)
    <3>1. pc[c] # "delist" /\ UNCHANGED active
      BY <2>1 DEF Acquire, WakeUp, RunExecutor
    <3>2. \E place : pc' = [pc EXCEPT ![c] = place]
      BY <2>1 DEF Acquire, WakeUp, RunExecutor, Goto, Return
    <3>3. UNCHANGED job \/ \E value : job' = [job EXCEPT ![c] = value]
      BY <2>1 DEF Acquire, WakeUp, RunExecutor, Return
    <3> QED
      BY <3>1, <3>2, <3>3, OthersKeepListing
  <2>2. CASE InitiateRollback(c) \/ CloseOperation(c)
    <3>1. /\ DOMAIN pc' = Clients /\ job' = job
          /\ pc' = [pc EXCEPT ![c] = "delist"]
      BY <2>2 DEF InitiateRollback, CloseOperation, Goto, ListingInv
    <3>2. pc'[c] = "delist" /\ \A d \in Clients : pc[d] = "delist" => pc'[d] = "delist"
      BY <3>1 DEF ListingInv
    <3>3. ASSUME NEW s \in active'
          PROVE  \E r \in active :
                   /\ s.name = r.name /\ DOMAIN s = DOMAIN r
                   /\ s = r \/ r.name = job[c].name
      <4>1. ASSUME NEW r \in active, NEW value, s = [r EXCEPT !.status = value]
            PROVE  s.name = r.name /\ DOMAIN s = DOMAIN r
        BY <4>1 DEF ListingInv
      <4>2. CASE s \in active
        BY <4>2
      <4>3. CASE s \notin active
        <5>1. PICK r \in active : \E value :
                 s = [r EXCEPT !.status = value] /\ r.name = job[c].name
          BY <2>2, <4>3 DEF InitiateRollback, CloseOperation, Listing
        <5> QED
          BY <4>1, <5>1
      <4> QED
        BY <4>2, <4>3
    <3> QED
      BY <3>1, <3>2, <3>3 DEF ListingInv, RanIsDelisted
  <2>3. CASE Delist(c)
    BY <2>3 DEF Delist, Return, Goto, Listing, ListingInv, RanIsDelisted
  <2> QED
    BY <1>1, <2>1, <2>2, <2>3 DEF OperationStep
<1>2. ASSUME NEW c \in Clients, NEW query, Begin(c, query)
      PROVE  ListingInv'
  BY <1>2, OthersKeepListing DEF Begin, Goto, safety
<1>3. ASSUME NEW c \in Clients, NEW decision, NEW regressed, BeginOperation(c, decision, regressed)
      PROVE  ListingInv'
  BY <1>3 DEF BeginOperation, Goto, Listing, ListingInv, RanIsDelisted
<1>4. CASE Restart
  BY <1>4 DEF Restart, ListingInv, RanIsDelisted
<1>5. CASE Pass \/ UNCHANGED vars
  BY <1>5 DEF Pass, vars, safety, ListingInv, RanIsDelisted
<1> QED
  BY <1>1, <1>2, <1>3, <1>4, <1>5, QueryKeepsListing DEF Next, Call

(* An operation that has run is delisted: a record that lies in            *)
(* _active_operations for good belongs to one that never ran.              *)
THEOREM WhatRanIsDelisted == Spec => []RanIsDelisted
<1>1. Init => ListingInv
  BY DEF Init, SafetyInit, ListingInv, RanIsDelisted
<1>2. ListingInv => RanIsDelisted
  BY DEF ListingInv
<1> QED
  BY <1>1, <1>2, ListingStep, PTL DEF Spec

-----------------------------------------------------------------------------
(* Counting threads.                                                       *)

One(holds) == IF holds THEN 1 ELSE 0

(* Two sets that differ in one element at most.                            *)
LEMMA MovedBy ==
  ASSUME NEW S, NEW T, IsFiniteSet(S), NEW c, T \ {c} = S \ {c}
  PROVE  /\ IsFiniteSet(T)
         /\ Cardinality(S) \in Nat /\ Cardinality(T) \in Nat
         /\ Cardinality(T) = Cardinality(S) + One(c \in T) - One(c \in S)
<1>1. /\ IsFiniteSet(S \ {c})
      /\ Cardinality(S \ {c}) = IF c \in S THEN Cardinality(S) - 1 ELSE Cardinality(S)
  BY FS_RemoveElement
<1>2. /\ IsFiniteSet((S \ {c}) \cup {c})
      /\ Cardinality((S \ {c}) \cup {c}) = Cardinality(S \ {c}) + 1
  BY <1>1, FS_AddElement
<1>3. Cardinality(S) \in Nat /\ Cardinality(S \ {c}) \in Nat
  BY <1>1, FS_CardinalityType
<1>4. CASE c \in T
  <2>1. T = (S \ {c}) \cup {c}
    BY <1>4
  <2> QED
    BY <1>1, <1>2, <1>3, <1>4, <2>1 DEF One
<1>5. CASE c \notin T
  <2>1. T = S \ {c}
    BY <1>5
  <2> QED
    BY <1>1, <1>3, <1>5, <2>1 DEF One
<1> QED
  BY <1>4, <1>5

-----------------------------------------------------------------------------
(* The metrics of the decisions.                                           *)

OnTheWay == {"measure", "log", "judge", "execute"}

AccountInv ==
  /\ DOMAIN pc = Clients
  /\ counters \in [DOMAIN NoCounts -> Nat]
  /\ IsFiniteSet(Undecided)
  /\ DecisionsAreAccountedFor

LEMMA CountAdds ==
  ASSUME counters \in [DOMAIN NoCounts -> Nat], NEW names, Count(names)
  PROVE  /\ counters' \in [DOMAIN NoCounts -> Nat]
         /\ \A name \in DOMAIN NoCounts :
              counters'[name] = counters[name] + One(name \in names)
BY DEF Count, One

(* A thread goes on and counts as it goes: a prediction as it sets out,    *)
(* its end or an error as it arrives.                                      *)
LEMMA AccountMove ==
  ASSUME AccountInv, NEW c \in Clients, NEW place, Goto(c, place),
         counters' \in [DOMAIN NoCounts -> Nat],
         Settled' - Settled + One(place \in OnTheWay) - One(pc[c] \in OnTheWay)
           <= counters'.predictions - counters.predictions,
         counters'.predictions - counters.predictions
           <= Settled' - Settled + One(place \in OnTheWay) - One(pc[c] \in OnTheWay)
              + counters'.errors - counters.errors
  PROVE  AccountInv'
<1>1. DOMAIN pc' = Clients /\ pc'[c] = place /\ \A d \in Clients : d # c => pc'[d] = pc[d]
  BY DEF AccountInv, Goto
<1>2. /\ Undecided' \ {c} = Undecided \ {c}
      /\ c \in Undecided <=> pc[c] \in OnTheWay
      /\ c \in Undecided' <=> place \in OnTheWay
  BY <1>1 DEF Undecided, OnTheWay
<1>3. /\ IsFiniteSet(Undecided')
      /\ Cardinality(Undecided) \in Nat /\ Cardinality(Undecided') \in Nat
      /\ Cardinality(Undecided')
           = Cardinality(Undecided) + One(place \in OnTheWay) - One(pc[c] \in OnTheWay)
  <2>1. /\ IsFiniteSet(Undecided')
        /\ Cardinality(Undecided) \in Nat /\ Cardinality(Undecided') \in Nat
        /\ Cardinality(Undecided')
             = Cardinality(Undecided) + One(c \in Undecided') - One(c \in Undecided)
    BY <1>2, MovedBy DEF AccountInv
  <2> QED
    BY <1>2, <2>1 DEF One
<1>4. /\ Settled \in Nat /\ Settled' \in Nat
      /\ counters.predictions \in Nat /\ counters'.predictions \in Nat
      /\ counters.errors \in Nat /\ counters'.errors \in Nat
  BY DEF AccountInv, Settled, NoCounts
<1>5. One(place \in OnTheWay) \in {0, 1} /\ One(pc[c] \in OnTheWay) \in {0, 1}
  BY DEF One
<1>6. DecisionsAreAccountedFor'
  BY <1>3, <1>4, <1>5 DEF AccountInv, DecisionsAreAccountedFor
<1> QED
  BY <1>1, <1>3, <1>6 DEF AccountInv

(* A thread that is and stays elsewhere, or on its way, and counts none of *)
(* these.                                                                  *)
LEMMA AccountStays ==
  ASSUME AccountInv, NEW c \in Clients, NEW place, Goto(c, place),
         place \in OnTheWay <=> pc[c] \in OnTheWay,
         counters' = counters \/ Count({"processed"})
  PROVE  AccountInv'
<1>1. /\ counters' \in [DOMAIN NoCounts -> Nat]
      /\ \A name \in DOMAIN NoCounts \ {"processed"} : counters'[name] = counters[name]
  BY CountAdds DEF AccountInv, One
<1>2. /\ counters'.predictions = counters.predictions /\ counters'.errors = counters.errors
      /\ Settled' = Settled /\ Settled \in Nat
      /\ counters.predictions \in Nat /\ counters.errors \in Nat
  BY <1>1 DEF AccountInv, Settled, NoCounts
<1>3. One(place \in OnTheWay) = One(pc[c] \in OnTheWay) /\ One(pc[c] \in OnTheWay) \in {0, 1}
  BY DEF One
<1> QED
  BY <1>1, <1>2, <1>3, AccountMove

LEMMA CountsOf ==
  ASSUME counters \in [DOMAIN NoCounts -> Nat], NEW name, Count({name})
  PROVE  /\ counters' \in [DOMAIN NoCounts -> Nat]
         /\ counters.predictions \in Nat /\ counters.errors \in Nat /\ Settled \in Nat
         /\ name \in {"kept", "rejected", "failed", "executed"} =>
              /\ Settled' = Settled + 1
              /\ counters'.predictions = counters.predictions
              /\ counters'.errors = counters.errors
         /\ name = "predictions" =>
              /\ Settled' = Settled
              /\ counters'.predictions = counters.predictions + 1
              /\ counters'.errors = counters.errors
<1>1. /\ counters' \in [DOMAIN NoCounts -> Nat]
      /\ \A n \in DOMAIN NoCounts : counters'[n] = counters[n] + One(n \in {name})
  BY CountAdds
<1> QED
  BY <1>1 DEF One, Settled, NoCounts

(* One more end was counted, and nothing else of the four.                 *)
EndCounted ==
  /\ counters' \in [DOMAIN NoCounts -> Nat]
  /\ Settled \in Nat /\ Settled' = Settled + 1
  /\ counters.predictions \in Nat /\ counters'.predictions = counters.predictions
  /\ counters.errors \in Nat /\ counters'.errors = counters.errors

LEMMA AccountQuery ==
  ASSUME AccountInv, NEW c \in Clients, QueryStep(c) PROVE AccountInv'
<1> USE DEF AccountInv
<1>1. CASE Raise(c)
  <2>1. /\ Count({"errors", "processed"}) /\ Goto(c, "idle")
        /\ pc[c] \in {"choose", "finish", "judge"}
    BY <1>1 DEF Raise, MayRaise, Return
  <2>2. /\ counters' \in [DOMAIN NoCounts -> Nat]
        /\ \A n \in DOMAIN NoCounts :
             counters'[n] = counters[n] + One(n \in {"errors", "processed"})
    BY <2>1, CountAdds
  <2>3. /\ Settled' = Settled /\ Settled \in Nat
        /\ counters'.predictions = counters.predictions /\ counters.predictions \in Nat
        /\ counters'.errors = counters.errors + 1 /\ counters.errors \in Nat
    BY <2>2 DEF One, Settled, NoCounts
  <2>4. One("idle" \in OnTheWay) = 0 /\ One(pc[c] \in OnTheWay) \in {0, 1}
    BY DEF One, OnTheWay
  <2> QED
    BY <2>1, <2>2, <2>3, <2>4, AccountMove
<1>2. CASE Choose(c)
  <2>1. Count({"predictions"}) /\ Goto(c, "measure") /\ pc[c] = "choose"
    BY <1>2 DEF Choose
  <2>2. One("measure" \in OnTheWay) = 1 /\ One(pc[c] \in OnTheWay) = 0
    BY <2>1 DEF One, OnTheWay
  <2>3. /\ counters' \in [DOMAIN NoCounts -> Nat]
        /\ Settled' = Settled /\ Settled \in Nat
        /\ counters.predictions \in Nat /\ counters'.predictions = counters.predictions + 1
        /\ counters.errors \in Nat /\ counters'.errors = counters.errors
    BY <2>1, CountsOf
  <2> QED
    BY <2>1, <2>2, <2>3, AccountMove
<1>3. CASE Measure(c)
  BY <1>3, AccountStays DEF Measure, OnTheWay
<1>4. CASE LogQuery(c)
  BY <1>4, AccountStays DEF LogQuery, OnTheWay
<1>5. CASE Keep(c) \/ Reject(c)
  <2>1. Count({"kept"}) \/ Count({"rejected"})
    BY <1>5 DEF Keep, Reject
  <2>2. Goto(c, "finish") /\ pc[c] = "judge"
    BY <1>5 DEF Keep, Reject
  <2>3. One("finish" \in OnTheWay) = 0 /\ One(pc[c] \in OnTheWay) = 1
    BY <2>2 DEF One, OnTheWay
  <2>4. EndCounted
    BY <2>1, CountsOf DEF EndCounted
  <2> QED
    BY <2>2, <2>3, <2>4, AccountMove DEF EndCounted
<1>6. CASE Approve(c)
  BY <1>6, AccountStays DEF Approve, OnTheWay
<1>7. CASE Execute(c)
  <2>1. PICK place \in {"persist", "finish"} : Goto(c, place)
    BY <1>7 DEF Execute
  <2>2. Count({"executed"}) \/ Count({"failed"})
    BY <1>7 DEF Execute
  <2>3. pc[c] = "execute"
    BY <1>7 DEF Execute
  <2>4. One(place \in OnTheWay) = 0 /\ One(pc[c] \in OnTheWay) = 1
    BY <2>3 DEF One, OnTheWay
  <2>5. EndCounted
    BY <2>2, CountsOf DEF EndCounted
  <2> QED
    BY <2>1, <2>4, <2>5, AccountMove DEF EndCounted
<1>8. CASE PersistDecision(c)
  BY <1>8, AccountStays DEF PersistDecision, OnTheWay
<1>9. CASE Remeasure(c)
  <2>1. PICK place \in {"feedback", "finish"} : Goto(c, place)
    BY <1>9 DEF Remeasure
  <2> QED
    BY <1>9, <2>1, AccountStays DEF Remeasure, OnTheWay
<1>10. CASE RecordOutcome(c)
  BY <1>10, AccountStays DEF RecordOutcome, OnTheWay
<1>11. CASE RecordReplay(c)
  BY <1>11, AccountStays DEF RecordReplay, OnTheWay
<1>12. CASE OutcomeLost(c)
  BY <1>12, AccountStays DEF OutcomeLost, OnTheWay
<1>13. CASE Finish(c)
  BY <1>13, AccountStays DEF Finish, Return, OnTheWay
<1> QED
  BY <1>1, <1>2, <1>3, <1>4, <1>5, <1>6, <1>7, <1>8, <1>9, <1>10, <1>11, <1>12, <1>13
     DEF QueryStep

(* The places of an operation are none of a query.                         *)
OperationPlaces == {"acquire", "asleep", "run", "regressed", "completed", "failed", "delist"}

LEMMA OperationMoves ==
  ASSUME NEW c \in Clients, OperationStep(c)
  PROVE  /\ pc[c] \in OperationPlaces
         /\ \E place \in OperationPlaces \cup {"idle"} : Goto(c, place)
         /\ UNCHANGED <<counters, rows, executions>>
<1>1. pc[c] \in OperationPlaces
  BY DEF OperationStep, Acquire, WakeUp, RunExecutor, InitiateRollback, CloseOperation,
         Delist, OperationPlaces
<1>2. \E place \in OperationPlaces \cup {"idle"} : Goto(c, place)
  BY DEF OperationStep, Acquire, WakeUp, RunExecutor, InitiateRollback, CloseOperation,
         Delist, Return, OperationPlaces
<1> QED
  BY <1>1, <1>2 DEF OperationStep

LEMMA AccountStep == AccountInv /\ [Next]_vars => AccountInv'
<1> SUFFICES ASSUME AccountInv, [Next]_vars PROVE AccountInv'
  OBVIOUS
<1>1. ASSUME NEW c \in Clients, OperationStep(c) PROVE AccountInv'
  <2>1. PICK place \in OperationPlaces \cup {"idle"} : Goto(c, place)
    BY <1>1, OperationMoves
  <2>2. pc[c] \in OperationPlaces /\ counters' = counters
    BY <1>1, OperationMoves
  <2>3. place \notin OnTheWay /\ pc[c] \notin OnTheWay
    BY <2>1, <2>2 DEF OnTheWay, OperationPlaces
  <2> QED
    BY <2>1, <2>2, <2>3, AccountStays
<1>2. ASSUME NEW c \in Clients, Call(c) PROVE AccountInv'
  <2>1. PICK place \in {"choose", "acquire"} : Goto(c, place)
    BY <1>2 DEF Call, Begin, BeginOperation
  <2>2. pc[c] = "idle" /\ counters' = counters
    BY <1>2 DEF Call, Begin, BeginOperation
  <2> QED
    BY <2>1, <2>2, AccountStays DEF OnTheWay
<1>3. CASE Restart
  <2>1. Undecided' = {}
    BY <1>3 DEF Restart, Undecided
  <2>2. counters' = NoCounts /\ DOMAIN pc' = Clients
    BY <1>3 DEF Restart
  <2>3. /\ NoCounts \in [DOMAIN NoCounts -> Nat]
        /\ Settled' = 0 /\ counters'.predictions = 0 /\ counters'.errors = 0
    BY <2>2 DEF NoCounts, Settled
  <2> QED
    BY <2>1, <2>2, <2>3, FS_EmptySet DEF AccountInv, DecisionsAreAccountedFor
<1>4. CASE Pass \/ UNCHANGED vars
  <2>1. UNCHANGED <<pc, counters>>
    BY <1>4 DEF Pass, vars
  <2> QED
    BY <2>1 DEF AccountInv, DecisionsAreAccountedFor, Undecided, Settled
<1> QED
  BY <1>1, <1>2, <1>3, <1>4, AccountQuery DEF Next

(* Whatever the threads do and whenever the process restarts, every        *)
(* prediction its metrics count comes to one counted end, is on its way,   *)
(* or its query is counted as an error (pipeline.py:259-318).              *)
THEOREM DecisionsAccounted == Spec => []DecisionsAreAccountedFor
<1>1. Init => AccountInv
  <2> SUFFICES ASSUME Init PROVE AccountInv
    OBVIOUS
  <2>1. Undecided = {} /\ DOMAIN pc = Clients /\ counters = NoCounts
    BY DEF Init, SafetyInit, Undecided
  <2>2. /\ NoCounts \in [DOMAIN NoCounts -> Nat]
        /\ Settled = 0 /\ counters.predictions = 0 /\ counters.errors = 0
    BY <2>1 DEF NoCounts, Settled
  <2> QED
    BY <2>1, <2>2, FS_EmptySet DEF AccountInv, DecisionsAreAccountedFor
<1>2. AccountInv => DecisionsAreAccountedFor
  BY DEF AccountInv
<1> QED
  BY <1>1, <1>2, AccountStep, PTL DEF Spec

-----------------------------------------------------------------------------
(* The history in the database.                                            *)

RowKinds == {"logged", "pending", "executed", "replay"}

(* Threads that owe the database a row, or are the reason for one.         *)
Persists(c) == pc[c] = "persist"
Promises(c) == pc[c] \in {"remeasure", "feedback"} /\ job[c].row = "PENDING"
HasLogged(c) ==
  pc[c] \in {"judge", "execute", "persist", "remeasure", "feedback"} /\ job[c].logged = TRUE
Replays(c) == pc[c] = "replay"

Persisting == {c \in Clients : Persists(c)}
Promising == {c \in Clients : Promises(c)}
Logging == {c \in Clients : HasLogged(c)}
Replaying == {c \in Clients : Replays(c)}

(* What the locals of a query say where it is.                             *)
Formed(c) ==
  /\ pc[c] \in {"choose", "measure", "log", "judge", "execute", "persist", "remeasure",
                "feedback"} => {"logged", "row"} \subseteq DOMAIN job[c]
  /\ pc[c] \in {"choose", "measure", "log", "judge", "execute", "persist"} =>
       job[c].row = "none"
  /\ pc[c] = "feedback" => HasLogged(c) /\ Promises(c)

ThreadsInv ==
  /\ DOMAIN pc = Clients /\ DOMAIN job = Clients
  /\ \A c \in Clients : Formed(c)

(* Every executed decision is at most one row, counting those to come; a   *)
(* PENDING row is there for whoever will set its status, and so are a row  *)
(* of the log and an EXECUTED one for whoever builds on them.              *)
RowsInv ==
  /\ rows \in [RowKinds -> Nat] /\ executions \in Nat
  /\ IsFiniteSet(Persisting) /\ IsFiniteSet(Promising)
  /\ IsFiniteSet(Logging) /\ IsFiniteSet(Replaying)
  /\ rows.pending + rows.executed + Cardinality(Persisting) <= executions
  /\ Cardinality(Promising) <= rows.pending
  /\ rows.executed + Cardinality(Logging) <= rows.logged
  /\ rows.replay + Cardinality(Replaying) <= rows.executed

GroundedInv == ThreadsInv /\ RowsInv

(* A step of one thread that pays for what it takes.                       *)
LEMMA RowsMove ==
  ASSUME ThreadsInv, RowsInv, NEW c \in Clients,
         \A d \in Clients : d # c => pc'[d] = pc[d] /\ job'[d] = job[d],
         rows' \in [RowKinds -> Int], executions' \in Nat,
         (rows'.pending - rows.pending) + (rows'.executed - rows.executed)
           + One(Persists(c)') - One(Persists(c)) <= executions' - executions,
         One(Promises(c)') - One(Promises(c)) <= rows'.pending - rows.pending,
         (rows'.executed - rows.executed) + One(HasLogged(c)') - One(HasLogged(c))
           <= rows'.logged - rows.logged,
         (rows'.replay - rows.replay) + One(Replays(c)') - One(Replays(c))
           <= rows'.executed - rows.executed,
         rows'.replay \in Nat
  PROVE  RowsInv'
<1>1. /\ Persisting' \ {c} = Persisting \ {c}
      /\ Promising' \ {c} = Promising \ {c}
      /\ Logging' \ {c} = Logging \ {c}
      /\ Replaying' \ {c} = Replaying \ {c}
  BY DEF Persisting, Persists, Promising, Promises, Logging, HasLogged, Replaying, Replays
<1>2. /\ IsFiniteSet(Persisting')
      /\ Cardinality(Persisting) \in Nat /\ Cardinality(Persisting') \in Nat
      /\ Cardinality(Persisting')
           = Cardinality(Persisting) + One(Persists(c)') - One(Persists(c))
  <2>1. /\ IsFiniteSet(Persisting')
        /\ Cardinality(Persisting) \in Nat /\ Cardinality(Persisting') \in Nat
        /\ Cardinality(Persisting') = Cardinality(Persisting)
             + One(c \in Persisting') - One(c \in Persisting)
    BY <1>1, MovedBy DEF RowsInv
  <2>2. (c \in Persisting' <=> Persists(c)') /\ (c \in Persisting <=> Persists(c))
    BY DEF Persisting
  <2> QED
    BY <2>1, <2>2 DEF One
<1>3. /\ IsFiniteSet(Promising')
      /\ Cardinality(Promising) \in Nat /\ Cardinality(Promising') \in Nat
      /\ Cardinality(Promising')
           = Cardinality(Promising) + One(Promises(c)') - One(Promises(c))
  <2>1. /\ IsFiniteSet(Promising')
        /\ Cardinality(Promising) \in Nat /\ Cardinality(Promising') \in Nat
        /\ Cardinality(Promising') = Cardinality(Promising)
             + One(c \in Promising') - One(c \in Promising)
    BY <1>1, MovedBy DEF RowsInv
  <2>2. (c \in Promising' <=> Promises(c)') /\ (c \in Promising <=> Promises(c))
    BY DEF Promising
  <2> QED
    BY <2>1, <2>2 DEF One
<1>4. /\ IsFiniteSet(Logging')
      /\ Cardinality(Logging) \in Nat /\ Cardinality(Logging') \in Nat
      /\ Cardinality(Logging')
           = Cardinality(Logging) + One(HasLogged(c)') - One(HasLogged(c))
  <2>1. /\ IsFiniteSet(Logging')
        /\ Cardinality(Logging) \in Nat /\ Cardinality(Logging') \in Nat
        /\ Cardinality(Logging') = Cardinality(Logging)
             + One(c \in Logging') - One(c \in Logging)
    BY <1>1, MovedBy DEF RowsInv
  <2>2. (c \in Logging' <=> HasLogged(c)') /\ (c \in Logging <=> HasLogged(c))
    BY DEF Logging
  <2> QED
    BY <2>1, <2>2 DEF One
<1>5. /\ IsFiniteSet(Replaying')
      /\ Cardinality(Replaying) \in Nat /\ Cardinality(Replaying') \in Nat
      /\ Cardinality(Replaying')
           = Cardinality(Replaying) + One(Replays(c)') - One(Replays(c))
  <2>1. /\ IsFiniteSet(Replaying')
        /\ Cardinality(Replaying) \in Nat /\ Cardinality(Replaying') \in Nat
        /\ Cardinality(Replaying') = Cardinality(Replaying)
             + One(c \in Replaying') - One(c \in Replaying)
    BY <1>1, MovedBy DEF RowsInv
  <2>2. (c \in Replaying' <=> Replays(c)') /\ (c \in Replaying <=> Replays(c))
    BY DEF Replaying
  <2> QED
    BY <2>1, <2>2 DEF One
<1>6. /\ rows.pending \in Nat /\ rows.executed \in Nat /\ rows.logged \in Nat
      /\ rows.replay \in Nat /\ executions \in Nat
      /\ rows'.pending \in Int /\ rows'.executed \in Int /\ rows'.logged \in Int
      /\ rows'.replay \in Int
  BY DEF RowsInv, RowKinds
<1>7. /\ One(Persists(c)') \in {0, 1} /\ One(Persists(c)) \in {0, 1}
      /\ One(Promises(c)') \in {0, 1} /\ One(Promises(c)) \in {0, 1}
      /\ One(HasLogged(c)') \in {0, 1} /\ One(HasLogged(c)) \in {0, 1}
      /\ One(Replays(c)') \in {0, 1} /\ One(Replays(c)) \in {0, 1}
  BY DEF One
<1>8. /\ rows'.pending + rows'.executed + Cardinality(Persisting') <= executions'
      /\ Cardinality(Promising') <= rows'.pending
      /\ rows'.executed + Cardinality(Logging') <= rows'.logged
      /\ rows'.replay + Cardinality(Replaying') <= rows'.executed
  <2>1. /\ rows.pending + rows.executed + Cardinality(Persisting) <= executions
        /\ Cardinality(Promising) <= rows.pending
        /\ rows.executed + Cardinality(Logging) <= rows.logged
        /\ rows.replay + Cardinality(Replaying) <= rows.executed
    BY DEF RowsInv
  <2>2. rows'.pending + rows'.executed + Cardinality(Persisting') <= executions'
    BY <1>2, <1>6, <1>7, <2>1
  <2>3. Cardinality(Promising') <= rows'.pending
    BY <1>3, <1>6, <1>7, <2>1
  <2>4. rows'.executed + Cardinality(Logging') <= rows'.logged
    BY <1>4, <1>6, <1>7, <2>1
  <2>5. rows'.replay + Cardinality(Replaying') <= rows'.executed
    BY <1>5, <1>6, <1>7, <2>1
  <2> QED
    BY <2>2, <2>3, <2>4, <2>5
<1>9. rows' \in [RowKinds -> Nat]
  <2>1. /\ rows'.pending \in Nat /\ rows'.executed \in Nat /\ rows'.logged \in Nat
        /\ rows'.replay \in Nat
    BY <1>2, <1>3, <1>4, <1>5, <1>6, <1>8
  <2> QED
    BY <2>1 DEF RowKinds
<1> QED
  BY <1>2, <1>3, <1>4, <1>5, <1>8, <1>9 DEF RowsInv

(* A thread that takes on nothing, of which nothing is written.            *)
LEMMA RowsStay ==
  ASSUME ThreadsInv, RowsInv, NEW c \in Clients,
         \A d \in Clients : d # c => pc'[d] = pc[d] /\ job'[d] = job[d],
         UNCHANGED <<rows, executions>>,
         Persists(c)' => Persists(c), Promises(c)' => Promises(c),
         HasLogged(c)' => HasLogged(c), Replays(c)' => Replays(c)
  PROVE  RowsInv'
<1>1. /\ One(Persists(c)') \in Int /\ One(Persists(c)) \in Int
      /\ One(Persists(c)') <= One(Persists(c))
      /\ One(Promises(c)') \in Int /\ One(Promises(c)) \in Int
      /\ One(Promises(c)') <= One(Promises(c))
      /\ One(HasLogged(c)') \in Int /\ One(HasLogged(c)) \in Int
      /\ One(HasLogged(c)') <= One(HasLogged(c))
      /\ One(Replays(c)') \in Int /\ One(Replays(c)) \in Int
      /\ One(Replays(c)') <= One(Replays(c))
  BY DEF One
<1>2. /\ rows' \in [RowKinds -> Int] /\ executions' \in Nat
      /\ rows.pending \in Nat /\ rows.executed \in Nat /\ rows.logged \in Nat
      /\ rows.replay \in Nat
      /\ rows' = rows /\ executions' = executions
  BY DEF RowsInv, RowKinds
<1> QED
  BY <1>1, <1>2, RowsMove

(* A step of a query changes the place and the locals of its thread only.  *)
LEMMA QueryMovesOne ==
  ASSUME DOMAIN pc = Clients, DOMAIN job = Clients, NEW c \in Clients, QueryStep(c)
  PROVE  /\ DOMAIN pc' = Clients /\ DOMAIN job' = Clients
         /\ \A d \in Clients : d # c => pc'[d] = pc[d] /\ job'[d] = job[d]
<1>1. \E place : pc' = [pc EXCEPT ![c] = place]
  BY DEF QueryStep, Raise, Choose, Measure, LogQuery, Keep, Reject, Approve, Execute,
         PersistDecision, Remeasure, RecordOutcome, RecordReplay, OutcomeLost, Finish, Goto,
         Return
<1>2. UNCHANGED job \/ \E value : job' = [job EXCEPT ![c] = value]
  BY DEF QueryStep, Raise, Choose, Measure, LogQuery, Keep, Reject, Approve, Execute,
         PersistDecision, Remeasure, RecordOutcome, RecordReplay, OutcomeLost, Finish, Return
<1> QED
  BY <1>1, <1>2

LEMMA OperationMovesOne ==
  ASSUME DOMAIN pc = Clients, DOMAIN job = Clients, NEW c \in Clients,
         OperationStep(c) \/ Call(c)
  PROVE  /\ DOMAIN pc' = Clients /\ DOMAIN job' = Clients
         /\ \A d \in Clients : d # c => pc'[d] = pc[d] /\ job'[d] = job[d]
<1>1. \E place : pc' = [pc EXCEPT ![c] = place]
  BY DEF OperationStep, Acquire, WakeUp, RunExecutor, InitiateRollback, CloseOperation,
         Delist, Return, Goto, Call, Begin, BeginOperation
<1>2. UNCHANGED job \/ \E value : job' = [job EXCEPT ![c] = value]
  BY DEF OperationStep, Acquire, WakeUp, RunExecutor, InitiateRollback, CloseOperation,
         Delist, Return, Call, Begin, BeginOperation
<1> QED
  BY <1>1, <1>2

LEMMA QueryKeepsForm ==
  ASSUME ThreadsInv, NEW c \in Clients, QueryStep(c)
  PROVE  ThreadsInv'
<1>1. /\ DOMAIN pc' = Clients /\ DOMAIN job' = Clients
      /\ \A d \in Clients : d # c => pc'[d] = pc[d] /\ job'[d] = job[d]
  BY QueryMovesOne DEF ThreadsInv
<1>2. \A d \in Clients : d # c => Formed(d)'
  BY <1>1 DEF ThreadsInv, Formed, HasLogged, Promises
<1>3. Formed(c)'
  <2> USE DEF ThreadsInv, Formed, HasLogged, Promises
  <2>1. CASE Choose(c) \/ Measure(c) \/ LogQuery(c)
    BY <2>1 DEF Choose, Measure, LogQuery, Goto
  <2>2. CASE Raise(c) \/ Keep(c) \/ Reject(c) \/ RecordReplay(c) \/ OutcomeLost(c) \/ Finish(c)
    BY <2>2 DEF Raise, Keep, Reject, RecordReplay, OutcomeLost, Finish, Return, Goto
  <2>3. CASE Approve(c) \/ Execute(c)
    BY <2>3 DEF Approve, Execute, Goto
  <2>4. CASE PersistDecision(c)
    BY <2>4 DEF PersistDecision, Goto
  <2>5. CASE Remeasure(c)
    BY <2>5 DEF Remeasure, Goto
  <2>6. CASE RecordOutcome(c)
    BY <2>6 DEF RecordOutcome, Goto
  <2> QED
    BY <2>1, <2>2, <2>3, <2>4, <2>5, <2>6 DEF QueryStep
<1> QED
  BY <1>1, <1>2, <1>3 DEF ThreadsInv

(* The log row is committed before anything is built on it.                *)
LEMMA LogQueryGrounded ==
  ASSUME GroundedInv, NEW c \in Clients, LogQuery(c) PROVE RowsInv'
<1>1. \A d \in Clients : d # c => pc'[d] = pc[d] /\ job'[d] = job[d]
  BY QueryMovesOne DEF GroundedInv, ThreadsInv, QueryStep
<1>2. PICK written \in BOOLEAN, logged \in BOOLEAN :
        /\ logged => written
        /\ job' = [job EXCEPT ![c].logged = logged]
        /\ rows' = IF written THEN [rows EXCEPT !.logged = @ + 1] ELSE rows
  BY DEF LogQuery
<1>3. /\ pc[c] = "log" /\ pc'[c] = "judge" /\ job'[c].logged = logged
      /\ executions' = executions
  BY <1>2 DEF LogQuery, Goto, GroundedInv, ThreadsInv, Formed
<1>4. /\ ~Persists(c) /\ ~Persists(c)' /\ ~Promises(c) /\ ~Promises(c)'
      /\ ~Replays(c) /\ ~Replays(c)' /\ ~HasLogged(c)
      /\ HasLogged(c)' <=> logged
  BY <1>3 DEF Persists, Promises, Replays, HasLogged
<1>5. /\ rows \in [RowKinds -> Nat] /\ rows' \in [RowKinds -> Int] /\ executions \in Nat
      /\ rows'.pending = rows.pending /\ rows'.executed = rows.executed
      /\ rows'.replay = rows.replay /\ rows.replay \in Nat
      /\ rows'.logged = rows.logged + One(written)
      /\ rows.pending \in Nat /\ rows.executed \in Nat /\ rows.logged \in Nat
  BY <1>2 DEF GroundedInv, RowsInv, RowKinds, One
<1>6. /\ One(Persists(c)) = 0 /\ One(Persists(c)') = 0
      /\ One(Promises(c)) = 0 /\ One(Promises(c)') = 0
      /\ One(Replays(c)) = 0 /\ One(Replays(c)') = 0
      /\ One(HasLogged(c)) = 0 /\ One(HasLogged(c)') = One(logged)
  BY <1>4 DEF One
<1>7. One(logged) \in {0, 1} /\ One(written) \in {0, 1} /\ One(logged) <= One(written)
  BY <1>2 DEF One
<1> QED
  BY <1>1, <1>3, <1>5, <1>6, <1>7, RowsMove DEF GroundedInv

LEMMA ExecuteGrounded ==
  ASSUME GroundedInv, NEW c \in Clients, Execute(c) PROVE RowsInv'
<1>1. \A d \in Clients : d # c => pc'[d] = pc[d] /\ job'[d] = job[d]
  BY QueryMovesOne DEF GroundedInv, ThreadsInv, QueryStep
<1>2. pc[c] = "execute" /\ UNCHANGED <<job, rows>>
  BY DEF Execute
<1>3. CASE executions' = executions + 1 /\ Goto(c, "persist")
  <2>1. pc'[c] = "persist"
    BY <1>3 DEF Goto, GroundedInv, ThreadsInv
  <2>2. /\ One(Persists(c)) = 0 /\ One(Persists(c)') = 1
        /\ One(Promises(c)) = 0 /\ One(Promises(c)') = 0
        /\ One(Replays(c)) = 0 /\ One(Replays(c)') = 0
        /\ One(HasLogged(c)) \in {0, 1} /\ One(HasLogged(c)') = One(HasLogged(c))
    BY <1>2, <2>1 DEF One, Persists, Promises, Replays, HasLogged
  <2>3. /\ rows' \in [RowKinds -> Int] /\ executions \in Nat /\ executions' = executions + 1
        /\ rows.pending \in Nat /\ rows.executed \in Nat /\ rows.logged \in Nat
        /\ rows.replay \in Nat /\ rows' = rows
    BY <1>2, <1>3 DEF GroundedInv, RowsInv, RowKinds
  <2> QED
    BY <1>1, <2>2, <2>3, RowsMove DEF GroundedInv
<1>4. CASE executions' = executions /\ Goto(c, "finish")
  <2>1. pc'[c] = "finish"
    BY <1>4 DEF Goto, GroundedInv, ThreadsInv
  <2> QED
    BY <1>1, <1>2, <1>4, <2>1, RowsStay
       DEF GroundedInv, Persists, Promises, Replays, HasLogged
<1> QED
  BY <1>3, <1>4 DEF Execute

LEMMA PersistGrounded ==
  ASSUME GroundedInv, NEW c \in Clients, PersistDecision(c) PROVE RowsInv'
<1>1. \A d \in Clients : d # c => pc'[d] = pc[d] /\ job'[d] = job[d]
  BY QueryMovesOne DEF GroundedInv, ThreadsInv, QueryStep
<1>2. /\ pc[c] = "persist" /\ pc'[c] = "remeasure" /\ executions' = executions
      /\ {"logged", "row"} \subseteq DOMAIN job[c] /\ job[c].row = "none"
      /\ DOMAIN job = Clients
  BY DEF PersistDecision, Goto, GroundedInv, ThreadsInv, Formed
<1>3. CASE rows' = [rows EXCEPT !.pending = @ + 1] /\ job' = [job EXCEPT ![c].row = "PENDING"]
  <2>1. job'[c].row = "PENDING" /\ job'[c].logged = job[c].logged
    BY <1>2, <1>3
  <2>2. /\ One(Persists(c)) = 1 /\ One(Persists(c)') = 0
        /\ One(Promises(c)) = 0 /\ One(Promises(c)') = 1
        /\ One(Replays(c)) = 0 /\ One(Replays(c)') = 0
        /\ One(HasLogged(c)) \in {0, 1} /\ One(HasLogged(c)') = One(HasLogged(c))
    BY <1>2, <2>1 DEF One, Persists, Promises, Replays, HasLogged
  <2>3. /\ rows' \in [RowKinds -> Int] /\ executions \in Nat /\ executions' = executions
        /\ rows.pending \in Nat /\ rows.executed \in Nat /\ rows.logged \in Nat
        /\ rows.replay \in Nat
        /\ rows'.pending = rows.pending + 1 /\ rows'.executed = rows.executed
        /\ rows'.logged = rows.logged /\ rows'.replay = rows.replay
    BY <1>2, <1>3 DEF GroundedInv, RowsInv, RowKinds
  <2> QED
    BY <1>1, <2>2, <2>3, RowsMove DEF GroundedInv
<1>4. CASE rows' = [rows EXCEPT !.pending = @ + 1] /\ UNCHANGED job
  <2>1. /\ One(Persists(c)) = 1 /\ One(Persists(c)') = 0
        /\ One(Promises(c)) = 0 /\ One(Promises(c)') = 0
        /\ One(Replays(c)) = 0 /\ One(Replays(c)') = 0
        /\ One(HasLogged(c)) \in {0, 1} /\ One(HasLogged(c)') = One(HasLogged(c))
    BY <1>2, <1>4 DEF One, Persists, Promises, Replays, HasLogged
  <2>2. /\ rows' \in [RowKinds -> Int] /\ executions \in Nat /\ executions' = executions
        /\ rows.pending \in Nat /\ rows.executed \in Nat /\ rows.logged \in Nat
        /\ rows.replay \in Nat
        /\ rows'.pending = rows.pending + 1 /\ rows'.executed = rows.executed
        /\ rows'.logged = rows.logged /\ rows'.replay = rows.replay
    BY <1>2, <1>4 DEF GroundedInv, RowsInv, RowKinds
  <2> QED
    BY <1>1, <2>1, <2>2, RowsMove DEF GroundedInv
<1>5. CASE UNCHANGED <<rows, job>>
  BY <1>1, <1>2, <1>5, RowsStay DEF GroundedInv, Persists, Promises, Replays, HasLogged
<1> QED
  BY <1>3, <1>4, <1>5 DEF PersistDecision

(* The status moves a row from PENDING to EXECUTED; its query is logged.   *)
LEMMA OutcomeGrounded ==
  ASSUME GroundedInv, NEW c \in Clients, RecordOutcome(c) PROVE RowsInv'
<1>1. \A d \in Clients : d # c => pc'[d] = pc[d] /\ job'[d] = job[d]
  BY QueryMovesOne DEF GroundedInv, ThreadsInv, QueryStep
<1>2. /\ pc[c] = "feedback" /\ pc'[c] = "replay" /\ executions' = executions
      /\ HasLogged(c) /\ Promises(c)
      /\ rows' = [rows EXCEPT !.pending = @ - 1, !.executed = @ + 1]
  BY DEF RecordOutcome, Goto, GroundedInv, ThreadsInv, Formed
<1>3. /\ One(Persists(c)) = 0 /\ One(Persists(c)') = 0
      /\ One(Promises(c)) = 1 /\ One(Promises(c)') = 0
      /\ One(Replays(c)) = 0 /\ One(Replays(c)') = 1
      /\ One(HasLogged(c)) = 1 /\ One(HasLogged(c)') = 0
  BY <1>2 DEF One, Persists, Promises, Replays, HasLogged
<1>4. /\ rows \in [RowKinds -> Nat] /\ executions \in Nat
      /\ rows.pending \in Nat /\ rows.executed \in Nat /\ rows.logged \in Nat
      /\ rows.replay \in Nat
  BY DEF GroundedInv, RowsInv, RowKinds
<1>5. rows' = [rows EXCEPT !.pending = rows.pending - 1, !.executed = rows.executed + 1]
  BY <1>2, Zenon
<1>6. /\ rows'.pending = rows.pending - 1 /\ rows'.executed = rows.executed + 1
      /\ rows'.logged = rows.logged /\ rows'.replay = rows.replay
  BY <1>4, <1>5 DEF RowKinds
<1>7. rows' \in [RowKinds -> Int]
  <2>1. rows.pending - 1 \in Int /\ rows.executed + 1 \in Int /\ rows \in [RowKinds -> Int]
    BY <1>4
  <2> QED
    BY <1>5, <2>1
<1>8. executions' = executions /\ executions' \in Nat /\ rows'.replay \in Nat
  BY <1>2, <1>4, <1>6, Zenon
<1>9. /\ (rows'.pending - rows.pending) + (rows'.executed - rows.executed)
           + One(Persists(c)') - One(Persists(c)) <= executions' - executions
      /\ One(Promises(c)') - One(Promises(c)) <= rows'.pending - rows.pending
      /\ (rows'.executed - rows.executed) + One(HasLogged(c)') - One(HasLogged(c))
           <= rows'.logged - rows.logged
      /\ (rows'.replay - rows.replay) + One(Replays(c)') - One(Replays(c))
           <= rows'.executed - rows.executed
  BY <1>3, <1>4, <1>6, <1>8
<1> QED
  BY <1>1, <1>7, <1>8, <1>9, RowsMove DEF GroundedInv

LEMMA ReplayGrounded ==
  ASSUME GroundedInv, NEW c \in Clients, RecordReplay(c) PROVE RowsInv'
<1>1. \A d \in Clients : d # c => pc'[d] = pc[d] /\ job'[d] = job[d]
  BY QueryMovesOne DEF GroundedInv, ThreadsInv, QueryStep
<1>2. /\ pc[c] = "replay" /\ pc'[c] = "finish" /\ executions' = executions
      /\ rows' = rows \/ rows' = [rows EXCEPT !.replay = @ + 1]
  BY DEF RecordReplay, Goto, GroundedInv, ThreadsInv
<1>3. /\ One(Persists(c)) = 0 /\ One(Persists(c)') = 0
      /\ One(Promises(c)) = 0 /\ One(Promises(c)') = 0
      /\ One(Replays(c)) = 1 /\ One(Replays(c)') = 0
      /\ One(HasLogged(c)) = 0 /\ One(HasLogged(c)') = 0
  BY <1>2 DEF One, Persists, Promises, Replays, HasLogged
<1>4. /\ rows \in [RowKinds -> Nat] /\ executions \in Nat
      /\ rows.pending \in Nat /\ rows.executed \in Nat /\ rows.logged \in Nat
      /\ rows.replay \in Nat
  BY DEF GroundedInv, RowsInv, RowKinds
<1>5. /\ rows' \in [RowKinds -> Int] /\ rows'.replay \in Nat
      /\ rows'.pending = rows.pending /\ rows'.executed = rows.executed
      /\ rows'.logged = rows.logged /\ rows'.replay - rows.replay \in {0, 1}
  <2>1. CASE rows' = rows
    BY <1>4, <2>1
  <2>2. CASE rows' = [rows EXCEPT !.replay = @ + 1]
    BY <1>4, <2>2 DEF RowKinds
  <2> QED
    BY <1>2, <2>1, <2>2
<1> QED
  BY <1>1, <1>2, <1>3, <1>4, <1>5, RowsMove DEF GroundedInv

LEMMA QueryGrounded ==
  ASSUME GroundedInv, NEW c \in Clients, QueryStep(c) PROVE RowsInv'
<1>1. \A d \in Clients : d # c => pc'[d] = pc[d] /\ job'[d] = job[d]
  BY QueryMovesOne DEF GroundedInv, ThreadsInv
<1> USE DEF Persists, Promises, Replays, HasLogged
<1>2. ASSUME Raise(c) \/ Keep(c) \/ Reject(c) \/ OutcomeLost(c) \/ Finish(c) PROVE RowsInv'
  <2>1. pc'[c] \in {"idle", "finish"} /\ UNCHANGED <<rows, executions>>
    BY <1>2 DEF Raise, Keep, Reject, OutcomeLost, Finish, Return, Goto, GroundedInv, ThreadsInv
  <2> QED
    BY <1>1, <2>1, RowsStay DEF GroundedInv
<1>3. ASSUME Choose(c) \/ Measure(c) PROVE RowsInv'
  <2>1. pc'[c] \in {"measure", "log"} /\ UNCHANGED <<rows, executions>>
    BY <1>3 DEF Choose, Measure, Goto, GroundedInv, ThreadsInv
  <2> QED
    BY <1>1, <2>1, RowsStay DEF GroundedInv
<1>4. ASSUME Approve(c) PROVE RowsInv'
  <2>1. pc[c] = "judge" /\ pc'[c] = "execute" /\ UNCHANGED <<job, rows, executions>>
    BY <1>4 DEF Approve, Goto, GroundedInv, ThreadsInv
  <2> QED
    BY <1>1, <2>1, RowsStay DEF GroundedInv
<1>5. ASSUME Remeasure(c) PROVE RowsInv'
  <2>1. /\ pc[c] = "remeasure" /\ pc'[c] \in {"feedback", "finish"}
        /\ job'[c].row = job[c].row /\ job'[c].logged = job[c].logged
        /\ UNCHANGED <<rows, executions>>
    BY <1>5 DEF Remeasure, Goto, GroundedInv, ThreadsInv, Formed
  <2> QED
    BY <1>1, <2>1, RowsStay DEF GroundedInv
<1> QED
  BY <1>2, <1>3, <1>4, <1>5, LogQueryGrounded, ExecuteGrounded, PersistGrounded,
     OutcomeGrounded, ReplayGrounded DEF QueryStep

(* An operation has nothing to do with the rows.                           *)
LEMMA OperationGrounded ==
  ASSUME GroundedInv, NEW c \in Clients, OperationStep(c) \/ Call(c) PROVE GroundedInv'
<1>1. /\ DOMAIN pc' = Clients /\ DOMAIN job' = Clients
      /\ \A d \in Clients : d # c => pc'[d] = pc[d] /\ job'[d] = job[d]
      /\ UNCHANGED <<rows, executions>>
  BY OperationMovesOne DEF GroundedInv, ThreadsInv, OperationStep, Call, Begin
<1>2. \/ pc'[c] \in OperationPlaces \cup {"idle"}
      \/ /\ pc'[c] = "choose" /\ job'[c].row = "none"
         /\ {"logged", "row"} \subseteq DOMAIN job'[c]
  <2>1. CASE OperationStep(c)
    BY <2>1, OperationMoves DEF Goto, GroundedInv, ThreadsInv
  <2>2. ASSUME NEW query, Begin(c, query)
        PROVE  /\ pc'[c] = "choose" /\ job'[c].row = "none"
               /\ {"logged", "row"} \subseteq DOMAIN job'[c]
    BY <2>2 DEF Begin, Goto, GroundedInv, ThreadsInv
  <2>3. ASSUME NEW decision, NEW regressed, BeginOperation(c, decision, regressed)
        PROVE  pc'[c] \in OperationPlaces
    BY <2>3 DEF BeginOperation, Goto, GroundedInv, ThreadsInv, OperationPlaces
  <2> QED
    BY <2>1, <2>2, <2>3 DEF Call
<1>3. Formed(c)'
  BY <1>2 DEF Formed, OperationPlaces
<1>4. \A d \in Clients : d # c => Formed(d)'
  BY <1>1 DEF GroundedInv, ThreadsInv, Formed, HasLogged, Promises
<1>5. ~Persists(c)' /\ ~Promises(c)' /\ ~HasLogged(c)' /\ ~Replays(c)'
  BY <1>2 DEF Persists, Promises, Replays, HasLogged, OperationPlaces
<1>6. RowsInv'
  BY <1>1, <1>5, RowsStay DEF GroundedInv
<1> QED
  BY <1>1, <1>3, <1>4, <1>6 DEF GroundedInv, ThreadsInv

LEMMA NoThreads ==
  ASSUME \A c \in Clients : pc[c] = "idle"
  PROVE  Persisting = {} /\ Promising = {} /\ Logging = {} /\ Replaying = {}
BY DEF Persisting, Promising, Logging, Replaying, Persists, Promises, HasLogged, Replays

(* A restart ends every thread: what was owed stays unwritten.             *)
LEMMA RestartGrounded == GroundedInv /\ Restart => GroundedInv'
<1> SUFFICES ASSUME GroundedInv, Restart PROVE GroundedInv'
  OBVIOUS
<1>1. /\ DOMAIN pc' = Clients /\ DOMAIN job' = Clients
      /\ \A c \in Clients : pc'[c] = "idle"
      /\ UNCHANGED <<rows, executions>>
  BY DEF Restart
<1>2. Persisting' = {} /\ Promising' = {} /\ Logging' = {} /\ Replaying' = {}
  BY <1>1 DEF Persisting, Promising, Logging, Replaying, Persists, Promises, HasLogged, Replays
<1>3. \A c \in Clients : Formed(c)'
  BY <1>1 DEF Formed
<1>4. /\ IsFiniteSet({}) /\ Cardinality({}) = 0
      /\ Cardinality(Persisting) \in Nat /\ Cardinality(Logging) \in Nat
      /\ Cardinality(Replaying) \in Nat
      /\ rows.pending \in Nat /\ rows.executed \in Nat /\ rows.logged \in Nat
      /\ rows.replay \in Nat
  BY FS_EmptySet, FS_CardinalityType DEF GroundedInv, RowsInv, RowKinds
<1>5. RowsInv'
  BY <1>1, <1>2, <1>4 DEF GroundedInv, RowsInv
<1> QED
  BY <1>1, <1>3, <1>5 DEF GroundedInv, ThreadsInv

LEMMA GroundedStep == GroundedInv /\ [Next]_vars => GroundedInv'
<1> SUFFICES ASSUME GroundedInv, [Next]_vars PROVE GroundedInv'
  OBVIOUS
<1>1. ASSUME NEW c \in Clients, QueryStep(c) PROVE GroundedInv'
  BY <1>1, QueryKeepsForm, QueryGrounded DEF GroundedInv
<1>2. CASE Pass \/ UNCHANGED vars
  <2>1. UNCHANGED <<pc, job, rows, executions>>
    BY <1>2 DEF Pass, vars
  <2> QED
    BY <2>1 DEF GroundedInv, ThreadsInv, Formed, RowsInv, Persisting, Promising, Logging,
                Replaying, Persists, Promises, HasLogged, Replays
<1> QED
  BY <1>1, <1>2, OperationGrounded, RestartGrounded DEF Next

(* Whatever commits fail and wherever a process dies, the rows claim no    *)
(* more than happened: a decision row was executed, an EXECUTED one is of  *)
(* a logged query, a replay row of an EXECUTED decision (feedback.py:      *)
(* 17-35, pipeline.py:342).                                                *)
THEOREM HistoryGrounded == Spec => []HistoryIsGrounded
<1>1. Init => GroundedInv
  <2> SUFFICES ASSUME Init PROVE GroundedInv
    OBVIOUS
  <2>1. /\ DOMAIN pc = Clients /\ DOMAIN job = Clients
        /\ \A c \in Clients : pc[c] = "idle"
        /\ rows = [logged |-> 0, pending |-> 0, executed |-> 0, replay |-> 0]
        /\ executions = 0
    BY DEF Init, SafetyInit
  <2>2. \A c \in Clients : Formed(c)
    BY <2>1 DEF Formed
  <2>3. Persisting = {} /\ Promising = {} /\ Logging = {} /\ Replaying = {}
    BY <2>1, NoThreads
  <2>4. IsFiniteSet({}) /\ Cardinality({}) = 0
    BY FS_EmptySet
  <2>5. RowsInv
    BY <2>1, <2>3, <2>4 DEF RowsInv, RowKinds
  <2> QED
    BY <2>1, <2>2, <2>5 DEF GroundedInv, ThreadsInv
<1>2. GroundedInv => HistoryIsGrounded
  <2> SUFFICES ASSUME GroundedInv PROVE HistoryIsGrounded
    OBVIOUS
  <2>1. /\ Cardinality(Persisting) \in Nat /\ Cardinality(Logging) \in Nat
        /\ Cardinality(Replaying) \in Nat
        /\ rows.pending \in Nat /\ rows.executed \in Nat /\ rows.logged \in Nat
        /\ rows.replay \in Nat /\ executions \in Nat
    BY FS_CardinalityType DEF GroundedInv, RowsInv, RowKinds
  <2> QED
    BY <2>1 DEF GroundedInv, RowsInv, HistoryIsGrounded
<1> QED
  BY <1>1, <1>2, GroundedStep, PTL DEF Spec
-----------------------------------------------------------------------------
(* Indexes of the same columns.                                            *)

(* Where a decision is on its way to the executor, its columns are a list  *)
(* that this process makes.                                                *)
DecisionPlaces == {"choose", "measure", "log", "judge", "execute", "acquire", "asleep", "run"}
Carries(c) ==
  pc[c] \in DecisionPlaces =>
    /\ "decision" \in DOMAIN job[c]
    /\ "columns" \in DOMAIN job[c].decision
    /\ job[c].decision.columns \in order \cup {<<>>}

CarriersInv == DOMAIN pc = Clients /\ DOMAIN job = Clients /\ \A c \in Clients : Carries(c)

(* Indexes whose list is no list of this process: earlier ones left them.  *)
Inherited(table, columns) == {i \in Alike(table, columns) : i.columns \notin order}

(* Each restart adds at most one index to the inherited ones: outside      *)
(* collided, a process has one list for a set of columns.                  *)
IndexesInv ==
  /\ IsFiniteSet(indexes) /\ restarts \in Nat
  /\ \A i \in indexes : i = [table |-> i.table, columns |-> i.columns]
  /\ \A k, l \in order : k # l /\ ToSet(k) = ToSet(l) => ToSet(k) \in collided
  /\ \A table \in Tables, columns \in (SUBSET Columns) \ collided :
       Cardinality(Inherited(table, columns)) <= restarts

OneIndexInv == CarriersInv /\ IndexesInv

LEMMA InheritedAndOwn ==
  ASSUME IndexesInv, NEW table \in Tables, NEW columns \in (SUBSET Columns) \ collided
  PROVE  /\ IsFiniteSet(Alike(table, columns))
         /\ Cardinality(Alike(table, columns)) \in Nat
         /\ Cardinality(Alike(table, columns)) <= restarts + 1
<1>1. IsFiniteSet(Alike(table, columns))
  <2>1. Alike(table, columns) \in SUBSET indexes
    BY DEF Alike
  <2> QED
    BY <2>1, FS_Subset DEF IndexesInv
<1>2. /\ IsFiniteSet(Inherited(table, columns))
      /\ Cardinality(Inherited(table, columns)) \in Nat
  <2>1. Inherited(table, columns) \in SUBSET Alike(table, columns)
    BY DEF Inherited
  <2>2. IsFiniteSet(Inherited(table, columns))
    BY <1>1, <2>1, FS_Subset
  <2> QED
    BY <2>2, FS_CardinalityType
<1>3. Cardinality(Alike(table, columns)) \in Nat
  BY <1>1, FS_CardinalityType
<1>4. Cardinality(Inherited(table, columns)) <= restarts /\ restarts \in Nat
  BY DEF IndexesInv
<1>5. ASSUME NEW i \in Alike(table, columns) \ Inherited(table, columns),
             NEW j \in Alike(table, columns) \ Inherited(table, columns)
      PROVE  i = j
  <2>1. i.columns \in order /\ j.columns \in order
    BY DEF Inherited
  <2>2. i.columns = j.columns
    <3>1. ToSet(i.columns) = columns /\ ToSet(j.columns) = columns
      BY DEF Alike
    <3>2. \A k, l \in order : k # l /\ ToSet(k) = ToSet(l) => ToSet(k) \in collided
      BY DEF IndexesInv
    <3>3. columns \notin collided
      OBVIOUS
    <3> QED
      BY <2>1, <3>1, <3>2, <3>3, Zenon
  <2> QED
    BY <2>2 DEF Alike, IndexesInv
<1>6. CASE Alike(table, columns) \subseteq Inherited(table, columns)
  <2>1. Alike(table, columns) = Inherited(table, columns)
    BY <1>6 DEF Inherited
  <2> QED
    BY <1>1, <1>2, <1>3, <1>4, <2>1
<1>7. ASSUME NEW i \in Alike(table, columns) \ Inherited(table, columns)
      PROVE  Cardinality(Alike(table, columns)) <= restarts + 1
  <2>1. Alike(table, columns) = Inherited(table, columns) \cup {i}
    BY <1>5 DEF Inherited
  <2>2. Cardinality(Inherited(table, columns) \cup {i})
          = Cardinality(Inherited(table, columns)) + 1
    BY <1>2, FS_AddElement
  <2> QED
    BY <1>2, <1>4, <2>1, <2>2
<1> QED
  BY <1>1, <1>3, <1>6, <1>7

(* The executor makes an index of a list of its process, if any.           *)
LEMMA ExecutorKeepsIndexes ==
  ASSUME IndexesInv, NEW decision, decision.columns \in order \cup {<<>>},
         NEW result, ExecuteDecision(decision, result), UNCHANGED restarts
  PROVE  IndexesInv' /\ order' = order
<1>1. UNCHANGED <<order, collided>>
  BY DEF ExecuteDecision, database
<1>2. \/ indexes' \subseteq indexes
      \/ /\ indexes' = indexes \cup {IndexOf(decision)}
         /\ decision.columns \in order
  BY DEF ExecuteDecision, ChangeIndexes, database
<1>3. IsFiniteSet(indexes')
  <2>1. IsFiniteSet(indexes \cup {IndexOf(decision)})
    BY FS_AddElement DEF IndexesInv
  <2>2. indexes' \in SUBSET (indexes \cup {IndexOf(decision)})
    BY <1>2
  <2> QED
    BY <2>1, <2>2, FS_Subset
<1>4. \A i \in indexes' : i = [table |-> i.table, columns |-> i.columns]
  <2>1. IndexOf(decision) =
          [table |-> IndexOf(decision).table, columns |-> IndexOf(decision).columns]
    BY DEF IndexOf
  <2> QED
    BY <1>2, <2>1 DEF IndexesInv
<1>5. ASSUME NEW table \in Tables, NEW columns \in (SUBSET Columns) \ collided
      PROVE  Cardinality(Inherited(table, columns)') <= restarts
  <2>1. IndexOf(decision).columns = decision.columns
    BY DEF IndexOf
  <2>2. Inherited(table, columns)' \in SUBSET Inherited(table, columns)
    BY <1>1, <1>2, <2>1 DEF Inherited, Alike
  <2>3. IsFiniteSet(Inherited(table, columns)) /\ IsFiniteSet(Inherited(table, columns)')
    <3>1. /\ Inherited(table, columns) \in SUBSET indexes
          /\ Inherited(table, columns)' \in SUBSET indexes'
      BY DEF Inherited, Alike
    <3> QED
      BY <1>3, <3>1, FS_Subset DEF IndexesInv
  <2>4. /\ Cardinality(Inherited(table, columns)) \in Nat
        /\ Cardinality(Inherited(table, columns)') \in Nat
    BY <2>3, FS_CardinalityType
  <2>5. Cardinality(Inherited(table, columns)') <= Cardinality(Inherited(table, columns))
    BY <2>2, <2>3, FS_Subset
  <2>6. Cardinality(Inherited(table, columns)) <= restarts /\ restarts \in Nat
    BY DEF IndexesInv
  <2> QED
    BY <2>4, <2>5, <2>6
<1>6. IndexesInv'
  BY <1>1, <1>3, <1>4, <1>5 DEF IndexesInv
<1> QED
  BY <1>1, <1>6

LEMMA IndexesStay ==
  ASSUME IndexesInv, UNCHANGED <<database, restarts>>
  PROVE  IndexesInv' /\ order' = order
BY DEF IndexesInv, Inherited, Alike, database

(* After a restart what is there counts as inherited, at most one more     *)
(* than before.                                                            *)
LEMMA RestartKeepsOneIndex == OneIndexInv /\ Restart => OneIndexInv'
<1> SUFFICES ASSUME OneIndexInv, Restart PROVE OneIndexInv'
  OBVIOUS
<1>1. /\ DOMAIN pc' = Clients /\ DOMAIN job' = Clients
      /\ \A c \in Clients : pc'[c] = "idle"
      /\ restarts' = restarts + 1 /\ indexes' = indexes
      /\ collided' = collided \cup Ambiguous(order')
  BY DEF Restart, NewProcess
<1>2. CarriersInv'
  BY <1>1 DEF CarriersInv, Carries, DecisionPlaces
<1>3. ASSUME NEW k \in order', NEW l \in order', k # l, ToSet(k) = ToSet(l)
      PROVE  ToSet(k) \in collided'
  BY <1>1, <1>3 DEF Ambiguous
<1>4. ASSUME NEW table \in Tables, NEW columns \in (SUBSET Columns) \ collided'
      PROVE  Cardinality(Inherited(table, columns)') <= restarts'
  <2>1. columns \in (SUBSET Columns) \ collided
    BY <1>1
  <2>2. /\ IsFiniteSet(Alike(table, columns))
        /\ Cardinality(Alike(table, columns)) \in Nat
        /\ Cardinality(Alike(table, columns)) <= restarts + 1
    BY <2>1, InheritedAndOwn DEF OneIndexInv
  <2>3. Inherited(table, columns)' \in SUBSET Alike(table, columns)
    BY <1>1 DEF Inherited, Alike
  <2>4. /\ IsFiniteSet(Inherited(table, columns)')
        /\ Cardinality(Inherited(table, columns)') <= Cardinality(Alike(table, columns))
    BY <2>2, <2>3, FS_Subset
  <2>5. Cardinality(Inherited(table, columns)') \in Nat
    BY <2>4, FS_CardinalityType
  <2>6. restarts \in Nat
    BY DEF OneIndexInv, IndexesInv
  <2> QED
    BY <1>1, <2>2, <2>4, <2>5, <2>6
<1>5. IndexesInv'
  BY <1>1, <1>3, <1>4 DEF OneIndexInv, IndexesInv
<1> QED
  BY <1>2, <1>5 DEF OneIndexInv

(* A query brings the executor the list it chose.                          *)
LEMMA QueryKeepsIndexes ==
  ASSUME OneIndexInv, NEW c \in Clients, QueryStep(c), UNCHANGED restarts
  PROVE  IndexesInv' /\ order' = order
<1>1. CASE Execute(c)
  <2>1. job[c].decision.columns \in order \cup {<<>>}
    BY <1>1 DEF Execute, OneIndexInv, CarriersInv, Carries, DecisionPlaces
  <2>2. \E result : ExecuteDecision(job[c].decision, result)
    BY <1>1 DEF Execute
  <2> QED
    BY <2>1, <2>2, ExecutorKeepsIndexes DEF OneIndexInv
<1>2. CASE UNCHANGED database
  BY <1>2, IndexesStay DEF OneIndexInv
<1> QED
  BY <1>1, <1>2 DEF QueryStep, Raise, Choose, Measure, LogQuery, Keep, Reject, Approve,
     PersistDecision, Remeasure, RecordOutcome, RecordReplay, OutcomeLost, Finish

LEMMA QueryCarries ==
  ASSUME CarriersInv, NEW c \in Clients, QueryStep(c), order' = order
  PROVE  CarriersInv'
<1>1. /\ DOMAIN pc' = Clients /\ DOMAIN job' = Clients
      /\ \A d \in Clients : d # c => pc'[d] = pc[d] /\ job'[d] = job[d]
  BY QueryMovesOne DEF CarriersInv
<1>2. \A d \in Clients : d # c => Carries(d)'
  BY <1>1 DEF CarriersInv, Carries
<1>3. Carries(c)'
  <2>1. CASE pc'[c] \notin DecisionPlaces
    BY <2>1 DEF Carries
  <2>2. CASE Choose(c)
    <3>1. PICK columns \in order : \E action, confident :
            job' = [job EXCEPT ![c].decision =
                      FormulateAction(action, confident, job[c].query, columns)]
      BY <2>2 DEF Choose, Listed
    <3>2. "decision" \in DOMAIN job[c]
      BY <2>2 DEF Choose, CarriersInv, Carries, DecisionPlaces
    <3>3. /\ "decision" \in DOMAIN job'[c]
          /\ \E action, confident :
               job'[c].decision = FormulateAction(action, confident, job[c].query, columns)
      BY <3>1, <3>2 DEF CarriersInv
    <3> QED
      BY <3>3 DEF Carries, FormulateAction
  <2>3. CASE Measure(c) \/ LogQuery(c)
    <3>1. pc[c] \in DecisionPlaces
      BY <2>3 DEF Measure, LogQuery, DecisionPlaces
    <3>2. \E value : \/ job' = [job EXCEPT ![c].before = value]
                     \/ job' = [job EXCEPT ![c].logged = value]
      BY <2>3 DEF Measure, LogQuery
    <3>3. c \in DOMAIN job /\ "decision" \in DOMAIN job[c]
      BY <3>1 DEF CarriersInv, Carries
    <3>4. \E value : \/ job'[c] = [job[c] EXCEPT !.before = value]
                     \/ job'[c] = [job[c] EXCEPT !.logged = value]
      BY <3>2, <3>3
    <3>5. DOMAIN job'[c] = DOMAIN job[c] /\ job'[c].decision = job[c].decision
      BY <3>3, <3>4
    <3> QED
      BY <3>1, <3>5 DEF CarriersInv, Carries
  <2>4. CASE Approve(c)
    BY <2>4 DEF Approve, CarriersInv, Carries, DecisionPlaces
  <2>5. CASE Raise(c) \/ Keep(c) \/ Reject(c) \/ OutcomeLost(c) \/ Finish(c)
    <3>1. pc'[c] \in {"idle", "finish"}
      BY <2>5 DEF Raise, Keep, Reject, OutcomeLost, Finish, Return, Goto, CarriersInv
    <3> QED
      BY <2>1, <3>1 DEF DecisionPlaces
  <2>6. CASE Execute(c) \/ PersistDecision(c) \/ Remeasure(c) \/ RecordOutcome(c)
               \/ RecordReplay(c)
    <3>1. pc'[c] \in {"finish", "persist", "remeasure", "feedback", "replay"}
      BY <2>6 DEF Execute, PersistDecision, Remeasure, RecordOutcome, RecordReplay, Goto,
                  CarriersInv
    <3> QED
      BY <2>1, <3>1 DEF DecisionPlaces
  <2> QED
    BY <2>2, <2>3, <2>4, <2>5, <2>6 DEF QueryStep
<1> QED
  BY <1>1, <1>2, <1>3 DEF CarriersInv

(* So does an operation, with the decision it was called with.             *)
LEMMA OperationKeepsOneIndex ==
  ASSUME OneIndexInv, NEW c \in Clients, OperationStep(c) \/ Call(c), UNCHANGED restarts
  PROVE  OneIndexInv'
<1>1. IndexesInv' /\ order' = order
  <2>1. CASE RunExecutor(c)
    <3>1. job[c].decision.columns \in order \cup {<<>>}
      BY <2>1 DEF RunExecutor, OneIndexInv, CarriersInv, Carries, DecisionPlaces
    <3>2. UNCHANGED database \/ \E result : ExecuteDecision(job[c].decision, result)
      BY <2>1 DEF RunExecutor
    <3> QED
      BY <3>1, <3>2, ExecutorKeepsIndexes, IndexesStay DEF OneIndexInv
  <2>2. CASE UNCHANGED database
    BY <2>2, IndexesStay DEF OneIndexInv
  <2> QED
    BY <2>1, <2>2 DEF OperationStep, Call, Begin, BeginOperation, Acquire, WakeUp,
       InitiateRollback, CloseOperation, Delist
<1>2. /\ DOMAIN pc' = Clients /\ DOMAIN job' = Clients
      /\ \A d \in Clients : d # c => pc'[d] = pc[d] /\ job'[d] = job[d]
  BY OperationMovesOne DEF OneIndexInv, CarriersInv
<1>3. \A d \in Clients : d # c => Carries(d)'
  BY <1>1, <1>2 DEF OneIndexInv, CarriersInv, Carries
<1>4. Carries(c)'
  <2> USE DEF OneIndexInv, CarriersInv, Goto
  <2>1. ASSUME pc'[c] \notin DecisionPlaces PROVE Carries(c)'
    BY <2>1 DEF Carries
  <2>2. CASE Acquire(c) \/ WakeUp(c)
    <3>1. pc'[c] = "idle" \/ (UNCHANGED job /\ pc[c] \in DecisionPlaces)
      BY <2>2 DEF Acquire, WakeUp, Return, DecisionPlaces
    <3> QED
      BY <1>1, <2>1, <3>1 DEF Carries, DecisionPlaces
  <2>3. CASE RunExecutor(c)
    <3>1. pc'[c] \in {"regressed", "completed", "failed"}
      BY <2>3 DEF RunExecutor
    <3> QED
      BY <2>1, <3>1 DEF DecisionPlaces
  <2>4. CASE InitiateRollback(c) \/ CloseOperation(c) \/ Delist(c)
    <3>1. pc'[c] \in {"delist", "idle"}
      BY <2>4 DEF InitiateRollback, CloseOperation, Delist, Return
    <3> QED
      BY <2>1, <3>1 DEF DecisionPlaces
  <2>5. ASSUME NEW query, Begin(c, query) PROVE Carries(c)'
    <3>1. /\ "decision" \in DOMAIN job'[c]
          /\ job'[c].decision = FormulateAction("KEEP", FALSE, query, <<>>)
      BY <2>5 DEF Begin
    <3> QED
      BY <3>1 DEF Carries, FormulateAction
  <2>6. ASSUME NEW decision \in Operations, NEW regressed, BeginOperation(c, decision, regressed)
        PROVE  Carries(c)'
    <3>1. "columns" \in DOMAIN decision /\ decision.columns \in order \cup {<<>>}
      BY DEF Operations, Listed, FormulateAction
    <3>2. "decision" \in DOMAIN job'[c] /\ job'[c].decision = decision
      BY <2>6 DEF BeginOperation
    <3> QED
      BY <1>1, <3>1, <3>2 DEF Carries
  <2> QED
    BY <2>2, <2>3, <2>4, <2>5, <2>6 DEF OperationStep, Call
<1> QED
  BY <1>1, <1>2, <1>3, <1>4 DEF OneIndexInv, CarriersInv

LEMMA OneIndexStep == OneIndexInv /\ [Next]_vars => OneIndexInv'
<1> SUFFICES ASSUME OneIndexInv, [Next]_vars PROVE OneIndexInv'
  OBVIOUS
<1>1. ASSUME NEW c \in Clients, QueryStep(c), UNCHANGED restarts PROVE OneIndexInv'
  BY <1>1, QueryKeepsIndexes, QueryCarries DEF OneIndexInv
<1>2. CASE Pass \/ UNCHANGED vars
  <2>1. UNCHANGED <<pc, job, database, restarts>>
    BY <1>2 DEF Pass, vars
  <2>2. IndexesInv' /\ order' = order
    BY <2>1, IndexesStay DEF OneIndexInv
  <2> QED
    BY <2>1, <2>2 DEF OneIndexInv, CarriersInv, Carries
<1> QED
  BY <1>1, <1>2, OperationKeepsOneIndex, RestartKeepsOneIndex DEF Next

(* However the threads and the operations interleave, a process leaves at  *)
(* most one index for a set of columns of a table whose hashes do not      *)
(* collide (executor.py:37-48): with every restart one may come to it.     *)
THEOREM RestartsBoundIndexes == Spec => []OneIndexPerProcess
<1>1. Init => OneIndexInv
  <2> SUFFICES ASSUME Init PROVE OneIndexInv
    OBVIOUS
  <2>1. CarriersInv
    BY DEF Init, SafetyInit, CarriersInv, Carries, DecisionPlaces
  <2>2. indexes = {} /\ collided = Ambiguous(order) /\ restarts = 0
    BY DEF Init, ExecutorInit
  <2>3. \A k, l \in order : k # l /\ ToSet(k) = ToSet(l) => ToSet(k) \in collided
    BY <2>2 DEF Ambiguous
  <2>4. \A table \in Tables, columns \in (SUBSET Columns) \ collided :
          Inherited(table, columns) = {}
    BY <2>2 DEF Inherited, Alike
  <2>5. IsFiniteSet({}) /\ Cardinality({}) = 0
    BY FS_EmptySet
  <2>6. IndexesInv
    BY <2>2, <2>3, <2>4, <2>5 DEF IndexesInv
  <2> QED
    BY <2>1, <2>6 DEF OneIndexInv
<1>2. OneIndexInv => OneIndexPerProcess
  BY InheritedAndOwn DEF OneIndexInv, OneIndexPerProcess
<1> QED
  BY <1>1, <1>2, OneIndexStep, PTL DEF Spec

=============================================================================
