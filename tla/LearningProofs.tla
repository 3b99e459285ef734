--------------------------- MODULE LearningProofs ---------------------------
(***************************************************************************)
(* Proofs about three parts of what the system learns with, none of which  *)
(* uses another: ReplayBuffer, for every capacity, batch size, set of      *)
(* actions, of impacts and of training threads; DriftDetector, for every   *)
(* window, threshold, set of embeddings and number of callers; and         *)
(* SupervisedLearning - the engine and its prediction cache, the           *)
(* forgetting test and the Trainer with its checkpoints - for every set of *)
(* inputs, cache size, list of phases and number of fits.                  *)
(***************************************************************************)
EXTENDS ReplayBuffer, DriftDetector, SupervisedLearning, FiniteSetTheorems, SequenceTheorems,
        WellFoundedInduction, TLAPS

-----------------------------------------------------------------------------
(* How the tally of an action changes with the sequence.                   *)

(* What a position of the buffer holds.                                    *)
LEMMA ElementType ==
  ASSUME NEW s \in Seq(Experience), NEW i \in DOMAIN s
  PROVE  s[i] \in Experience /\ s[i].action \in Actions
<1>1. s[i] \in Experience
  OBVIOUS
<1> QED
  BY <1>1 DEF Experience

(* The positions holding an action are finitely many, at most the length.  *)
LEMMA TallyType ==
  ASSUME NEW s \in Seq(Experience), NEW a
  PROVE  /\ IsFiniteSet({i \in DOMAIN s : s[i].action = a})
         /\ Tally(s, a) \in Nat
         /\ Tally(s, a) <= Len(s)
<1> DEFINE P == {i \in DOMAIN s : s[i].action = a}
<1>1. DOMAIN s = 1 .. Len(s) /\ Len(s) \in Nat
  OBVIOUS
<1>2. IsFiniteSet(1 .. Len(s)) /\ Cardinality(1 .. Len(s)) = Len(s)
  BY <1>1, FS_Interval
<1>3. P \subseteq 1 .. Len(s)
  BY <1>1
<1>4. IsFiniteSet(P) /\ Cardinality(P) <= Len(s) /\ Cardinality(P) \in Nat
  BY <1>2, <1>3, FS_Subset, FS_CardinalityType
<1> QED
  BY <1>4 DEF Tally

(* A position that holds the action makes its tally positive.              *)
LEMMA TallyPositive ==
  ASSUME NEW s \in Seq(Experience), NEW i \in DOMAIN s
  PROVE  Tally(s, s[i].action) > 0
<1> DEFINE P == {j \in DOMAIN s : s[j].action = s[i].action}
<1>1. i \in P /\ IsFiniteSet(P)
  BY TallyType
<1>2. Cardinality(P) # 0 /\ Cardinality(P) \in Nat
  BY <1>1, FS_EmptySet, FS_CardinalityType
<1> QED
  BY <1>2 DEF Tally

(* Appending an experience adds one to the tally of its action.            *)
LEMMA TallyAppend ==
  ASSUME NEW s \in Seq(Experience), NEW e \in Experience, NEW a
  PROVE  Tally(Append(s, e), a) = IF e.action = a THEN Tally(s, a) + 1 ELSE Tally(s, a)
<1> DEFINE P == {i \in DOMAIN s : s[i].action = a}
           Q == {i \in DOMAIN Append(s, e) : Append(s, e)[i].action = a}
           n == Len(s) + 1
<1>1. /\ DOMAIN s = 1 .. Len(s) /\ Len(s) \in Nat
      /\ DOMAIN Append(s, e) = 1 .. n
      /\ Append(s, e)[n] = e
      /\ \A i \in 1 .. Len(s) : Append(s, e)[i] = s[i]
  OBVIOUS
<1>2. IsFiniteSet(P) /\ n \notin P
  <2>1. IsFiniteSet(P)
    BY TallyType
  <2> QED
    BY <1>1, <2>1
<1>3. CASE e.action = a
  <2>1. Q = P \union {n}
    BY <1>1, <1>3
  <2>2. Cardinality(Q) = Cardinality(P) + 1
    BY <1>2, <2>1, FS_AddElement
  <2> QED
    BY <1>3, <2>2 DEF Tally
<1>4. CASE e.action # a
  <2>1. Q = P
    BY <1>1, <1>4
  <2> QED
    BY <1>4, <2>1 DEF Tally
<1> QED
  BY <1>3, <1>4

(* Overwriting a position moves one unit of tally from the old experience's *)
(* action to the new one's.                                                *)
LEMMA TallyReplace ==
  ASSUME NEW s \in Seq(Experience), NEW e \in Experience, NEW i \in DOMAIN s, NEW a
  PROVE  LET r == [s EXCEPT ![i] = e]
         IN  /\ e.action = a /\ s[i].action # a => Tally(r, a) = Tally(s, a) + 1
             /\ e.action # a /\ s[i].action = a => Tally(r, a) = Tally(s, a) - 1
             /\ ((e.action = a) <=> (s[i].action = a)) => Tally(r, a) = Tally(s, a)
<1> DEFINE r == [s EXCEPT ![i] = e]
           P == {j \in DOMAIN s : s[j].action = a}
           Q == {j \in DOMAIN r : r[j].action = a}
<1>1. /\ DOMAIN r = DOMAIN s
      /\ r[i] = e
      /\ \A j \in DOMAIN s : j # i => r[j] = s[j]
  OBVIOUS
<1>2. IsFiniteSet(P) /\ Cardinality(P) \in Nat
  BY TallyType DEF Tally
<1>3. CASE e.action = a /\ s[i].action # a
  <2>1. Q = P \union {i} /\ i \notin P
    BY <1>1, <1>3
  <2>2. Cardinality(Q) = Cardinality(P) + 1
    BY <1>2, <2>1, FS_AddElement
  <2> QED
    BY <1>3, <2>2 DEF Tally
<1>4. CASE e.action # a /\ s[i].action = a
  <2>1. Q = P \ {i} /\ i \in P
    BY <1>1, <1>4
  <2>2. Cardinality(Q) = Cardinality(P) - 1
    BY <1>2, <2>1, FS_RemoveElement
  <2> QED
    BY <1>4, <2>2 DEF Tally
<1>5. CASE (e.action = a) <=> (s[i].action = a)
  <2>1. Q = P
    BY <1>1, <1>5
  <2> QED
    BY <1>5, <2>1 DEF Tally
<1> QED
  BY <1>3, <1>4, <1>5

(* Rewriting priorities in place leaves every tally alone.                 *)
LEMMA TallySameActions ==
  ASSUME NEW s, NEW r, DOMAIN r = DOMAIN s,
         \A i \in DOMAIN s : r[i].action = s[i].action, NEW a
  PROVE  Tally(r, a) = Tally(s, a)
<1>1. {i \in DOMAIN r : r[i].action = a} = {i \in DOMAIN s : s[i].action = a}
  OBVIOUS
<1> QED
  BY <1>1 DEF Tally

-----------------------------------------------------------------------------
(* The invariant: the types, the capacity, the counts, and the frequencies *)
(* frozen in the priorities, of the buffer and of the saved file alike.    *)

SaneSeq(s) == \A i \in DOMAIN s : s[i].freq \in 1 .. (Capacity + 1)

ReplayInv ==
  /\ TypeOK
  /\ WithinCapacity
  /\ CountsMatchBuffer
  /\ PrioritiesAreSane
  /\ file # NoFile => SaneSeq(file)

LEMMA InitInv == Init => ReplayInv
<1> SUFFICES ASSUME Init PROVE ReplayInv
  OBVIOUS
<1>1. buffer = <<>> /\ buffer \in Seq(Experience) /\ DOMAIN buffer = {} /\ Len(buffer) = 0
  BY DEF Init
<1>2. \A a \in Actions : Tally(buffer, a) = 0
  <2> TAKE a \in Actions
  <2>1. {i \in DOMAIN buffer : buffer[i].action = a} = {}
    BY <1>1
  <2> QED
    BY <2>1, FS_EmptySet DEF Tally
<1> QED
  BY <1>1, <1>2, ReplayAssumption
     DEF Init, ReplayInv, TypeOK, WithinCapacity, CountsMatchBuffer, PrioritiesAreSane

(* A priority computed from consistent counts is an experience with a      *)
(* sane frequency.                                                         *)
LEMMA PrioritisedType ==
  ASSUME NEW a \in Actions, NEW impact \in Impacts,
         NEW counts \in [Actions -> Nat], counts[a] <= Capacity + 1
  PROVE  /\ Prioritised(a, impact, counts) \in Experience
         /\ Prioritised(a, impact, counts).freq \in 1 .. (Capacity + 1)
         /\ Prioritised(a, impact, counts).action = a
BY ReplayAssumption DEF Prioritised, Frequency, Experience

(* Consistent counts are bounded by the capacity.                          *)
LEMMA CountsBounded ==
  ASSUME ReplayInv, NEW a \in Actions
  PROVE  action_counts[a] \in Nat /\ action_counts[a] <= Capacity
<1>1. action_counts[a] = Tally(buffer, a) /\ buffer \in Seq(Experience)
      /\ Len(buffer) <= Capacity
  BY DEF ReplayInv, CountsMatchBuffer, WithinCapacity, TypeOK
<1>2. Tally(buffer, a) \in Nat /\ Tally(buffer, a) <= Len(buffer)
  BY <1>1, TallyType
<1> QED
  BY <1>1, <1>2, ReplayAssumption

LEMMA AddInv ==
  ASSUME ReplayInv, NEW b \in Actions, NEW impact \in Impacts, Add(b, impact)
  PROVE  ReplayInv'
<1> DEFINE counts == [action_counts EXCEPT ![b] = @ + 1]
           e == Prioritised(b, impact, counts)
<1>1. /\ buffer \in Seq(Experience) /\ action_counts \in [Actions -> Nat]
      /\ Len(buffer) \in Nat /\ Len(buffer) <= Capacity
      /\ DOMAIN buffer = 1 .. Len(buffer)
      /\ \A a \in Actions : action_counts[a] = Tally(buffer, a)
  BY DEF ReplayInv, TypeOK, WithinCapacity, CountsMatchBuffer
<1>2. counts \in [Actions -> Nat] /\ counts[b] <= Capacity + 1
  BY <1>1, CountsBounded, ReplayAssumption
<1>3. e \in Experience /\ e.freq \in 1 .. (Capacity + 1) /\ e.action = b
  BY <1>2, PrioritisedType
<1>4. UNCHANGED <<file, sample>>
  BY DEF Add
<1>5. CASE /\ HasRoom
           /\ buffer' = Append(buffer, e)
           /\ action_counts' = counts
  <2>1. /\ buffer' \in Seq(Experience) /\ Len(buffer') = Len(buffer) + 1
        /\ DOMAIN buffer' = 1 .. (Len(buffer) + 1)
        /\ buffer'[Len(buffer) + 1] = e
        /\ \A i \in 1 .. Len(buffer) : buffer'[i] = buffer[i]
    BY <1>1, <1>3, <1>5
  <2>2. Len(buffer') <= Capacity
    BY <1>1, <1>5, <2>1, ReplayAssumption DEF HasRoom
  <2>3. \A a \in Actions : action_counts'[a] = Tally(buffer', a)
    BY <1>1, <1>2, <1>3, <1>5, TallyAppend
  <2>4. \A i \in DOMAIN buffer' : buffer'[i].freq \in 1 .. (Capacity + 1)
    BY <1>1, <1>3, <2>1 DEF ReplayInv, PrioritiesAreSane
  <2> QED
    BY <1>2, <1>4, <1>5, <2>1, <2>2, <2>3, <2>4
       DEF ReplayInv, TypeOK, WithinCapacity, CountsMatchBuffer, PrioritiesAreSane, SaneSeq
<1>6. CASE /\ ~HasRoom
           /\ \E i \in DOMAIN buffer :
                /\ IsVictim(i)
                /\ Replace(i, e, counts)
  <2>1. PICK i \in DOMAIN buffer : Replace(i, e, counts)
    BY <1>6
  <2> DEFINE v == buffer[i].action
  <2>2. /\ buffer' = [buffer EXCEPT ![i] = e]
        /\ action_counts' = [counts EXCEPT ![v] = @ - 1]
    BY <2>1 DEF Replace
  <2>3. /\ buffer' \in Seq(Experience) /\ Len(buffer') = Len(buffer)
        /\ DOMAIN buffer' = DOMAIN buffer /\ buffer'[i] = e
        /\ \A j \in DOMAIN buffer : j # i => buffer'[j] = buffer[j]
    BY <1>1, <1>3, <2>2
  <2>4. v \in Actions
    BY <1>1, ElementType
  <2>5. action_counts[v] > 0
    BY <1>1, <2>4, TallyPositive
  <2>6. action_counts' \in [Actions -> Nat]
    BY <1>1, <1>2, <2>2, <2>4, <2>5
  <2>7. \A a \in Actions : action_counts'[a] = Tally(buffer', a)
    <3> TAKE a \in Actions
    <3>1. action_counts[a] = Tally(buffer, a) /\ action_counts[a] \in Nat
      BY <1>1
    <3>2. action_counts'[a] = CASE b = a /\ v # a -> action_counts[a] + 1
                                [] b # a /\ v = a -> action_counts[a] - 1
                                [] OTHER -> action_counts[a]
      BY <1>1, <2>2, <2>4, <3>1
    <3>3. /\ b = a /\ v # a => Tally(buffer', a) = Tally(buffer, a) + 1
          /\ b # a /\ v = a => Tally(buffer', a) = Tally(buffer, a) - 1
          /\ ((b = a) <=> (v = a)) => Tally(buffer', a) = Tally(buffer, a)
      <4>1. e \in Experience /\ e.action = b /\ buffer \in Seq(Experience)
        BY <1>1, <1>3
      <4>2. buffer' = [buffer EXCEPT ![i] = e]
        BY <2>2
      <4> HIDE DEF e, counts
      <4>3. /\ e.action = a /\ v # a => Tally(buffer', a) = Tally(buffer, a) + 1
            /\ e.action # a /\ v = a => Tally(buffer', a) = Tally(buffer, a) - 1
            /\ ((e.action = a) <=> (v = a)) => Tally(buffer', a) = Tally(buffer, a)
        BY <4>1, <4>2, TallyReplace, Zenon
      <4> QED
        BY <4>1, <4>3
    <3> QED
      BY <3>1, <3>2, <3>3
  <2>8. \A j \in DOMAIN buffer' : buffer'[j].freq \in 1 .. (Capacity + 1)
    BY <1>3, <2>3 DEF ReplayInv, PrioritiesAreSane
  <2> QED
    BY <1>1, <1>4, <2>3, <2>6, <2>7, <2>8
       DEF ReplayInv, TypeOK, WithinCapacity, CountsMatchBuffer, PrioritiesAreSane, SaneSeq
<1> QED
  BY <1>5, <1>6 DEF Add

(* A step that only rewrites priorities, from the current counts, keeps    *)
(* the invariant.                                                          *)
LEMMA ReprioritiseInv ==
  ASSUME ReplayInv,
         buffer' \in Seq(Experience), Len(buffer') = Len(buffer),
         \A i \in DOMAIN buffer : /\ buffer'[i].action = buffer[i].action
                                  /\ buffer'[i].freq \in 1 .. (Capacity + 1),
         UNCHANGED <<action_counts, file>>,
         sample' \in [Trainers -> SUBSET (1 .. Capacity)]
  PROVE  ReplayInv'
<1>1. DOMAIN buffer' = DOMAIN buffer
  BY DEF ReplayInv, TypeOK
<1>2. \A a \in Actions : Tally(buffer', a) = Tally(buffer, a)
  BY <1>1, TallySameActions
<1> QED
  BY <1>1, <1>2
     DEF ReplayInv, TypeOK, WithinCapacity, CountsMatchBuffer, PrioritiesAreSane, SaneSeq

LEMMA UpdateTDInv ==
  ASSUME ReplayInv, NEW t \in Trainers, UpdatePrioritiesTD(t)
  PROVE  ReplayInv'
<1>1. PICK td \in [sample[t] -> Impacts] :
        buffer' = [i \in DOMAIN buffer |->
                     IF i \in sample[t]
                     THEN Prioritised(buffer[i].action, td[i], action_counts)
                     ELSE buffer[i]]
  BY DEF UpdatePrioritiesTD
<1>2. /\ buffer \in Seq(Experience) /\ DOMAIN buffer = 1 .. Len(buffer) /\ Len(buffer) \in Nat
      /\ action_counts \in [Actions -> Nat]
  BY DEF ReplayInv, TypeOK
<1>3. \A i \in DOMAIN buffer :
        /\ buffer'[i] \in Experience
        /\ buffer'[i].action = buffer[i].action
        /\ buffer'[i].freq \in 1 .. (Capacity + 1)
  <2> TAKE i \in DOMAIN buffer
  <2>1. CASE i \in sample[t]
    <3>1. buffer[i].action \in Actions /\ td[i] \in Impacts
      BY <1>1, <1>2, <2>1, ElementType
    <3>2. action_counts[buffer[i].action] <= Capacity + 1
      BY <3>1, CountsBounded, ReplayAssumption
    <3> QED
      BY <1>1, <1>2, <2>1, <3>1, <3>2, PrioritisedType
  <2>2. CASE i \notin sample[t]
    BY <1>1, <1>2, <2>2 DEF ReplayInv, PrioritiesAreSane
  <2> QED
    BY <2>1, <2>2
<1>4. buffer' \in Seq(Experience) /\ Len(buffer') = Len(buffer)
  BY <1>1, <1>2, <1>3
<1>5. /\ sample' \in [Trainers -> SUBSET (1 .. Capacity)]
      /\ UNCHANGED <<action_counts, file>>
  BY DEF UpdatePrioritiesTD, ReplayInv, TypeOK
<1> QED
  BY <1>3, <1>4, <1>5, ReprioritiseInv

LEMMA UpdatePrioritiesInv ==
  ASSUME ReplayInv, NEW i, NEW impact \in Impacts, UpdatePriorities(i, impact)
  PROVE  ReplayInv'
<1>1. /\ i \in DOMAIN buffer
      /\ buffer' = [buffer EXCEPT ![i] = Prioritised(buffer[i].action, impact, action_counts)]
      /\ UNCHANGED <<action_counts, file, sample>>
  BY DEF UpdatePriorities
<1>2. /\ buffer \in Seq(Experience) /\ DOMAIN buffer = 1 .. Len(buffer)
      /\ action_counts \in [Actions -> Nat]
      /\ \A j \in DOMAIN buffer : buffer[j].freq \in 1 .. (Capacity + 1)
  BY DEF ReplayInv, TypeOK, PrioritiesAreSane
<1>3. buffer[i].action \in Actions /\ action_counts[buffer[i].action] <= Capacity + 1
  <2>1. buffer[i].action \in Actions
    BY <1>1, <1>2, ElementType
  <2> QED
    BY <2>1, CountsBounded, ReplayAssumption
<1> DEFINE e == Prioritised(buffer[i].action, impact, action_counts)
<1>4. e \in Experience /\ e.freq \in 1 .. (Capacity + 1) /\ e.action = buffer[i].action
  BY <1>2, <1>3, PrioritisedType
<1>5. /\ buffer' \in Seq(Experience) /\ Len(buffer') = Len(buffer)
      /\ buffer'[i] = e
      /\ \A j \in DOMAIN buffer : j # i => buffer'[j] = buffer[j]
  BY <1>1, <1>2, <1>4
<1>6. \A j \in DOMAIN buffer : /\ buffer'[j].action = buffer[j].action
                               /\ buffer'[j].freq \in 1 .. (Capacity + 1)
  BY <1>2, <1>4, <1>5
<1>7. /\ sample' \in [Trainers -> SUBSET (1 .. Capacity)]
  BY <1>1 DEF ReplayInv, TypeOK
<1> QED
  BY <1>1, <1>5, <1>6, <1>7, ReprioritiseInv

LEMMA LoadInv ==
  ASSUME ReplayInv, Load
  PROVE  ReplayInv'
<1>1. /\ file # NoFile /\ file \in Seq(Experience) /\ Len(file) <= Capacity /\ SaneSeq(file)
      /\ buffer' = file /\ action_counts' = Recount(file)
      /\ UNCHANGED <<file, sample>>
  BY DEF ReplayInv, TypeOK, WithinCapacity, Load
<1>2. \A a \in Actions : Tally(file, a) \in Nat
  BY <1>1, TallyType
<1> QED
  BY <1>1, <1>2
     DEF ReplayInv, TypeOK, WithinCapacity, CountsMatchBuffer, PrioritiesAreSane,
         SaneSeq, Recount

LEMMA StepInv == ReplayInv /\ [Next]_vars => ReplayInv'
<1> SUFFICES ASSUME ReplayInv, [Next]_vars
             PROVE  ReplayInv'
  OBVIOUS
<1>1. ASSUME NEW a \in Actions, NEW impact \in Impacts, Add(a, impact)
      PROVE  ReplayInv'
  BY <1>1, AddInv
<1>2. ASSUME NEW t \in Trainers, SampleTransitions(t)
      PROVE  ReplayInv'
  <2>1. PICK S \in SUBSET (DOMAIN buffer) : sample' = [sample EXCEPT ![t] = S]
    BY <1>2 DEF SampleTransitions
  <2>2. DOMAIN buffer \subseteq 1 .. Capacity
    BY ReplayAssumption DEF ReplayInv, TypeOK, WithinCapacity
  <2>3. sample' \in [Trainers -> SUBSET (1 .. Capacity)]
    BY <2>1, <2>2 DEF ReplayInv, TypeOK
  <2> QED
    BY <1>2, <2>3
       DEF SampleTransitions, ReplayInv, TypeOK, WithinCapacity, CountsMatchBuffer,
           PrioritiesAreSane, SaneSeq
<1>3. ASSUME NEW t \in Trainers, UpdatePrioritiesTD(t)
      PROVE  ReplayInv'
  BY <1>3, UpdateTDInv
<1>4. ASSUME NEW i \in 1 .. Capacity, NEW impact \in Impacts, UpdatePriorities(i, impact)
      PROVE  ReplayInv'
  BY <1>4, UpdatePrioritiesInv
<1>5. CASE Save
  BY <1>5 DEF Save, ReplayInv, TypeOK, WithinCapacity, CountsMatchBuffer,
              PrioritiesAreSane, SaneSeq
<1>6. CASE Load
  BY <1>6, LoadInv
<1>7. CASE UNCHANGED vars
  BY <1>7 DEF vars, ReplayInv, TypeOK, WithinCapacity, CountsMatchBuffer,
              PrioritiesAreSane, SaneSeq
<1> QED
  BY <1>1, <1>2, <1>3, <1>4, <1>5, <1>6, <1>7 DEF Next

LEMMA Invariance == Spec => []ReplayInv
<1>1. Init => ReplayInv
  BY InitInv
<1>2. ReplayInv /\ [Next]_vars => ReplayInv'
  BY StepInv
<1> QED
  BY <1>1, <1>2, PTL DEF Spec

(* The buffer, its counts, the file and the samples keep their types.      *)
THEOREM TypeCorrect == Spec => []TypeOK
<1>1. ReplayInv => TypeOK
  BY DEF ReplayInv
<1> QED
  BY <1>1, Invariance, PTL

(* No mix of adds, evictions, updates, saves and loads overfills the       *)
(* buffer.                                                                 *)
THEOREM CapacityHolds == Spec => []WithinCapacity
<1>1. ReplayInv => WithinCapacity
  BY DEF ReplayInv
<1> QED
  BY <1>1, Invariance, PTL

(* The incrementally maintained counts are always the true frequencies.    *)
THEOREM CountsCorrect == Spec => []CountsMatchBuffer
<1>1. ReplayInv => CountsMatchBuffer
  BY DEF ReplayInv
<1> QED
  BY <1>1, Invariance, PTL

(* Every priority in the buffer is positive and finite.                    *)
THEOREM PrioritiesSane == Spec => []PrioritiesAreSane
<1>1. ReplayInv => PrioritiesAreSane
  BY DEF ReplayInv
<1> QED
  BY <1>1, Invariance, PTL

-----------------------------------------------------------------------------
(* The drift detector.                                                     *)

(* What the phase clock needs to know of the detector.  (The type of the   *)
(* baseline would need an induction over the fold that adds a window up.)  *)
WindowInv ==
  /\ recent \in Seq(Embeddings)
  /\ Len(recent) <= Window

LEMMA InitWindow == DetectorInit => WindowInv
  BY DetectorAssumption DEF DetectorInit, WindowInv

(* The deque grows by one until it is full and keeps its length then.      *)
LEMMA SlideLength ==
  ASSUME NEW s \in Seq(Embeddings), Len(s) <= Window, NEW e \in Embeddings
  PROVE  /\ Slide(s, e) \in Seq(Embeddings)
         /\ Len(Slide(s, e)) = IF Len(s) < Window THEN Len(s) + 1 ELSE Window
<1>1. CASE Len(s) < Window
  BY <1>1 DEF Slide
<1>2. CASE ~(Len(s) < Window)
  <2>1. Len(s) = Window /\ s # <<>>
    BY <1>2, DetectorAssumption
  <2>2. Tail(s) \in Seq(Embeddings) /\ Len(Tail(s)) = Window - 1
    BY <2>1
  <2> QED
    BY <1>2, <2>2, DetectorAssumption DEF Slide
<1> QED
  BY <1>1, <1>2

(* Every step of the detector is a step of the clock.                      *)
LEMMA StepClock ==
  WindowInv /\ [DetectorNext]_detectorVars => WindowInv' /\ [Clock!Next]_(Clock!clock)
<1> SUFFICES ASSUME WindowInv, [DetectorNext]_detectorVars
             PROVE  WindowInv' /\ [Clock!Next]_(Clock!clock)
  OBVIOUS
<1> USE DEF WindowInv
<1>1. ASSUME NEW c \in Callers, NEW e \in Embeddings, AddExperience(c, e)
      PROVE  WindowInv' /\ [Clock!Next]_(Clock!clock)
  <2> DEFINE s == Slide(recent, e)
  <2>1. /\ s \in Seq(Embeddings)
        /\ Len(s) = IF Len(recent) < Window THEN Len(recent) + 1 ELSE Window
    BY SlideLength
  <2>2. CASE Gather(s)
    <3>1. recent' = s /\ phase' = phase
      BY <2>2 DEF Gather
    <3>2. Clock!Stay
      BY <1>1, <3>1, <2>1 DEF Clock!Stay, AddExperience
    <3> QED
      BY <3>1, <3>2, <2>1, DetectorAssumption DEF Clock!Next
  <2>3. CASE Drifts(s) /\ NewPhase(s)
    <3>1. recent' = <<>> /\ phase' = phase + 1
      BY <2>3 DEF NewPhase, AfterDrift
    <3>2. Len(recent) + 1 >= Window \div 2
      <4>1. Len(s) >= Window \div 2
        BY <2>3 DEF Drifts, EnoughData
      <4>2. Len(s) \in Nat /\ Len(recent) \in Nat /\ Window \div 2 \in Int
        BY <2>1, DetectorAssumption
      <4>3. Len(s) <= Len(recent) + 1
        BY <2>1, DetectorAssumption
      <4> QED
        BY <4>1, <4>2, <4>3
    <3>3. Clock!Turn
      BY <1>1, <3>1, <3>2 DEF Clock!Turn, AddExperience
    <3> QED
      BY <3>1, <3>3, DetectorAssumption DEF Clock!Next
  <2> QED
    BY <1>1, <2>2, <2>3 DEF AddExperience
<1>2. ASSUME NEW c \in Callers, GetCurrentPhase(c)
      PROVE  WindowInv' /\ [Clock!Next]_(Clock!clock)
  BY <1>2 DEF GetCurrentPhase, detector, Clock!clock
<1>3. ASSUME NEW c \in Callers, ForceNewPhase(c)
      PROVE  WindowInv' /\ [Clock!Next]_(Clock!clock)
  <2>1. /\ recent' = <<>> /\ phase' = phase + 1
        /\ lock = Unset /\ lock' # Unset
    BY <1>3, DetectorAssumption DEF ForceNewPhase
  <2>2. Clock!Force
    BY <2>1 DEF Clock!Force
  <2> QED
    BY <2>1, <2>2, DetectorAssumption DEF Clock!Next
<1>4. CASE UNCHANGED detectorVars
  BY <1>4 DEF detectorVars, detector, Clock!clock
<1> QED
  BY <1>1, <1>2, <1>3, <1>4 DEF DetectorNext

(* The detector implements the clock the pipeline relies on: consecutive   *)
(* phase numbers, half a window of embeddings before every drift, and      *)
(* nothing at all after a phase that was forced.                           *)
THEOREM ClockRefinement == DetectorSpec => ImplementsPhaseClock
<1>1. DetectorInit => Clock!Init
  BY DEF DetectorInit, Clock!Init
<1> QED
  BY <1>1, InitWindow, StepClock, PTL DEF DetectorSpec, ImplementsPhaseClock, Clock!Spec

-----------------------------------------------------------------------------
(* The centroid of a window.  A set of numbers has a least one, which is   *)
(* what an induction on the size of a set of positions comes down to here. *)

LEMMA LeastNumber ==
  ASSUME NEW T, T \subseteq Nat, T # {}
  PROVE  \E x \in T : \A y \in T : x <= y
<1>1. PICK x \in T : \A y \in T : <<y, x>> \notin OpToRel(<, Nat)
  BY WFMin, NatLessThanWellFounded, Zenon
<1>2. \A y \in T : ~(y < x)
  BY <1>1 DEF OpToRel
<1>3. \A y \in T : x <= y
  BY <1>2
<1> QED
  BY <1>3

(* The sum over a set of positions, of the sum over one position less.     *)
Chosen(I) == CHOOSE i \in I : TRUE

SumStep(s, g, I) == IF I = {} THEN <<0, 0>> ELSE Plus(s[Chosen(I)], g[I \ {Chosen(I)}])

IsSum(s, g) == g = [I \in SUBSET (DOMAIN s) |-> SumStep(s, g, I)]

LEMMA CentroidIsASum == ASSUME NEW s PROVE Centroid(s) = (CHOOSE g : IsSum(s, g))[DOMAIN s]
BY DEF Centroid, FoldSeq, FoldFunction, FoldFunctionOnSet, MapThenFoldSet, IsSum, SumStep, Chosen

LEMMA OneLess ==
  ASSUME NEW I, IsFiniteSet(I), I # {}
  PROVE  /\ Chosen(I) \in I
         /\ IsFiniteSet(I \ {Chosen(I)})
         /\ Cardinality(I) \in Nat \ {0}
         /\ Cardinality(I \ {Chosen(I)}) = Cardinality(I) - 1
<1>1. Chosen(I) \in I
  BY DEF Chosen
<1>2. Cardinality(I) \in Nat /\ Cardinality(I) # 0
  BY FS_CardinalityType, FS_EmptySet
<1> QED
  BY <1>1, <1>2, FS_RemoveElement

LEMMA Positions ==
  ASSUME NEW S, NEW s \in Seq(S), NEW I \in SUBSET (DOMAIN s)
  PROVE  IsFiniteSet(I) /\ Cardinality(I) \in Nat /\ Cardinality(I) <= Len(s)
<1>1. DOMAIN s = 1 .. Len(s) /\ Len(s) \in Nat
  OBVIOUS
<1>2. IsFiniteSet(1 .. Len(s)) /\ Cardinality(1 .. Len(s)) = Len(s)
  <2> DEFINE n == Len(s)
  <2>1. n \in Nat
    BY <1>1
  <2> HIDE DEF n
  <2>2. IsFiniteSet(1 .. n) /\ Cardinality(1 .. n) = n
    BY <2>1, FS_Interval
  <2> QED
    BY <2>2 DEF n
<1>3. I \subseteq 1 .. Len(s)
  BY <1>1
<1>4. IsFiniteSet(I) /\ Cardinality(I) <= Cardinality(1 .. Len(s))
  BY <1>2, <1>3, FS_Subset
<1> QED
  BY <1>2, <1>4, FS_CardinalityType

(* There is such a sum: up to any size of the set.                         *)
LEMMA SumExists == ASSUME NEW S, NEW s \in Seq(S) PROVE \E g : IsSum(s, g)
<1> DEFINE UpTo(k) == {I \in SUBSET (DOMAIN s) : Cardinality(I) <= k}
           Approximates(g, k) == g = [I \in UpTo(k) |-> SumStep(s, g, I)]
           T == {k \in Nat : ~ \E g : Approximates(g, k)}
<1>1. T = {}
  <2> SUFFICES ASSUME T # {} PROVE FALSE
    OBVIOUS
  <2>1. PICK k \in T : \A l \in T : k <= l
    <3>1. T \subseteq Nat
      OBVIOUS
    <3> HIDE DEF T
    <3> QED
      BY <3>1, LeastNumber, Zenon
  <2>2. k \in Nat /\ ~ \E g : Approximates(g, k)
    BY <2>1
  <2>3. PICK g : k = 0 \/ Approximates(g, k - 1)
    <3>1. CASE k = 0
      BY <3>1
    <3>2. CASE k # 0
      <4>1. k - 1 \in Nat /\ k - 1 \notin T
        <5> HIDE DEF T
        <5> QED
          BY <2>1, <2>2, <3>2
      <4>2. \E g : Approximates(g, k - 1)
        BY <4>1
      <4> HIDE DEF Approximates
      <4> QED
        BY <4>2
    <3> QED
      BY <3>1, <3>2
  <2> DEFINE h == [I \in UpTo(k) |-> SumStep(s, g, I)]
  <2>4. ASSUME NEW I \in UpTo(k) PROVE SumStep(s, h, I) = SumStep(s, g, I)
    <3>1. CASE I = {}
      BY <3>1 DEF SumStep
    <3>2. CASE I # {}
      <4> DEFINE J == I \ {Chosen(I)}
      <4>1. J \in SUBSET (DOMAIN s) /\ Cardinality(J) \in Nat /\ Cardinality(J) <= k - 1
        <5>1. Cardinality(J) = Cardinality(I) - 1 /\ Cardinality(I) \in Nat \ {0}
          BY <3>2, OneLess, Positions
        <5> QED
          BY <2>2, <5>1
      <4>2. k # 0 /\ J \in UpTo(k - 1) /\ J \in UpTo(k)
        BY <2>2, <4>1
      <4>3. g[J] = SumStep(s, g, J)
        BY <2>3, <4>2
      <4>4. h[J] = SumStep(s, g, J)
        <5> HIDE DEF UpTo, J
        <5> QED
          BY <4>2
      <4> HIDE DEF h
      <4> QED
        BY <3>2, <4>3, <4>4 DEF SumStep
    <3> QED
      BY <3>1, <3>2
  <2>5. h = [I \in UpTo(k) |-> SumStep(s, h, I)]
    <3> DEFINE r == [I \in UpTo(k) |-> SumStep(s, h, I)]
    <3>1. \A I \in UpTo(k) : h[I] = r[I]
      <4> HIDE DEF UpTo
      <4> QED
        BY <2>4
    <3> HIDE DEF UpTo
    <3> QED
      BY <3>1
  <2> QED
    BY <2>2, <2>5
<1>2. Len(s) \in Nat /\ Len(s) \notin T
  <2>1. Len(s) \in Nat
    OBVIOUS
  <2> HIDE DEF T
  <2> QED
    BY <1>1, <2>1
<1>3. PICK g : Approximates(g, Len(s))
  BY <1>2
<1>4. UpTo(Len(s)) = SUBSET (DOMAIN s)
  BY Positions
<1> QED
  BY <1>3, <1>4 DEF IsSum

LEMMA CentroidIsTheSum ==
  ASSUME NEW S, NEW s \in Seq(S)
  PROVE  \E g : IsSum(s, g) /\ Centroid(s) = g[DOMAIN s]
<1>1. IsSum(s, CHOOSE g : IsSum(s, g))
  BY SumExists, Zenon
<1> QED
  BY <1>1, CentroidIsASum, Zenon

Pairs == Int \X Int

LEMMA PlusIsAPair == ASSUME NEW u \in Pairs, NEW v \in Pairs PROVE Plus(u, v) \in Pairs
BY DEF Plus, Pairs

LEMMA CentroidType == ASSUME NEW s \in Seq(Pairs) PROVE Centroid(s) \in Pairs
<1>1. PICK g : IsSum(s, g) /\ Centroid(s) = g[DOMAIN s]
  BY CentroidIsTheSum
<1> DEFINE Wrong(k) == \E I \in SUBSET (DOMAIN s) : Cardinality(I) = k /\ g[I] \notin Pairs
           T == {k \in Nat : Wrong(k)}
<1>2. T = {}
  <2> SUFFICES ASSUME T # {} PROVE FALSE
    OBVIOUS
  <2>1. PICK k \in T : \A l \in T : k <= l
    <3>1. T \subseteq Nat
      OBVIOUS
    <3> HIDE DEF T
    <3> QED
      BY <3>1, LeastNumber, Zenon
  <2>2. PICK I \in SUBSET (DOMAIN s) : Cardinality(I) = k /\ g[I] \notin Pairs
    BY <2>1
  <2>3. g[I] = SumStep(s, g, I)
    BY <1>1 DEF IsSum
  <2>4. I # {}
    <3>1. <<0, 0>> \in Pairs
      BY DEF Pairs
    <3> QED
      BY <2>2, <2>3, <3>1 DEF SumStep
  <2> DEFINE i == Chosen(I)
             J == I \ {i}
  <2>5. /\ i \in I /\ J \in SUBSET (DOMAIN s)
        /\ Cardinality(J) = k - 1 /\ k \in Nat \ {0}
    BY <2>2, <2>4, OneLess, Positions
  <2>6. g[J] \in Pairs
    <3>1. k - 1 \in Nat /\ k - 1 \notin T
      <4> HIDE DEF T
      <4> QED
        BY <2>1, <2>5
    <3>2. ~Wrong(k - 1)
      BY <3>1
    <3> HIDE DEF J
    <3> QED
      BY <2>5, <3>2
  <2>7. s[i] \in Pairs
    <3> HIDE DEF i
    <3> QED
      BY <2>5
  <2>8. g[I] = Plus(s[i], g[J])
    BY <2>3, <2>4 DEF SumStep
  <2> HIDE DEF i, J
  <2> QED
    BY <2>2, <2>6, <2>7, <2>8, PlusIsAPair
<1>3. DOMAIN s \in SUBSET (DOMAIN s) /\ Cardinality(DOMAIN s) \in Nat
  BY Positions
<1>4. ~Wrong(Cardinality(DOMAIN s))
  BY <1>2, <1>3
<1> QED
  BY <1>1, <1>3, <1>4

Times(k, e) == <<k * e[1], k * e[2]>>

(* The centroid of equal embeddings is their multiple.                     *)
LEMMA CentroidOfEqual ==
  ASSUME NEW s \in Seq(Pairs), NEW e \in Pairs, \A i \in DOMAIN s : s[i] = e
  PROVE  Centroid(s) = Times(Len(s), e)
<1>1. PICK g : IsSum(s, g) /\ Centroid(s) = g[DOMAIN s]
  BY CentroidIsTheSum
<1> DEFINE Wrong(k) == \E I \in SUBSET (DOMAIN s) : Cardinality(I) = k /\ g[I] # Times(k, e)
           T == {k \in Nat : Wrong(k)}
<1>0. e[1] \in Int /\ e[2] \in Int
  BY DEF Pairs
<1>2. T = {}
  <2> SUFFICES ASSUME T # {} PROVE FALSE
    OBVIOUS
  <2>1. PICK k \in T : \A l \in T : k <= l
    <3>1. T \subseteq Nat
      OBVIOUS
    <3> HIDE DEF T
    <3> QED
      BY <3>1, LeastNumber, Zenon
  <2>2. PICK I \in SUBSET (DOMAIN s) : Cardinality(I) = k /\ g[I] # Times(k, e)
    BY <2>1
  <2>3. g[I] = SumStep(s, g, I)
    BY <1>1 DEF IsSum
  <2>4. I # {}
    <3>1. ASSUME I = {} PROVE FALSE
      <4>1. k = 0
        BY <2>2, <3>1, FS_EmptySet
      <4>2. Times(0, e) = <<0, 0>>
        BY <1>0 DEF Times
      <4> QED
        BY <2>2, <2>3, <3>1, <4>1, <4>2 DEF SumStep
    <3> QED
      BY <3>1
  <2> DEFINE i == Chosen(I)
             J == I \ {i}
  <2>5. /\ i \in I /\ J \in SUBSET (DOMAIN s)
        /\ Cardinality(J) = k - 1 /\ k \in Nat \ {0}
    BY <2>2, <2>4, OneLess, Positions
  <2>6. g[J] = Times(k - 1, e)
    <3>1. k - 1 \in Nat /\ k - 1 \notin T
      <4> HIDE DEF T
      <4> QED
        BY <2>1, <2>5
    <3>2. ~Wrong(k - 1)
      BY <3>1
    <3> HIDE DEF J
    <3> QED
      BY <2>5, <3>2
  <2>7. s[i] = e
    BY <2>5
  <2>8. g[I] = Plus(e, Times(k - 1, e))
    BY <2>3, <2>4, <2>6, <2>7 DEF SumStep
  <2>9. Plus(e, Times(k - 1, e)) = Times(k, e)
    <3>1. \A z \in Int : z + (k - 1) * z = k * z
      BY <2>5
    <3>2. e[1] + (k - 1) * e[1] = k * e[1] /\ e[2] + (k - 1) * e[2] = k * e[2]
      BY <1>0, <3>1
    <3> QED
      BY <3>2 DEF Plus, Times
  <2> QED
    BY <2>2, <2>8, <2>9
<1>3. DOMAIN s \in SUBSET (DOMAIN s) /\ Cardinality(DOMAIN s) = Len(s) /\ Len(s) \in Nat
  <2>1. DOMAIN s = 1 .. Len(s) /\ Len(s) \in Nat
    OBVIOUS
  <2> DEFINE n == Len(s)
  <2> HIDE DEF n
  <2>2. n \in Nat
    BY <2>1 DEF n
  <2>3. Cardinality(1 .. n) = n
    BY <2>2, FS_Interval
  <2> QED
    BY <2>1, <2>3 DEF n
<1>4. ~Wrong(Len(s))
  BY <1>2, <1>3
<1> QED
  BY <1>1, <1>3, <1>4

(* How far a centroid is does not depend on how many embeddings it is the  *)
(* sum of.                                                                 *)
LEMMA DetectorConstants ==
  /\ Embeddings \subseteq Pairs /\ Unset \notin Pairs /\ Unset \notin Callers
  /\ Window \in Nat /\ Window >= 2 /\ Window \div 2 \in Nat
  /\ 1 <= Window \div 2 /\ Window \div 2 <= Window
  /\ CosNum \in Nat /\ CosDen \in Nat /\ 0 < CosNum /\ CosNum < CosDen
  /\ MaxRun \in Nat /\ MaxRun >= Window + Window \div 2
BY DetectorAssumption DEF DetectorAssumption, Pairs

LEMMA Scaling == ASSUME NEW m \in Int, m > 0, NEW x \in Int, NEW y \in Int PROVE m * x < m * y <=> x < y
OBVIOUS

LEMMA DotTimes ==
  ASSUME NEW m \in Int, NEW e \in Pairs, NEW b \in Pairs
  PROVE  /\ Dot(Times(m, e), b) = m * Dot(e, b)
         /\ Dot(b, Times(m, e)) = m * Dot(b, e)
         /\ Dot(e, b) = Dot(b, e)
         /\ Dot(e, b) \in Int
         /\ Times(m, e) \in Pairs
<1>1. e[1] \in Int /\ e[2] \in Int /\ b[1] \in Int /\ b[2] \in Int
  BY DEF Pairs
<1>2. /\ (m * e[1]) * b[1] + (m * e[2]) * b[2] = m * (e[1] * b[1] + e[2] * b[2])
      /\ b[1] * (m * e[1]) + b[2] * (m * e[2]) = m * (b[1] * e[1] + b[2] * e[2])
  BY <1>1
<1>3. e[1] * b[1] = b[1] * e[1] /\ e[2] * b[2] = b[2] * e[2]
  BY <1>1
<1>4. Times(m, e)[1] = m * e[1] /\ Times(m, e)[2] = m * e[2] /\ Times(m, e) \in Pairs
  BY <1>1 DEF Times, Pairs
<1>5. Dot(e, b) \in Int
  BY <1>1 DEF Dot
<1> QED
  BY <1>2, <1>3, <1>4, <1>5 DEF Dot

LEMMA DotType == ASSUME NEW e \in Pairs, NEW b \in Pairs PROVE Dot(e, b) \in Int
BY DEF Dot, Pairs

LEMMA FarScales ==
  ASSUME NEW m \in Nat \ {0}, NEW e \in Pairs, NEW b \in Pairs
  PROVE  Far(Times(m, e), b) <=> Far(e, b)
<1> DEFINE d == Dot(e, b)
           f == Dot(e, e)
           h == Dot(b, b)
           x == d * d * CosDen * CosDen
           y == CosNum * CosNum * f * h
<1>1. d \in Int /\ f \in Int /\ h \in Int /\ CosNum \in Int /\ CosDen \in Int /\ m \in Int /\ m > 0
  <2>1. d \in Int /\ f \in Int /\ h \in Int
    BY DotType, Zenon
  <2>2. CosNum \in Int /\ CosDen \in Int
    BY DetectorConstants
  <2> QED
    BY <2>1, <2>2
<1>2. Dot(Times(m, e), b) = m * d
  BY <1>1, DotTimes
<1>3. Dot(Times(m, e), Times(m, e)) = m * (m * f)
  BY <1>1, DotTimes
<1> HIDE DEF d, f, h
<1>4. m * d <= 0 <=> d <= 0
  BY <1>1
<1>5. (m * d) * (m * d) * CosDen * CosDen = (m * m) * x
  <2>1. (m * d) * (m * d) = (m * m) * (d * d) /\ m * m \in Int /\ d * d \in Int
    BY <1>1
  <2>2. \A p, q, c \in Int : (p * q) * c * c = p * (q * c * c)
    OBVIOUS
  <2> QED
    BY <1>1, <2>1, <2>2
<1>6. CosNum * CosNum * (m * (m * f)) * h = (m * m) * y
  <2>1. m * (m * f) = (m * m) * f /\ m * m \in Int /\ CosNum * CosNum \in Int
    BY <1>1
  <2>2. \A p, q, u, v \in Int : p * (q * u) * v = q * (p * u * v)
    OBVIOUS
  <2> QED
    BY <1>1, <2>1, <2>2
<1>7. x \in Int /\ y \in Int /\ m * m \in Int /\ m * m > 0
  BY <1>1
<1>8. (m * m) * x < (m * m) * y <=> x < y
  <2> HIDE DEF x, y
  <2> QED
    BY <1>7, Scaling
<1>9. Far(e, b) <=> d <= 0 \/ x < y
  BY DEF Far, d, f, h
<1>10. Far(Times(m, e), b) <=> m * d <= 0 \/ (m * m) * x < (m * m) * y
  <2>1. Far(Times(m, e), b) <=>
          \/ m * d <= 0
          \/ (m * d) * (m * d) * CosDen * CosDen < CosNum * CosNum * (m * (m * f)) * h
    BY <1>2, <1>3, Zenon DEF Far, h
  <2> HIDE DEF x, y
  <2> QED
    BY <1>5, <1>6, <2>1, Zenon
<1> QED
  BY <1>4, <1>8, <1>9, <1>10, Zenon

(* An embedding that is not zero is near its own multiples.                *)
LEMMA NearItsMultiples ==
  ASSUME NEW m \in Nat \ {0}, NEW e \in Pairs, e # <<0, 0>>
  PROVE  ~Far(e, Times(m, e))
<1> DEFINE f == Dot(e, e)
<1>1. f \in Int /\ CosNum \in Int /\ CosDen \in Int /\ m \in Int /\ m > 0
      /\ 0 < CosNum /\ CosNum < CosDen
  BY DotTimes, DetectorConstants
<1>2. f > 0
  <2>1. e[1] \in Int /\ e[2] \in Int /\ ~(e[1] = 0 /\ e[2] = 0)
    BY DEF Pairs
  <2>2. e[1] * e[1] >= 0 /\ e[2] * e[2] >= 0
    BY <2>1
  <2>3. e[1] # 0 => e[1] * e[1] > 0
    BY <2>1
  <2>4. e[2] # 0 => e[2] * e[2] > 0
    BY <2>1
  <2> QED
    BY <2>1, <2>2, <2>3, <2>4 DEF Dot
<1>3. Dot(e, Times(m, e)) = m * f /\ Dot(Times(m, e), Times(m, e)) = m * (m * f)
  BY <1>1, DotTimes
<1> HIDE DEF f
<1> DEFINE z == (m * f) * (m * f)
<1>4. m * f > 0 /\ m * f \in Int
  BY <1>1, <1>2
<1>5. z > 0 /\ z \in Int
  BY <1>4
<1>6. CosNum * CosNum < CosDen * CosDen /\ CosNum * CosNum \in Int /\ CosDen * CosDen \in Int
  BY <1>1
<1>7. CosNum * CosNum * f * (m * (m * f)) = z * (CosNum * CosNum)
  BY <1>1
<1>8. (m * f) * (m * f) * CosDen * CosDen = z * (CosDen * CosDen)
  BY <1>1
<1>9. z * (CosNum * CosNum) < z * (CosDen * CosDen)
  <2> DEFINE p == CosNum * CosNum
             q == CosDen * CosDen
  <2> HIDE DEF z, p, q
  <2>1. z * p < z * q
    BY <1>5, <1>6, Scaling DEF p, q
  <2> QED
    BY <2>1 DEF p, q
<1>10. ~((m * f) * (m * f) * CosDen * CosDen < CosNum * CosNum * f * (m * (m * f)))
  <2>1. z * (CosNum * CosNum) \in Int /\ z * (CosDen * CosDen) \in Int
    BY <1>5, <1>6
  <2> HIDE DEF z
  <2> QED
    BY <1>7, <1>8, <1>9, <2>1
<1> QED
  BY <1>3, <1>4, <1>10 DEF Far, f

-----------------------------------------------------------------------------
(* The detector.  The window ends with the run of equal embeddings.  Once  *)
(* a window of nothing else was compared with the baseline, or became it,  *)
(* the baseline is near the embedding.                                     *)

Half == Window \div 2

Compared ==
  /\ Len(recent) <= run.length
  /\ Half <= Len(recent) \/ Window <= run.length - Len(recent)

NoZeroEmbedding == <<0, 0>> \notin Embeddings

SettlingInv ==
  /\ DetectorTypeOK
  /\ run.length > 0 => run.of \in Embeddings
  /\ \A i \in DOMAIN recent : i > Len(recent) - run.length => recent[i] = run.of
  /\ NoZeroEmbedding /\ baseline # Unset /\ Compared => ~Far(run.of, baseline)

LEMMA SlideProperties ==
  ASSUME NEW s \in Seq(Embeddings), Len(s) <= Window, NEW e \in Embeddings
  PROVE  /\ Slide(s, e) \in Seq(Embeddings)
         /\ Len(Slide(s, e)) = IF Len(s) < Window THEN Len(s) + 1 ELSE Window
         /\ Len(Slide(s, e)) \in 1 .. Window
         /\ Slide(s, e)[Len(Slide(s, e))] = e
         /\ \E gone \in {0, 1} : /\ Len(Slide(s, e)) + gone = Len(s) + 1
                                 /\ \A i \in 1 .. Len(s) - gone : Slide(s, e)[i] = s[i + gone]
<1>1. Len(s) \in Nat /\ Window \in Nat /\ Window >= 2
  BY DetectorConstants
<1>2. CASE Len(s) < Window
  <2>1. Slide(s, e) = Append(s, e)
    BY <1>2 DEF Slide
  <2>2. /\ Append(s, e) \in Seq(Embeddings) /\ Len(Append(s, e)) = Len(s) + 1
        /\ \A i \in 1 .. Len(s) : Append(s, e)[i] = s[i]
        /\ Append(s, e)[Len(s) + 1] = e
    BY AppendProperties
  <2>3. /\ Len(Slide(s, e)) + 0 = Len(s) + 1
        /\ \A i \in 1 .. Len(s) - 0 : Slide(s, e)[i] = s[i + 0]
    BY <1>1, <2>1, <2>2
  <2> QED
    BY <1>1, <1>2, <2>1, <2>2, <2>3
<1>3. CASE Len(s) = Window
  <2> DEFINE t == Tail(s)
  <2>1. Slide(s, e) = Append(t, e)
    BY <1>1, <1>3 DEF Slide
  <2>2. s # <<>>
    BY <1>1, <1>3
  <2>3. /\ t \in Seq(Embeddings) /\ Len(t) = Len(s) - 1
        /\ \A i \in 1 .. Len(t) : t[i] = s[i + 1]
    BY <2>2, HeadTailProperties
  <2> HIDE DEF t
  <2>4. /\ Append(t, e) \in Seq(Embeddings) /\ Len(Append(t, e)) = Len(t) + 1
        /\ \A i \in 1 .. Len(t) : Append(t, e)[i] = t[i]
        /\ Append(t, e)[Len(t) + 1] = e
    BY <2>3, AppendProperties
  <2>5. /\ Len(Slide(s, e)) + 1 = Len(s) + 1
        /\ \A i \in 1 .. Len(s) - 1 : Slide(s, e)[i] = s[i + 1]
    BY <1>1, <2>1, <2>3, <2>4
  <2> QED
    BY <1>1, <1>3, <2>1, <2>3, <2>4, <2>5
<1> QED
  BY <1>1, <1>2, <1>3

(* A window, or what is left of one, of nothing but the embeddings of a    *)
(* run: near it, and near what is near it.                                 *)
LEMMA NearTheRun ==
  ASSUME NoZeroEmbedding, NEW s \in Seq(Embeddings), Len(s) >= 1, NEW e \in Embeddings,
         \A i \in DOMAIN s : s[i] = e
  PROVE  /\ ~Far(e, Centroid(s))
         /\ \A b \in Pairs : Far(Centroid(s), b) <=> Far(e, b)
<1>1. Embeddings \subseteq Pairs /\ e \in Pairs /\ e # <<0, 0>>
  BY DetectorConstants DEF NoZeroEmbedding
<1>2. s \in Seq(Pairs) /\ Len(s) \in Nat \ {0}
  <2>1. s \in Seq(Pairs)
    BY <1>1, SeqMonotonic
  <2> QED
    BY <2>1
<1>3. Centroid(s) = Times(Len(s), e)
  BY <1>1, <1>2, CentroidOfEqual
<1> QED
  BY <1>1, <1>2, <1>3, FarScales, NearItsMultiples

LEMMA DetectorStarts == DetectorInit => SettlingInv
<1> SUFFICES ASSUME DetectorInit PROVE SettlingInv
  OBVIOUS
<1>1. /\ recent = <<>> /\ baseline = Unset /\ phase = 1 /\ lock = Unset
      /\ pc = [c \in Callers |-> "idle"] /\ run = [of |-> Unset, length |-> 0]
  BY DEF DetectorInit
<1>2. DetectorTypeOK
  <2>1. 1 \in 1 .. MaxPhase /\ Len(<<>>) <= Window /\ 0 \in 0 .. MaxRun
    BY DetectorAssumption DEF DetectorAssumption
  <2> QED
    BY <1>1, <2>1 DEF DetectorTypeOK
<1> QED
  BY <1>1, <1>2 DEF SettlingInv

(* What the invariant says of the window with a new embedding.             *)
LEMMA NewWindow ==
  ASSUME SettlingInv, NEW c \in Callers, NEW e \in Embeddings, AddExperience(c, e)
  PROVE  LET s == Slide(recent, e)
         IN  /\ s \in Seq(Embeddings) /\ Len(s) \in 1 .. Window /\ Len(s) <= Len(recent) + 1
             /\ Centroid(s) \in Pairs
             /\ run'.of = e /\ run'.length \in 1 .. MaxRun
             /\ run' \in [of : Embeddings, length : 1 .. MaxRun]
             /\ run'.length > 1 => run.of = e /\ run'.length <= run.length + 1
             /\ \A i \in 1 .. Len(s) : i > Len(s) - run'.length => s[i] = e
             /\ NoZeroEmbedding /\ Len(s) <= run'.length =>
                  /\ ~Far(e, Centroid(s))
                  /\ \A b \in Pairs : Far(Centroid(s), b) <=> Far(e, b)
<1> DEFINE s == Slide(recent, e)
           m == Len(s)
           n == Len(recent)
           r == run.length
           R == run'.length
<1> SUFFICES /\ s \in Seq(Embeddings) /\ m \in 1 .. Window /\ m <= n + 1
             /\ Centroid(s) \in Pairs
             /\ run'.of = e /\ R \in 1 .. MaxRun
             /\ run' \in [of : Embeddings, length : 1 .. MaxRun]
             /\ R > 1 => run.of = e /\ R <= r + 1
             /\ \A i \in 1 .. m : i > m - R => s[i] = e
             /\ NoZeroEmbedding /\ m <= R =>
                  /\ ~Far(e, Centroid(s))
                  /\ \A b \in Pairs : Far(Centroid(s), b) <=> Far(e, b)
  OBVIOUS
<1>1. /\ recent \in Seq(Embeddings) /\ n \in Nat /\ n <= Window /\ r \in 0 .. MaxRun /\ r \in Nat
      /\ DOMAIN recent = 1 .. n
      /\ \A i \in 1 .. n : i > n - r => recent[i] = run.of
  <2>1. recent \in Seq(Embeddings) /\ n <= Window /\ r \in 0 .. MaxRun
    BY DEF SettlingInv, DetectorTypeOK
  <2>2. n \in Nat /\ DOMAIN recent = 1 .. n /\ r \in Nat
    BY <2>1, DetectorConstants
  <2> QED
    BY <2>1, <2>2 DEF SettlingInv
<1>2. /\ s \in Seq(Embeddings) /\ m \in 1 .. Window /\ s[m] = e /\ m \in Nat /\ m >= 1 /\ m <= n + 1
  <2>1. s \in Seq(Embeddings) /\ m \in 1 .. Window /\ s[m] = e
        /\ m = IF n < Window THEN n + 1 ELSE Window
    BY <1>1, SlideProperties
  <2>2. n \in Nat /\ n <= Window /\ Window \in Nat /\ Window >= 2
    BY <1>1, DetectorConstants
  <2> HIDE DEF m, n, s
  <2>3. m \in Nat /\ m >= 1 /\ m <= n + 1
    BY <2>1, <2>2
  <2> QED
    BY <2>1, <2>3
<1>3. PICK gone \in {0, 1} : m + gone = n + 1 /\ \A i \in 1 .. n - gone : s[i] = recent[i + gone]
  BY <1>1, SlideProperties
<1>4. Centroid(s) \in Pairs
  <2>1. Embeddings \subseteq Pairs
    BY DetectorConstants
  <2>2. s \in Seq(Pairs)
    <3> HIDE DEF s
    <3> QED
      BY <1>2, <2>1, SeqMonotonic
  <2> HIDE DEF s
  <2> QED
    BY <2>2, CentroidType
<1>5. run' = [of |-> e, length |-> IF run.of = e THEN Least(r + 1, MaxRun) ELSE 1]
  BY DEF AddExperience
<1>6. /\ run'.of = e /\ R \in 1 .. MaxRun /\ R \in Nat
      /\ run' \in [of : Embeddings, length : 1 .. MaxRun]
      /\ R > 1 => run.of = e /\ R <= r + 1
  <2>1. MaxRun \in Nat /\ MaxRun >= 1
    BY DetectorConstants
  <2>2. Least(r + 1, MaxRun) \in 1 .. MaxRun /\ Least(r + 1, MaxRun) <= r + 1
    BY <1>1, <2>1 DEF Least
  <2>3. R = IF run.of = e THEN Least(r + 1, MaxRun) ELSE 1
    BY <1>5
  <2>4. R \in 1 .. MaxRun /\ R \in Nat /\ (R > 1 => run.of = e /\ R <= r + 1)
    BY <2>1, <2>2, <2>3
  <2> QED
    BY <1>5, <2>3, <2>4
<1> HIDE DEF s, m, n, r, R
<1>7. \A i \in 1 .. m : i > m - R => s[i] = e
  <2> SUFFICES ASSUME NEW i \in 1 .. m, i > m - R PROVE s[i] = e
    OBVIOUS
  <2>1. CASE i = m
    BY <1>2, <2>1
  <2>2. CASE i < m
    <3>1. R > 1
      BY <1>2, <1>6, <2>2
    <3>2. i \in 1 .. n - gone /\ i + gone \in 1 .. n /\ i + gone > n - r
      BY <1>1, <1>2, <1>3, <1>6, <2>2, <3>1
    <3> QED
      BY <1>1, <1>3, <1>6, <3>1, <3>2
  <2> QED
    BY <1>2, <2>1, <2>2
<1>8. NoZeroEmbedding /\ m <= R =>
     /\ ~Far(e, Centroid(s))
     /\ \A b \in Pairs : Far(Centroid(s), b) <=> Far(e, b)
  <2> SUFFICES ASSUME NoZeroEmbedding, m <= R
               PROVE  /\ ~Far(e, Centroid(s))
                      /\ \A b \in Pairs : Far(Centroid(s), b) <=> Far(e, b)
    OBVIOUS
  <2>1. \A i \in 1 .. m : s[i] = e
    BY <1>2, <1>6, <1>7
  <2>2. DOMAIN s = 1 .. m /\ Len(s) >= 1
    BY <1>2 DEF m
  <2> QED
    BY <1>2, <2>1, <2>2, NearTheRun
<1> QED
  BY <1>2, <1>4, <1>6, <1>7, <1>8

LEMMA DetectorSteps ==
  ASSUME SettlingInv, [DetectorNext]_detectorVars PROVE SettlingInv'
<1> DEFINE n == Len(recent)
           r == run.length
<1>1. /\ recent \in Seq(Embeddings) /\ n \in Nat /\ n <= Window /\ r \in 0 .. MaxRun /\ r \in Nat
      /\ baseline \in Pairs \union {Unset}
      /\ phase \in 1 .. MaxPhase
  <2>1. /\ recent \in Seq(Embeddings) /\ n <= Window /\ r \in 0 .. MaxRun
        /\ baseline \in Pairs \union {Unset} /\ phase \in 1 .. MaxPhase
    BY DEF SettlingInv, DetectorTypeOK, Pairs
  <2> QED
    BY <2>1, DetectorConstants
<1>2. Window \in Nat /\ Half \in Nat /\ 1 <= Half /\ Half <= Window
  BY DetectorConstants DEF Half
<1>3. ASSUME NEW c \in Callers, NEW e \in Embeddings, AddExperience(c, e) PROVE SettlingInv'
  <2> DEFINE s == Slide(recent, e)
             m == Len(s)
             R == run'.length
  <2>1. /\ s \in Seq(Embeddings) /\ m \in 1 .. Window /\ m <= n + 1
        /\ Centroid(s) \in Pairs
        /\ run'.of = e /\ R \in 1 .. MaxRun
        /\ run' \in [of : Embeddings, length : 1 .. MaxRun]
        /\ R > 1 => run.of = e /\ R <= r + 1
        /\ \A i \in 1 .. m : i > m - R => s[i] = e
        /\ NoZeroEmbedding /\ m <= R =>
             /\ ~Far(e, Centroid(s))
             /\ \A b \in Pairs : Far(Centroid(s), b) <=> Far(e, b)
    BY <1>3, NewWindow
  <2>2. m \in Nat /\ R \in Nat /\ m >= 1 /\ m <= Window /\ R >= 1
        /\ run' \in [of : Embeddings \union {Unset}, length : 0 .. MaxRun]
    <3>1. run'.of \in Embeddings /\ R \in 0 .. MaxRun /\ R \in Nat /\ R >= 1
      BY <2>1, DetectorConstants
    <3>2. m \in Nat /\ m >= 1 /\ m <= Window
      BY <1>2, <2>1
    <3>3. 1 .. MaxRun \subseteq 0 .. MaxRun
      OBVIOUS
    <3>4. run' \in [of : Embeddings \union {Unset}, length : 0 .. MaxRun]
      BY <2>1, <3>3
    <3> QED
      BY <3>1, <3>2, <3>4
  <2>6. m = IF n < Window THEN n + 1 ELSE Window
    BY <1>1, SlideProperties
  <2>3. lock' = lock /\ lock \in Callers \union {Unset}
        /\ pc' \in [Callers -> {"idle", "reading phase", "inside force_new_phase"}]
    <3>1. /\ lock' = lock /\ lock \in Callers \union {Unset}
          /\ pc \in [Callers -> {"idle", "reading phase", "inside force_new_phase"}]
          /\ pc' = pc \/ pc' = [pc EXCEPT ![c] = "reading phase"]
      BY <1>3, Zenon DEF AddExperience, SettlingInv, DetectorTypeOK
    <3> QED
      BY <3>1, Zenon
  <2>4. CASE ~Drifts(s) /\ Gather(s)
    <3>1. /\ recent' = s /\ phase' = phase
          /\ baseline' = IF EnoughData(s) /\ baseline = Unset /\ m = Window
                         THEN Centroid(s) ELSE baseline
      BY <2>4 DEF Gather
    <3>2. baseline' \in Pairs \union {Unset}
      BY <1>1, <2>1, <3>1
    <3>3. DetectorTypeOK'
      <4> HIDE DEF s, R
      <4> QED
        BY <1>1, <2>1, <2>2, <2>3, <3>1, <3>2 DEF DetectorTypeOK, Pairs, m
    <3>4. NoZeroEmbedding /\ baseline' # Unset /\ Compared' => ~Far(e, baseline')
      <4> SUFFICES ASSUME NoZeroEmbedding, baseline' # Unset, m <= R, Half <= m \/ Window <= R - m
                   PROVE  ~Far(e, baseline')
        BY <3>1 DEF Compared, Half
      <4>1. EnoughData(s) <=> Half <= m
        BY <1>2, <2>2 DEF EnoughData, Half
      <4>2. CASE Half <= m
        <5>1. CASE baseline = Unset
          BY <2>1, <3>1, <5>1
        <5>2. CASE baseline # Unset
          <6>1. baseline' = baseline /\ baseline \in Pairs
            BY <1>1, <3>1, <5>2
          <6>2. ~Far(Centroid(s), baseline)
            BY <2>4, <4>1, <4>2, <5>2 DEF Drifts
          <6> QED
            BY <2>1, <6>1, <6>2
        <5> QED
          BY <5>1, <5>2
      <4>3. CASE m < Half /\ Window <= R - m
        <5>1. R > 1 /\ n <= r /\ Window <= r - n
          <6> HIDE DEF m, n, r, R
          <6>1. R > 1
            BY <1>2, <2>2, <4>3
          <6>2. R <= r + 1 /\ m <= n + 1
            BY <2>1, <6>1
          <6>3. m = n + 1
            BY <1>1, <1>2, <2>2, <2>6, <4>3
          <6> QED
            BY <1>1, <1>2, <2>2, <4>3, <6>1, <6>2, <6>3
        <5>2. baseline' = baseline /\ run.of = e
          BY <1>2, <2>1, <2>2, <3>1, <4>1, <4>3, <5>1
        <5> QED
          BY <5>1, <5>2 DEF SettlingInv, Compared
      <4> QED
        BY <1>2, <2>2, <4>2, <4>3
    <3>5. \A i \in DOMAIN recent' : i > Len(recent') - R => recent'[i] = e
      <4>1. DOMAIN recent' = 1 .. m /\ Len(recent') = m
        <5> HIDE DEF s
        <5> QED
          BY <2>1, <3>1
      <4> QED
        BY <2>1, <3>1, <4>1
    <3> QED
      BY <2>1, <3>3, <3>4, <3>5 DEF SettlingInv
  <2>5. CASE Drifts(s) /\ NewPhase(s)
    <3>1. /\ recent' = <<>> /\ phase' = phase + 1 /\ phase < MaxPhase /\ baseline' = Centroid(s)
      BY <2>5 DEF NewPhase, AfterDrift
    <3>2. DetectorTypeOK'
      <4>1. phase' \in 1 .. MaxPhase
        BY <1>1, <3>1, DetectorAssumption DEF DetectorAssumption
      <4>2. recent' \in Seq(Embeddings) /\ Len(recent') <= Window
        BY <1>2, <3>1
      <4> HIDE DEF s, R
      <4> QED
        BY <2>1, <2>2, <2>3, <3>1, <4>1, <4>2 DEF DetectorTypeOK, Pairs
    <3>3. NoZeroEmbedding /\ Compared' => ~Far(e, baseline')
      <4> SUFFICES ASSUME NoZeroEmbedding, Compared' PROVE ~Far(e, baseline')
        OBVIOUS
      <4>1. Len(recent') = 0
        BY <3>1
      <4>2. Half <= 0 \/ Window <= R - 0
        BY <4>1 DEF Compared, Half
      <4>3. m <= R
        BY <1>2, <2>2, <4>2
      <4> QED
        BY <2>1, <3>1, <4>3
    <3> QED
      BY <2>1, <3>1, <3>2, <3>3 DEF SettlingInv
  <2> QED
    BY <1>3, <2>4, <2>5 DEF AddExperience
<1>4. ASSUME NEW c \in Callers, GetCurrentPhase(c) PROVE SettlingInv'
  <2>1. UNCHANGED <<recent, baseline, phase, lock, run>>
    BY <1>4 DEF GetCurrentPhase, detector
  <2>2. DetectorTypeOK'
    BY <1>4, <2>1, Zenon DEF GetCurrentPhase, SettlingInv, DetectorTypeOK
  <2> QED
    BY <2>1, <2>2 DEF SettlingInv, Compared
<1>5. ASSUME NEW c \in Callers, ForceNewPhase(c) PROVE SettlingInv'
  <2>1. /\ phase < MaxPhase /\ lock' = c /\ phase' = phase + 1
        /\ baseline' = IF recent = <<>> THEN Unset ELSE Centroid(recent)
        /\ recent' = <<>> /\ run' = run
    BY <1>5 DEF ForceNewPhase
  <2>2. Centroid(recent) \in Pairs
    <3>1. recent \in Seq(Pairs)
      BY <1>1, DetectorConstants, SeqMonotonic
    <3> QED
      BY <3>1, CentroidType
  <2>3. DetectorTypeOK'
    <3>1. phase' \in 1 .. MaxPhase
      BY <1>1, <2>1, DetectorAssumption DEF DetectorAssumption
    <3>2. recent' \in Seq(Embeddings) /\ Len(recent') <= Window
      BY <1>2, <2>1
    <3>3. pc' \in [Callers -> {"idle", "reading phase", "inside force_new_phase"}]
      <4>1. pc' = [pc EXCEPT ![c] = "inside force_new_phase"]
        BY <1>5 DEF ForceNewPhase
      <4> QED
        BY <4>1, Zenon DEF SettlingInv, DetectorTypeOK
    <3>4. baseline' \in Pairs \union {Unset}
      BY <2>1, <2>2
    <3>5. lock' \in Callers \union {Unset} /\ run' = run
          /\ run \in [of : Embeddings \union {Unset}, length : 0 .. MaxRun]
      BY <2>1 DEF SettlingInv, DetectorTypeOK
    <3> QED
      BY <3>1, <3>2, <3>3, <3>4, <3>5 DEF DetectorTypeOK, Pairs
  <2>4. NoZeroEmbedding /\ baseline' # Unset /\ Compared' => ~Far(run.of, baseline')
    <3> SUFFICES ASSUME NoZeroEmbedding, baseline' # Unset, Compared' PROVE ~Far(run.of, baseline')
      OBVIOUS
    <3>1. Len(recent') = 0 /\ run'.length = r
      BY <2>1
    <3>2. Half <= 0 \/ Window <= r - 0
      BY <3>1 DEF Compared, Half
    <3>3. n <= r /\ r > 0
      BY <1>1, <1>2, <3>2
    <3>4. recent # <<>> /\ baseline' = Centroid(recent) /\ run.of \in Embeddings
      BY <2>1, <3>3 DEF SettlingInv
    <3>5. Len(recent) >= 1 /\ DOMAIN recent = 1 .. n
      BY <1>1, <3>4
    <3>6. \A i \in DOMAIN recent : recent[i] = run.of
      BY <1>1, <3>3, <3>5 DEF SettlingInv
    <3> QED
      BY <1>1, <3>4, <3>5, <3>6, NearTheRun
  <2>5. recent' = <<>> /\ run' = run
    BY <2>1
  <2>6. DOMAIN recent' = {}
    BY <2>5
  <2>7. run'.length > 0 => run'.of \in Embeddings
    BY <2>5 DEF SettlingInv
  <2>8. NoZeroEmbedding /\ baseline' # Unset /\ Compared' => ~Far(run'.of, baseline')
    BY <2>4, <2>5
  <2> QED
    BY <2>3, <2>6, <2>7, <2>8 DEF SettlingInv
<1>6. CASE UNCHANGED detectorVars
  <2>1. UNCHANGED <<recent, baseline, phase, lock, pc, run>>
    BY <1>6 DEF detectorVars, detector
  <2> QED
    BY <2>1 DEF SettlingInv, DetectorTypeOK, Compared
<1> QED
  BY <1>3, <1>4, <1>5, <1>6 DEF DetectorNext

(* A step from a state of the invariant to one.                            *)
LEMMA DetectorSettles ==
  ASSUME SettlingInv, SettlingInv', NoZeroEmbedding, DetectorNext
  PROVE  NeverLags' /\ StableWorkloadIsLeftAlone
<1>1. Window \in Nat /\ Half \in Nat /\ 1 <= Half /\ Half <= Window /\ Window >= 2
      /\ Settling = Window + Half
  BY DetectorConstants DEF Half, Settling
<1>2. NeverLags'
  <2> SUFFICES ASSUME baseline' # Unset, run'.length >= Settling PROVE ~Far(run'.of, baseline')
    BY DEF NeverLags, Settling
  <2>1. Len(recent') \in Nat /\ Len(recent') <= Window /\ run'.length \in Nat
    <3>1. recent' \in Seq(Embeddings) /\ Len(recent') <= Window /\ run'.length \in 0 .. MaxRun
      BY DEF SettlingInv, DetectorTypeOK
    <3> QED
      BY <3>1
  <2>2. /\ Len(recent') <= run'.length
        /\ Half <= Len(recent') \/ Window <= run'.length - Len(recent')
    BY <1>1, <2>1
  <2>3. Compared'
    BY <1>1, <2>1, <2>2 DEF Compared, Half
  <2> QED
    BY <2>3 DEF SettlingInv
<1>3. StableWorkloadIsLeftAlone
  <2> SUFFICES ASSUME phase' # phase, lock' = Unset, run'.length >= Settling PROVE FALSE
    <3>1. run'.length \in Nat /\ Settling \in Nat
      <4>1. run'.length \in 0 .. MaxRun
        BY DEF SettlingInv, DetectorTypeOK
      <4> QED
        BY <1>1, <4>1, DetectorConstants
    <3> QED
      BY <3>1 DEF StableWorkloadIsLeftAlone
  <2>1. PICK c \in Callers, e \in Embeddings : AddExperience(c, e)
    <3>1. ASSUME NEW c \in Callers, GetCurrentPhase(c) PROVE FALSE
      BY <3>1 DEF GetCurrentPhase, detector
    <3>2. ASSUME NEW c \in Callers, ForceNewPhase(c) PROVE FALSE
      BY <3>2, DetectorConstants DEF ForceNewPhase
    <3> QED
      BY <3>1, <3>2 DEF DetectorNext
  <2> DEFINE s == Slide(recent, e)
             m == Len(s)
             n == Len(recent)
             r == run.length
             R == run'.length
  <2>2. /\ m \in 1 .. Window /\ R \in 1 .. MaxRun
        /\ R > 1 => run.of = e /\ R <= r + 1
        /\ m <= R => \A b \in Pairs : Far(Centroid(s), b) <=> Far(e, b)
    BY <2>1, NewWindow
  <2>3. Drifts(s)
    BY <2>1 DEF AddExperience, Gather
  <2>4. n \in Nat /\ n <= Window /\ r \in Nat /\ baseline \in Pairs
    <3>1. recent \in Seq(Embeddings) /\ Len(recent) <= Window /\ run.length \in 0 .. MaxRun
          /\ baseline \in Pairs \union {Unset}
      BY DEF SettlingInv, DetectorTypeOK, Pairs
    <3> QED
      BY <2>3, <3>1 DEF Drifts
  <2>5. m <= R /\ R > 1
    BY <1>1, <2>2
  <2>6. run.of = e /\ R <= r + 1
    BY <2>2, <2>5
  <2>7. n <= r /\ (Half <= n \/ Window <= r - n)
    <3> HIDE DEF n, r
    <3>1. r >= Window + Half - 1
      BY <1>1, <2>4, <2>2, <2>6
    <3> QED
      BY <1>1, <2>4, <3>1
  <2>8. Compared
    BY <2>7 DEF Compared
  <2>9. ~Far(e, baseline)
    BY <2>3, <2>6, <2>8 DEF SettlingInv, Drifts
  <2> QED
    BY <2>2, <2>3, <2>4, <2>5, <2>9 DEF Drifts
<1> QED
  BY <1>2, <1>3

LEMMA DetectorInvAlways == DetectorSpec => []SettlingInv
<1>1. SettlingInv /\ [DetectorNext]_detectorVars => SettlingInv'
  BY DetectorSteps
<1> QED
  BY <1>1, DetectorStarts, PTL DEF DetectorSpec

(* What the detector keeps is of its types, whatever embeddings arrive.    *)
THEOREM DetectorTypes == DetectorSpec => []DetectorTypeOK
<1>1. SettlingInv => DetectorTypeOK
  BY DEF SettlingInv
<1> QED
  BY <1>1, DetectorInvAlways, PTL

(* The detector neither lags behind a workload nor reports a stable one:   *)
(* SettlesInTime, for every window, threshold, number of callers and set   *)
(* of embeddings, none of which is zero (an embedding is a direction: the  *)
(* embedders normalise what they return).                                  *)
THEOREM DetectorSettlesInTime ==
  ASSUME NoZeroEmbedding
  PROVE  DetectorSpec => SettlesInTime
<1>1. SettlingInv /\ SettlingInv' /\ [DetectorNext]_detectorVars
        => [NeverLags' /\ StableWorkloadIsLeftAlone]_detectorVars
  BY DetectorSettles
<1> QED
  BY <1>1, DetectorInvAlways, PTL DEF DetectorSpec, SettlesInTime

-----------------------------------------------------------------------------
(* The supervised engine.  While the weights have stayed since the cache   *)
(* was empty, all of the cache is theirs.                                  *)

EngineInv ==
  /\ EngineTypeOK
  /\ IsFiniteSet(Cached)
  /\ fresh => \A x \in Cached : cache[x] = weights
  /\ StalenessIsExplained

LEMMA EngineConstants == CacheSizes \subseteq Nat /\ None \notin Nat
BY EngineAssumption DEF EngineAssumption

LEMMA NothingIsCached == ASSUME cache' = NothingCached PROVE Cached' = {}
BY DEF NothingCached, Cached

LEMMA EngineStarts ==
  ASSUME NEW size \in CacheSizes, EngineInit(size)
  PROVE  EngineInv
<1>1. Cached = {} /\ size \in Nat /\ cacheSize = size
  BY EngineConstants DEF EngineInit, NothingCached, Cached
<1>2. IsFiniteSet(Cached) /\ Cardinality(Cached) = 0
  BY <1>1, FS_EmptySet
<1>3. EngineTypeOK
  BY <1>1, <1>2 DEF EngineInit, EngineTypeOK, NothingCached
<1> QED
  BY <1>1, <1>2, <1>3 DEF EngineInv, EngineInit, StalenessIsExplained

(* What puts weights into the network, new ones or old.                    *)
LEMMA EngineReweighted ==
  ASSUME EngineInv, NEW w, NewWeights(w), newest' \in Nat, newest <= newest', w \in 0 .. newest',
         UNCHANGED <<cacheSize, cache, memory, saved>>
  PROVE  EngineInv'
<1>1. /\ weights' = w /\ fresh' = FALSE /\ measured' = None
      /\ Cached' = Cached
  BY DEF NewWeights, Cached
<1>2. newest \in Nat /\ 0 .. newest \subseteq 0 .. newest'
  BY DEF EngineInv, EngineTypeOK
<1>3. cache' \in [Inputs -> 0 .. newest' \union {None}]
  <2>1. cache \in [Inputs -> 0 .. newest \union {None}]
    BY DEF EngineInv, EngineTypeOK
  <2> QED
    BY <1>2, <2>1
<1>4. EngineTypeOK'
  BY <1>1, <1>2, <1>3 DEF EngineInv, EngineTypeOK, memory
<1> QED
  BY <1>1, <1>4 DEF EngineInv, StalenessIsExplained

LEMMA EnginePredicts ==
  ASSUME EngineInv, NEW x \in Inputs, NEW use_cache \in BOOLEAN, Predict(x, use_cache)
  PROVE  EngineInv'
<1>1. UNCHANGED <<weights, newest, cacheSize, optimal, fisher, saved, fresh>>
  BY DEF Predict, network, memory
<1>2. /\ newest \in Nat /\ weights \in 0 .. newest /\ weights # None
      /\ cache \in [Inputs -> 0 .. newest \union {None}]
      /\ cacheSize \in Nat /\ Cardinality(Cached) \in Nat /\ Cardinality(Cached) <= cacheSize
  BY EngineConstants, FS_CardinalityType DEF EngineInv, EngineTypeOK
<1>3. CASE /\ LooksUp(use_cache) /\ cache[x] # None /\ cache' = cache
           /\ measured' = [served |-> cache[x], current |-> weights]
  <2>1. Cached' = Cached /\ HasSpace' = HasSpace /\ HasSpace /\ x \in Cached
    BY <1>1, <1>3 DEF Cached, HasSpace, LooksUp
  <2>2. measured' \in [served : 0 .. newest, current : {weights}]
    BY <1>2, <1>3
  <2>3. EngineTypeOK'
    BY <1>1, <1>3, <2>1, <2>2 DEF EngineInv, EngineTypeOK
  <2>4. fresh => measured'.served = measured'.current
    BY <1>3, <2>1 DEF EngineInv
  <2> QED
    BY <1>1, <1>3, <2>1, <2>3, <2>4 DEF EngineInv, StalenessIsExplained
<1>4. CASE /\ measured' = [served |-> weights, current |-> weights]
           /\ cache' = cache
  <2>1. Cached' = Cached
    BY <1>4 DEF Cached
  <2>2. measured' \in [served : 0 .. newest, current : {weights}]
    BY <1>2, <1>4
  <2>3. EngineTypeOK'
    BY <1>1, <1>4, <2>1, <2>2 DEF EngineInv, EngineTypeOK
  <2> QED
    BY <1>1, <1>4, <2>1, <2>3 DEF EngineInv, StalenessIsExplained
<1>5. CASE /\ measured' = [served |-> weights, current |-> weights]
           /\ HasSpace /\ cache' = [cache EXCEPT ![x] = weights]
  <2>1. Cached' = Cached \union {x}
    BY <1>2, <1>5 DEF Cached
  <2>2. IsFiniteSet(Cached') /\ Cardinality(Cached') <= Cardinality(Cached) + 1
    BY <1>2, <2>1, FS_AddElement DEF EngineInv
  <2>3. IsFiniteSet(Cached') /\ Cardinality(Cached') <= cacheSize
    <3>1. Cardinality(Cached') \in Nat
      BY <2>2, FS_CardinalityType
    <3> QED
      BY <1>2, <1>5, <2>2, <3>1 DEF HasSpace
  <2>4. measured' \in [served : 0 .. newest, current : {weights}]
    BY <1>2, <1>5
  <2>5. cache' \in [Inputs -> 0 .. newest \union {None}]
    BY <1>2, <1>5
  <2>6. EngineTypeOK'
    BY <1>1, <2>3, <2>4, <2>5 DEF EngineInv, EngineTypeOK
  <2>7. fresh => \A y \in Cached' : cache'[y] = weights
    BY <1>2, <1>5, <2>1 DEF EngineInv, Cached
  <2> QED
    BY <1>1, <1>5, <2>3, <2>6, <2>7 DEF EngineInv, StalenessIsExplained
<1> QED
  BY <1>3, <1>4, <1>5 DEF Predict, LooksUp

LEMMA EngineOtherCalls ==
  ASSUME EngineInv, \/ ClearCache \/ SaveEngine
                    \/ \E size \in CacheSizes : LoadEngine(size)
                    \/ \E p \in Phases, computed \in BOOLEAN : RegisterWorkloadPhase(p, computed)
  PROVE  EngineInv'
<1>1. measured' = None /\ newest' = newest
  BY DEF ClearCache, SaveEngine, LoadEngine, RegisterWorkloadPhase, network
<1>2. CASE ClearCache \/ \E size \in CacheSizes : LoadEngine(size)
  <2>1. Cached' = {} /\ cache' = NothingCached
    BY <1>2, NothingIsCached DEF ClearCache, LoadEngine
  <2>2. IsFiniteSet(Cached') /\ Cardinality(Cached') = 0
    BY <2>1, FS_EmptySet
  <2>3. /\ weights' \in 0 .. newest /\ cacheSize' \in Nat /\ fresh' = TRUE
        /\ optimal' \subseteq Phases /\ fisher' \subseteq Phases /\ saved' = saved
    BY <1>2, EngineConstants
       DEF ClearCache, LoadEngine, network, memory, EngineInv, EngineTypeOK
  <2>4. EngineTypeOK'
    BY <1>1, <2>1, <2>2, <2>3 DEF EngineInv, EngineTypeOK, NothingCached
  <2> QED
    BY <1>1, <2>1, <2>2, <2>4 DEF EngineInv, StalenessIsExplained
<1>3. CASE \/ SaveEngine
           \/ \E p \in Phases, computed \in BOOLEAN : RegisterWorkloadPhase(p, computed)
  <2>1. /\ UNCHANGED <<weights, cacheSize, cache, fresh>> /\ Cached' = Cached
        /\ optimal' \subseteq Phases /\ fisher' \subseteq Phases
        /\ saved' \in 0 .. newest \union {None}
    BY <1>3 DEF SaveEngine, RegisterWorkloadPhase, network, memory, EngineInv, EngineTypeOK, Cached
  <2>2. EngineTypeOK'
    BY <1>1, <2>1 DEF EngineInv, EngineTypeOK
  <2> QED
    BY <1>1, <2>1, <2>2 DEF EngineInv, StalenessIsExplained
<1> QED
  BY <1>2, <1>3

LEMMA EngineImproves ==
  ASSUME EngineInv, Improve, UNCHANGED <<cacheSize, cache, memory, saved>>
  PROVE  EngineInv'
<1>1. newest \in Nat /\ newest' = newest + 1 /\ NewWeights(newest + 1)
  BY DEF EngineInv, EngineTypeOK, Improve
<1> QED
  BY <1>1, EngineReweighted

LEMMA EngineStays == ASSUME EngineInv, UNCHANGED engine PROVE EngineInv'
<1>1. UNCHANGED <<weights, newest, cacheSize, cache, optimal, fisher, saved, measured, fresh>>
  BY DEF engine, network, memory
<1>2. Cached' = Cached /\ HasSpace' = HasSpace
  BY <1>1 DEF Cached, HasSpace
<1> QED
  BY <1>1, <1>2 DEF EngineInv, EngineTypeOK, StalenessIsExplained

LEMMA EngineCalls == ASSUME EngineInv, EngineCall PROVE EngineInv'
<1>1. CASE TrainOnBatch
  BY <1>1, EngineImproves DEF TrainOnBatch
<1> QED
  BY <1>1, EnginePredicts, EngineOtherCalls DEF EngineCall

-----------------------------------------------------------------------------
(* The forgetting test.                                                    *)

TestInv ==
  /\ TestTypeOK
  /\ at # "over" => idx <= LastPhase
  /\ at \in {"consolidate", "add", "train"} => epoch < TrainEpochs

Measurements(n) == [served : 0 .. n, current : 0 .. n]

LEMMA TestConstants ==
  /\ LastPhase \in Nat \ {0} /\ TrainEpochs \in Nat \ {0} /\ BufferSize \in Nat \ {0}
  /\ Labels \in Nat \ {0}
  /\ \A k \in 1 .. LastPhase : PhaseInputs[k] \in Inputs
  /\ \A k \in 2 .. LastPhase : k \in Phases
BY TestAssumption DEF TestAssumption, LastPhase

LEMMA TestStarts == ASSUME TestInit, newest \in Nat PROVE TestInv
BY TestConstants DEF TestInit, TestInv, TestTypeOK

(* What was measured stays what it is while new weights are made.          *)
LEMMA MeasurementsGrow ==
  ASSUME NEW m \in Nat, NEW n \in Nat, m <= n, NEW s \in Seq(Measurements(m))
  PROVE  s \in Seq(Measurements(n))
<1>1. Measurements(m) \subseteq Measurements(n)
  BY DEF Measurements
<1> QED
  BY <1>1, SeqMonotonic

LEMMA TestStays ==
  ASSUME TestInv, UNCHANGED test, newest \in Nat, newest' \in Nat, newest <= newest'
  PROVE  TestInv'
<1>1. retention' \in Seq(Measurements(newest'))
  BY MeasurementsGrow DEF TestInv, TestTypeOK, test, Measurements
<1> QED
  BY <1>1 DEF TestInv, TestTypeOK, test, Measurements

LEMMA Predicted ==
  ASSUME EngineInv, NEW x \in Inputs, Predict(x, TRUE)
  PROVE  measured' \in Measurements(newest) /\ newest' = newest
<1>1. /\ newest' = newest /\ newest \in Nat /\ weights \in 0 .. newest
      /\ cache \in [Inputs -> 0 .. newest \union {None}]
  BY DEF EngineInv, EngineTypeOK, Predict, network
<1>2. \/ cache[x] # None /\ measured' = [served |-> cache[x], current |-> weights]
      \/ measured' = [served |-> weights, current |-> weights]
  BY DEF Predict
<1>3. cache[x] \in 0 .. newest \union {None}
  BY <1>1
<1> QED
  BY <1>1, <1>2, <1>3 DEF Measurements

LEMMA TestSteps == ASSUME EngineInv, TestInv, TestStep PROVE EngineInv' /\ TestInv'
<1>1. /\ newest \in Nat /\ retention \in Seq(Measurements(newest))
      /\ idx \in 1 .. LastPhase + 1 /\ epoch \in 0 .. TrainEpochs /\ replayed \in 0 .. BufferSize
      /\ variant \in Variants
  BY DEF EngineInv, EngineTypeOK, TestInv, TestTypeOK, Measurements
<1>2. CASE Consolidate
  <2>1. newest' = newest /\ idx <= LastPhase /\ epoch < TrainEpochs
    BY <1>2 DEF Consolidate, RegisterWorkloadPhase, engine, network, TestInv
  <2>2. EngineInv'
    <3>1. CASE UNCHANGED engine
      BY <3>1, EngineStays
    <3>2. CASE idx > 1 /\ RegisterWorkloadPhase(idx, TRUE)
      <4>1. idx \in Phases
        BY <1>1, <2>1, <3>2, TestConstants
      <4> QED
        BY <3>2, <4>1, EngineOtherCalls
    <3> QED
      BY <1>2, <3>1, <3>2 DEF Consolidate
  <2> QED
    BY <1>1, <1>2, <2>1, <2>2 DEF Consolidate, TestInv, TestTypeOK, Measurements
<1>3. CASE AddQueries
  <2>1. newest' = newest
    BY <1>3 DEF AddQueries, engine, network
  <2>2. replayed' \in 0 .. BufferSize
    BY <1>1, <1>3, TestConstants DEF AddQueries
  <2>3. EngineInv'
    BY <1>3, EngineStays DEF AddQueries
  <2> QED
    BY <1>1, <1>3, <2>1, <2>2, <2>3 DEF AddQueries, TestInv, TestTypeOK, Measurements
<1>4. CASE TrainEpoch
  <2>1. Improve /\ UNCHANGED <<cacheSize, cache, memory, saved>>
    BY <1>4 DEF TrainEpoch, TrainOnBatch, TrainOnExperience
  <2>2. newest' = newest + 1 /\ EngineInv'
    BY <2>1, EngineImproves DEF Improve
  <2>3. retention' \in Seq(Measurements(newest'))
    BY <1>1, <1>4, <2>2, MeasurementsGrow DEF TrainEpoch
  <2>4. /\ epoch < TrainEpochs /\ idx <= LastPhase /\ epoch' = epoch + 1
        /\ at' = IF epoch' = TrainEpochs THEN "accuracy" ELSE "train"
        /\ UNCHANGED <<variant, idx, replayed>>
    BY <1>4 DEF TrainEpoch, TestInv
  <2> QED
    BY <1>1, <2>2, <2>3, <2>4, TestConstants DEF TestInv, TestTypeOK, Measurements
<1>5. CASE Accuracy
  <2>1. idx <= LastPhase
    BY <1>5 DEF Accuracy, TestInv
  <2>2. PhaseInputs[idx] \in Inputs
    BY <1>1, <2>1, TestConstants
  <2>3. EngineInv' /\ newest' = newest
    BY <1>5, <2>2, EnginePredicts, Predicted DEF Accuracy, EvaluateModel
  <2> QED
    BY <1>1, <1>5, <2>1, <2>3 DEF Accuracy, TestInv, TestTypeOK, Measurements
<1>6. CASE Retention
  <2>1. idx <= LastPhase
    BY <1>6 DEF Retention, TestInv
  <2>2. PhaseInputs[1] \in Inputs
    BY TestConstants
  <2>3. EngineInv' /\ newest' = newest /\ measured' \in Measurements(newest)
    BY <1>6, <2>2, EnginePredicts, Predicted DEF Retention, EvaluateModel
  <2>4. retention' \in Seq(Measurements(newest'))
    BY <1>1, <1>6, <2>3 DEF Retention
  <2>5. /\ idx' = idx + 1 /\ epoch' = 0 /\ UNCHANGED <<variant, replayed>>
        /\ at' = IF idx = LastPhase THEN "over" ELSE "consolidate"
    BY <1>6 DEF Retention
  <2> QED
    BY <1>1, <2>1, <2>3, <2>4, <2>5, TestConstants DEF TestInv, TestTypeOK, Measurements
<1> QED
  BY <1>2, <1>3, <1>4, <1>5, <1>6 DEF TestStep

-----------------------------------------------------------------------------
(* The trainer.  Checkpoints are saved one after another, of the weights   *)
(* just made; those listed are on disk, and whole.                         *)

Filed ==
  /\ \A i, j \in DOMAIN listed : i < j => listed[i].weights < listed[j].weights
  /\ \A i \in DOMAIN listed : listed[i] \in disk /\ listed[i].whole
  /\ \A checkpoint \in disk : checkpoint.weights <= newest /\ checkpoint.fit <= fits

(* Of the checkpoints of the fit under way, all are of its task; no fit to *)
(* come has a loss; and the last checkpoint listed of a task, the one that *)
(* get_latest will find, has the lowest loss its fit has seen.             *)
LastOfItsTask(i) == \A j \in DOMAIN listed : i < j => listed[j].task # listed[i].task

Scored ==
  /\ \A k \in 1 .. MaxFits : k > fits => lowest[k] = Infinity
  /\ fit # None => /\ fit.number = fits
                   /\ lowest[fit.number] = fit.bestLoss
                   /\ \A i \in DOMAIN listed :
                        listed[i].fit = fit.number => listed[i].task = fit.task
  /\ \A i \in DOMAIN listed : LastOfItsTask(i) => listed[i].loss = lowest[listed[i].fit]

(* The weights kept for the end of the fit are those of an epoch with the  *)
(* lowest loss, once an epoch had a loss at all.                           *)
NoLoss == \A i \in DOMAIN trail : trail[i].loss = NaN

BestOf(best, loss) ==
  /\ loss \in Losses
  /\ \E i \in DOMAIN trail : trail[i].weights = best /\ trail[i].loss = loss
  /\ \A i \in DOMAIN trail : ~Less(trail[i].loss, loss)

Tracked ==
  /\ fit # None => IF fit.best = None THEN fit.bestLoss = Infinity /\ NoLoss
                   ELSE BestOf(fit.best, fit.bestLoss)
  /\ FitKeepsBestEpoch

TrainerInv == TrainerTypeOK /\ Filed /\ Scored /\ Tracked

LEMMA TrainerConstants ==
  /\ Losses \subseteq Int /\ NaN \notin Int /\ Infinity \in Int
  /\ \A loss \in Losses : loss < Infinity /\ loss # NaN /\ loss # Infinity
  /\ Epochs \in Nat \ {0} /\ MaxCheckpoints \in Nat \ {0} /\ MaxFits \in Nat
  /\ Samples \subseteq Nat \ {0} /\ None \notin Nat /\ None \notin Tasks
  /\ NaN \notin Losses
<1>1. /\ Losses \subseteq Int /\ NaN \notin Int /\ Infinity \in Int
      /\ \A loss \in Losses : loss < Infinity
      /\ Epochs \in Nat \ {0} /\ MaxCheckpoints \in Nat \ {0} /\ MaxFits \in Nat
      /\ Samples \subseteq Nat \ {0} /\ None \notin Tasks
  BY TrainerAssumption DEF TrainerAssumption
<1>2. \A loss \in Losses : loss # NaN /\ loss # Infinity
  BY <1>1
<1> QED
  BY <1>1, <1>2, EngineAssumption DEF EngineAssumption

Fits(n, m) == [number : 1..n, task : Tasks, epoch : 0..Epochs - 1, val : Nat,
               bestLoss : Losses \cup {Infinity}, best : 0..m \cup {None}]

(* A fit under way is not none.                                            *)
LEMMA FitsAreSome == ASSUME NEW n \in Nat, NEW m \in Nat, NEW f \in Fits(n, m) PROVE f # None
<1>1. f \in [number : Nat, task : Tasks, epoch : Nat, val : Nat, bestLoss : Int,
             best : Nat \cup {None}]
  <2>1. Losses \subseteq Int /\ Infinity \in Int /\ Epochs \in Nat
    BY TrainerConstants
  <2>2. 0..m \cup {None} \subseteq Nat \cup {None} /\ 1..n \subseteq Nat /\ 0..Epochs - 1 \subseteq Nat
    BY <2>1
  <2>3. Losses \cup {Infinity} \subseteq Int
    BY <2>1
  <2> QED
    BY <2>2, <2>3, Zenon DEF Fits
<1>2. None \notin [number : Nat, task : Tasks, epoch : Nat, val : Nat, bestLoss : Int,
                  best : Nat \cup {None}]
  BY TrainerAssumption, Zenon DEF TrainerAssumption
<1> QED
  BY <1>1, <1>2, Zenon

LEMMA TrailsGrow ==
  ASSUME NEW m \in Nat, NEW n \in Nat, m <= n,
         NEW s \in Seq([weights : 1..m, loss : Losses \cup {NaN}])
  PROVE  s \in Seq([weights : 1..n, loss : Losses \cup {NaN}])
<1>1. [weights : 1..m, loss : Losses \cup {NaN}] \subseteq [weights : 1..n, loss : Losses \cup {NaN}]
  OBVIOUS
<1> QED
  BY <1>1, SeqMonotonic

LEMMA TrainerStarts == ASSUME TrainerInit, newest = 0 PROVE TrainerInv
<1>1. /\ fit = None /\ fits = 0 /\ early = [counter |-> 0, best |-> None]
      /\ listed = <<>> /\ disk = {} /\ trail = <<>>
      /\ lowest = [k \in 1..MaxFits |-> Infinity]
  BY DEF TrainerInit
<1>2. TrainerTypeOK
  BY <1>1, TrainerConstants DEF TrainerTypeOK
<1>3. Filed /\ Scored
  BY <1>1 DEF Filed, Scored
<1>4. Tracked
  BY <1>1 DEF Tracked, FitKeepsBestEpoch
<1> QED
  BY <1>2, <1>3, <1>4 DEF TrainerInv

(* Between fits, the engine's other calls leave the trainer as it is.      *)
LEMMA TrainerStays ==
  ASSUME TrainerInv, fit = None, trail = <<>>, UNCHANGED trainer,
         newest \in Nat, newest' \in Nat, newest <= newest'
  PROVE  TrainerInv'
<1>1. UNCHANGED <<fit, fits, early, listed, disk, trail, lowest>>
  BY DEF trainer
<1>2. TrainerTypeOK'
  BY <1>1 DEF TrainerInv, TrainerTypeOK
<1>3. Filed'
  <2>1. \A checkpoint \in disk : checkpoint.weights \in Nat
    BY DEF TrainerInv, TrainerTypeOK, Checkpoints
  <2> QED
    BY <1>1, <2>1 DEF TrainerInv, Filed
<1>4. Scored'
  BY <1>1 DEF TrainerInv, Scored, LastOfItsTask
<1>5. Tracked'
  BY <1>1 DEF Tracked, FitKeepsBestEpoch
<1> QED
  BY <1>2, <1>3, <1>4, <1>5 DEF TrainerInv

(* The simple calls.                                                       *)
LEMMA FitBegins ==
  ASSUME EngineInv, TrainerInv, NEW task \in Tasks, NEW n \in Samples, BeginFit(task, n)
  PROVE  EngineInv' /\ TrainerInv'
<1> DEFINE begun == [number |-> fits + 1, task |-> task, epoch |-> 0, val |-> ValSize(n),
                     bestLoss |-> Infinity, best |-> None]
<1>1. /\ fit = None /\ fits < MaxFits /\ fits' = fits + 1 /\ fit' = begun /\ trail' = <<>>
      /\ UNCHANGED <<early, listed, disk, lowest, newest>> /\ UNCHANGED engine
  BY DEF BeginFit, engine, network
<1>2. EngineInv'
  BY <1>1, EngineStays
<1>3. newest \in Nat /\ fits \in 0..MaxFits
  BY DEF EngineInv, EngineTypeOK, TrainerInv, TrainerTypeOK
<1>4. ValSize(n) \in Nat /\ Epochs \in Nat \ {0} /\ MaxFits \in Nat
  <2>1. n \in Nat
    BY TrainerConstants
  <2> QED
    BY <2>1, TrainerConstants DEF ValSize
<1>5. begun \in Fits(fits + 1, newest)
  BY <1>3, <1>4 DEF Fits
<1>6. begun # None
  BY <1>3, <1>5, FitsAreSome
<1>7. TrainerTypeOK'
  <2>1. trail' \in Seq([weights : 1..newest', loss : Losses \cup {NaN}])
    BY <1>1
  <2> QED
    BY <1>1, <1>3, <1>4, <1>5, <2>1 DEF TrainerInv, TrainerTypeOK, Fits
<1>8. Filed'
  <2>1. \A checkpoint \in disk : checkpoint.fit \in Nat
    BY <1>4 DEF TrainerInv, TrainerTypeOK, Checkpoints
  <2> QED
    BY <1>1, <1>3, <2>1 DEF TrainerInv, Filed
<1>9. Scored'
  <2>1. \A i \in DOMAIN listed : listed[i].fit <= fits /\ listed[i].fit \in Nat
    BY <1>4 DEF TrainerInv, TrainerTypeOK, Filed, Checkpoints
  <2>2. \A i \in DOMAIN listed : listed[i].fit # fits + 1
    BY <1>3, <2>1
  <2>3. lowest[fits + 1] = Infinity
    BY <1>1, <1>3, <1>4 DEF TrainerInv, Scored
  <2>4. \A k \in 1 .. MaxFits : k > fits + 1 => lowest[k] = Infinity
    BY <1>3 DEF TrainerInv, Scored
  <2> QED
    BY <1>1, <2>2, <2>3, <2>4 DEF TrainerInv, Scored, LastOfItsTask
<1>10. Tracked'
  BY <1>1, <1>6 DEF Tracked, NoLoss, FitKeepsBestEpoch
<1> QED
  BY <1>2, <1>7, <1>8, <1>9, <1>10 DEF TrainerInv

(* A fit that raises, and a process that ends, leave no fit behind; files  *)
(* may have come to those there are.                                       *)
LEMMA FitForgotten ==
  ASSUME TrainerInv, fit' = None, trail' = <<>>, UNCHANGED <<fits, lowest>>,
         disk \subseteq disk', disk' \subseteq Checkpoints,
         \A checkpoint \in disk' : checkpoint.weights <= newest' /\ checkpoint.fit <= fits,
         listed' \in {listed, <<>>}, early' \in [counter : Nat, best : Losses \cup {NaN, None}],
         newest \in Nat, newest' \in Nat, newest <= newest'
  PROVE  TrainerInv'
<1>1. TrainerTypeOK'
  <2>1. listed' \in Seq(Checkpoints) /\ Len(listed') <= MaxCheckpoints
    <3>1. CASE listed' = listed
      BY <3>1 DEF TrainerInv, TrainerTypeOK
    <3>2. CASE listed' = <<>>
      BY <3>2, TrainerConstants
    <3> QED
      BY <3>1, <3>2
  <2> QED
    BY <2>1 DEF TrainerInv, TrainerTypeOK
<1>2. Filed'
  <2>1. CASE listed' = listed
    BY <2>1 DEF TrainerInv, Filed
  <2>2. CASE listed' = <<>>
    BY <2>2 DEF Filed
  <2> QED
    BY <2>1, <2>2
<1>3. Scored'
  BY DEF TrainerInv, Scored, LastOfItsTask
<1>4. Tracked'
  BY DEF Tracked, FitKeepsBestEpoch
<1> QED
  BY <1>1, <1>2, <1>3, <1>4 DEF TrainerInv

LEMMA DiskStays ==
  ASSUME TrainerInv, UNCHANGED disk, newest \in Nat, newest' \in Nat, newest <= newest'
  PROVE  /\ disk \subseteq disk' /\ disk' \subseteq Checkpoints
         /\ \A checkpoint \in disk' : checkpoint.weights <= newest' /\ checkpoint.fit <= fits
<1>1. \A checkpoint \in disk : checkpoint.weights \in Nat
  BY DEF TrainerInv, TrainerTypeOK, Checkpoints
<1> QED
  BY <1>1 DEF TrainerInv, TrainerTypeOK, Filed

LEMMA EpochsRaise == ASSUME EngineInv, TrainerInv, EpochRaises PROVE EngineInv' /\ TrainerInv'
<1>1. newest \in Nat /\ newest' = newest + 1
  BY DEF EpochRaises, Improve, EngineInv, EngineTypeOK
<1>2. early' \in [counter : Nat, best : Losses \cup {NaN, None}]
  BY DEF EpochRaises, TrainerInv, TrainerTypeOK
<1>3. EngineInv'
  BY EngineImproves DEF EpochRaises
<1>4. /\ disk \subseteq disk' /\ disk' \subseteq Checkpoints
      /\ \A checkpoint \in disk' : checkpoint.weights <= newest' /\ checkpoint.fit <= fits
  <2>1. CASE UNCHANGED disk
    BY <1>1, <2>1, DiskStays
  <2>2. CASE SaveRaises
    <3>1. PICK loss \in Losses, whole \in BOOLEAN :
            disk' = disk \cup {CheckpointOf(newest + 1, loss, whole)}
      BY <2>2, Zenon DEF SaveRaises
    <3> DEFINE c == CheckpointOf(newest + 1, loss, whole)
    <3>2. /\ fit.number = fits /\ fits \in 1..MaxFits /\ fits \in Nat /\ fit.task \in Tasks
      BY TrainerConstants DEF EpochRaises, TrainerInv, TrainerTypeOK, Scored
    <3>3. c \in Checkpoints /\ c.weights = newest + 1 /\ c.fit = fits
      BY <1>1, <3>2 DEF CheckpointOf, Checkpoints
    <3>4. /\ disk \subseteq Checkpoints
          /\ \A checkpoint \in disk : checkpoint.weights <= newest /\ checkpoint.fit <= fits
          /\ \A checkpoint \in disk : checkpoint.weights \in Nat
      BY DEF TrainerInv, TrainerTypeOK, Filed, Checkpoints
    <3> HIDE DEF c
    <3> QED
      BY <1>1, <3>1, <3>2, <3>3, <3>4 DEF c
  <2> QED
    BY <2>1, <2>2 DEF EpochRaises
<1> QED
  BY <1>1, <1>2, <1>3, <1>4, FitForgotten DEF EpochRaises

LEMMA TrainersRestart == ASSUME EngineInv, TrainerInv, NewTrainer PROVE EngineInv' /\ TrainerInv'
<1>1. newest \in Nat /\ newest' = newest /\ UNCHANGED engine
  BY DEF NewTrainer, EngineInv, EngineTypeOK, engine, network
<1>2. early' \in [counter : Nat, best : Losses \cup {NaN, None}]
  BY DEF NewTrainer
<1>3. EngineInv'
  BY <1>1, EngineStays
<1> QED
  BY <1>1, <1>2, <1>3, DiskStays, FitForgotten DEF NewTrainer

(* What a set of checkpoints was saved last.                               *)
LEMMA LastSavedExists ==
  ASSUME NEW checkpoints, checkpoints \subseteq Checkpoints, checkpoints # {},
         NEW m \in Nat, \A checkpoint \in checkpoints : checkpoint.weights <= m
  PROVE  /\ LastSaved(checkpoints) \in checkpoints
         /\ \A other \in checkpoints : other.weights <= LastSaved(checkpoints).weights
<1> DEFINE T == {m - checkpoint.weights : checkpoint \in checkpoints}
<1>1. \A checkpoint \in checkpoints : checkpoint.weights \in Nat
  BY DEF Checkpoints
<1>2. T \subseteq Nat /\ T # {}
  BY <1>1
<1>3. PICK x \in T : \A y \in T : x <= y
  <2> HIDE DEF T
  <2> QED
    BY <1>2, LeastNumber, Zenon
<1>4. \A y \in T : ~(y < x)
  <2> HIDE DEF T
  <2> QED
    BY <1>2, <1>3
<1>5. PICK latest \in checkpoints : x = m - latest.weights
  BY <1>3
<1>6. \A other \in checkpoints : other.weights <= latest.weights
  <2> SUFFICES ASSUME NEW other \in checkpoints PROVE other.weights <= latest.weights
    OBVIOUS
  <2>1. ~(m - other.weights < m - latest.weights)
    BY <1>4, <1>5
  <2> QED
    BY <1>1, <2>1
<1> QED
  BY <1>6 DEF LastSaved

LEMMA BestLoads ==
  ASSUME EngineInv, TrainerInv, NEW task, LoadBest(task)
  PROVE  EngineInv' /\ TrainerInv'
<1>1. /\ newest \in Nat /\ newest' = newest /\ disk \subseteq Checkpoints
      /\ listed \in Seq(Checkpoints) /\ \A i \in DOMAIN listed : listed[i] \in disk
      /\ \A checkpoint \in disk : checkpoint.weights <= newest
  BY DEF LoadBest, EngineInv, EngineTypeOK, TrainerInv, TrainerTypeOK, Filed
<1> DEFINE asked == IF ListedOf(task) # {} THEN ListedOf(task) ELSE disk
<1>2. asked # {} /\ asked \subseteq disk
  BY <1>1 DEF LoadBest, ListedOf, ToSet
<1>3. LastSaved(asked) \in disk
  <2> HIDE DEF asked
  <2> QED
    BY <1>1, <1>2, LastSavedExists
<1>4. Latest(task).weights \in 0 .. newest
  <2>1. Latest(task) \in disk
    BY <1>3 DEF Latest
  <2>2. Latest(task).weights \in Nat
    BY <1>1, <2>1 DEF Checkpoints
  <2> QED
    BY <1>1, <2>1, <2>2
<1>5. EngineInv'
  BY <1>1, <1>4, EngineReweighted DEF LoadBest
<1>6. early' \in [counter : Nat, best : Losses \cup {NaN, None}]
  BY DEF LoadBest, TrainerInv, TrainerTypeOK
<1> QED
  BY <1>1, <1>5, <1>6, DiskStays, FitForgotten DEF LoadBest

(* What stays listed is the end of the list, never empty.                  *)
LEMMA PruneKeepsTheEnd ==
  ASSUME NEW s \in Seq(Checkpoints), NEW c \in Checkpoints
  PROVE  LET all  == Append(s, c)
             kept == Prune(all)
         IN  /\ kept \in Seq(Checkpoints)
             /\ Len(kept) \in 1 .. MaxCheckpoints
             /\ \E gone \in Nat : /\ Len(kept) + gone = Len(s) + 1
                                  /\ \A i \in 1 .. Len(kept) : kept[i] = all[i + gone]
<1> DEFINE all == Append(s, c)
           kept == Prune(all)
           n == Len(all)
<1> SUFFICES /\ kept \in Seq(Checkpoints)
             /\ Len(kept) \in 1 .. MaxCheckpoints
             /\ \E gone \in Nat : /\ Len(kept) + gone = Len(s) + 1
                                  /\ \A i \in 1 .. Len(kept) : kept[i] = all[i + gone]
  OBVIOUS
<1>1. all \in Seq(Checkpoints) /\ n = Len(s) + 1 /\ Len(s) \in Nat /\ MaxCheckpoints \in Nat \ {0}
  BY AppendProperties, TrainerConstants
<1>2. CASE n <= MaxCheckpoints
  <2>1. kept = all
    BY <1>2 DEF Prune
  <2> HIDE DEF all, kept
  <2>2. Len(kept) \in 1 .. MaxCheckpoints
    BY <1>1, <1>2, <2>1
  <2>3. \E gone \in Nat : Len(kept) + gone = n /\ \A i \in 1 .. Len(kept) : kept[i] = all[i + gone]
    <3> WITNESS 0 \in Nat
    <3> QED
      BY <1>1, <2>1
  <2> QED
    BY <1>1, <2>1, <2>2, <2>3
<1>3. CASE n > MaxCheckpoints
  <2> DEFINE first == n - MaxCheckpoints + 1
             gone == n - MaxCheckpoints
  <2>1. kept = SubSeq(all, first, n)
    BY <1>1, <1>3 DEF Prune
  <2> HIDE DEF all, kept
  <2>2. first \in Int /\ n \in Int /\ first <= n /\ 1 <= first
    BY <1>1, <1>3
  <2>3. \A i \in first .. n : all[i] \in Checkpoints
    BY <1>1, <2>2, ElementOfSeq
  <2>4. /\ kept \in Seq(Checkpoints)
        /\ Len(kept) = n - first + 1
        /\ \A i \in 1 .. n - first + 1 : kept[i] = all[first + i - 1]
    <3> HIDE DEF first, n
    <3> QED
      BY <2>1, <2>2, <2>3, SubSeqProperties
  <2> HIDE DEF n
  <2>5. Len(kept) = MaxCheckpoints /\ Len(kept) \in 1 .. MaxCheckpoints
    BY <1>1, <2>4
  <2>6. \A i \in 1 .. Len(kept) : kept[i] = all[i + gone]
    <3>1. \A i \in 1 .. Len(kept) : first + i - 1 = i + gone
      BY <1>1, <2>5
    <3> QED
      BY <2>4, <2>5, <3>1
  <2>7. gone \in Nat /\ Len(kept) + gone = n
    BY <1>1, <1>3, <2>5
  <2> QED
    BY <1>1, <2>4, <2>5, <2>6, <2>7
<1>4. n <= MaxCheckpoints \/ n > MaxCheckpoints
  BY <1>1
<1> HIDE DEF all, kept, n
<1> QED
  BY <1>2, <1>3, <1>4

(* An epoch that improves on the fit: its checkpoint is the newest file    *)
(* and the last of the list, and its loss the lowest of the fit.           *)
LEMMA ImprovementIsSaved ==
  ASSUME TrainerInv, fit # None, newest \in Nat, newest' = newest + 1, UNCHANGED fits,
         NEW loss \in Losses, Less(loss, fit.bestLoss),
         SaveCheckpoint(CheckpointOf(newest + 1, loss, TRUE)),
         lowest' = [lowest EXCEPT ![fit.number] = loss]
  PROVE  /\ listed' \in Seq(Checkpoints) /\ Len(listed') <= MaxCheckpoints
         /\ disk' \subseteq Checkpoints
         /\ Filed'
         /\ \A i \in DOMAIN listed' : LastOfItsTask(i)' => listed'[i].loss = lowest'[listed'[i].fit]
         /\ \A i \in DOMAIN listed' : listed'[i].fit = fit.number => listed'[i].task = fit.task
<1> DEFINE c == CheckpointOf(newest + 1, loss, TRUE)
           all == Append(listed, c)
           n == Len(listed)
<1>1. /\ listed \in Seq(Checkpoints) /\ disk \subseteq Checkpoints /\ fits \in 0..MaxFits
      /\ fit.number = fits /\ fit.number \in 1..fits /\ fit.task \in Tasks
      /\ lowest \in [1..MaxFits -> Losses \cup {Infinity}] /\ n \in Nat /\ DOMAIN listed = 1..n
  BY DEF TrainerInv, TrainerTypeOK, Scored
<1> HIDE DEF n
<1>16. \A i \in 1 .. n : listed[i] \in Checkpoints
  BY <1>1, ElementOfSeq DEF n
<1>2. c \in Checkpoints
  <2>1. newest + 1 \in Nat /\ fit.number \in 1..MaxFits
    BY <1>1, TrainerConstants
  <2> QED
    BY <1>1, <2>1 DEF Checkpoints, CheckpointOf
<1> HIDE DEF c
<1>3. /\ all \in Seq(Checkpoints) /\ Len(all) = n + 1 /\ all[n + 1] = c
      /\ \A i \in 1 .. n : all[i] = listed[i]
  BY <1>1, <1>2, AppendProperties DEF n
<1>4. /\ c.weights = newest + 1 /\ c.task = fit.task /\ c.loss = loss /\ c.fit = fit.number
      /\ c.whole = TRUE
  BY DEF c, CheckpointOf
<1>5. /\ listed' = Prune(all)
      /\ \E unlinked \in SUBSET (ToSet(all) \ ToSet(Prune(all))) :
           disk' = (disk \cup {c}) \ unlinked
  BY DEF SaveCheckpoint, c
<1>6. PICK gone \in Nat : /\ Len(Prune(all)) + gone = n + 1
                          /\ \A i \in 1 .. Len(Prune(all)) : Prune(all)[i] = all[i + gone]
  BY <1>1, <1>2, PruneKeepsTheEnd DEF n
<1>7. Prune(all) \in Seq(Checkpoints) /\ Len(Prune(all)) \in 1 .. MaxCheckpoints
  BY <1>1, <1>2, PruneKeepsTheEnd
<1> DEFINE m == Len(listed')
<1>8. /\ listed' \in Seq(Checkpoints) /\ m \in 1 .. MaxCheckpoints /\ DOMAIN listed' = 1..m
      /\ m + gone = n + 1 /\ \A i \in 1 .. m : listed'[i] = all[i + gone]
  <2> HIDE DEF all
  <2>1. listed' \in Seq(Checkpoints) /\ m \in 1 .. MaxCheckpoints
    BY <1>5, <1>7
  <2>2. DOMAIN listed' = 1..m
    BY <2>1
  <2>3. m + gone = n + 1 /\ \A i \in 1 .. m : listed'[i] = all[i + gone]
    BY <1>5, <1>6
  <2> QED
    BY <2>1, <2>2, <2>3
<1> HIDE DEF all, m
<1>9. m \in Nat /\ m >= 1 /\ m <= MaxCheckpoints /\ listed'[m] = c
  <2>1. m \in Nat /\ m >= 1 /\ m <= MaxCheckpoints
    BY <1>8, TrainerConstants
  <2>2. m \in 1 .. m
    BY <2>1
  <2> QED
    BY <1>3, <1>8, <2>1, <2>2
<1>10. \A i \in 1 .. m : i < m => i + gone \in 1 .. n /\ listed'[i] = listed[i + gone]
  BY <1>1, <1>3, <1>8, <1>9
<1>11. disk' \subseteq Checkpoints /\ ToSet(listed') \subseteq disk'
  <2>1. PICK unlinked \in SUBSET (ToSet(all) \ ToSet(listed')) : disk' = (disk \cup {c}) \ unlinked
    BY <1>5
  <2>2. disk' \subseteq Checkpoints
    BY <1>1, <1>2, <2>1
  <2>3. \A i \in 1 .. m : listed'[i] \in disk \cup {c}
    <3> SUFFICES ASSUME NEW i \in 1 .. m PROVE listed'[i] \in disk \cup {c}
      OBVIOUS
    <3>1. CASE i = m
      BY <1>9, <3>1
    <3>2. CASE i < m
      BY <1>1, <1>10, <3>2 DEF TrainerInv, Filed
    <3> QED
      BY <1>9, <3>1, <3>2
  <2>4. ToSet(listed') \subseteq disk \cup {c}
    BY <1>8, <2>3 DEF ToSet
  <2> QED
    BY <2>1, <2>2, <2>4
<1>12. \A i \in 1 .. n : listed[i].weights \in Nat /\ listed[i].weights <= newest
  <2>1. \A i \in 1 .. n : listed[i].weights \in Nat
    BY <1>16 DEF Checkpoints
  <2> QED
    BY <1>1, <2>1 DEF TrainerInv, Filed
<1>13. Filed'
  <2>1. \A i, j \in 1 .. m : i < j => listed'[i].weights < listed'[j].weights
    <3> SUFFICES ASSUME NEW i \in 1 .. m, NEW j \in 1 .. m, i < j
                 PROVE  listed'[i].weights < listed'[j].weights
      OBVIOUS
    <3>1. i + gone \in 1 .. n /\ listed'[i] = listed[i + gone]
      BY <1>9, <1>10
    <3>2. CASE j = m
      BY <1>4, <1>9, <1>12, <3>1, <3>2
    <3>3. CASE j < m
      <4>1. j + gone \in 1 .. n /\ listed'[j] = listed[j + gone] /\ i + gone < j + gone
        BY <1>9, <1>10, <3>3
      <4> QED
        BY <1>1, <3>1, <4>1 DEF TrainerInv, Filed
    <3> QED
      BY <1>9, <3>2, <3>3
  <2>2. \A i \in 1 .. m : listed'[i] \in disk' /\ listed'[i].whole
    <3> SUFFICES ASSUME NEW i \in 1 .. m PROVE listed'[i] \in disk' /\ listed'[i].whole
      OBVIOUS
    <3>1. listed'[i] \in disk'
      BY <1>8, <1>11 DEF ToSet
    <3>2. CASE i = m
      BY <1>4, <1>9, <3>1, <3>2
    <3>3. CASE i < m
      BY <1>1, <1>10, <3>1, <3>3 DEF TrainerInv, Filed
    <3> QED
      BY <1>9, <3>2, <3>3
  <2>3. \A checkpoint \in disk' : checkpoint.weights <= newest + 1 /\ checkpoint.fit <= fits
    <3>1. disk' \subseteq disk \cup {c}
      BY <1>5
    <3>2. \A checkpoint \in disk : checkpoint.weights \in Nat
      BY <1>1 DEF Checkpoints
    <3>3. \A checkpoint \in disk : checkpoint.weights <= newest + 1 /\ checkpoint.fit <= fits
      BY <3>2 DEF TrainerInv, Filed
    <3>4. c.weights <= newest + 1 /\ c.fit <= fits
      BY <1>1, <1>4
    <3> QED
      BY <3>1, <3>3, <3>4
  <2> QED
    BY <1>8, <2>1, <2>2, <2>3 DEF Filed
<1>14. \A i \in 1 .. m : listed'[i].fit = fit.number => listed'[i].task = fit.task
  <2> SUFFICES ASSUME NEW i \in 1 .. m, listed'[i].fit = fit.number
               PROVE  listed'[i].task = fit.task
    OBVIOUS
  <2>1. CASE i = m
    BY <1>4, <1>9, <2>1
  <2>2. CASE i < m
    BY <1>1, <1>10, <2>2 DEF TrainerInv, Scored
  <2> QED
    BY <1>9, <2>1, <2>2
<1>15. \A i \in 1 .. m : LastOfItsTask(i)' => listed'[i].loss = lowest'[listed'[i].fit]
  <2> SUFFICES ASSUME NEW i \in 1 .. m, \A j \in 1 .. m : i < j => listed'[j].task # listed'[i].task
               PROVE  listed'[i].loss = lowest'[listed'[i].fit]
    BY <1>8 DEF LastOfItsTask
  <2>1. lowest'[fit.number] = loss /\ \A k \in 1..MaxFits : k # fit.number => lowest'[k] = lowest[k]
    BY <1>1, TrainerConstants
  <2>2. CASE i = m
    BY <1>4, <1>9, <2>1, <2>2
  <2>3. CASE i < m
    <3>1. i + gone \in 1 .. n /\ listed'[i] = listed[i + gone]
      BY <1>10, <2>3
    <3>2. listed'[i].task # fit.task
      BY <1>4, <1>9, <2>3
    <3>3. listed[i + gone].fit # fit.number
      BY <1>1, <3>1, <3>2 DEF TrainerInv, Scored
    <3>4. LastOfItsTask(i + gone)
      <4> SUFFICES ASSUME NEW j \in 1 .. n, i + gone < j
                   PROVE  listed[j].task # listed[i + gone].task
        BY <1>1 DEF LastOfItsTask
      <4>1. j - gone \in 1 .. m /\ i < j - gone /\ j - gone < m /\ (j - gone) + gone = j
        BY <1>1, <1>8, <1>9
      <4>2. listed'[j - gone] = listed[j]
        BY <1>10, <4>1
      <4> QED
        BY <3>1, <4>1, <4>2
    <3>5. listed[i + gone].loss = lowest[listed[i + gone].fit]
      BY <1>1, <3>1, <3>4 DEF TrainerInv, Scored
    <3>6. listed[i + gone].fit \in 1..MaxFits
      BY <1>16, <3>1 DEF Checkpoints
    <3> QED
      BY <2>1, <3>1, <3>3, <3>5, <3>6
  <2> QED
    BY <1>9, <2>2, <2>3
<1> QED
  BY <1>8, <1>9, <1>11, <1>13, <1>14, <1>15 DEF m

(* One epoch of a fit.                                                     *)
LEMMA EpochSteps ==
  ASSUME EngineInv, TrainerInv, fit # None, NEW loss \in Losses \cup {NaN}, Epoch(loss)
  PROVE  EngineInv' /\ TrainerInv'
<1> DEFINE w        == newest + 1
           improves == Less(loss, fit.bestLoss)
           best     == IF improves THEN w ELSE fit.best
           least    == IF improves THEN loss ELSE fit.bestLoss
           over     == fit.epoch + 1 = Epochs \/ StopsEarly(loss)
           entry    == [weights |-> w, loss |-> loss]
           n        == Len(trail)
<1>1. /\ newest' = w /\ NewWeights(IF over THEN Restored(best, w) ELSE w)
      /\ early' = EarlyNext(loss)
      /\ fit' = IF over THEN None
                ELSE [fit EXCEPT !.epoch = @ + 1, !.best = best,
                                 !.bestLoss = IF improves THEN loss ELSE @]
      /\ trail' = Append(trail, entry)
      /\ lowest' = [lowest EXCEPT ![fit.number] = IF Less(loss, @) THEN loss ELSE @]
      /\ UNCHANGED <<cacheSize, cache, memory, saved, fits>>
      /\ IF improves
         THEN SaveCheckpoint(CheckpointOf(w, loss, TRUE))
         ELSE UNCHANGED <<listed, disk>>
  BY DEF Epoch
<1>2. /\ newest \in Nat /\ fit \in Fits(fits, newest) /\ fits \in 0..MaxFits
      /\ early \in [counter : Nat, best : Losses \cup {NaN, None}]
      /\ trail \in Seq([weights : 1..newest, loss : Losses \cup {NaN}])
      /\ lowest \in [1..MaxFits -> Losses \cup {Infinity}]
  BY DEF EngineInv, EngineTypeOK, TrainerInv, TrainerTypeOK, Fits
<1>3. /\ fit.number = fits /\ fit.number \in 1..fits /\ fit.task \in Tasks
      /\ fit.epoch \in 0..Epochs - 1 /\ fit.val \in Nat
      /\ fit.bestLoss \in Losses \cup {Infinity} /\ fit.best \in 0..newest \cup {None}
      /\ lowest[fit.number] = fit.bestLoss
  BY <1>2 DEF Fits, TrainerInv, Scored
<1>4. improves => loss \in Losses
  BY DEF Less
<1>5. best \in 0..newest + 1 \cup {None} /\ w \in 0..newest + 1 /\ w \in Nat
  BY <1>2, <1>3
<1>6. least \in Losses \cup {Infinity}
  BY <1>3, <1>4
<1>7. fits \in 1..MaxFits /\ fit.number \in 1..MaxFits
  BY <1>2, <1>3, TrainerConstants
<1>8. lowest' = [lowest EXCEPT ![fit.number] = least]
  BY <1>1, <1>2, <1>3, <1>7
<1>9. ~over => /\ fit' \in Fits(fits, newest + 1) /\ fit' # None
               /\ fit'.number = fit.number /\ fit'.task = fit.task
               /\ fit'.bestLoss = least /\ fit'.best = best
  <2> SUFFICES ASSUME ~over
               PROVE  /\ fit' \in Fits(fits, newest + 1) /\ fit' # None
                      /\ fit'.number = fit.number /\ fit'.task = fit.task
                      /\ fit'.bestLoss = least /\ fit'.best = best
    OBVIOUS
  <2> HIDE DEF over
  <2> DEFINE f == [number |-> fit.number, task |-> fit.task, epoch |-> fit.epoch + 1,
                   val |-> fit.val, bestLoss |-> least, best |-> best]
  <2>1. fit' = f
    <3>1. fit = [number |-> fit.number, task |-> fit.task, epoch |-> fit.epoch,
                 val |-> fit.val, bestLoss |-> fit.bestLoss, best |-> fit.best]
      BY <1>2 DEF Fits
    <3> QED
      BY <1>1, <3>1
  <2>2. fit.epoch + 1 \in 0..Epochs - 1
    BY <1>3, TrainerConstants DEF over
  <2>3. f \in Fits(fits, newest + 1)
    <3> HIDE DEF best, least
    <3> QED
      BY <1>3, <1>5, <1>6, <2>2 DEF Fits
  <2>4. fit' \in Fits(fits, newest + 1) /\ fit' # None
    <3> HIDE DEF f
    <3> QED
      BY <1>2, <2>1, <2>3, FitsAreSome
  <2>5. /\ fit'.number = fit.number /\ fit'.task = fit.task /\ fit'.bestLoss = least
        /\ fit'.best = best
    BY <2>1
  <2> QED
    BY <2>4, <2>5
<1>10. over => fit' = None
  BY <1>1
<1> DEFINE x == IF over THEN Restored(best, w) ELSE w
<1>11. EngineInv'
  <2>1. x \in 0..newest + 1
    <3> HIDE DEF best, over
    <3> QED
      BY <1>5 DEF Restored
  <2>2. NewWeights(x)
    BY <1>1
  <2> HIDE DEF x
  <2> QED
    BY <1>1, <1>2, <2>1, <2>2, EngineReweighted
<1>12. /\ listed' \in Seq(Checkpoints) /\ Len(listed') <= MaxCheckpoints
       /\ disk' \subseteq Checkpoints
       /\ Filed'
       /\ \A i \in DOMAIN listed' : LastOfItsTask(i)' => listed'[i].loss = lowest'[listed'[i].fit]
       /\ \A i \in DOMAIN listed' : listed'[i].fit = fit.number => listed'[i].task = fit.task
  <2>1. CASE improves
    <3>1. lowest' = [lowest EXCEPT ![fit.number] = loss]
      BY <1>8, <2>1
    <3>2. UNCHANGED fits
      BY <1>1
    <3> QED
      BY <1>1, <1>2, <1>4, <2>1, <3>1, <3>2, ImprovementIsSaved
  <2>2. CASE ~improves
    <3>1. lowest' = lowest
      BY <1>2, <1>3, <1>7, <1>8, <2>2
    <3>2. UNCHANGED <<listed, disk, fits>>
      BY <1>1, <2>2
    <3>3. \A checkpoint \in disk : checkpoint.weights \in Nat
      BY DEF TrainerInv, TrainerTypeOK, Checkpoints
    <3>4. Filed'
      BY <1>1, <1>2, <3>2, <3>3 DEF TrainerInv, Filed
    <3> QED
      BY <3>1, <3>2, <3>4 DEF TrainerInv, TrainerTypeOK, Scored, LastOfItsTask
  <2> QED
    BY <2>1, <2>2
<1>13. early' \in [counter : Nat, best : Losses \cup {NaN, None}]
  <2>1. early.counter \in Nat /\ early.best \in Losses \cup {NaN, None}
    BY <1>2
  <2>2. early' = EarlyNext(loss)
    BY <1>1
  <2>3. /\ [early EXCEPT !.counter = @ + 1] \in [counter : Nat, best : Losses \cup {NaN, None}]
        /\ [counter |-> 0, best |-> loss] \in [counter : Nat, best : Losses \cup {NaN, None}]
        /\ [counter |-> early.counter, best |-> loss]
             \in [counter : Nat, best : Losses \cup {NaN, None}]
    BY <1>2, <2>1
  <2> QED
    BY <2>2, <2>3, Zenon DEF EarlyNext
<1>14. /\ trail' \in Seq([weights : 1..newest + 1, loss : Losses \cup {NaN}])
       /\ n \in Nat /\ DOMAIN trail = 1 .. n /\ DOMAIN trail' = 1 .. n + 1
       /\ trail'[n + 1] = entry
       /\ \A i \in 1 .. n : trail'[i] = trail[i]
  <2>1. trail \in Seq([weights : 1..newest + 1, loss : Losses \cup {NaN}])
    <3>1. newest + 1 \in Nat /\ newest <= newest + 1
      BY <1>2
    <3> QED
      BY <1>2, <3>1, TrailsGrow
  <2>2. entry \in [weights : 1..newest + 1, loss : Losses \cup {NaN}]
    BY <1>2
  <2>3. n \in Nat /\ DOMAIN trail = 1 .. n
    BY <1>2
  <2> HIDE DEF entry
  <2> QED
    BY <1>1, <2>1, <2>2, <2>3, AppendProperties
<1>15. lowest' \in [1..MaxFits -> Losses \cup {Infinity}]
  BY <1>2, <1>6, <1>7, <1>8
<1>16. TrainerTypeOK'
  <2> HIDE DEF over, best, least, n
  <2> QED
    BY <1>1, <1>2, <1>9, <1>10, <1>12, <1>13, <1>14, <1>15 DEF TrainerTypeOK, Fits
<1>17. Scored'
  <2>1. \A k \in 1 .. MaxFits : k > fits' => lowest'[k] = Infinity
    BY <1>1, <1>2, <1>3, <1>8 DEF TrainerInv, Scored
  <2>2. lowest'[fit.number] = least
    BY <1>2, <1>7, <1>8
  <2>3. fit' # None => /\ fit'.number = fits'
                       /\ lowest'[fit'.number] = fit'.bestLoss
                       /\ \A i \in DOMAIN listed' :
                            listed'[i].fit = fit'.number => listed'[i].task = fit'.task
    <3> HIDE DEF over, least, best
    <3> QED
      BY <1>1, <1>3, <1>9, <1>10, <1>12, <2>2
  <2> QED
    BY <1>12, <2>1, <2>3 DEF Scored
<1>18. Tracked'
  <2>1. /\ fit.best = None => fit.bestLoss = Infinity /\ \A i \in 1 .. n : trail[i].loss = NaN
        /\ fit.best # None => /\ fit.bestLoss \in Losses
                              /\ \E i \in 1 .. n : /\ trail[i].weights = fit.best
                                                   /\ trail[i].loss = fit.bestLoss
                              /\ \A i \in 1 .. n : ~Less(trail[i].loss, fit.bestLoss)
    BY <1>14 DEF TrainerInv, Tracked, NoLoss, BestOf
  <2>2. best = None => least = Infinity /\ \A i \in 1 .. n + 1 : trail'[i].loss = NaN
    <3> SUFFICES ASSUME best = None
                 PROVE  least = Infinity /\ \A i \in 1 .. n + 1 : trail'[i].loss = NaN
      OBVIOUS
    <3>1. ~improves /\ fit.best = None
      BY <1>5, TrainerConstants
    <3>2. least = Infinity /\ loss = NaN
      BY <2>1, <3>1, TrainerConstants DEF Less
    <3> QED
      BY <1>14, <2>1, <3>1, <3>2
  <2>3. best # None => /\ least \in Losses
                       /\ \E i \in 1 .. n + 1 : trail'[i].weights = best /\ trail'[i].loss = least
                       /\ \A i \in 1 .. n + 1 : ~Less(trail'[i].loss, least)
    <3>1. CASE improves
      <4>1. best = w /\ least = loss /\ loss \in Losses
        BY <1>4, <3>1
      <4>2. trail'[n + 1].weights = best /\ trail'[n + 1].loss = least /\ n + 1 \in 1 .. n + 1
        BY <1>14, <4>1
      <4>3. \A i \in 1 .. n : ~Less(trail[i].loss, loss)
        <5> SUFFICES ASSUME NEW i \in 1 .. n, Less(trail[i].loss, loss) PROVE FALSE
          OBVIOUS
        <5>1. trail[i].loss \in Losses \cup {NaN}
          <6> DEFINE Entries == [weights : 1..newest, loss : Losses \cup {NaN}]
          <6>1. trail \in Seq(Entries) /\ i \in 1 .. Len(trail)
            BY <1>2
          <6>2. trail[i] \in Entries
            <7> HIDE DEF Entries
            <7> QED
              BY <6>1, ElementOfSeq
          <6> QED
            BY <6>2
        <5>2. fit.best # None /\ ~Less(trail[i].loss, fit.bestLoss)
          BY <2>1 DEF Less
        <5>3. /\ trail[i].loss \in Int /\ loss \in Int /\ fit.bestLoss \in Int
              /\ trail[i].loss # NaN /\ loss # NaN /\ fit.bestLoss # NaN
          BY <1>4, <2>1, <3>1, <5>1, <5>2, TrainerConstants DEF Less
        <5>4. trail[i].loss < loss /\ loss < fit.bestLoss
          BY <3>1 DEF Less
        <5> QED
          BY <5>2, <5>3, <5>4 DEF Less
      <4>4. ~Less(loss, loss)
        BY <4>1, TrainerConstants DEF Less
      <4> QED
        BY <1>14, <4>1, <4>2, <4>3, <4>4
    <3>2. CASE ~improves
      <4>1. best = fit.best /\ least = fit.bestLoss
        BY <3>2
      <4>2. trail'[n + 1].loss = loss
        BY <1>14
      <4> QED
        BY <1>14, <2>1, <3>2, <4>1, <4>2
    <3> QED
      BY <3>1, <3>2
  <2>4. CASE ~over
    <3>1. fit' # None /\ fit'.best = best /\ fit'.bestLoss = least
      BY <1>9, <2>4
    <3> HIDE DEF over, best, least, n
    <3> QED
      BY <1>14, <2>2, <2>3, <3>1 DEF Tracked, NoLoss, BestOf, FitKeepsBestEpoch
  <2>5. CASE over
    <3>1. fit' = None /\ weights' = Restored(best, w)
      BY <1>1, <1>10, <2>5 DEF NewWeights
    <3>2. CASE best = None
      <4>1. weights' = w /\ trail'[n + 1].weights = w /\ n + 1 \in 1 .. n + 1
        BY <1>14, <3>1, <3>2 DEF Restored
      <4>2. \A i \in 1 .. n + 1 : trail'[i].loss = NaN
        BY <2>2, <3>2
      <4> HIDE DEF over, best, least, n, w
      <4> QED
        BY <1>14, <3>1, <4>1, <4>2 DEF Tracked, FitKeepsBestEpoch, Less
    <3>3. CASE best # None
      <4>1. weights' = best
        BY <3>1, <3>3 DEF Restored
      <4>2. least # NaN
        BY <2>3, <3>3, TrainerConstants
      <4> HIDE DEF over, best, least, n, w
      <4> QED
        BY <1>14, <2>3, <3>1, <3>3, <4>1, <4>2 DEF Tracked, FitKeepsBestEpoch
    <3> QED
      BY <3>2, <3>3
  <2> QED
    BY <2>4, <2>5
<1> QED
  BY <1>11, <1>12, <1>16, <1>17, <1>18 DEF TrainerInv

LEMMA TrainerSteps == ASSUME EngineInv, TrainerInv, TrainerStep PROVE EngineInv' /\ TrainerInv'
<1>1. CASE \E task \in Tasks, n \in Samples : BeginFit(task, n)
  BY <1>1, FitBegins
<1>2. CASE Validated
  BY <1>2, EpochSteps DEF Validated
<1>3. CASE EpochRaises
  BY <1>3, EpochsRaise
<1>4. CASE NewTrainer
  BY <1>4, TrainersRestart
<1>5. CASE \E task \in Tasks \cup {None} : LoadBest(task)
  BY <1>5, BestLoads
<1> QED
  BY <1>1, <1>2, <1>3, <1>4, <1>5 DEF TrainerStep

(* What the invariant says of the checkpoints of a task.                   *)
LEMMA LatestIsBest == ASSUME TrainerInv, newest \in Nat PROVE LatestIsBestOfItsFit
<1> SUFFICES ASSUME NEW task \in Tasks, ListedOf(task) # {}
             PROVE  /\ Latest(task) \in disk /\ Latest(task).whole
                    /\ Latest(task).task = task
                    /\ Latest(task).loss = lowest[Latest(task).fit]
  BY DEF LatestIsBestOfItsFit
<1>1. /\ listed \in Seq(Checkpoints) /\ disk \subseteq Checkpoints
      /\ \A i \in DOMAIN listed : listed[i] \in disk
      /\ \A checkpoint \in disk : checkpoint.weights <= newest
  BY DEF TrainerInv, TrainerTypeOK, Filed
<1>2. ListedOf(task) \subseteq ToSet(listed) /\ ToSet(listed) \subseteq disk
  BY <1>1 DEF ListedOf, ToSet
<1>3. /\ LastSaved(ListedOf(task)) \in ListedOf(task)
      /\ \A other \in ListedOf(task) : other.weights <= LastSaved(ListedOf(task)).weights
  BY <1>1, <1>2, LastSavedExists
<1> DEFINE latest == Latest(task)
<1>4. /\ latest \in ListedOf(task)
      /\ \A other \in ListedOf(task) : other.weights <= latest.weights
  BY <1>3 DEF Latest
<1> HIDE DEF latest
<1>5. latest \in disk /\ latest.task = task
  BY <1>2, <1>4, TrainerConstants DEF ListedOf
<1>6. PICK i \in DOMAIN listed : latest = listed[i]
  BY <1>2, <1>4 DEF ToSet
<1>7. LastOfItsTask(i)
  <2> SUFFICES ASSUME NEW j \in DOMAIN listed, i < j, listed[j].task = listed[i].task
               PROVE  FALSE
    BY DEF LastOfItsTask
  <2>1. listed[j] \in ListedOf(task)
    BY <1>5, <1>6 DEF ListedOf, ToSet
  <2>2. listed[j].weights <= listed[i].weights /\ listed[i].weights < listed[j].weights
    BY <1>4, <1>6, <2>1 DEF TrainerInv, Filed
  <2>3. listed[i].weights \in Nat /\ listed[j].weights \in Nat
    BY <1>1 DEF Checkpoints
  <2> QED
    BY <2>2, <2>3
<1>8. latest.whole
  BY <1>6 DEF TrainerInv, Filed
<1> QED
  BY <1>5, <1>6, <1>7, <1>8 DEF TrainerInv, Scored, latest

-----------------------------------------------------------------------------
(* The three programs together.                                            *)

LearningInv ==
  /\ EngineInv /\ TestInv /\ TrainerInv
  /\ program # "trainer" => fit = None /\ trail = <<>>

LEMMA NewestGrows == ASSUME EngineInv, EngineCall PROVE newest' \in Nat /\ newest <= newest'
<1>1. newest \in Nat
  BY DEF EngineInv, EngineTypeOK
<1>2. CASE TrainOnBatch
  BY <1>1, <1>2 DEF TrainOnBatch, Improve
<1>3. CASE ~TrainOnBatch
  <2>1. newest' = newest
    BY <1>3, Zenon DEF EngineCall, Predict, ClearCache, SaveEngine, LoadEngine,
                       RegisterWorkloadPhase, network
  <2> QED
    BY <1>1, <2>1
<1> QED
  BY <1>2, <1>3

LEMMA TestNewestGrows == ASSUME EngineInv, TestStep PROVE newest' \in Nat /\ newest <= newest'
<1>1. newest \in Nat
  BY DEF EngineInv, EngineTypeOK
<1>2. CASE TrainEpoch
  <2>1. newest' = newest + 1
    BY <1>2 DEF TrainEpoch, TrainOnBatch, TrainOnExperience, Improve
  <2> QED
    BY <1>1, <2>1
<1>3. CASE ~TrainEpoch
  <2>1. newest' = newest
    BY <1>3, Zenon DEF TestStep, Consolidate, AddQueries, Accuracy, Retention, EvaluateModel,
                       Predict, RegisterWorkloadPhase, engine, network
  <2> QED
    BY <1>1, <2>1
<1> QED
  BY <1>2, <1>3

LEMMA TrainerNewestGrows ==
  ASSUME EngineInv, TrainerStep PROVE newest' \in Nat /\ newest <= newest'
<1>1. newest \in Nat
  BY DEF EngineInv, EngineTypeOK
<1>2. CASE Validated \/ EpochRaises
  <2>1. newest' = newest + 1
    BY <1>2, Zenon DEF Validated, Epoch, EpochRaises, Improve
  <2> QED
    BY <1>1, <2>1
<1>3. CASE ~(Validated \/ EpochRaises)
  <2>1. newest' = newest
    BY <1>3, Zenon DEF TrainerStep, BeginFit, NewTrainer, LoadBest, engine, network
  <2> QED
    BY <1>1, <2>1
<1> QED
  BY <1>2, <1>3

LEMMA LearningStarts == LearningInit => LearningInv
<1> SUFFICES ASSUME LearningInit PROVE LearningInv
  OBVIOUS
<1>1. PICK size \in CacheSizes : EngineInit(size)
  BY DEF LearningInit
<1>2. EngineInv /\ newest = 0
  BY <1>1, EngineStarts DEF EngineInit
<1>3. TestInv
  BY <1>2, TestStarts DEF LearningInit
<1>4. TrainerInv /\ fit = None /\ trail = <<>>
  BY <1>2, TrainerStarts DEF LearningInit, TrainerInit
<1> QED
  BY <1>2, <1>3, <1>4 DEF LearningInv

LEMMA LearningSteps == LearningInv /\ [LearningNext]_learning => LearningInv'
<1> SUFFICES ASSUME LearningInv, [LearningNext]_learning PROVE LearningInv'
  OBVIOUS
<1>1. EngineInv /\ TestInv /\ TrainerInv /\ newest \in Nat
  BY DEF LearningInv, EngineInv, EngineTypeOK
<1>2. CASE program = "calls" /\ EngineCall /\ UNCHANGED <<program, test, trainer>>
  <2>1. newest' \in Nat /\ newest <= newest'
    BY <1>1, <1>2, NewestGrows
  <2>2. fit = None /\ trail = <<>> /\ UNCHANGED <<fit, trail>>
    BY <1>2 DEF LearningInv, trainer
  <2>3. EngineInv' /\ TestInv' /\ TrainerInv'
    BY <1>1, <1>2, <2>1, <2>2, EngineCalls, TestStays, TrainerStays
  <2> QED
    BY <1>2, <2>2, <2>3 DEF LearningInv
<1>3. CASE program = "test" /\ TestStep /\ UNCHANGED <<program, trainer>>
  <2>1. newest' \in Nat /\ newest <= newest'
    BY <1>1, <1>3, TestNewestGrows
  <2>2. fit = None /\ trail = <<>> /\ UNCHANGED <<fit, trail>>
    BY <1>3 DEF LearningInv, trainer
  <2>3. EngineInv' /\ TestInv' /\ TrainerInv'
    BY <1>1, <1>3, <2>1, <2>2, TestSteps, TrainerStays
  <2> QED
    BY <1>3, <2>2, <2>3 DEF LearningInv
<1>4. CASE program = "trainer" /\ TrainerStep /\ UNCHANGED <<program, test>>
  <2>1. newest' \in Nat /\ newest <= newest'
    BY <1>1, <1>4, TrainerNewestGrows
  <2>2. EngineInv' /\ TrainerInv' /\ TestInv'
    BY <1>1, <1>4, <2>1, TrainerSteps, TestStays
  <2> QED
    BY <1>4, <2>2 DEF LearningInv
<1>5. CASE UNCHANGED learning
  <2>1. UNCHANGED <<program, engine, test, trainer>> /\ newest' = newest
    BY <1>5 DEF learning, engine, network
  <2>2. EngineInv' /\ TestInv'
    BY <1>1, <2>1, EngineStays, TestStays
  <2>3. TrainerInv' /\ UNCHANGED <<fit, trail>>
    <3>1. UNCHANGED <<fit, fits, early, listed, disk, trail, lowest, weights, newest>>
      BY <2>1 DEF trainer, engine, network
    <3>2. TrainerTypeOK' /\ Filed'
      BY <1>1, <3>1 DEF TrainerInv, TrainerTypeOK, Filed
    <3>3. Scored' /\ Tracked'
      BY <1>1, <3>1 DEF TrainerInv, Scored, LastOfItsTask, Tracked, NoLoss, BestOf,
                        FitKeepsBestEpoch
    <3> QED
      BY <3>1, <3>2, <3>3 DEF TrainerInv
  <2> QED
    BY <2>1, <2>2, <2>3 DEF LearningInv
<1> QED
  BY <1>2, <1>3, <1>4, <1>5 DEF LearningNext

LEMMA LearningInvAlways == LearningSpec => []LearningInv
<1> QED
  BY LearningStarts, LearningSteps, PTL DEF LearningSpec

(* Every variable has its type, and weights that are referred to, cached,  *)
(* saved, measured, kept by a fit or its trail, were made: of all three    *)
(* programs, for every cache size, list of phases and number of fits.      *)
THEOREM LearningTypes == LearningSpec => []LearningTypeOK
<1>1. LearningInv => LearningTypeOK
  BY DEF LearningInv, EngineInv, TestInv, TrainerInv, LearningTypeOK
<1> QED
  BY <1>1, LearningInvAlways, PTL

(* A prediction is of older weights only from a cache with space left, and *)
(* only if the weights have changed since the cache was last empty.        *)
THEOREM StalenessHasACause == LearningSpec => []StalenessIsExplained
<1>1. LearningInv => StalenessIsExplained
  BY DEF LearningInv, EngineInv
<1> QED
  BY <1>1, LearningInvAlways, PTL

(* A fit that ends leaves the weights of its best epoch in the network,    *)
(* and load_best loads a checkpoint of the task with the lowest loss its   *)
(* fit saw, however many fits of other tasks there were in between.        *)
THEOREM BestIsKept == LearningSpec => []CheckpointsKeepTheBest
<1>1. LearningInv => CheckpointsKeepTheBest
  BY LatestIsBest DEF LearningInv, TrainerInv, Tracked, EngineInv, EngineTypeOK,
                      CheckpointsKeepTheBest
<1> QED
  BY <1>1, LearningInvAlways, PTL
=============================================================================
