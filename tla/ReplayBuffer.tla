---------------------------- MODULE ReplayBuffer ----------------------------
(***************************************************************************)
(* DatabaseAwarePriorityReplay of cldb/replay_buffer.py, filled by the     *)
(* query threads of the pipeline while training threads sample it, train   *)
(* without the lock (DQNAgent.train_from_buffer), and come back with TD    *)
(* errors for the positions they sampled.                                  *)
(*                                                                         *)
(* Every method holds the buffer's lock throughout, so each is one action. *)
(* A priority impact / sqrt(freq) is kept as the pair (impact, freq) and   *)
(* compared by its square, exactly.  Impacts are the values of             *)
(* abs(reward) + min_priority (or abs(td) + min_priority), in a unit that  *)
(* makes them positive naturals.  A key missing from the action_counts     *)
(* dictionary is a count of 0.                                             *)
(***************************************************************************)
EXTENDS Naturals, Sequences, FiniteSets

CONSTANTS Actions,   (* KEEP, CREATE_INDEX, DROP_INDEX                      *)
          Impacts,   (* possible values of abs(reward) + min_priority       *)
          Capacity,  (* capacity                                            *)
          BatchSize, (* batch_size of a training step                       *)
          MinToTrain,(* max(8, batch_size): smaller buffers are not trained on *)
          Trainers,  (* threads running train_from_buffer                   *)
          NoFile     (* nothing saved yet                                   *)

Experience == [action : Actions, impact : Impacts, freq : Nat]

ASSUME ReplayAssumption ==
  /\ Impacts \subseteq Nat \ {0}
  /\ Capacity \in Nat \ {0}
  /\ BatchSize \in Nat \ {0}
  /\ MinToTrain \in Nat /\ MinToTrain >= BatchSize
  /\ NoFile \notin Seq(Experience)

VARIABLES
  buffer,        (* sequence of experiences                                *)
  action_counts, (* action -> number of experiences, as maintained         *)
  file,          (* the buffer last saved, or NoFile                       *)
  sample         (* positions each trainer sampled; {} when not training   *)

vars == <<buffer, action_counts, file, sample>>

-----------------------------------------------------------------------------

(* dict.get(action, 1) *)
Frequency(counts, a) == IF counts[a] = 0 THEN 1 ELSE counts[a]

(* _compute_priority, once the counts are up to date. *)
Prioritised(a, impact, counts) ==
  [action |-> a, impact |-> impact, freq |-> Frequency(counts, a)]

LowerPriority(e, f) ==
  e.impact * e.impact * f.freq < f.impact * f.impact * e.freq

(* The first position of least priority: Python's min over the positions. *)
IsVictim(i) ==
  /\ \A j \in DOMAIN buffer : ~LowerPriority(buffer[j], buffer[i])
  /\ \A j \in 1 .. (i - 1) : LowerPriority(buffer[i], buffer[j])

(* Occurrences of an action in a sequence of experiences. *)
Tally(s, a) == Cardinality({i \in DOMAIN s : s[i].action = a})

Init ==
  /\ buffer = <<>>
  /\ action_counts = [a \in Actions |-> 0]
  /\ file = NoFile
  /\ sample = [t \in Trainers |-> {}]

-----------------------------------------------------------------------------

(* Mutant: the count of the evicted experience's action is left alone. *)
ReplaceKeepingCount(i, e, counts) ==
  /\ buffer' = [buffer EXCEPT ![i] = e]
  /\ action_counts' = counts

(* Overwrite the victim and give back its count. *)
Replace(i, e, counts) ==
  /\ buffer' = [buffer EXCEPT ![i] = e]
  /\ action_counts' = [counts EXCEPT ![buffer[i].action] = @ - 1]

HasRoom == Len(buffer) < Capacity

(* add / add_transition: the newcomer's count and priority are computed    *)
(* before the victim gives its place and its count back.                   *)
Add(a, impact) ==
  LET counts == [action_counts EXCEPT ![a] = @ + 1]
      e == Prioritised(a, impact, counts)
  IN /\ \/ /\ HasRoom
           /\ buffer' = Append(buffer, e)
           /\ action_counts' = counts
        \/ /\ ~HasRoom
           /\ \E i \in DOMAIN buffer :
                /\ IsVictim(i)
                /\ Replace(i, e, counts)
     /\ UNCHANGED <<file, sample>>

(* train_from_buffer: nothing to do below max(8, batch_size) experiences;  *)
(* otherwise sample_transitions draws batch_size distinct positions.       *)
SampleTransitions(t) ==
  /\ sample[t] = {}
  /\ Len(buffer) >= MinToTrain
  /\ \E S \in SUBSET (DOMAIN buffer) :
       /\ Cardinality(S) = BatchSize
       /\ sample' = [sample EXCEPT ![t] = S]
  /\ UNCHANGED <<buffer, action_counts, file>>

(* update_priorities_td: a TD error for every sampled position that still  *)
(* exists, with the rarity of the experience found there now.              *)
UpdatePrioritiesTD(t) ==
  /\ sample[t] # {}
  /\ \E td \in [sample[t] -> Impacts] :
       buffer' = [i \in DOMAIN buffer |->
                    IF i \in sample[t]
                    THEN Prioritised(buffer[i].action, td[i], action_counts)
                    ELSE buffer[i]]
  /\ sample' = [sample EXCEPT ![t] = {}]
  /\ UNCHANGED <<action_counts, file>>

(* update_priorities: new rewards for given positions. *)
UpdatePriorities(i, impact) ==
  /\ i \in DOMAIN buffer
  /\ buffer' = [buffer EXCEPT ![i] = Prioritised(@.action, impact, action_counts)]
  /\ UNCHANGED <<action_counts, file, sample>>

Save ==
  /\ file' = buffer
  /\ UNCHANGED <<buffer, action_counts, sample>>

(* Mutant: the loaded experiences are counted on top of the old counts. *)
RecountWithoutClear(s) == [a \in Actions |-> action_counts[a] + Tally(s, a)]

Recount(s) == [a \in Actions |-> Tally(s, a)]

(* load: the counts are cleared and rebuilt from the experiences. *)
Load ==
  /\ file # NoFile
  /\ buffer' = file
  /\ action_counts' = Recount(file)
  /\ UNCHANGED <<file, sample>>

Next ==
  \/ \E a \in Actions, impact \in Impacts : Add(a, impact)
  \/ \E t \in Trainers : SampleTransitions(t)
  \/ \E t \in Trainers : UpdatePrioritiesTD(t)
  \/ \E i \in 1 .. Capacity, impact \in Impacts : UpdatePriorities(i, impact)
  \/ Save
  \/ Load

Spec == Init /\ [][Next]_vars

-----------------------------------------------------------------------------

(* Type invariant. *)
TypeOK ==
  /\ buffer \in Seq(Experience)
  /\ action_counts \in [Actions -> Nat]
  /\ file \in Seq(Experience) \union {NoFile}
  /\ sample \in [Trainers -> SUBSET (1 .. Capacity)]

(* The buffer, and so any file it is saved to, never exceeds its capacity. *)
(* Proved in LearningProofs, where the other invariants rest on it.        *)
WithinCapacity ==
  /\ Len(buffer) <= Capacity
  /\ file # NoFile => Len(file) <= Capacity

(* The incrementally maintained action_counts are the exact frequencies of *)
(* the actions in the buffer, after any mix of appends, evictions (also of *)
(* the newcomer's own action), priority updates and loads: the rarity      *)
(* factor of every later priority is right, no count goes negative and     *)
(* action_counts[evicted.action] never raises KeyError.                    *)
CountsMatchBuffer == \A a \in Actions : action_counts[a] = Tally(buffer, a)

(* A frozen rarity never overstates an action's frequency by more than the *)
(* one experience an add counts before evicting: freq is at most           *)
(* Capacity + 1, and at least 1, so no priority is zero or infinite and    *)
(* sampling probabilities are well defined.                                *)
PrioritiesAreSane ==
  \A i \in DOMAIN buffer : buffer[i].freq \in 1 .. (Capacity + 1)

=============================================================================
