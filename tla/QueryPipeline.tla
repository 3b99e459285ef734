---------------------------- MODULE QueryPipeline ----------------------------
(***************************************************************************)
(* CLDBPipeline.process_query of cldb/pipeline.py: how the thread of a     *)
(* query observes a state, finalises the transition of the query before    *)
(* it, decides, and records what it learnt.  The HTTP server runs one      *)
(* thread per request on one pipeline; nothing here is locked, so every    *)
(* access to an attribute of the pipeline is a step of its own.            *)
(*                                                                         *)
(* Queries are numbered in the order in which they begin.  The decision    *)
(* itself (action, reward, executed DDL) and the numbers a state is made   *)
(* of are left out: a transition is known by its query.  The replay buffer *)
(* is only appended to (ReplayBuffer models its evictions), the drift      *)
(* detector is its PhaseClock, and the calls increment_query_count and     *)
(* trigger_drift change the state of OnlineScheduler only.                 *)
(***************************************************************************)
EXTENDS Naturals, Sequences

CONSTANTS Clients,    (* threads running process_query                      *)
          MinStates,  (* recent states needed to consolidate, 32            *)
          Half, Full, (* half and full window of the drift detector         *)
          MaxQueries, (* bound: queries begun                               *)
          None

ASSUME PipelineAssumption ==
  /\ MinStates \in Nat /\ Half \in Nat /\ Full \in Nat /\ MaxQueries \in Nat
  /\ None \notin Nat

VARIABLES
  served,          (* queries begun so far                                  *)
  last,            (* the query of _last_transition, or None                *)
  buffer,          (* the transitions of replay_buffer, oldest first        *)
  recent_states,   (* length of _recent_states, up to MinStates             *)
  phase, since,    (* the drift detector                                    *)
  consolidated,    (* phases consolidated, with the drift that caused each  *)
  pc, local,       (* where each thread is, and its local variables         *)
  finished,        (* history: queries whose transition was recorded        *)
  missed,          (* history: queries that failed before finalising        *)
  overlapped       (* history: were two queries ever under way at once?     *)

learning == <<buffer, recent_states>>
drift == <<phase, since, consolidated>>
history == <<finished, missed>>
vars == <<served, last, learning, drift, pc, local, history, overlapped>>

(* The pipeline never calls force_new_phase.                               *)
Clock == INSTANCE PhaseClock WITH stopped <- FALSE

(* The local variables of a thread that knows its query only.              *)
Serving(query) == [query |-> query, taken |-> None, begun |-> None, named |-> None]

Idle == Serving(None)

-----------------------------------------------------------------------------

Init ==
  /\ served = 0
  /\ last = None
  /\ buffer = <<>>
  /\ recent_states = 0
  /\ Clock!Init
  /\ consolidated = <<>>
  /\ pc = [c \in Clients |-> "idle"]
  /\ local = [c \in Clients |-> Idle]
  /\ finished = {} /\ missed = {}
  /\ overlapped = FALSE

Goto(c, place) == pc' = [pc EXCEPT ![c] = place]

(* The query ends, with a result or with an error. *)
Answer(c) ==
  /\ Goto(c, "idle")
  /\ local' = [local EXCEPT ![c] = Idle]

-----------------------------------------------------------------------------
(* Observing.                                                              *)

Begin(c) ==
  /\ pc[c] = "idle"
  /\ served < MaxQueries
  /\ served' = served + 1
  /\ local' = [local EXCEPT ![c] = Serving(served')]
  /\ Goto(c, "observing")
  /\ UNCHANGED <<last, learning, drift, history>>

(* The query fails before it finalises the transition of an earlier one.   *)
Miss(c) ==
  /\ Answer(c)
  /\ missed' = missed \union {local[c].query}

(* Mutant: a query that fails forgets the transition that waits.           *)
ObserveForgetting(c) ==
  /\ pc[c] = "observing"
  /\ \/ Goto(c, "observed") /\ UNCHANGED <<last, local, missed>>
     \/ Miss(c) /\ last' = None
  /\ UNCHANGED <<served, learning, drift, finished>>

(* _observe, which may raise, most likely in get_workload_stats: it asks   *)
(* the database.                                                           *)
Observe(c) ==
  /\ pc[c] = "observing"
  /\ \/ Goto(c, "observed") /\ UNCHANGED <<local, missed>>
     \/ Miss(c)
  /\ UNCHANGED <<served, last, learning, drift, finished>>

(* vector_store.find_similar_queries, which raises after its last attempt. *)
FindSimilar(c) ==
  /\ pc[c] = "observed"
  /\ \/ Goto(c, "searched") /\ UNCHANGED <<local, missed>>
     \/ Miss(c)
  /\ UNCHANGED <<served, last, learning, drift, finished>>

(* if self._last_transition is not None *)
TestLast(c) ==
  /\ pc[c] = "searched"
  /\ Goto(c, IF last = None THEN "deciding" ELSE "taking")
  /\ UNCHANGED <<served, last, learning, drift, local, history>>

(* lt = self._last_transition: None by now makes lt["hash"] raise.         *)
TakeLast(c) ==
  /\ pc[c] = "taking"
  /\ \/ last = None /\ Answer(c)
     \/ /\ last # None
        /\ local' = [local EXCEPT ![c].taken = last]
        /\ Goto(c, "storing")
  /\ UNCHANGED <<served, last, learning, drift, history>>

(* replay_buffer.add_transition *)
Store(c) ==
  /\ pc[c] = "storing"
  /\ buffer' = Append(buffer, [of |-> local[c].taken, next |-> local[c].query, by |-> c])
  /\ Goto(c, "clearing")
  /\ UNCHANGED <<served, last, recent_states, drift, local, history>>

(* Mutant: the transition stays after it was stored. *)
ClearLastKeeping(c) ==
  /\ pc[c] = "clearing"
  /\ recent_states' = IF recent_states < MinStates THEN recent_states + 1 ELSE MinStates
  /\ local' = [local EXCEPT ![c].taken = None]
  /\ Goto(c, "deciding")
  /\ UNCHANGED <<served, last, buffer, drift, history>>

ClearLast(c) ==
  /\ pc[c] = "clearing"
  /\ recent_states' = IF recent_states < MinStates THEN recent_states + 1 ELSE MinStates
  /\ last' = None
  /\ local' = [local EXCEPT ![c].taken = None]
  /\ Goto(c, "deciding")
  /\ UNCHANGED <<served, buffer, drift, history>>

-----------------------------------------------------------------------------
(* Deciding, executing and recording.                                      *)

(* Selecting, logging the query, checking and executing.  Anything that    *)
(* raises on the way ends the query.                                       *)
Decide(c) ==
  /\ pc[c] = "deciding"
  /\ \/ Goto(c, "recording") /\ UNCHANGED local
     \/ Answer(c)
  /\ UNCHANGED <<served, last, learning, drift, history>>

(* self._last_transition = {...} *)
RecordLast(c) ==
  /\ pc[c] = "recording"
  /\ last' = local[c].query
  /\ finished' = finished \union {local[c].query}
  /\ Goto(c, "learning")
  /\ UNCHANGED <<served, learning, drift, local, missed>>

(* _record_learning, up to drift_detector.add_experience. *)
AddExperience(c) ==
  /\ pc[c] = "learning"
  /\ \/ Clock!Stay /\ Answer(c)
     \/ /\ Clock!Turn
        /\ local' = [local EXCEPT ![c].begun = phase']
        /\ Goto(c, "naming")
  /\ UNCHANGED <<served, last, learning, consolidated, history>>

(* Mutant: the phase is asked for before the drift is looked for. *)
NamePhaseBeforeDrift(c) ==
  /\ pc[c] = "naming"
  /\ local' = [local EXCEPT ![c].named = phase - 1]
  /\ Goto(c, IF recent_states >= MinStates THEN "consolidating" ELSE "triggering")
  /\ UNCHANGED <<served, last, learning, drift, history>>

(* drift_detector.get_current_phase, in a lock section of its own. *)
NamePhase(c) ==
  /\ pc[c] = "naming"
  /\ local' = [local EXCEPT ![c].named = phase]
  /\ Goto(c, IF recent_states >= MinStates THEN "consolidating" ELSE "triggering")
  /\ UNCHANGED <<served, last, learning, drift, history>>

(* agent.consolidate, which may raise; then there is no trigger_drift.     *)
Consolidate(c) ==
  /\ pc[c] = "consolidating"
  /\ \/ /\ consolidated' = Append(consolidated,
             [phase |-> local[c].named, begun |-> local[c].begun, by |-> c])
        /\ Goto(c, "triggering")
        /\ UNCHANGED local
     \/ Answer(c) /\ UNCHANGED consolidated
  /\ UNCHANGED <<served, last, learning, phase, since, history>>

(* online_scheduler.trigger_drift, and the result of the query. *)
TriggerDrift(c) ==
  /\ pc[c] = "triggering"
  /\ Answer(c)
  /\ UNCHANGED <<served, last, learning, drift, history>>

Process(c) ==
  \/ Begin(c) \/ Observe(c) \/ FindSimilar(c) \/ TestLast(c) \/ TakeLast(c) \/ Store(c) \/ ClearLast(c)
  \/ Decide(c) \/ RecordLast(c) \/ AddExperience(c)
  \/ NamePhase(c) \/ Consolidate(c) \/ TriggerDrift(c)

Watch ==
  overlapped' = \/ overlapped
                \/ \E c, d \in Clients : c # d /\ pc'[c] # "idle" /\ pc'[d] # "idle"

Next == (\E c \in Clients : Process(c)) /\ Watch

Spec == Init /\ [][Next]_vars

-----------------------------------------------------------------------------

Places == {"idle", "observing", "observed", "searched", "taking", "storing", "clearing",
           "deciding", "recording", "learning", "naming", "consolidating", "triggering"}

StateOK ==
  /\ served \in 0 .. MaxQueries
  /\ last \in Nat \union {None}
  /\ buffer \in Seq([of : Nat, next : Nat, by : Clients])
  /\ recent_states \in 0 .. MinStates
  /\ phase \in Nat \ {0} /\ since \in 0 .. Full
  /\ consolidated \in Seq([phase : Nat, begun : Nat, by : Clients])
  /\ pc \in [Clients -> Places]
  /\ local \in [Clients -> [query : Nat \union {None}, taken : Nat \union {None},
                            begun : Nat \union {None}, named : Nat \union {None}]]
  /\ finished \subseteq 1 .. MaxQueries /\ missed \subseteq 1 .. MaxQueries

(* Type invariant. *)
TypeOK == StateOK /\ overlapped \in BOOLEAN

Stored(n) == \E i \in DOMAIN buffer : buffer[i].of = n

(* "Finalize the previous transition now that its successor is known": a   *)
(* transition is finalised once (pipeline.py:240-247).                     *)
FinalisedOnce ==
  \A i, j \in DOMAIN buffer : buffer[i].of = buffer[j].of => i = j

(* As long as the server's threads take turns, a transition is finalised   *)
(* once, whichever queries fail and wherever (pipeline.py:240-247).        *)
StoredOnce == ~overlapped => FinalisedOnce

(* As long as queries take turns, a transition is stored with the state of *)
(* the first later query that gets as far as finalising: the queries       *)
(* between the two failed before, in their observation or search.  A       *)
(* transition is thus chained across a gap, but only across one of failed  *)
(* queries (pipeline.py:236-247, 306-318).                                 *)
SuccessorFollows ==
  ~overlapped =>
    \A i \in DOMAIN buffer :
      /\ buffer[i].of < buffer[i].next
      /\ (buffer[i].of + 1) .. (buffer[i].next - 1) \subseteq missed

(* What a query learnt is in the buffer or waiting for its successor, as   *)
(* long as queries take turns (pipeline.py:241-247, 307-312).              *)
NothingLost ==
  ~overlapped => \A n \in finished : Stored(n) \/ last = n

(* What queries that take turns leave behind, altogether.                  *)
TurnsAreExact == StoredOnce /\ SuccessorFollows /\ NothingLost

(* The phase is read after the detector's lock was released, so a drift of *)
(* another thread may come in between and the policy be consolidated under *)
(* the phase that one began.  Still a drift is consolidated at most once,  *)
(* under the phase it began or a later one, and whatever a thread          *)
(* consolidated before has an earlier name than the phase its next drift   *)
(* begins: no thread overwrites its own consolidation (pipeline.py:218-223,*)
(* drift_detection.py:75-84).                                              *)
NamesAreFresh ==
  \A i, j \in DOMAIN consolidated :
    /\ consolidated[i].begun <= consolidated[i].phase
    /\ i # j => consolidated[i].begun # consolidated[j].begun
    /\ i < j /\ consolidated[i].by = consolidated[j].by
         => consolidated[i].phase < consolidated[j].begun

(* Where queries overlap a transition may be stored more than once, but    *)
(* never twice by the same thread: duplicates are bounded by the threads   *)
(* (pipeline.py:240-247).                                                  *)
StoredOncePerClient ==
  \A i, j \in DOMAIN buffer :
    buffer[i].of = buffer[j].of /\ buffer[i].by = buffer[j].by => i = j
=============================================================================
