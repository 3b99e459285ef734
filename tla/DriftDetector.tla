---------------------------- MODULE DriftDetector ----------------------------
(***************************************************************************)
(* The workload drift detector of cldb/drift_detection.py, called by the   *)
(* query threads of the pipeline.                                          *)
(*                                                                         *)
(* Embeddings are small integer vectors.  A centroid is kept as the sum of *)
(* its embeddings: the code only uses its direction, and the cosine of two *)
(* directions is compared with 1 - drift_threshold exactly, by squares.    *)
(* The zero vector has no direction; the code leaves it as it is, and its  *)
(* cosine with anything is 0.                                              *)
(***************************************************************************)
EXTENDS Integers, Sequences, SequencesExt

CONSTANTS Embeddings, (* possible embeddings, pairs of integers             *)
          Window,     (* window_size                                        *)
          CosNum,     (* 1 - drift_threshold ...                            *)
          CosDen,     (*                      ... is CosNum / CosDen        *)
          Callers,    (* query threads, and experiments forcing a phase     *)
          MaxPhase,   (* bound: last phase explored                         *)
          MaxRun,     (* bound: longest run of equal embeddings counted     *)
          Unset       (* no baseline, nobody holding the lock               *)

ASSUME DetectorAssumption ==
  /\ Embeddings \subseteq Int \X Int
  /\ Window \in Nat /\ Window >= 2
  /\ CosNum \in Nat /\ CosDen \in Nat /\ 0 < CosNum /\ CosNum < CosDen
  /\ MaxPhase \in Nat \ {0}
  /\ MaxRun \in Nat /\ MaxRun >= Window + Window \div 2
  /\ Unset \notin Int \X Int /\ Unset \notin Callers

VARIABLES
  recent,   (* recent_embeddings, a deque of at most Window                 *)
  baseline, (* baseline_centroid                                            *)
  phase,    (* current_phase_id                                             *)
  lock,     (* the caller holding _lock between two steps, or Unset         *)
  pc,       (* where each caller is                                         *)
  run       (* history: the last embedding and how many equal ones came     *)
            (* last, up to MaxRun                                           *)

detector == <<recent, baseline, phase>>
detectorVars == <<detector, lock, pc, run>>

-----------------------------------------------------------------------------

Plus(u, v) == <<u[1] + v[1], u[2] + v[2]>>
Dot(u, v) == u[1] * v[1] + u[2] * v[2]

Centroid(s) == FoldSeq(Plus, <<0, 0>>, s)

(* distance > drift_threshold *)
Far(u, v) ==
  \/ Dot(u, v) <= 0
  \/ Dot(u, v) * Dot(u, v) * CosDen * CosDen
       < CosNum * CosNum * Dot(u, u) * Dot(v, v)

Least(m, n) == IF m < n THEN m ELSE n

(* Mutant: a plain list instead of a deque with a maximal length. *)
SlideUnbounded(s, e) == Append(s, e)

(* deque(maxlen=window_size).append *)
Slide(s, e) == IF Len(s) < Window THEN Append(s, e) ELSE Append(Tail(s), e)

EnoughData(s) == Len(s) >= Window \div 2

(* Mutant: the window of the old phase is kept. *)
AfterDriftKeepingWindow(s) ==
  /\ recent' = s
  /\ baseline' = Centroid(s)

(* Mutant: the baseline of the old phase is kept. *)
AfterDriftKeepingBaseline(s) ==
  /\ recent' = <<>>
  /\ UNCHANGED baseline

(* A drift establishes the new baseline and empties the window. *)
AfterDrift(s) ==
  /\ recent' = <<>>
  /\ baseline' = Centroid(s)

DetectorInit ==
  /\ recent = <<>>
  /\ baseline = Unset
  /\ phase = 1
  /\ lock = Unset
  /\ pc = [c \in Callers |-> "idle"]
  /\ run = [of |-> Unset, length |-> 0]

-----------------------------------------------------------------------------
(* The ways through add_experience, s being the window with the new        *)
(* embedding.                                                              *)

Gather(s) ==
  /\ recent' = s
  /\ baseline' = IF /\ EnoughData(s)
                    /\ baseline = Unset
                    /\ Len(s) = Window
                 THEN Centroid(s)
                 ELSE baseline
  /\ UNCHANGED phase

Drifts(s) == EnoughData(s) /\ baseline # Unset /\ Far(Centroid(s), baseline)

NewPhase(s) ==
  /\ phase < MaxPhase
  /\ phase' = phase + 1
  /\ AfterDrift(s)

(* add_experience *)
AddExperience(c, e) ==
  LET s == Slide(recent, e) IN
  /\ pc[c] = "idle"
  /\ lock = Unset
  /\ \/ /\ ~Drifts(s)
        /\ Gather(s)
        /\ UNCHANGED pc
     \/ /\ Drifts(s)
        /\ NewPhase(s)
        /\ pc' = [pc EXCEPT ![c] = "reading phase"]
  /\ run' = [of |-> e, length |-> IF run.of = e THEN Least(run.length + 1, MaxRun) ELSE 1]
  /\ UNCHANGED lock

(* The pipeline asks for the phase after a drift; force_new_phase asks for *)
(* it too, inside its own critical section.                                *)
GetCurrentPhase(c) ==
  /\ pc[c] \in {"reading phase", "inside force_new_phase"}
  /\ lock = Unset
  /\ pc' = [pc EXCEPT ![c] = "idle"]
  /\ UNCHANGED <<detector, lock, run>>

(* force_new_phase, as far as its call of get_current_phase.               *)
ForceNewPhase(c) ==
  /\ pc[c] = "idle"
  /\ lock = Unset
  /\ phase < MaxPhase
  /\ lock' = c
  /\ phase' = phase + 1
  /\ baseline' = IF recent = <<>> THEN Unset ELSE Centroid(recent)
  /\ recent' = <<>>
  /\ pc' = [pc EXCEPT ![c] = "inside force_new_phase"]
  /\ UNCHANGED run

DetectorNext ==
  \E c \in Callers :
    \/ \E e \in Embeddings : AddExperience(c, e)
    \/ GetCurrentPhase(c)
    \/ ForceNewPhase(c)

DetectorSpec == DetectorInit /\ [][DetectorNext]_detectorVars

-----------------------------------------------------------------------------

(* Type invariant. *)
DetectorTypeOK ==
  /\ recent \in Seq(Embeddings) /\ Len(recent) <= Window
  /\ baseline \in (Int \X Int) \union {Unset}
  /\ phase \in 1 .. MaxPhase
  /\ lock \in Callers \union {Unset}
  /\ pc \in [Callers -> {"idle", "reading phase", "inside force_new_phase"}]
  /\ run \in [of : Embeddings \union {Unset}, length : 0 .. MaxRun]

(* A new workload is settled after a window, which it fills, and half a    *)
(* window more, when it was first detected in a window still mixed with    *)
(* the old workload and has to leave that mixed baseline.                  *)
Settling == Window + Window \div 2

(* The detector never lags: after that many equal embeddings the baseline  *)
(* is within the threshold of them.                                        *)
NeverLags ==
  baseline # Unset /\ run.length >= Settling => ~Far(run.of, baseline)

(* "...to prevent unnecessary updates when the workload is stable": a      *)
(* workload that keeps sending the same embedding causes no drift after    *)
(* it has settled.                                                         *)
StableWorkloadIsLeftAlone ==
  phase' # phase /\ lock' = Unset => run'.length < Settling

(* Both, of every step: the detector is neither late nor nervous.          *)
SettlesInTime == [][NeverLags' /\ StableWorkloadIsLeftAlone]_detectorVars

(* Phases are numbered one after the other, and a drift is reported only  *)
(* after half a window of new embeddings, whatever they are: the length of *)
(* the window is the clock.  force_new_phase is the exception and the end: *)
(* its caller never gives the lock back (drift_detection.py:36-74, 86-98). *)
Clock == INSTANCE PhaseClock WITH
  since <- Len(recent), stopped <- (lock # Unset),
  Half <- Window \div 2, Full <- Window
ImplementsPhaseClock == Clock!Spec
=============================================================================
