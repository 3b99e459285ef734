----------------------------- MODULE PhaseClock -----------------------------
(***************************************************************************)
(* What the drift detector promises the pipeline: phases are numbered one  *)
(* after the other, and a phase begins only after Half new queries since   *)
(* the last one.  The one exception is a phase that is forced, and it is   *)
(* the last: whoever forces a phase stops the clock for ever.              *)
(***************************************************************************)
EXTENDS Naturals

CONSTANTS Half, (* queries a phase lasts at least                           *)
          Full  (* queries counted; more make no difference                 *)

VARIABLES phase,  (* number of the current phase                            *)
          since,  (* queries since it began, up to Full                     *)
          stopped (* has a phase been forced?                               *)

clock == <<phase, since, stopped>>

Init == phase = 1 /\ since = 0 /\ stopped = FALSE

Stay ==
  /\ ~stopped
  /\ since' = IF since < Full THEN since + 1 ELSE Full
  /\ UNCHANGED phase
  /\ stopped' = stopped

Turn ==
  /\ ~stopped
  /\ since + 1 >= Half
  /\ phase' = phase + 1
  /\ since' = 0
  /\ stopped' = stopped

Force ==
  /\ ~stopped
  /\ phase' = phase + 1
  /\ since' = 0
  /\ stopped' = TRUE

Next == Stay \/ Turn \/ Force

Spec == Init /\ [][Next]_clock
=============================================================================
