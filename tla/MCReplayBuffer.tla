--------------------------- MODULE MCReplayBuffer ---------------------------
(* An instance of ReplayBuffer for TLC. *)
EXTENDS ReplayBuffer, TLC

CONSTANTS KEEP, CREATE_INDEX, DROP_INDEX, trainer

MCActions == {KEEP, CREATE_INDEX, DROP_INDEX}
MCTrainers == {trainer}
Symmetric == Permutations(MCActions)
=============================================================================
