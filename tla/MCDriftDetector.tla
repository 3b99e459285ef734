-------------------------- MODULE MCDriftDetector --------------------------
(* Instances of DriftDetector for TLC. *)
EXTENDS DriftDetector, TLC

CONSTANTS c1, c2

MCCallers == {c1, c2}
MCEmbeddings == {<<1, 0>>, <<0, 1>>, <<-1, 0>>}
CallerSymmetry == Permutations(MCCallers)
=============================================================================
