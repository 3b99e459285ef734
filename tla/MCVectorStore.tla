--------------------------- MODULE MCVectorStore ---------------------------
(* Instances of VectorStore for TLC.  The callers are interchangeable and  *)
(* the run checks no liveness, so they are a symmetry set.                 *)
EXTENDS VectorStore, TLC

CONSTANTS c1, c2

MCCallers == {c1, c2}
MCSymmetry == Permutations(MCCallers)
=============================================================================
