------------------------ MODULE MCSupervisedLearning ------------------------
(* SupervisedLearning for TLC: the four phases of the forgetting test, of    *)
(* which the last repeats the first, and fits of two tasks.                  *)
EXTENDS SupervisedLearning

CONSTANTS x1, x2, x3, k1, k2

MCInputs == {x1, x2, x3}
MCPhaseInputs == <<x1, x2, x3, x1>>
MCTasks == {k1, k2}
Symmetric == Permutations(MCTasks)
=============================================================================
