---------------------------- MODULE MCPolicyAgent ----------------------------
(* PolicyAgent for TLC: parameters and phases are interchangeable.           *)
EXTENDS PolicyAgent, TLC

CONSTANTS p1, p2, ph1, ph2

MCParams == {p1, p2}
MCPhases == {ph1, ph2}
Symmetry == Permutations(MCParams) \union Permutations(MCPhases)
=============================================================================
