-------------------------- MODULE MCTrafficSimulator --------------------------
(* TrafficSimulator for TLC: two tasks with the same queries, two columns.   *)
EXTENDS TrafficSimulator

CONSTANTS a, b, w1, w2

MCColumns == {a, b}
MCWorkers == {w1, w2}
MCTemplates == [t \in 0 .. 1 |-> [d \in 1 .. 2 |-> IF d = 1 THEN {a} ELSE {b}]]

(* Short phases; longer ones with what-if branches on a lower budget; no     *)
(* consolidation and a rate and a phase length that are no numbers.          *)
Usual ==
  [budget |-> 2, limit |-> 1, ewc |-> TRUE, cwil |-> FALSE, qps_ok |-> TRUE, limit_ok |-> TRUE]
MCConfigs ==
  {Usual,
   [Usual EXCEPT !.limit = 3, !.budget = 1, !.cwil = TRUE],
   [Usual EXCEPT !.ewc = FALSE, !.qps_ok = FALSE, !.limit_ok = FALSE]}

Symmetry == Permutations(MCWorkers)

(* Nearly every property excuses an abandoned worker.                        *)
NobodyAbandoned == "abandoned" \notin mishaps
=============================================================================
