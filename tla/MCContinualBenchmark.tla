------------------------ MODULE MCContinualBenchmark ------------------------
(* ContinualBenchmark for TLC: two tasks with the same queries, of which the *)
(* second makes one column's predicates unselective; the costs are the       *)
(* code's, in tenths.                                                        *)
EXTENDS ContinualBenchmark

CONSTANTS a, b

MCColumns == {a, b}
MCTemplates == [task \in 0 .. 1 |-> [d \in 1 .. 2 |-> IF d = 1 THEN {a} ELSE {b}]]
MCSelective == [task \in 0 .. 1 |-> IF task = 0 THEN {a, b} ELSE {b}]
MCTaskOrder == <<0, 1>>
MCPairs == {<<0, 1>>, <<1, 0>>}
=============================================================================
