--------------------------- MODULE MCDecisionPath ---------------------------
(* Instances of DecisionPath for TLC. *)
EXTENDS DecisionPath

CONSTANTS c1, c2, t1, t2, a, b

MCClients == {c1, c2}
MCTables == {t1, t2}
MCColumns == {a, b}
MCCatalogs == {{}, {[table |-> t1, columns |-> {a}], [table |-> t2, columns |-> {a, b}]}}
MCQueries == {[table |-> t1, columns |-> {a, b}, read |-> TRUE],
              [table |-> Unknown, columns |-> {b}, read |-> FALSE]}
MCLatencies == {20}
ClientSymmetry == Permutations(MCClients)
=============================================================================
