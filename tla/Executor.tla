------------------------------ MODULE Executor ------------------------------
(***************************************************************************)
(* cldb/executor.py: index decisions carried out on the live database,     *)
(* next to the metadata tables (cldb/metadata_repo.py) in which the        *)
(* advisor looks indexes up.                                               *)
(*                                                                         *)
(* An index of the live database is its name, which is the table and its   *)
(* columns in the order in which the parser's set of predicate columns was *)
(* enumerated.  That order is another one after a restart; within a        *)
(* process it is fixed, except that columns whose hashes collide come in   *)
(* the order in which the query names them.  No code writes rows of the    *)
(* metadata's index table: what it holds at the start stays.               *)
(***************************************************************************)
EXTENDS FiniteSets, Sequences, SequencesExt

CONSTANTS Tables,   (* tables of the database                               *)
          Unknown,  (* "unknown", the table of a query that names none      *)
          Columns,  (* column names                                         *)
          Catalogs  (* possible contents of the metadata's index table:     *)
                    (* sets of records [table, columns]                     *)

ASSUME ExecutorAssumption ==
  /\ Unknown \notin Tables
  /\ IsFiniteSet(Columns)
  /\ Catalogs \subseteq SUBSET [table : Tables, columns : SUBSET Columns]

VARIABLES
  indexes,  (* cldb's indexes in the live database                          *)
  catalog,  (* active rows of DBIndex with their IndexColumn rows           *)
  order,    (* the lists that this process may make of sets of columns      *)
  collided  (* history: the sets of which some process could make several   *)

database == <<indexes, catalog, order, collided>>

(* list(predicate_cols) *)
Listed(columns) == {list \in order : ToSet(list) = columns}

(* What a process may make of sets of columns: of each at least one list. *)
Orders ==
  {lists \in SUBSET SetToAllKPermutations(Columns) :
     \A columns \in SUBSET Columns : \E list \in lists : ToSet(list) = columns}

Ambiguous(lists) == {ToSet(list) : list \in {k \in lists : \E l \in lists \ {k} : ToSet(l) = ToSet(k)}}

ExecutorInit ==
  /\ indexes = {}
  /\ catalog \in Catalogs
  /\ order \in Orders
  /\ collided = Ambiguous(order)

(* A decision carries its columns as a list, which names the index. *)
IndexOf(decision) == [table |-> decision.table, columns |-> decision.columns]

(* Rows of a table, as the safety layer and the action mask count them. *)
CatalogCount(table) == Cardinality({row \in catalog : row.table = table})

(* _index_exists: a row of any table with as many columns, one in common. *)
IndexExists(decision) ==
  \E row \in catalog :
    /\ row.columns \cap ToSet(decision.columns) # {}
    /\ Cardinality(row.columns) = Len(decision.columns)

(* Mutant: the columns come in the order in which each query names them. *)
ChangeIndexesAsNamed(decision) ==
  /\ decision.table \in Tables
  /\ \E columns \in SetToSeqs(ToSet(decision.columns)) :
       indexes' = indexes \cup {[table |-> decision.table, columns |-> columns]}

(* CREATE INDEX IF NOT EXISTS, DROP INDEX IF EXISTS: by name, in one       *)
(* transaction of the database.                                            *)
ChangeIndexes(decision) ==
  \/ decision.action = "CREATE_INDEX" /\ IndexExists(decision) /\ UNCHANGED indexes
  \/ /\ decision.action = "CREATE_INDEX"
     /\ ~IndexExists(decision)
     /\ decision.table \in Tables
     /\ indexes' = indexes \cup {IndexOf(decision)}
  \/ /\ decision.action = "DROP_INDEX"
     /\ indexes' = indexes \ {IndexOf(decision)}

(* execute_decision and what it returns; the database may refuse anything, *)
(* and refuses an index on a table it does not have.  A commit that was    *)
(* carried out may raise all the same: what is reported FALSE may be done. *)
ExecuteDecision(decision, result) ==
  \/ decision.action = "KEEP" /\ result = TRUE /\ UNCHANGED database
  \/ /\ decision.action # "KEEP"
     /\ result = FALSE
     /\ UNCHANGED database
  \/ /\ decision.action # "KEEP"
     /\ decision.columns # <<>>
     /\ result \in BOOLEAN
     /\ ChangeIndexes(decision)
     /\ UNCHANGED <<catalog, order, collided>>

NewProcess ==
  /\ order' \in Orders
  /\ collided' = collided \cup Ambiguous(order')
  /\ UNCHANGED <<indexes, catalog>>
=============================================================================
