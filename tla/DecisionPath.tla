---------------------------- MODULE DecisionPath ----------------------------
(***************************************************************************)
(* From a query to an index and back: the middle of process_query in       *)
(* cldb/pipeline.py with the components it calls - decision_engine,        *)
(* enhanced_safety, executor, performance_collector, reward, feedback, the *)
(* metadata tables and the metrics.  QueryPipeline models the transition   *)
(* and the learning around it.                                             *)
(*                                                                         *)
(* Request threads interleave between any two uses of the database or the  *)
(* metrics.  A restart kills them all: the database keeps its indexes and  *)
(* its rows, the process forgets the rest.                                 *)
(***************************************************************************)
EXTENDS SafetyLayer

CONSTANTS Queries,          (* records [table, columns, read]               *)
          LatencyWeight,    (* the weights of the reward,                   *)
          RegressionWeight, (* ...                                          *)
          ResourcePenalty,  (* ... this one in hundredths                   *)
          Significant,      (* improvement that makes a replay row, in ms   *)
          MaxCalls,         (* bound: calls begun                           *)
          MaxRestarts       (* bound: restarts                              *)

ASSUME PathAssumption ==
  /\ Queries \subseteq [table : Tables \cup {Unknown}, columns : SUBSET Columns, read : BOOLEAN]
  /\ {LatencyWeight, RegressionWeight, ResourcePenalty, Significant} \subseteq Nat
  /\ MaxCalls \in Nat /\ MaxRestarts \in Nat

VARIABLES
  counters,   (* the metrics of the process                                 *)
  rows,       (* rows of query_logs, optimization_decisions by status and   *)
              (* replay_buffer_metadata                                     *)
  executions, (* history: executions any process reported, KEEP excluded    *)
  calls,      (* calls begun                                                *)
  restarts    (* restarts so far                                            *)

limiter == <<now, bucket>>
safety == <<active, audit>>
vars == <<pc, job, limiter, safety, database, counters, rows, executions, calls, restarts>>

NoCounts == [name \in {"predictions", "kept", "rejected", "failed", "executed",
                       "errors", "processed"} |-> 0]

Init ==
  /\ LimiterInit /\ ExecutorInit /\ SafetyInit
  /\ counters = NoCounts
  /\ rows = [logged |-> 0, pending |-> 0, executed |-> 0, replay |-> 0]
  /\ executions = 0
  /\ calls = 0
  /\ restarts = 0

Count(names) ==
  counters' = [name \in DOMAIN counters |-> counters[name] + IF name \in names THEN 1 ELSE 0]

-----------------------------------------------------------------------------
(* Pure parts.                                                             *)

(* _table_index_count is 0 when it cannot be read. *)
TableIndexCounts(table) == {CatalogCount(table), 0}

(* _valid_actions *)
ValidActions(query, count) ==
  {"KEEP"} \cup {action \in {"CREATE_INDEX", "DROP_INDEX"} :
                  /\ query.columns # {}
                  /\ action = "CREATE_INDEX" => count < MaxIndexes
                  /\ action = "DROP_INDEX" => count > 0}

(* formulate_action, with what the parser made of the query's columns.     *)
FormulateAction(action, confident, query, columns) ==
  [action |-> action, table |-> query.table, confident |-> confident,
   columns |-> IF action = "KEEP" THEN <<>> ELSE columns]

(* What is left of measure_latency: a query that is no read is not         *)
(* measured, one that fails counts as 0.                                   *)
Measured(query) == {0} \cup IF query.read THEN Latencies ELSE {}

Clamped(reward) == IF reward > 200 THEN 200 ELSE IF reward < -200 THEN -200 ELSE reward

(* compute_reward, in hundredths. *)
ComputeReward(action, before, after) ==
  LET relative == ((before - after) * 100) \div before
      weighted == relative * IF relative > 0 THEN LatencyWeight ELSE RegressionWeight
  IN  IF before <= 0 THEN 0
      ELSE Clamped(weighted - IF action = "CREATE_INDEX" THEN ResourcePenalty ELSE 0)

-----------------------------------------------------------------------------
(* process_query, step by step.                                            *)

Begin(c, query) ==
  /\ pc[c] = "idle"
  /\ Goto(c, "choose")
  /\ job' = [job EXCEPT ![c] =
       [query |-> query, decision |-> FormulateAction("KEEP", FALSE, query, <<>>),
        before |-> 0, logged |-> FALSE, row |-> "none", after |-> 0, reward |-> 0]]
  /\ UNCHANGED <<limiter, safety, database, counters, rows, executions>>

(* The steps that do not catch their own errors: what precedes the choice, *)
(* the count behind the index limit, the learning at the end.              *)
MayRaise(c) ==
  \/ pc[c] \in {"choose", "finish"}
  \/ pc[c] = "judge" /\ job[c].decision.confident /\ job[c].decision.table # Unknown

(* The except clause of process_query. *)
Raise(c) ==
  /\ MayRaise(c)
  /\ Count({"errors", "processed"})
  /\ Return(c)
  /\ UNCHANGED <<limiter, safety, database, rows, executions>>

(* select_action explores, so any valid action may come with any           *)
(* confidence: predict is asked separately.                                *)
Choose(c) ==
  /\ pc[c] = "choose"
  /\ \E count \in TableIndexCounts(job[c].query.table), confident \in BOOLEAN :
       \E action \in ValidActions(job[c].query, count), columns \in Listed(job[c].query.columns) :
         job' = [job EXCEPT
           ![c].decision = FormulateAction(action, confident, job[c].query, columns)]
  /\ Count({"predictions"})
  /\ Goto(c, "measure")
  /\ UNCHANGED <<limiter, safety, database, rows, executions>>

Measure(c) ==
  /\ pc[c] = "measure"
  /\ \E latency \in Measured(job[c].query) : job' = [job EXCEPT ![c].before = latency]
  /\ Goto(c, "log")
  /\ UNCHANGED <<limiter, safety, database, counters, rows, executions>>

(* _log_query commits a row, or its error is swallowed: also that of a     *)
(* commit which was carried out, whose row the query then does not know.   *)
LogQuery(c) ==
  /\ pc[c] = "log"
  /\ \E written, logged \in BOOLEAN :
       /\ logged => written
       /\ job' = [job EXCEPT ![c].logged = logged]
       /\ rows' = IF written THEN [rows EXCEPT !.logged = @ + 1] ELSE rows
  /\ Goto(c, "judge")
  /\ UNCHANGED <<limiter, safety, database, counters, executions>>

Keep(c) ==
  /\ pc[c] = "judge"
  /\ job[c].decision.action = "KEEP"
  /\ Count({"kept"})
  /\ Goto(c, "finish")
  /\ UNCHANGED <<job, limiter, safety, database, rows, executions>>

(* Mutant: the reason for a rejection counts as an execution, too. *)
RejectCountingTwice(c) ==
  /\ pc[c] = "judge"
  /\ job[c].decision.action # "KEEP"
  /\ ~IsSafe(job[c].decision)
  /\ Audit(RejectionReason(job[c].decision))
  /\ Count({"rejected", "failed"})
  /\ job' = [job EXCEPT ![c].decision.action = "KEEP"]
  /\ Goto(c, "finish")
  /\ UNCHANGED <<limiter, active, database, rows, executions>>

(* An unsafe decision becomes KEEP. *)
Reject(c) ==
  /\ pc[c] = "judge"
  /\ job[c].decision.action # "KEEP"
  /\ ~IsSafe(job[c].decision)
  /\ Audit(RejectionReason(job[c].decision))
  /\ Count({"rejected"})
  /\ job' = [job EXCEPT ![c].decision.action = "KEEP"]
  /\ Goto(c, "finish")
  /\ UNCHANGED <<limiter, active, database, rows, executions>>

Approve(c) ==
  /\ pc[c] = "judge"
  /\ job[c].decision.action # "KEEP"
  /\ IsSafe(job[c].decision)
  /\ Goto(c, "execute")
  /\ UNCHANGED <<job, limiter, safety, database, counters, rows, executions>>

Execute(c) ==
  /\ pc[c] = "execute"
  /\ \/ /\ ExecuteDecision(job[c].decision, TRUE)
        /\ Count({"executed"})
        /\ executions' = executions + 1
        /\ Goto(c, "persist")
     \/ /\ ExecuteDecision(job[c].decision, FALSE)
        /\ Count({"failed"})
        /\ Goto(c, "finish")
        /\ UNCHANGED executions
  /\ UNCHANGED <<job, limiter, safety, rows>>

(* _persist_decision: a row for a table the metadata knows, unless the     *)
(* commit fails; of a row whose commit raised the query does not know.     *)
PersistDecision(c) ==
  /\ pc[c] = "persist"
  /\ \/ /\ job[c].decision.table \in Tables
        /\ rows' = [rows EXCEPT !.pending = @ + 1]
        /\ job' = [job EXCEPT ![c].row = "PENDING"] \/ UNCHANGED job
     \/ UNCHANGED <<rows, job>>
  /\ Goto(c, "remeasure")
  /\ UNCHANGED <<limiter, safety, database, counters, executions>>

Remeasure(c) ==
  /\ pc[c] = "remeasure"
  /\ \E latency \in Measured(job[c].query) :
       job' = [job EXCEPT
         ![c].after = latency,
         ![c].reward = ComputeReward(job[c].decision.action, job[c].before, latency)]
  /\ Goto(c, IF job[c].logged /\ job[c].row = "PENDING" THEN "feedback" ELSE "finish")
  /\ UNCHANGED <<limiter, safety, database, counters, rows, executions>>

(* Mutant: the status is set and the session left without a commit. *)
RecordOutcomeUncommitted(c) ==
  /\ pc[c] = "feedback"
  /\ job' = [job EXCEPT ![c].row = "EXECUTED"]
  /\ Goto(c, "replay")
  /\ UNCHANGED <<rows, limiter, safety, database, counters, executions>>

(* record_outcome: one commit for the status, ... *)
RecordOutcome(c) ==
  /\ pc[c] = "feedback"
  /\ rows' = [rows EXCEPT !.pending = @ - 1, !.executed = @ + 1]
  /\ job' = [job EXCEPT ![c].row = "EXECUTED"]
  /\ Goto(c, "replay")
  /\ UNCHANGED <<limiter, safety, database, counters, executions>>

(* ... another for the replay row of a large change. *)
RecordReplay(c) ==
  /\ pc[c] = "replay"
  /\ rows' = IF job[c].before - job[c].after \in -Significant..Significant THEN rows
             ELSE [rows EXCEPT !.replay = @ + 1]
  /\ Goto(c, "finish")
  /\ UNCHANGED <<job, limiter, safety, database, counters, executions>>

(* Either commit may fail, and the query goes on. *)
OutcomeLost(c) ==
  /\ pc[c] \in {"feedback", "replay"}
  /\ Goto(c, "finish")
  /\ UNCHANGED <<job, limiter, safety, database, counters, rows, executions>>

Finish(c) ==
  /\ pc[c] = "finish"
  /\ Count({"processed"})
  /\ Return(c)
  /\ UNCHANGED <<limiter, safety, database, rows, executions>>

-----------------------------------------------------------------------------

(* The process dies, wherever its threads are, and another one starts. *)
Restart ==
  /\ restarts < MaxRestarts
  /\ restarts' = restarts + 1
  /\ pc' = [c \in Clients |-> "idle"]
  /\ job' = [c \in Clients |-> NoJob]
  /\ active' = {}
  /\ audit' = [reason \in Reasons |-> 0]
  /\ tokens' = Capacity /\ last' = now /\ grants' = <<>>
  /\ counters' = NoCounts
  /\ NewProcess
  /\ UNCHANGED <<now, rows, executions, calls>>

Pass ==
  /\ Tick
  /\ UNCHANGED <<pc, job, bucket, safety, database, counters, rows, executions, calls, restarts>>

(* A decision that a caller of execute_with_rollback may bring. *)
Operations ==
  UNION {{FormulateAction(action, TRUE, query, columns) : columns \in Listed(query.columns)} :
           action \in Actions, query \in Queries}

Call(c) ==
  /\ calls < MaxCalls
  /\ calls' = calls + 1
  /\ \/ \E query \in Queries : Begin(c, query)
     \/ /\ \E decision \in Operations, regressed \in BOOLEAN :
             BeginOperation(c, decision, regressed)
        /\ UNCHANGED <<counters, rows, executions>>

QueryStep(c) ==
  \/ Raise(c) \/ Choose(c) \/ Measure(c) \/ LogQuery(c)
  \/ Keep(c) \/ Reject(c) \/ Approve(c) \/ Execute(c)
  \/ PersistDecision(c) \/ Remeasure(c)
  \/ RecordOutcome(c) \/ RecordReplay(c) \/ OutcomeLost(c) \/ Finish(c)

OperationStep(c) ==
  /\ Acquire(c) \/ WakeUp(c) \/ RunExecutor(c)
       \/ InitiateRollback(c) \/ CloseOperation(c) \/ Delist(c)
  /\ UNCHANGED <<counters, rows, executions>>

Next ==
  \/ \E c \in Clients : Call(c) /\ UNCHANGED restarts
  \/ \E c \in Clients : (QueryStep(c) \/ OperationStep(c)) /\ UNCHANGED <<calls, restarts>>
  \/ Restart \/ Pass

Spec == Init /\ [][Next]_vars

-----------------------------------------------------------------------------

(* Every prediction the metrics count (cldb/pipeline.py:259) comes to one  *)
(* counted end - kept, rejected, failed or executed (275-304) - unless its *)
(* thread is still on the way or its query is counted as an error (318).   *)
Undecided == {c \in Clients : pc[c] \in {"measure", "log", "judge", "execute"}}
Settled == counters.kept + counters.rejected + counters.failed + counters.executed
DecisionsAreAccountedFor ==
  /\ Settled + Cardinality(Undecided) <= counters.predictions
  /\ counters.predictions <= Settled + Cardinality(Undecided) + counters.errors

(* The history in the database (cldb/feedback.py:17-35, pipeline.py:342)   *)
(* claims no more than happened, whatever commits fail and wherever a      *)
(* process dies: decision rows were executed, EXECUTED ones belong to      *)
(* logged queries, replay rows to EXECUTED decisions.                      *)
HistoryIsGrounded ==
  /\ rows.pending + rows.executed <= executions
  /\ rows.executed <= rows.logged
  /\ rows.replay <= rows.executed

(* One process leaves at most one index for a set of columns of a table    *)
(* (cldb/executor.py:37-48), although nothing records what exists, unless  *)
(* hashes of these columns collide in one; each restart may add an index,  *)
(* as it may enumerate the columns differently.                            *)
Alike(table, columns) == {i \in indexes : i.table = table /\ ToSet(i.columns) = columns}
OneIndexPerProcess ==
  \A table \in Tables, columns \in (SUBSET Columns) \ collided :
    Cardinality(Alike(table, columns)) <= restarts + 1

(* A rollback record that was marked - its operation or one that shares    *)
(* its name has run - is on its way out of _active_operations              *)
(* (cldb/enhanced_safety.py:141-144): what stays there was never run.      *)
RanIsDelisted ==
  \A r \in active :
    r.status # "pending" => \E c \in Clients : pc[c] = "delist" /\ job[c].name = r.name
=============================================================================
