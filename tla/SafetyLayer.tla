---------------------------- MODULE SafetyLayer ----------------------------
(***************************************************************************)
(* cldb/enhanced_safety.py: the checks a decision must pass, and operations *)
(* that run an executor under the rate limiter with a rollback record.     *)
(*                                                                         *)
(* A thread is in one call at a time.  pc is its place, job what the call  *)
(* has found out so far.  An operation's record is listed in               *)
(* _active_operations under a name made of its table, its action and the   *)
(* second at which it began, so that two of the same second share one.     *)
(* The audit log counts, as nothing reads more of it than its length and   *)
(* the number of entries of each kind.                                     *)
(***************************************************************************)
EXTENDS RateLimiter, Executor

CONSTANTS Clients,    (* threads that process queries or run operations     *)
          MaxIndexes, (* max_indexes_per_table                              *)
          Latencies,  (* latencies that can be measured                     *)
          NoJob       (* a thread that is in no call                        *)

ASSUME SafetyAssumption ==
  /\ MaxIndexes \in Nat
  /\ Latencies \subseteq Nat \ {0}

VARIABLES
  pc,     (* where each thread is                                           *)
  job,    (* the locals of its call                                         *)
  active, (* _active_operations: records [name, client, status]             *)
  audit   (* number of entries of _audit_log by reason                      *)

Reasons == {"low_confidence", "index_limit", "rate_limit", "regression",
            "success", "execution_error"}

Actions == {"KEEP", "CREATE_INDEX", "DROP_INDEX"}

SafetyInit ==
  /\ pc = [c \in Clients |-> "idle"]
  /\ job = [c \in Clients |-> NoJob]
  /\ active = {}
  /\ audit = [reason \in Reasons |-> 0]

Audit(reason) == audit' = [audit EXCEPT ![reason] = @ + 1]

Goto(c, place) == pc' = [pc EXCEPT ![c] = place]

(* The call ends here. *)
Return(c) ==
  /\ Goto(c, "idle")
  /\ job' = [job EXCEPT ![c] = NoJob]

-----------------------------------------------------------------------------
(* evaluate_decision, for a decision that is not KEEP.                     *)

(* _check_index_limit counts the rows of the metadata, not the database's  *)
(* indexes; a table that is not in the metadata has no limit.              *)
WithinLimit(table) == table = Unknown \/ CatalogCount(table) < MaxIndexes

RejectionReason(decision) ==
  IF ~decision.confident THEN "low_confidence" ELSE "index_limit"

IsSafe(decision) == decision.confident /\ WithinLimit(decision.table)

-----------------------------------------------------------------------------
(* execute_with_rollback, step by step.  Of the two latencies it is given  *)
(* only matters whether they make a regression, beyond the threshold.      *)

Listing(name) == {r \in active : r.name = name}

(* The record is written under a name that may be taken. *)
BeginOperation(c, decision, regressed) ==
  LET name == <<decision.table, decision.action, now>>
  IN  /\ pc[c] = "idle"
      /\ Goto(c, "acquire")
      /\ job' = [job EXCEPT ![c] = [decision |-> decision, name |-> name,
                                    start |-> now, regressed |-> regressed]]
      /\ active' = (active \ Listing(name)) \cup
                     {[name |-> name, client |-> c, status |-> "pending"]}
      /\ UNCHANGED <<now, bucket, database, audit>>

Acquire(c) ==
  /\ pc[c] = "acquire"
  /\ \/ Grant /\ Goto(c, "run") /\ UNCHANGED <<job, active, audit>>
     \/ /\ KeepWaiting(job[c].start)
        /\ Goto(c, "asleep")
        /\ UNCHANGED <<job, active, audit>>
     \/ /\ Refuse(job[c].start)
        /\ Audit("rate_limit")
        /\ Return(c)
        /\ UNCHANGED active
  /\ UNCHANGED <<now, database>>

WakeUp(c) ==
  /\ pc[c] = "asleep"
  /\ \/ /\ ~TimeIsUp(job[c].start)
        /\ Goto(c, "acquire")
        /\ UNCHANGED <<job, audit>>
     \/ /\ TimeIsUp(job[c].start)
        /\ Audit("rate_limit")
        /\ Return(c)
  /\ UNCHANGED <<now, bucket, database, active>>

(* The executor returns, or raises something it does not catch. *)
RunExecutor(c) ==
  /\ pc[c] = "run"
  /\ \/ \E result \in BOOLEAN : ExecuteDecision(job[c].decision, result)
        /\ Goto(c, IF job[c].regressed THEN "regressed" ELSE "completed")
     \/ UNCHANGED database /\ Goto(c, "failed")
  /\ UNCHANGED <<now, bucket, job, active, audit>>

(* What the end of an operation writes in the audit log. *)
Verdict(c) ==
  CASE pc[c] = "regressed" -> "regression"
    [] pc[c] = "completed" -> "success"
    [] pc[c] = "failed"    -> "execution_error"

(* _initiate_rollback: the record listed under the name is marked; the     *)
(* rollback action it holds is not run.                                    *)
InitiateRollback(c) ==
  /\ pc[c] = "regressed"
  /\ active' = (active \ Listing(job[c].name)) \cup
                 {[r EXCEPT !.status = "rollback_initiated"] : r \in Listing(job[c].name)}
  /\ Audit(Verdict(c))
  /\ Goto(c, "delist")
  /\ UNCHANGED <<now, bucket, database, job>>

(* The record's status is set through the thread's own reference to it. *)
CloseOperation(c) ==
  /\ pc[c] \in {"completed", "failed"}
  /\ active' = {IF r.client = c /\ r.name = job[c].name THEN [r EXCEPT !.status = pc[c]] ELSE r
                 : r \in active}
  /\ Audit(Verdict(c))
  /\ Goto(c, "delist")
  /\ UNCHANGED <<now, bucket, database, job>>

(* Mutant: an operation that is to be rolled back stays listed. *)
DelistCompleted(c) ==
  /\ pc[c] = "delist"
  /\ active' = active \ {r \in Listing(job[c].name) : r.status # "rollback_initiated"}
  /\ Return(c)
  /\ UNCHANGED <<now, bucket, database, audit>>

(* finally: whatever is listed under the name goes. *)
Delist(c) ==
  /\ pc[c] = "delist"
  /\ active' = active \ Listing(job[c].name)
  /\ Return(c)
  /\ UNCHANGED <<now, bucket, database, audit>>
=============================================================================
