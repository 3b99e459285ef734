---------------------------- MODULE HealthReport ----------------------------
(***************************************************************************)
(* Health reports (HealthChecker of cldb/health.py) about a system one of  *)
(* whose parts is behind a circuit breaker.  The checks of a report run    *)
(* one after another, while callers, the breaker and the parts move on;    *)
(* the last one reads the breakers, which may move them.  Two servers      *)
(* answer /ready from a report, and differ about "degraded".               *)
(*                                                                         *)
(* A part that is configured works or fails; the vector store works when   *)
(* Qdrant answers its probe, which the breaker does not see.               *)
(***************************************************************************)
EXTENDS CircuitBreaker

CONSTANT Configurations  (* bound: what the checker may be given            *)

Parts == {"database", "vector_store", "ml_model", "embeddings"}

ASSUME ConfigurationAssumption == Configurations \subseteq SUBSET Parts

VARIABLES
  configured,       (* the parts that the checker is given                  *)
  store_connected,  (* _connected of the vector store                       *)
  failing,          (* parts that raise when they are checked               *)
  checking,         (* the check that comes next in a report, or "idle"     *)
  worst,            (* the worst status it has seen                         *)
  report            (* the status of the last report                        *)

checker == <<configured, store_connected, failing>>
reportVars == <<vars, checker, checking, worst, report>>

(* HealthChecker(), as HealthServer makes one when it is given none, or    *)
(* one with all parts, as serve makes it.                                  *)
ReportInit ==
  /\ Init
  /\ configured \in Configurations
  /\ store_connected \in BOOLEAN /\ (store_connected => up)
  /\ failing = {}
  /\ checking = "idle"
  /\ worst = "healthy"
  /\ report = None

-----------------------------------------------------------------------------

(* get_system_health: any part that is unhealthy, else any degraded one. *)
Worse(s1, s2) ==
  IF "unhealthy" \in {s1, s2} THEN "unhealthy"
  ELSE IF "degraded" \in {s1, s2} THEN "degraded" ELSE "healthy"

(* What a check says of a part: one that is not configured is degraded. *)
Assessed(part, status) == IF part \in configured THEN status ELSE "degraded"

Works(part) == IF part \in failing THEN "unhealthy" ELSE "healthy"

(* VectorStore.health_check: it probes Qdrant, whatever the breaker says,  *)
(* unless it has never been connected.                                     *)
StoreHealthCheck ==
  IF ~store_connected THEN "degraded" ELSE IF up THEN "healthy" ELSE "unhealthy"

BreakerHealth(s) ==
  CASE s = "CLOSED" -> "healthy"
    [] s = "HALF_OPEN" -> "degraded"
    [] s = "OPEN" -> "unhealthy"

Check(part, status, next) ==
  /\ checking = part
  /\ worst' = Worse(worst, Assessed(part, status))
  /\ checking' = next
  /\ UNCHANGED <<vars, checker, report>>

BeginReport ==
  /\ checking = "idle"
  /\ checking' = "database"
  /\ worst' = "healthy"
  /\ UNCHANGED <<vars, checker, report>>

CheckDatabase == Check("database", Works("database"), "vector_store")
CheckVectorStore == Check("vector_store", StoreHealthCheck, "ml_model")
CheckModel == Check("ml_model", "healthy", "embeddings")
CheckEmbeddings == Check("embeddings", Works("embeddings"), "breakers")

(* The breakers come last, and the report is made. *)
CheckCircuitBreakers ==
  /\ checking = "breakers"
  /\ ReadState \/ (~TimedOut /\ UNCHANGED vars)
  /\ report' = Worse(worst, BreakerHealth(state'))
  /\ worst' = "healthy"
  /\ checking' = "idle"
  /\ UNCHANGED checker

GetSystemHealth ==
  \/ BeginReport
  \/ CheckDatabase \/ CheckVectorStore \/ CheckModel \/ CheckEmbeddings
  \/ CheckCircuitBreakers

PartFlips ==
  /\ \E part \in {"database", "embeddings"} \intersect configured :
       failing' = IF part \in failing THEN failing \ {part} ELSE failing \union {part}
  /\ UNCHANGED <<vars, configured, store_connected, checking, worst, report>>

(* /ready of the query server, and of HealthServer. *)
ServerReady == report \in {"healthy", "degraded"}
HealthServerReady == report = "healthy"

ReportNext ==
  \/ Next /\ UNCHANGED <<checker, checking, worst, report>>
  \/ GetSystemHealth
  \/ PartFlips

ReportSpec == ReportInit /\ [][ReportNext]_reportVars

(* Threads do not stop inside a guarded call and keep calling while they   *)
(* are let through, time passes, and somebody polls (README.md:76,         *)
(* docker-compose.yml:87).  Nobody has to reset.                           *)
FairReportSpec ==
  /\ ReportSpec
  /\ WF_vars(Tick)
  /\ \A c \in Callers : WF_vars(Call(c))
  /\ WF_reportVars(GetSystemHealth)

-----------------------------------------------------------------------------

(* Type invariant. *)
ReportTypeOK ==
  /\ TypeOK
  /\ configured \in Configurations
  /\ store_connected \in BOOLEAN
  /\ failing \subseteq {"database", "embeddings"}
  /\ checking \in Parts \union {"idle", "breakers"}
  /\ worst \in {"healthy", "degraded", "unhealthy"}
  /\ report \in {"healthy", "degraded", "unhealthy", None}

(* If the dependency stays up, the breaker ends up closed for good, and so *)
(* does a system whose other parts work end up READY at both servers:      *)
(* failures still in flight, open periods, half-open probes and reports    *)
(* that straddle them cannot keep it cut off.                              *)
RecoversWhenHealthy ==
  /\ <>[]up => <>[](state = "CLOSED")
  /\ store_connected /\ configured = Parts /\ <>[](up /\ failing = {})
       => <>[](ServerReady /\ HealthServerReady)

(* If the dependency stays down and nobody resets, the breaker opens again *)
(* and again: callers cannot keep it closed or half-open by retrying.      *)
TripsWhenDown ==
  <>[](~up) /\ <>[][~Reset]_vars => []<>(state = "OPEN")

(* A part that stays broken is reported for good, by both servers, however *)
(* the breaker moves meanwhile.                                            *)
TroubleIsReported ==
  /\ store_connected /\ "vector_store" \in configured /\ <>[](~up)
       => <>[](~ServerReady /\ ~HealthServerReady)
  /\ \A part \in {"database", "embeddings"} :
       part \in configured /\ <>[](part \in failing)
         => <>[](~ServerReady /\ ~HealthServerReady)

(* All of it: breaker and readiness follow a system that has settled.      *)
FollowsTheDependency == RecoversWhenHealthy /\ TripsWhenDown /\ TroubleIsReported
=============================================================================
