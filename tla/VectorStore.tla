---------------------------- MODULE VectorStore ----------------------------
(***************************************************************************)
(* EnhancedVectorStore of cldb/enhanced_vector_store.py with the circuit   *)
(* breaker it shares: threads store and search points, one thread deletes  *)
(* old points, another clears the collection, and health checks read the   *)
(* breaker (HealthReport models what they report).                         *)
(*                                                                         *)
(* A guarded call that fails, or that the breaker refuses, is served from  *)
(* two dictionaries, _memory_store and _memory_vectors.  No lock guards    *)
(* them: the two writes of a store, the deletions, a clear and the         *)
(* iterations of a search and of a delete interleave.  Iterating over a    *)
(* dictionary whose size has changed raises, and so does deleting a key    *)
(* that a clear removed; retry_with_backoff calls a search again, while a  *)
(* delete is over.                                                         *)
(*                                                                         *)
(* Abstractions.  A point is its number, which also orders timestamps; an  *)
(* embedding and a ranking are left out.  A call on Qdrant that fails may  *)
(* have been carried out (a timeout).  At most one delete (by the janitor) and  *)
(* one clear are under way at a time.                                      *)
(***************************************************************************)
EXTENDS CircuitBreaker, FiniteSets

CONSTANTS MaxPoints,   (* bound: points the callers store in a behaviour      *)
          MaxAttempts  (* max_attempts of retry_with_backoff                  *)

ASSUME StoreAssumption == MaxPoints \in Nat /\ MaxAttempts \in Nat \ {0}

VARIABLES
  connected,  (* _connected: set by the constructor, never again             *)
  at,         (* where each caller is in store_experience or in a search      *)
  point,      (* the point a caller stores, 0 when it searches or is idle     *)
  attempt,    (* failed attempts of a caller's search                        *)
  scanned,    (* size of _memory_vectors when a caller's scan began           *)
  remote,     (* points in the Qdrant collection                             *)
  payloads,   (* keys of _memory_store                                       *)
  vectors,    (* keys of _memory_vectors                                     *)
  janitor,    (* where the janitor is in delete_old_experiences              *)
  listed,     (* keys of _memory_store when the janitor began to list them   *)
  doomed,     (* keys the janitor has still to delete                        *)
  victim,     (* the point whose vector it deletes next, or 0                *)
  clearer,    (* where clear_collection is                                   *)
  written,    (* points created so far                                       *)
  stored,     (* history: points whose store_experience returned True         *)
  forgotten   (* history: points a delete or a clear was meant to remove      *)

memory == <<payloads, vectors>>
callers == <<at, point, attempt, scanned, written>>
deleting == <<janitor, listed, doomed, victim>>
cleaning == <<deleting, clearer, forgotten>>
storeVars == <<vars, connected, callers, remote, memory, cleaning, stored>>

Points == 1 .. MaxPoints

-----------------------------------------------------------------------------

(* _init_client: the constructor probes Qdrant once. *)
InitClient == connected \in BOOLEAN /\ (connected => up)

StoreInit ==
  /\ Init
  /\ InitClient
  /\ at = [c \in Callers |-> "idle"]
  /\ point = [c \in Callers |-> 0]
  /\ attempt = [c \in Callers |-> 0]
  /\ scanned = [c \in Callers |-> 0]
  /\ remote = {} /\ payloads = {} /\ vectors = {}
  /\ janitor = "idle" /\ listed = {} /\ doomed = {} /\ victim = 0
  /\ clearer = "idle"
  /\ written = 0
  /\ stored = {} /\ forgotten = {}

(* allow_request would return True. *)
Allowed ==
  \/ state = "CLOSED"
  \/ state = "HALF_OPEN" /\ half_open_calls < HalfOpenMaxCalls
  \/ TimedOut

(* if self._connected and self.circuit_breaker.allow_request() *)
Ask(c, fallback) ==
  \/ /\ connected
     /\ AllowRequest(c)
     /\ at' = [at EXCEPT ![c] = "guarded"]
  \/ /\ ~connected \/ ~Allowed
     /\ at' = [at EXCEPT ![c] = fallback]
     /\ UNCHANGED vars

StoreExperience(c) ==
  /\ at[c] = "idle"
  /\ written < MaxPoints
  /\ written' = written + 1
  /\ point' = [point EXCEPT ![c] = written']
  /\ Ask(c, "first")
  /\ UNCHANGED <<connected, attempt, scanned, remote, memory, cleaning, stored>>

(* A search, from its first line: called anew, or again by the retry. *)
FindSimilar(c) ==
  /\ at[c] \in {"idle", "retry"}
  /\ Ask(c, "scan")
  /\ UNCHANGED <<connected, point, attempt, scanned, written, remote, memory, cleaning,
                 stored>>

(* Qdrant carries a call out, or fails it and may have carried it out. *)
Carried(up_now, before, after) == IF up_now THEN {after} ELSE {before, after}

Reply(c) ==
  /\ at[c] = "guarded"
  /\ Answer(c)
  /\ remote' \in Carried(up, remote, remote \union ({point[c]} \ {0}))
  /\ UNCHANGED <<connected, callers, memory, cleaning, stored>>

(* record_success, and the call returns. *)
Done(c) ==
  /\ Succeed(c)
  /\ stored' = stored \union ({point[c]} \ {0})
  /\ at' = [at EXCEPT ![c] = "idle"]
  /\ point' = [point EXCEPT ![c] = 0]
  /\ attempt' = [attempt EXCEPT ![c] = 0]
  /\ UNCHANGED <<connected, scanned, written, remote, memory, cleaning>>

(* Mutant: a failed upsert is reported as stored. *)
FallBackNever(c) ==
  /\ Fail(c)
  /\ stored' = stored \union ({point[c]} \ {0})
  /\ at' = [at EXCEPT ![c] = IF point[c] = 0 THEN "scan" ELSE "idle"]
  /\ point' = [point EXCEPT ![c] = 0]
  /\ UNCHANGED <<connected, attempt, scanned, written, remote, memory, cleaning>>

(* record_failure, and the call goes on with the dictionaries. *)
FallBack(c) ==
  /\ Fail(c)
  /\ at' = [at EXCEPT ![c] = IF point[c] = 0 THEN "scan" ELSE "first"]
  /\ UNCHANGED <<connected, point, attempt, scanned, written, remote, memory, cleaning,
                 stored>>

(* Mutant: the vector is written before its payload. *)
RememberVectorFirst(c) ==
  /\ \/ /\ at[c] = "first"
        /\ vectors' = vectors \union {point[c]}
        /\ at' = [at EXCEPT ![c] = "second"]
        /\ UNCHANGED <<payloads, point, stored>>
     \/ /\ at[c] = "second"
        /\ payloads' = payloads \union {point[c]}
        /\ at' = [at EXCEPT ![c] = "idle"]
        /\ point' = [point EXCEPT ![c] = 0]
        /\ stored' = stored \union {point[c]}
        /\ UNCHANGED vectors
  /\ UNCHANGED <<vars, connected, attempt, scanned, written, remote, cleaning>>

(* The fallback of a store: the payload, then the vector. *)
Remember(c) ==
  /\ \/ /\ at[c] = "first"
        /\ payloads' = payloads \union {point[c]}
        /\ at' = [at EXCEPT ![c] = "second"]
        /\ UNCHANGED <<vectors, point, stored>>
     \/ /\ at[c] = "second"
        /\ vectors' = vectors \union {point[c]}
        /\ at' = [at EXCEPT ![c] = "idle"]
        /\ point' = [point EXCEPT ![c] = 0]
        /\ stored' = stored \union {point[c]}
        /\ UNCHANGED payloads
  /\ UNCHANGED <<vars, connected, attempt, scanned, written, remote, cleaning>>

(* _memory_search begins to iterate, unless there is nothing to rank. *)
BeginScan(c) ==
  /\ at[c] = "scan"
  /\ IF vectors = {}
     THEN /\ at' = [at EXCEPT ![c] = "idle"]
          /\ attempt' = [attempt EXCEPT ![c] = 0]
          /\ UNCHANGED scanned
     ELSE /\ at' = [at EXCEPT ![c] = "scanning"]
          /\ scanned' = [scanned EXCEPT ![c] = Cardinality(vectors)]
          /\ UNCHANGED attempt
  /\ UNCHANGED <<vars, connected, point, written, remote, memory, cleaning, stored>>

EndScan(c) ==
  /\ at[c] = "scanning"
  /\ Cardinality(vectors) = scanned[c]
  /\ at' = [at EXCEPT ![c] = "idle"]
  /\ attempt' = [attempt EXCEPT ![c] = 0]
  /\ scanned' = [scanned EXCEPT ![c] = 0]
  /\ UNCHANGED <<vars, connected, point, written, remote, memory, cleaning, stored>>

LastAttempt(c) == attempt[c] = MaxAttempts - 1

(* The dictionary changed size: the attempt raises, and after the last one *)
(* so does the search.                                                     *)
ScanRaises(c) ==
  /\ at[c] = "scanning"
  /\ Cardinality(vectors) # scanned[c]
  /\ at' = [at EXCEPT ![c] = IF LastAttempt(c) THEN "idle" ELSE "retry"]
  /\ attempt' = [attempt EXCEPT ![c] = IF LastAttempt(c) THEN 0 ELSE @ + 1]
  /\ scanned' = [scanned EXCEPT ![c] = 0]
  /\ UNCHANGED <<vars, connected, point, written, remote, memory, cleaning, stored>>

CallerStep(c) ==
  \/ StoreExperience(c)
  \/ FindSimilar(c)
  \/ Reply(c)
  \/ Done(c)
  \/ FallBack(c)
  \/ Remember(c)
  \/ BeginScan(c)
  \/ EndScan(c)
  \/ ScanRaises(c)

-----------------------------------------------------------------------------

(* delete_old_experiences: Qdrant is asked first, outside the breaker, and *)
(* its failure is only logged.                                             *)
DeleteRemote(before) ==
  LET old == 1 .. (before - 1) IN
  /\ janitor = "idle"
  /\ remote' \in (IF connected THEN Carried(up, remote, remote \ old) ELSE {remote})
  /\ janitor' = "list"
  /\ doomed' = old
  /\ forgotten' = forgotten \union old
  /\ UNCHANGED <<vars, connected, callers, memory, listed, victim, clearer, stored>>

DeleteOver == janitor' = "idle" /\ doomed' = {} /\ listed' = {} /\ victim' = 0

(* Then the old keys of _memory_store are listed: the comprehension sees   *)
(* every key that is there throughout, and raises if the size changes.     *)
BeginList ==
  /\ janitor = "list"
  /\ listed' = payloads
  /\ janitor' = "listing"
  /\ UNCHANGED <<vars, connected, callers, remote, memory, doomed, victim, clearer,
                 forgotten, stored>>

EndList ==
  /\ janitor = "listing"
  /\ Cardinality(payloads) = Cardinality(listed)
  /\ \E seen \in SUBSET (listed \union payloads) :
       /\ listed \intersect payloads \subseteq seen
       /\ doomed' = doomed \intersect seen
  /\ listed' = {}
  /\ janitor' = "payload"
  /\ UNCHANGED <<vars, connected, callers, remote, memory, victim, clearer, forgotten,
                 stored>>

ListRaises ==
  /\ janitor = "listing"
  /\ Cardinality(payloads) # Cardinality(listed)
  /\ DeleteOver
  /\ UNCHANGED <<vars, connected, callers, remote, memory, clearer, forgotten, stored>>

(* For each of them: its payload, then its vector if it has one. *)
DeletePayload(p) ==
  /\ janitor = "payload"
  /\ p \in doomed \intersect payloads
  /\ payloads' = payloads \ {p}
  /\ doomed' = doomed \ {p}
  /\ victim' = p
  /\ janitor' = "vector"
  /\ UNCHANGED <<vars, connected, callers, remote, vectors, listed, clearer, forgotten,
                 stored>>

HasVector ==
  /\ janitor = "vector"
  /\ IF victim \in vectors
     THEN janitor' = "unlink" /\ UNCHANGED victim
     ELSE janitor' = "payload" /\ victim' = 0
  /\ UNCHANGED <<vars, connected, callers, remote, memory, listed, doomed, clearer,
                 forgotten, stored>>

DeleteVector ==
  /\ janitor = "unlink"
  /\ victim \in vectors
  /\ vectors' = vectors \ {victim}
  /\ victim' = 0
  /\ janitor' = "payload"
  /\ UNCHANGED <<vars, connected, callers, remote, payloads, listed, doomed, clearer,
                 forgotten, stored>>

(* KeyError: a clear removed the key after it was listed or tested. *)
DeleteRaises ==
  /\ \/ janitor = "payload" /\ ~(doomed \subseteq payloads)
     \/ janitor = "unlink" /\ victim \notin vectors
  /\ DeleteOver
  /\ UNCHANGED <<vars, connected, callers, remote, memory, clearer, forgotten, stored>>

Deleted ==
  /\ janitor = "payload"
  /\ doomed = {}
  /\ DeleteOver
  /\ UNCHANGED <<vars, connected, callers, remote, memory, clearer, forgotten, stored>>

(* clear_collection: a failed delete on Qdrant returns False and clears    *)
(* nothing else.                                                           *)
ClearRemote ==
  /\ clearer = "idle"
  /\ IF connected
     THEN /\ remote' \in Carried(up, remote, {})
          /\ clearer' = IF up THEN "payloads" ELSE "idle"
     ELSE /\ clearer' = "payloads"
          /\ UNCHANGED remote
  /\ forgotten' = forgotten \union remote
  /\ UNCHANGED <<vars, connected, callers, memory, deleting, stored>>

ClearPayloads ==
  /\ clearer = "payloads"
  /\ payloads' = {}
  /\ forgotten' = forgotten \union payloads
  /\ clearer' = "vectors"
  /\ UNCHANGED <<vars, connected, callers, remote, vectors, deleting, stored>>

ClearVectors ==
  /\ clearer = "vectors"
  /\ vectors' = {}
  /\ forgotten' = forgotten \union vectors
  /\ clearer' = "idle"
  /\ UNCHANGED <<vars, connected, callers, remote, payloads, deleting, stored>>

CleaningStep ==
  \/ \E before \in 2 .. MaxPoints + 1 : DeleteRemote(before)
  \/ BeginList
  \/ EndList
  \/ ListRaises
  \/ \E p \in Points : DeletePayload(p)
  \/ HasVector
  \/ DeleteVector
  \/ DeleteRaises
  \/ Deleted
  \/ ClearRemote
  \/ ClearPayloads
  \/ ClearVectors

-----------------------------------------------------------------------------

Outside(A) == A /\ UNCHANGED <<connected, callers, remote, memory, cleaning, stored>>

StoreNext ==
  \/ \E c \in Callers : CallerStep(c)
  \/ CleaningStep
  \/ Outside(ReadState)
  \/ Outside(Reset)
  \/ Outside(Tick)
  \/ Outside(DependencyFlips)

StoreSpec == StoreInit /\ [][StoreNext]_storeVars

-----------------------------------------------------------------------------

(* What store_experience reported as stored, and nobody asked to remove,   *)
(* can be found: in Qdrant, or with payload and vector in the fallback -   *)
(* whatever failed, timed out or was refused on the way.                   *)
NothingStoredIsLost ==
  \A p \in stored \ forgotten : p \in remote \/ p \in payloads \intersect vectors

(* A search can hit a vector without a payload (and answer with empty      *)
(* fields) only for a point a delete or a clear was removing: the fallback *)
(* of a store never exposes half a point.                                  *)
OrphansComeFromClears == vectors \ payloads \subseteq forgotten

=============================================================================
