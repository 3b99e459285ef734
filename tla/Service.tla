------------------------------- MODULE Service -------------------------------
(***************************************************************************)
(* The query-ingestion service of cldb/server.py around the scheduler of   *)
(* OnlineScheduler: serve() builds the pipeline, which starts the          *)
(* scheduler, and the HTTP server; one thread accepts requests, a daemon   *)
(* thread each handles one, and signals run _shutdown in the main thread.  *)
(*                                                                         *)
(* A signal may arrive while an earlier one is still being handled: Python *)
(* runs the handler again, on top of the first.  frames is that stack; the *)
(* first element is the frame that runs, and says at which statement of    *)
(* CLDBServer.stop or OnlineScheduler.stop it is.  A field that the upper  *)
(* frame has set to None makes the lower one raise, which ends the process *)
(* with all its threads, daemons every one.                                *)
(*                                                                         *)
(* Of a query only what concerns the scheduler is kept; QueryPipeline and  *)
(* DecisionPath model the rest.  Until the first signal the main program   *)
(* may also close the pipeline and start its scheduler again.              *)
(***************************************************************************)
EXTENDS OnlineScheduler, Sequences

CONSTANTS Handlers,   (* bound: requests handled at a time                  *)
          MaxBatch,   (* bound: queries of a /batch request                 *)
          MaxSignals  (* bound: signals the process gets                    *)

ASSUME ServiceAssumption == MaxBatch \in Nat \ {0} /\ MaxSignals \in Nat

VARIABLES
  main,        (* "building", "binding", "installing", "serving", "dead"    *)
  httpd,       (* is _httpd set?                                            *)
  has_thread,  (* is CLDBServer._thread set?                                *)
  open,        (* does the port listen?                                     *)
  asked,       (* has shutdown() asked serve_forever to return?             *)
  acceptor,    (* the thread of serve_forever: "none", "accepting", "over"  *)
  frames,      (* the running _shutdown handlers                            *)
  signals,     (* signals that ran _shutdown                                *)
  handler      (* each request thread: its place and the queries it has     *)
               (* still to process                                          *)

server == <<main, httpd, has_thread, open, asked, acceptor>>
serviceVars == <<vars, server, frames, signals, handler>>

-----------------------------------------------------------------------------

Free == [at |-> "free", left |-> 0]

ServiceInit ==
  /\ Init
  /\ main = "building"
  /\ httpd = FALSE /\ has_thread = FALSE /\ open = FALSE
  /\ asked = FALSE /\ acceptor = "none"
  /\ frames = <<>> /\ signals = 0
  /\ handler = [h \in Handlers |-> Free]

(* Threads are alike: OnlineScheduler.start takes any that is not alive.   *)
StartScheduler ==
  /\ \E l \in Loops : loop[l] = "none"
  /\ Start(CHOOSE l \in Loops : loop[l] = "none")

(* CLDBPipeline.__init__ starts its scheduler. *)
BuildPipeline ==
  /\ main = "building"
  /\ StartScheduler
  /\ main' = "binding"
  /\ UNCHANGED <<httpd, has_thread, open, asked, acceptor, frames, signals, handler>>

(* CLDBServer.start *)
StartServer ==
  /\ main = "binding"
  /\ httpd' = TRUE /\ open' = TRUE
  /\ has_thread' = TRUE /\ acceptor' = "accepting"
  /\ main' = "installing"
  /\ UNCHANGED <<vars, asked, frames, signals, handler>>

(* signal.signal, for both signals: the server is already listening.       *)
InstallHandlers ==
  /\ main = "installing"
  /\ main' = "serving"
  /\ UNCHANGED <<vars, httpd, has_thread, open, asked, acceptor, frames, signals, handler>>

(* An exception leaves the main thread: the process is gone. *)
Dies ==
  /\ main' = "dead"
  /\ frames' = <<>>
  /\ acceptor' = "over"
  /\ handler' = [h \in Handlers |-> Free]
  /\ loop' = [l \in Loops |-> "none"]
  /\ trainer' = [t \in Trainers |-> "none"]
  /\ is_training' = FALSE
  /\ reporting' = FALSE
  /\ unstarted' = FALSE
  /\ UNCHANGED <<queries, owner, httpd, has_thread, open, asked, signals>>

(* ThreadingHTTPServer(...) finds its port taken. *)
BindFails == main = "binding" /\ Dies

(* A signal that arrives before its handler is installed ends the process  *)
(* as it is.                                                               *)
EarlySignal == main \in {"building", "binding", "installing"} /\ Dies

-----------------------------------------------------------------------------
(* Request threads.                                                        *)

At(h, place, left) == handler' = [handler EXCEPT ![h] = [at |-> place, left |-> left]]

(* do_GET, do_POST: a list of queries, one, or none when the request asks  *)
(* for information or is refused for its path, its body or its fields.     *)
Accept(h) ==
  /\ acceptor = "accepting" /\ ~asked
  /\ handler[h].at = "free"
  /\ \E n \in 0 .. MaxBatch : At(h, "query", n)
  /\ UNCHANGED <<vars, server, frames, signals>>

(* process_query up to increment_query_count, or up to what it catches. *)
ProcessQuery(h) ==
  /\ handler[h].at = "query"
  /\ handler[h].left > 0
  /\ \/ /\ At(h, "drift", handler[h].left - 1)
        /\ \/ IncrementQueryCount
           \/ queries = MinQueries /\ UNCHANGED vars
     \/ At(h, "query", handler[h].left - 1) /\ UNCHANGED vars
  /\ UNCHANGED <<server, frames, signals>>

(* The drift detector reports a drift, or none. *)
DriftTest(h) ==
  /\ handler[h].at = "drift"
  /\ \/ At(h, IF is_training THEN "query" ELSE "starting", handler[h].left) /\ TriggerDrift
     \/ At(h, "query", handler[h].left) /\ UNCHANGED vars
  /\ UNCHANGED <<server, frames, signals>>

(* trigger_drift goes on to start the training.  When it raises, the query *)
(* is answered with the error.                                             *)
Report(h) ==
  /\ handler[h].at = "starting"
  /\ ReportEnds
  /\ At(h, "query", handler[h].left)
  /\ UNCHANGED <<server, frames, signals>>

(* The answer is sent. *)
Reply(h) ==
  /\ handler[h].at = "query"
  /\ handler[h].left = 0
  /\ At(h, "free", 0)
  /\ UNCHANGED <<vars, server, frames, signals>>

Handle(h) == ProcessQuery(h) \/ DriftTest(h) \/ Report(h) \/ Reply(h)

(* Mutant: the thread that accepts requests is never told to return. *)
AcceptorEndsNever ==
  /\ acceptor = "accepting" /\ asked /\ ~open
  /\ acceptor' = "over"
  /\ UNCHANGED <<vars, main, httpd, has_thread, open, asked, frames, signals, handler>>

(* serve_forever sees the request to return.  It waits for no handler. *)
AcceptorEnds ==
  /\ acceptor = "accepting" /\ asked
  /\ acceptor' = "over"
  /\ UNCHANGED <<vars, main, httpd, has_thread, open, asked, frames, signals, handler>>

-----------------------------------------------------------------------------
(* The main thread: _shutdown.                                             *)

Signal ==
  /\ main = "serving"
  /\ signals < MaxSignals
  /\ signals' = signals + 1
  /\ frames' = <<"httpd?">> \o frames
  /\ UNCHANGED <<vars, server, handler>>

(* The running frame is at place; it goes on to next. *)
Running(place) == frames # <<>> /\ Head(frames) = place
Proceed(next) == frames' = <<next>> \o Tail(frames)

(* if self._httpd *)
TestHttpd ==
  /\ Running("httpd?")
  /\ Proceed(IF httpd THEN "shutdown" ELSE "thread?")
  /\ UNCHANGED <<vars, server, signals, handler>>

(* self._httpd.shutdown() *)
AskAcceptor ==
  /\ Running("shutdown")
  /\ httpd
  /\ asked' = TRUE
  /\ Proceed("close")
  /\ UNCHANGED <<vars, main, httpd, has_thread, open, acceptor, signals, handler>>

(* Mutant: the field is cleared before the server is closed. *)
CloseServerClearing ==
  /\ Running("close")
  /\ acceptor = "over" /\ httpd
  /\ httpd' = FALSE
  /\ Proceed("clear")
  /\ UNCHANGED <<vars, main, has_thread, open, asked, acceptor, signals, handler>>

(* shutdown returns once serve_forever has; self._httpd.server_close() *)
CloseServer ==
  /\ Running("close")
  /\ acceptor = "over" /\ httpd
  /\ open' = FALSE
  /\ Proceed("clear")
  /\ UNCHANGED <<vars, main, httpd, has_thread, asked, acceptor, signals, handler>>

(* self._httpd = None *)
ClearHttpd ==
  /\ Running("clear")
  /\ httpd' = FALSE
  /\ Proceed("thread?")
  /\ UNCHANGED <<vars, main, has_thread, open, asked, acceptor, signals, handler>>

(* if self._thread *)
TestThread ==
  /\ Running("thread?")
  /\ Proceed(IF has_thread THEN "join" ELSE "stop")
  /\ UNCHANGED <<vars, server, signals, handler>>

(* self._thread.join(timeout=5), of a thread that has already returned *)
JoinThread ==
  /\ Running("join")
  /\ has_thread
  /\ Proceed("forget")
  /\ UNCHANGED <<vars, server, signals, handler>>

(* self._thread = None *)
ForgetThread ==
  /\ Running("forget")
  /\ has_thread' = FALSE
  /\ Proceed("stop")
  /\ UNCHANGED <<vars, main, httpd, open, asked, acceptor, signals, handler>>

(* pipeline.online_scheduler.stop() *)
StopScheduler ==
  /\ Running("stop")
  /\ Stop \/ (~is_running /\ UNCHANGED vars)
  /\ Proceed("wait")
  /\ UNCHANGED <<server, signals, handler>>

(* The join in it ends; the frame below goes on where it was interrupted. *)
HandlerReturns ==
  /\ Running("wait")
  /\ JoinReturns \/ (~stopping /\ UNCHANGED vars)
  /\ frames' = Tail(frames)
  /\ UNCHANGED <<server, signals, handler>>

(* None has no such attribute: the frame above has cleared the field that  *)
(* this one has tested.  Nothing in serve() catches that.                  *)
HandlerRaises ==
  /\ \/ Running("shutdown") /\ ~httpd
     \/ Running("close") /\ acceptor = "over" /\ ~httpd
     \/ Running("join") /\ ~has_thread
  /\ Dies

Shutdown ==
  \/ TestHttpd \/ AskAcceptor \/ CloseServer \/ ClearHttpd
  \/ TestThread \/ JoinThread \/ ForgetThread
  \/ StopScheduler \/ HandlerReturns \/ HandlerRaises

(* The main program, before any signal. *)
OwnPipeline ==
  /\ main = "serving" /\ signals = 0
  /\ Stop \/ JoinReturns \/ StartScheduler
  /\ UNCHANGED <<server, frames, signals, handler>>

-----------------------------------------------------------------------------

(* _execute_training around _execute_online_training, which logs what is   *)
(* raised: a training that failed returns like one that did not, and       *)
(* CallbackRaises never happens.                                           *)
ExecuteOnlineTraining(t) == ResetCount(t) \/ ClearFlag(t)

Background(A) == A /\ UNCHANGED <<server, frames, signals, handler>>

ServiceNext ==
  \/ BuildPipeline \/ StartServer \/ BindFails \/ InstallHandlers \/ EarlySignal
  \/ \E h \in Handlers : Accept(h) \/ Handle(h)
  \/ AcceptorEnds
  \/ Signal \/ Shutdown
  \/ OwnPipeline
  \/ \E l \in Loops : Background(Loop(l))
  \/ \E t \in Trainers : Background(ExecuteOnlineTraining(t))

ServiceSpec == ServiceInit /\ [][ServiceNext]_serviceVars

(* Threads run: a request that was accepted is handled, serve_forever      *)
(* polls, a signal handler goes on, a loop thread wakes up and a training  *)
(* returns.  Nothing has to arrive.                                        *)
FairServiceSpec ==
  /\ ServiceSpec
  /\ \A h \in Handlers : WF_serviceVars(Handle(h))
  /\ WF_serviceVars(AcceptorEnds)
  /\ WF_serviceVars(Shutdown)
  /\ \A l \in Loops : WF_serviceVars(Background(Loop(l)))
  /\ \A t \in Trainers : WF_serviceVars(Background(ExecuteOnlineTraining(t)))

-----------------------------------------------------------------------------

(* Once min_queries_before_train queries have accumulated on a scheduler   *)
(* that keeps running, training starts, although loops read the counter    *)
(* and take the flag in separate lock sections - unless the process ends.  *)
DueWorkIsTrained ==
  (queries >= MinQueries /\ is_running) ~> (is_training \/ ~is_running \/ main = "dead")

(* What the scheduler owes in the long run.                                *)
NothingHangs == TrainingEnds /\ DueWorkIsTrained /\ LoopsDieAfterStop

(* After a signal the service comes to rest for good: the port is closed,  *)
(* requests in flight are answered, and no training follows the ones they  *)
(* still caused, although server.stop waits for no handler and             *)
(* trigger_drift does not look at is_running.  The flag of a training that *)
(* failed to start stays.                                                  *)
AtRest ==
  /\ ~open /\ ~is_running
  /\ is_training => unstarted
  /\ \A h \in Handlers : handler[h].at = "free"
  /\ \A l \in Loops : loop[l] = "none"

ShutdownCompletes == signals > 0 ~> [](AtRest \/ main = "dead")

(* A second signal may make the interrupted handler raise and end the      *)
(* process, but only after the handler on top has done its whole work: the *)
(* port is closed and the scheduler stopped.                               *)
DiesStopped == main = "dead" /\ signals > 0 => ~open /\ ~httpd /\ ~is_running

=============================================================================
