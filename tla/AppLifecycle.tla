---------------------------- MODULE AppLifecycle -----------------------------
(***************************************************************************)
(* From main() to the end of ~app (src/app/app.cpp): the thread that runs  *)
(* Poco's application, the std::jthread m_main_thread that sets the        *)
(* service up, and the HTTP threads that use the members of app while it   *)
(* is being built, is stopped and is destroyed.                            *)
(*                                                                         *)
(* A member is "null" before it is created, then "live", then "destroyed". *)
(* What a request does to the members is left to the other modules; here   *)
(* it only matters which member it needs and when.                         *)
(***************************************************************************)
EXTENDS Integers

CONSTANTS
  HttpThreads   \* threads of the HTTP server

VARIABLES
  pc,        \* the application's thread
  worker,    \* m_main_thread
  stop,      \* its stop token
  signalled, \* a termination request has reached the process
  member,    \* the members of app
  routes,    \* the callbacks are registered with m_http_server
  serving,   \* the HTTP server accepts requests
  request    \* per HTTP thread: the member its request needs, or "none"

vars == <<pc, worker, stop, signalled, member, routes, serving, request>>

Members == {"m_logger", "m_http_server", "m_traffic_detectors", "m_primes_detector"}
Needs   == {"m_traffic_detectors", "m_primes_detector"}

\* The map is a member by value: it is live as soon as app is.
Init ==
  /\ pc = "initialize"
  /\ worker = "none"
  /\ stop = FALSE
  /\ signalled = FALSE
  /\ member = [m \in Members |-> IF m = "m_traffic_detectors" THEN "live" ELSE "null"]
  /\ routes = FALSE
  /\ serving = FALSE
  /\ request = [t \in HttpThreads |-> "none"]

Alive == pc # "crashed"

Set(m, s) == member' = [member EXCEPT ![m] = s]

service == <<routes, serving, request>>

\* A null pointer is used, or an exception leaves the function of a thread.
Crash ==
  /\ pc' = "crashed"
  /\ UNCHANGED <<worker, stop, signalled, member, service>>

\* What a step that logs first finds when there is no logger.
NoLogger == member["m_logger"] = "null"

-----------------------------------------------------------------------------
(* app::initialize, app::main(args), app::startup and app::exit            *)

initialize ==
  /\ pc = "initialize"
  /\ pc' = "startup"
  /\ UNCHANGED <<worker, stop, signalled, member, service>>

\* The configuration cannot be loaded: Poco logs it and run() returns.
initializeThrows ==
  /\ pc = "initialize"
  /\ pc' = "destroy_primes"
  /\ UNCHANGED <<worker, stop, signalled, member, service>>

\* startup() reads the configuration and creates the logger last.
startup ==
  /\ pc = "startup"
  /\ Set("m_logger", "live")
  /\ pc' = "spawn"
  /\ UNCHANGED <<worker, stop, signalled, service>>

\* A value of the configuration is no number, or the logger cannot be made:
\* the catch clauses of main log through the null m_logger.
startupThrows == pc = "startup" /\ Crash

\* create_logger returns nullptr for a sink that is neither console nor file.
startupNoLogger ==
  /\ pc = "startup"
  /\ pc' = "spawn"
  /\ UNCHANGED <<worker, stop, signalled, member, service>>

Spawn ==
  /\ pc = "spawn"
  /\ worker' = "create_folder"
  /\ pc' = "wait_for_termination"
  /\ UNCHANGED <<stop, signalled, member, service>>

\* The std::jthread cannot be started: logged, and main returns.
SpawnThrows ==
  /\ pc = "spawn"
  /\ IF NoLogger THEN Crash
     ELSE /\ pc' = "destroy_primes"
          /\ UNCHANGED <<worker, stop, signalled, member, service>>

\* The operating system asks the process to end, at any time.
Terminate ==
  /\ ~signalled
  /\ signalled' = TRUE
  /\ UNCHANGED <<pc, worker, stop, member, service>>

\* A mutant of exit: join without a stop request.
exit_NoStop ==
  /\ pc = "wait_for_termination"
  /\ signalled
  /\ IF NoLogger THEN Crash
     ELSE /\ pc' = "join"
          /\ UNCHANGED <<worker, stop, signalled, member, service>>

\* waitForTerminationRequest, and the stop is passed on.
exit ==
  /\ pc = "wait_for_termination"
  /\ signalled
  /\ IF NoLogger THEN Crash
     ELSE /\ stop' = TRUE
          /\ pc' = "join"
          /\ UNCHANGED <<worker, signalled, member, service>>

\* A mutant of Join: the thread is detached.
Join_Detached ==
  /\ pc = "join"
  /\ pc' = "destroy_primes"
  /\ UNCHANGED <<worker, stop, signalled, member, service>>

Join ==
  /\ pc = "join"
  /\ worker = "over"
  /\ pc' = "destroy_primes"
  /\ UNCHANGED <<worker, stop, signalled, member, service>>

-----------------------------------------------------------------------------
(* m_main_thread: app::main()                                              *)

\* The thread logs first.
CreateFolder ==
  /\ Alive /\ worker = "create_folder"
  /\ IF NoLogger THEN Crash
     ELSE /\ worker' = "create_primes"
          /\ UNCHANGED <<pc, stop, signalled, member, service>>

\* A mutant of CreatePrimes: the server is set up first.
CreatePrimes_Later ==
  /\ Alive /\ worker = "create_primes"
  /\ worker' = "create_http"
  /\ UNCHANGED <<pc, stop, signalled, member, service>>

CreatePrimes ==
  /\ Alive /\ worker = "create_primes"
  /\ Set("m_primes_detector", "live")
  /\ worker' = "create_http"
  /\ UNCHANGED <<pc, stop, signalled, service>>

CreateHttp ==
  /\ Alive /\ worker = "create_http"
  /\ Set("m_http_server", "live")
  /\ worker' = "handle"
  /\ UNCHANGED <<pc, stop, signalled, service>>

\* The four calls of m_http_server->handle; nobody else sees the dispatcher.
Handle ==
  /\ Alive /\ worker = "handle"
  /\ routes' = TRUE
  /\ worker' = "start"
  /\ UNCHANGED <<pc, stop, signalled, member, serving, request>>

StartHttp ==
  /\ Alive /\ worker = "start"
  /\ serving' = TRUE
  /\ worker' = "wait"
  /\ UNCHANGED <<pc, stop, signalled, member, routes, request>>

\* create_directories, an allocation, or the bind in start() fails.  The
\* exception leaves the function of a thread: std::terminate.
WorkerThrows ==
  /\ Alive /\ worker \in {"create_folder", "create_primes", "start"}
  /\ Crash

\* condition_variable_any::wait with the stop token, also when the stop was
\* requested before the wait began.
WaitForStop ==
  /\ Alive /\ worker = "wait"
  /\ stop
  /\ worker' = "over"
  /\ UNCHANGED <<pc, stop, signalled, member, service>>

-----------------------------------------------------------------------------
(* ~app: the members in the reverse order of their declaration.            *)

DestroyPrimes ==
  /\ pc = "destroy_primes"
  /\ Set("m_primes_detector", "destroyed")
  /\ pc' = "destroy_detectors"
  /\ UNCHANGED <<worker, stop, signalled, service>>

\* The UDP servers go with the map; their handlers come out of the callback
\* unless a removal is stuck (TrafficPoints!DestroyDeadlock).
DestroyDetectors ==
  /\ pc = "destroy_detectors"
  /\ Set("m_traffic_detectors", "destroyed")
  /\ pc' = "destroy_http"
  /\ UNCHANGED <<worker, stop, signalled, service>>

\* A mutant of DestroyHttp: the server goes on accepting requests.
DestroyHttp_KeepsServing ==
  /\ pc = "destroy_http"
  /\ Set("m_http_server", "destroyed")
  /\ pc' = "destroy_logger"
  /\ UNCHANGED <<worker, stop, signalled, service>>

\* server::~server calls stopAll: no new request is taken, those in progress
\* go on.
DestroyHttp ==
  /\ pc = "destroy_http"
  /\ serving' = FALSE
  /\ Set("m_http_server", "destroyed")
  /\ pc' = "destroy_logger"
  /\ UNCHANGED <<worker, stop, signalled, routes, request>>

DestroyLogger ==
  /\ pc = "destroy_logger"
  /\ Set("m_logger", "destroyed")
  /\ pc' = "over"
  /\ UNCHANGED <<worker, stop, signalled, service>>

-----------------------------------------------------------------------------
(* A request: accepted by the HTTP server, dispatched to a callback, over. *)

Accept(t, m) ==
  /\ Alive /\ serving
  /\ request[t] = "none"
  /\ request' = [request EXCEPT ![t] = m]
  /\ UNCHANGED <<pc, worker, stop, signalled, member, routes, serving>>

Finish(t) ==
  /\ Alive
  /\ request[t] # "none"
  /\ request' = [request EXCEPT ![t] = "none"]
  /\ UNCHANGED <<pc, worker, stop, signalled, member, routes, serving>>

-----------------------------------------------------------------------------
MainStep == \/ initialize \/ initializeThrows
            \/ startup \/ startupNoLogger \/ startupThrows
            \/ Spawn \/ SpawnThrows \/ exit \/ Join
            \/ DestroyPrimes \/ DestroyDetectors \/ DestroyHttp \/ DestroyLogger
WorkerStep == \/ CreateFolder \/ CreatePrimes \/ CreateHttp \/ Handle \/ StartHttp
              \/ WorkerThrows \/ WaitForStop

Ended == pc \in {"over", "crashed"} /\ UNCHANGED vars

Next ==
  \/ MainStep \/ WorkerStep \/ Terminate \/ Ended
  \/ \E t \in HttpThreads : Finish(t) \/ \E m \in Needs : Accept(t, m)

\* Both threads are scheduled; nobody has to ask the process to end.
Spec ==
  /\ Init /\ [][Next]_vars
  /\ WF_vars(MainStep) /\ WF_vars(WorkerStep)

-----------------------------------------------------------------------------
(* Properties.                                                             *)

\* The variables have their types, and only a live server accepts requests.
TypeOK ==
  /\ pc \in {"initialize", "startup", "spawn", "wait_for_termination", "join",
             "destroy_primes", "destroy_detectors", "destroy_http",
             "destroy_logger", "over", "crashed"}
  /\ worker \in {"none", "create_folder", "create_primes", "create_http",
                 "handle", "start", "wait", "over"}
  /\ stop \in BOOLEAN /\ signalled \in BOOLEAN
  /\ member \in [Members -> {"null", "live", "destroyed"}]
  /\ routes \in BOOLEAN /\ serving \in BOOLEAN
  /\ serving => member["m_http_server"] = "live"
  /\ request \in [HttpThreads -> Needs \cup {"none"}]

Destroying == pc \in {"destroy_primes", "destroy_detectors", "destroy_http",
                      "destroy_logger", "over"}

\* A request finds its route, the logger and the member it needs from the
\* first request that is accepted until ~app begins, also when the stop is
\* requested while the service is still being set up.
RequestsFindTheService ==
  \A t \in HttpThreads : request[t] # "none" /\ ~Destroying =>
    /\ routes
    /\ member["m_logger"] = "live"
    /\ member["m_http_server"] = "live"
    /\ member[request[t]] = "live"

\* The set-up and the destruction of the members never overlap: what is being
\* destroyed is not created afterwards, whenever the stop was requested.
NothingIsCreatedAfterwards ==
  [][Destroying => \A m \in Members : member'[m] # member[m] => member'[m] = "destroyed"]_vars

\* A termination request ends the process, at whatever point of the set-up it
\* arrives: the stop token keeps it until m_main_thread waits.
TerminationIsHeard == signalled ~> pc \in {"over", "crashed"}
=============================================================================
