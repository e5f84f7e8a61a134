------------------------------ MODULE UdpClient ------------------------------
(***************************************************************************)
(* The client that feeds a traffic point (src/udp/client/app.cpp): the     *)
(* thread that runs Poco's application, m_main_thread, which starts the    *)
(* sender, and m_traffic_thread, which sends a round of numbered requests, *)
(* sleeps, and looks at its stop token before the next round.              *)
(*                                                                         *)
(* The sender's flatbuffers builder is never cleared: every datagram holds *)
(* all requests since the sender began, the newest one first, until one is *)
(* too long for UDP.                                                       *)
(***************************************************************************)
EXTENDS Integers

CONSTANTS
  Window,       \* m_config._udp_packet_window
  Gapes,        \* the values the configuration may give _udp_packets_gape
  MaxRequests   \* the requests of the longest datagram UDP carries

ASSUME ClientAssumption ==
  Window \in Nat /\ Gapes \subseteq Nat /\ MaxRequests \in Nat

VARIABLES
  pc,            \* the application's thread
  worker,        \* m_main_thread
  sender,        \* m_traffic_thread
  stop,          \* the stop token of m_main_thread
  traffic_stop,  \* the stop token of m_traffic_thread
  signalled,     \* a termination request has reached the process
  m_logger,      \* "null", "live" or "destroyed"
  m_config,      \* "live" or "destroyed"
  gape,          \* m_config._udp_packets_gape
  j,             \* the sender's loop variable
  built,         \* the requests in _builder
  round          \* history: the numbers sent since the stop token was read

settings == <<m_logger, m_config, gape>>
main    == <<pc, stop, signalled, settings>>
traffic == <<sender, traffic_stop, j, built, round>>
vars    == <<main, worker, traffic>>

\* A round skips the numbers that gape does not divide.
Sends(i) == (IF gape = 0 THEN 0 ELSE i % gape) = 0
Numbers == {i \in 0..(Window - 1) : Sends(i)}

Init ==
  /\ pc = "initialize" /\ worker = "none" /\ sender = "none"
  /\ stop = FALSE /\ traffic_stop = FALSE /\ signalled = FALSE
  /\ m_logger = "null" /\ m_config = "live" /\ gape = 0
  /\ j = 0 /\ built = 0 /\ round = {}

Alive == pc # "crashed"

\* A null pointer is used, or an exception leaves the function of a thread.
Crash ==
  /\ pc' = "crashed"
  /\ UNCHANGED <<stop, signalled, settings, worker, traffic>>

-----------------------------------------------------------------------------
(* app::initialize, app::main(args), app::startup, app::exit and ~app      *)

initialize ==
  /\ pc = "initialize"
  /\ pc' = "startup"
  /\ UNCHANGED <<stop, signalled, settings, worker, traffic>>

\* The configuration cannot be loaded: Poco logs it and run() returns.
initializeThrows ==
  /\ pc = "initialize"
  /\ pc' = "destroy_traffic"
  /\ UNCHANGED <<stop, signalled, settings, worker, traffic>>

\* startup() reads the configuration, and creates the logger last.
startup ==
  /\ pc = "startup"
  /\ gape' \in Gapes
  /\ m_logger' = "live"
  /\ pc' = "spawn"
  /\ UNCHANGED <<stop, signalled, m_config, worker, traffic>>

\* create_logger returns nullptr for a sink that is neither console nor file.
startupNoLogger ==
  /\ pc = "startup"
  /\ gape' \in Gapes
  /\ pc' = "spawn"
  /\ UNCHANGED <<stop, signalled, m_logger, m_config, worker, traffic>>

\* A number of the configuration is none: the handlers of main log through the
\* null m_logger.
startupThrows == pc = "startup" /\ Crash

Spawn ==
  /\ pc = "spawn"
  /\ worker' = "main"
  /\ pc' = "wait"
  /\ UNCHANGED <<stop, signalled, settings, traffic>>

\* The std::jthread cannot be started: logged, and main returns.
SpawnThrows ==
  /\ pc = "spawn"
  /\ IF m_logger = "null" THEN Crash
     ELSE /\ pc' = "destroy_traffic"
          /\ UNCHANGED <<stop, signalled, settings, worker, traffic>>

\* The operating system asks the process to end, at any time.
Terminate ==
  /\ ~signalled
  /\ signalled' = TRUE
  /\ UNCHANGED <<pc, stop, settings, worker, traffic>>

exit ==
  /\ pc = "wait" /\ signalled
  /\ IF m_logger = "null" THEN Crash
     ELSE /\ stop' = TRUE
          /\ pc' = "join"
          /\ UNCHANGED <<signalled, settings, worker, traffic>>

Join ==
  /\ pc = "join" /\ worker = "over"
  /\ pc' = "destroy_traffic"
  /\ UNCHANGED <<stop, signalled, settings, worker, traffic>>

\* m_traffic_thread is destroyed before the members declared above it: its
\* destructor requests the stop ...
DestroyTraffic ==
  /\ pc = "destroy_traffic"
  /\ traffic_stop' = TRUE
  /\ pc' = "join_traffic"
  /\ UNCHANGED <<stop, signalled, settings, worker, sender, j, built, round>>

\* A mutant of JoinTraffic: the thread is detached.
JoinTraffic_Detached ==
  /\ pc = "join_traffic"
  /\ pc' = "destroy_members"
  /\ UNCHANGED <<stop, signalled, settings, worker, traffic>>

\* A mutant of JoinTraffic: a thread that was never started is waited for too.
JoinTraffic_NeverStarted ==
  /\ pc = "join_traffic" /\ sender = "over"
  /\ pc' = "destroy_members"
  /\ UNCHANGED <<stop, signalled, settings, worker, traffic>>

\* ... and waits for the sender, if there is one.
JoinTraffic ==
  /\ pc = "join_traffic" /\ sender \in {"none", "over"}
  /\ pc' = "destroy_members"
  /\ UNCHANGED <<stop, signalled, settings, worker, traffic>>

DestroyMembers ==
  /\ pc = "destroy_members"
  /\ m_logger' = "destroyed" /\ m_config' = "destroyed"
  /\ pc' = "over"
  /\ UNCHANGED <<stop, signalled, gape, worker, traffic>>

-----------------------------------------------------------------------------
(* m_main_thread: app::main()                                              *)

\* The first thing it does is to log.
CreateFolder ==
  /\ Alive /\ worker = "main"
  /\ IF m_logger = "null" THEN Crash
     ELSE worker' = "start" /\ UNCHANGED <<main, traffic>>

StartSender ==
  /\ Alive /\ worker = "start"
  /\ sender' = "connect"
  /\ worker' = "wait"
  /\ UNCHANGED <<main, traffic_stop, j, built, round>>

\* create_directories fails, or the thread cannot be started.
WorkerThrows == Alive /\ worker \in {"main", "start"} /\ Crash

WaitForStop ==
  /\ Alive /\ worker = "wait" /\ stop
  /\ worker' = "over"
  /\ UNCHANGED <<main, traffic>>

-----------------------------------------------------------------------------
(* m_traffic_thread                                                        *)

Connect ==
  /\ Alive /\ sender = "connect"
  /\ sender' = "test"
  /\ UNCHANGED <<main, worker, traffic_stop, j, built, round>>

\* A mutant of TestStop: the loop variable is not reset.
TestStop_KeepsJ ==
  /\ Alive /\ sender = "test"
  /\ sender' = IF traffic_stop THEN "over" ELSE "round"
  /\ UNCHANGED <<main, worker, traffic_stop, j, built, round>>

TestStop ==
  /\ Alive /\ sender = "test"
  /\ \/ /\ traffic_stop
        /\ sender' = "over"
        /\ UNCHANGED <<j, round>>
     \/ /\ ~traffic_stop
        /\ sender' = "round"
        /\ j' = 0 /\ round' = {}
  /\ UNCHANGED <<main, worker, traffic_stop, built>>

\* A mutant of Send: one number too many.
Send_PastWindow ==
  /\ Alive /\ sender = "round"
  /\ j <= Window /\ Sends(j)
  /\ built < MaxRequests
  /\ built' = built + 1
  /\ round' = round \cup {j}
  /\ j' = j + 1
  /\ UNCHANGED <<main, worker, sender, traffic_stop>>

Send ==
  /\ Alive /\ sender = "round"
  /\ j < Window /\ Sends(j)
  /\ built < MaxRequests
  /\ built' = built + 1
  /\ round' = round \cup {j}
  /\ j' = j + 1
  /\ UNCHANGED <<main, worker, sender, traffic_stop>>

Skip ==
  /\ Alive /\ sender = "round"
  /\ j < Window /\ ~Sends(j)
  /\ j' = j + 1
  /\ UNCHANGED <<main, worker, sender, traffic_stop, built, round>>

\* The address is not resolved, nobody listens there, or, after MaxRequests
\* datagrams at the latest, the message is too long.
SenderThrows ==
  /\ Alive
  /\ \/ sender = "connect"
     \/ sender = "round" /\ j < Window /\ Sends(j)
  /\ Crash

\* A mutant of EndRound: a stop also ends the round.
EndRound_OnStop ==
  /\ Alive /\ sender = "round"
  /\ j >= Window \/ traffic_stop
  /\ sender' = "sleep"
  /\ UNCHANGED <<main, worker, traffic_stop, j, built, round>>

EndRound ==
  /\ Alive /\ sender = "round" /\ j >= Window
  /\ sender' = "sleep"
  /\ UNCHANGED <<main, worker, traffic_stop, j, built, round>>

\* The sleep lasts its seconds whether a stop is requested or not.
WakeUp ==
  /\ Alive /\ sender = "sleep"
  /\ sender' = "test"
  /\ UNCHANGED <<main, worker, traffic_stop, j, built, round>>

-----------------------------------------------------------------------------
MainStep == \/ initialize \/ initializeThrows
            \/ startup \/ startupNoLogger \/ startupThrows \/ Spawn \/ SpawnThrows
            \/ exit \/ Join \/ DestroyTraffic \/ JoinTraffic \/ DestroyMembers
WorkerStep == CreateFolder \/ StartSender \/ WorkerThrows \/ WaitForStop
SilentStep == Connect \/ TestStop \/ Skip \/ SenderThrows \/ EndRound \/ WakeUp
SenderStep == Send \/ SilentStep

\* The steps that put nothing on the wire.
Silent == MainStep \/ WorkerStep \/ SilentStep \/ Terminate

Next == Send \/ Silent

\* All three threads are scheduled; nobody has to ask the process to end.
Fairness == WF_vars(MainStep) /\ WF_vars(WorkerStep) /\ WF_vars(SenderStep)

Spec == Init /\ [][Next]_vars /\ Fairness

-----------------------------------------------------------------------------
(* Properties.                                                             *)

ClientTypeOK ==
  /\ pc \in {"initialize", "startup", "spawn", "wait", "join", "destroy_traffic",
             "join_traffic", "destroy_members", "over", "crashed"}
  /\ worker \in {"none", "main", "start", "wait", "over"}
  /\ sender \in {"none", "connect", "test", "round", "sleep", "over"}
  /\ stop \in BOOLEAN /\ traffic_stop \in BOOLEAN /\ signalled \in BOOLEAN
  /\ m_logger \in {"null", "live", "destroyed"} /\ m_config \in {"live", "destroyed"}
  /\ gape \in Gapes \cup {0} /\ j \in 0..Window /\ built \in 0..MaxRequests
  /\ round \subseteq 0..(Window - 1)

\* The sender reads m_config through the captured this for as long as it runs:
\* although exit() never mentions it, no member goes before it has ended, also
\* when the stop reaches m_main_thread before the sender was started.
SenderOutlivedByMembers ==
  sender \notin {"none", "over"} /\ Alive => m_config = "live"

\* A stop never cuts a round short, which the detector would count as a loss:
\* what was sent when the sender sleeps or has ended are whole rounds.
RoundsAreWhole ==
  /\ sender = "sleep" => round = Numbers
  /\ sender = "over" => round \in {{}, Numbers}

\* A termination request ends the client wherever its three threads are: none
\* of the waits of exit() and ~app is for a thread that was never started or
\* cannot end.
ClientTerminates == signalled ~> pc \in {"over", "crashed"}

\* The builder is never cleared, so a client nobody stops does not send for
\* ever: sooner or later a datagram is too long, and the exception ends the
\* process.
UnstoppedClientFails == Window > 0 => <>(signalled \/ pc \in {"over", "crashed"})
=============================================================================
