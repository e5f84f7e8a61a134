--------------------------- MODULE UdpClientProofs ---------------------------
(***************************************************************************)
(* Theorems about UdpClient, for every window, gape and size of a datagram. *)
(***************************************************************************)
EXTENDS UdpClient, TLAPS

\* Which threads can run says where the application's thread is: the sender is
\* started by the worker, and both are over when the members go.
ThreadsInv ==
  /\ pc \in {"initialize", "startup", "spawn"} => worker = "none"
  /\ worker \in {"none", "main", "start"} => sender = "none"
  /\ pc \in {"destroy_traffic", "join_traffic", "destroy_members", "over"} =>
       worker \in {"none", "over"}
  /\ pc \in {"destroy_members", "over"} => sender \in {"none", "over"}
  /\ m_config = "destroyed" => pc = "over"

\* The numbers a round has sent before it reaches n.
SentBefore(n) == {i \in 0..(n - 1) : Sends(i)}

\* A round has sent what it should have up to j, and only EndRound ends it.
RoundInv ==
  /\ sender \in {"none", "connect"} => round = {}
  /\ sender = "round" => round = SentBefore(j)
  /\ sender = "sleep" => round = Numbers
  /\ sender \in {"test", "over"} => round \in {{}, Numbers}

Inv == ClientTypeOK /\ ThreadsInv /\ RoundInv

-----------------------------------------------------------------------------
\* The client starts with no thread of its own.
LEMMA InitInv == Init => Inv
<1> SUFFICES ASSUME Init PROVE Inv
  OBVIOUS
<1>1. 0 \in 0..Window /\ 0 \in 0..MaxRequests BY ClientAssumption
<1>2. ClientTypeOK BY <1>1 DEF Init, ClientTypeOK
<1>3. ThreadsInv BY DEF Init, ThreadsInv
<1>4. RoundInv BY DEF Init, RoundInv
<1> QED BY <1>2, <1>3, <1>4 DEF Inv

\* A step that leaves the sender alone keeps its round, unless it changes gape.
LEMMA RoundStays ==
  ASSUME RoundInv, UNCHANGED <<sender, round, j>>, gape' = gape \/ sender = "none"
  PROVE  RoundInv'
<1>1. CASE gape' = gape
  BY <1>1 DEF RoundInv, SentBefore, Numbers, Sends
<1>2. CASE sender = "none"
  BY <1>2 DEF RoundInv
<1> QED BY <1>1, <1>2

\* A process that crashed has lost nothing it would still use.
LEMMA CrashPreserves == ASSUME Inv, Crash, pc # "over" PROVE Inv'
<1>1. ClientTypeOK' BY DEF Inv, Crash, ClientTypeOK, settings, traffic
<1>2. ThreadsInv' BY DEF Inv, Crash, ThreadsInv, settings, traffic
<1>3. RoundInv' BY RoundStays DEF Inv, Crash, settings, traffic
<1> QED BY <1>1, <1>2, <1>3 DEF Inv

\* The steps of the application's thread that do not crash, one conjunct at a
\* time: none of them touches a round.
LEMMA MainPreserves == ASSUME Inv, MainStep PROVE Inv'
<1> USE DEF Inv, settings, traffic
<1>1. CASE Crash /\ pc # "over" BY <1>1, CrashPreserves
<1>2. CASE initialize \/ initializeThrows \/ startup \/ startupNoLogger \/ Spawn
  <2>1. ClientTypeOK'
    BY <1>2 DEF initialize, initializeThrows, startup, startupNoLogger, Spawn, ClientTypeOK
  <2>2. ThreadsInv'
    BY <1>2 DEF initialize, initializeThrows, startup, startupNoLogger, Spawn, ThreadsInv
  <2>3. UNCHANGED <<sender, round, j>> /\ (gape' = gape \/ sender = "none")
    BY <1>2 DEF initialize, initializeThrows, startup, startupNoLogger, Spawn, ThreadsInv
  <2> QED BY <2>1, <2>2, <2>3, RoundStays
<1>3. CASE ~Crash /\ (SpawnThrows \/ exit \/ Join)
  <2>1. ClientTypeOK' BY <1>3 DEF SpawnThrows, exit, Join, ClientTypeOK
  <2>2. ThreadsInv' BY <1>3 DEF SpawnThrows, exit, Join, ThreadsInv
  <2>3. UNCHANGED <<sender, round, j, gape>> BY <1>3 DEF SpawnThrows, exit, Join
  <2> QED BY <2>1, <2>2, <2>3, RoundStays
<1>4. CASE DestroyTraffic \/ JoinTraffic \/ DestroyMembers
  <2>1. ClientTypeOK' BY <1>4 DEF DestroyTraffic, JoinTraffic, DestroyMembers, ClientTypeOK
  <2>2. ThreadsInv' BY <1>4 DEF DestroyTraffic, JoinTraffic, DestroyMembers, ThreadsInv
  <2>3. UNCHANGED <<sender, round, j, gape>>
    BY <1>4 DEF DestroyTraffic, JoinTraffic, DestroyMembers
  <2> QED BY <2>1, <2>2, <2>3, RoundStays
<1>5. startupThrows \/ SpawnThrows \/ exit \/ Join => pc # "over"
  BY DEF startupThrows, SpawnThrows, exit, Join
<1>6. startupThrows => Crash BY DEF startupThrows
<1> HIDE DEF Inv
<1> QED BY <1>1, <1>2, <1>3, <1>4, <1>5, <1>6 DEF MainStep

\* m_main_thread.
LEMMA WorkerPreserves == ASSUME Inv, WorkerStep PROVE Inv'
<1> USE DEF Inv, main, settings, traffic
<1>1. pc # "over"
  BY DEF WorkerStep, CreateFolder, StartSender, WorkerThrows, WaitForStop, ThreadsInv
<1>2. CASE Crash BY <1>1, <1>2, CrashPreserves
<1>3. CASE ~Crash /\ (CreateFolder \/ WaitForStop)
  <2>1. ClientTypeOK' BY <1>3 DEF CreateFolder, WaitForStop, ClientTypeOK
  <2>2. ThreadsInv' BY <1>3 DEF CreateFolder, WaitForStop, ThreadsInv
  <2>3. UNCHANGED <<sender, round, j, gape>> BY <1>3 DEF CreateFolder, WaitForStop
  <2> QED BY <2>1, <2>2, <2>3, RoundStays
<1>4. CASE StartSender
  <2>1. ClientTypeOK' BY <1>4 DEF StartSender, ClientTypeOK
  <2>2. ThreadsInv' BY <1>4 DEF StartSender, ThreadsInv
  <2>3. RoundInv' BY <1>4 DEF StartSender, ThreadsInv, RoundInv
  <2> QED BY <2>1, <2>2, <2>3
<1>5. WorkerThrows => Crash BY DEF WorkerThrows
<1> QED BY <1>2, <1>3, <1>4, <1>5 DEF WorkerStep

\* The loop variable of a round that goes on adds its number to the ones before
\* it when the gape divides it, and nothing otherwise.
LEMMA SentNext ==
  ASSUME NEW n \in Nat
  PROVE  SentBefore(n + 1) = SentBefore(n) \cup {i \in {n} : Sends(i)}
<1>1. 0..((n + 1) - 1) = 0..(n - 1) \cup {n} OBVIOUS
<1> QED BY <1>1 DEF SentBefore

\* m_traffic_thread.
LEMMA SenderPreserves == ASSUME Inv, SenderStep PROVE Inv'
<1> USE ClientAssumption DEF Inv
<1>1. CASE SenderThrows
  BY <1>1, CrashPreserves DEF SenderThrows, ThreadsInv
<1>2. CASE ~SenderThrows
  <2> DEFINE Quiet == UNCHANGED <<main, worker, traffic_stop>>
  <2>1. Quiet /\ Alive /\ sender \notin {"none", "over"}
    BY <1>2 DEF SenderStep, SilentStep, Send, Connect, TestStop, Skip, EndRound, WakeUp
  <2>2. sender' # "none"
    BY <1>2 DEF SenderStep, SilentStep, Send, Connect, TestStop, Skip, EndRound, WakeUp
  <2>3. ThreadsInv' BY <2>1, <2>2 DEF ThreadsInv, main, settings
  <2>4. j' \in 0..Window /\ built' \in 0..MaxRequests /\ round' \subseteq 0..(Window - 1)
        /\ sender' \in {"test", "round", "sleep", "over"}
    <3> USE DEF ClientTypeOK
    <3>1. CASE Send BY <3>1 DEF Send
    <3>2. CASE Skip BY <3>2 DEF Skip
    <3>3. CASE TestStop
      <4>1. 0 \in 0..Window /\ {} \subseteq 0..(Window - 1) OBVIOUS
      <4>2. CASE sender' = "over" BY <3>3, <4>2 DEF TestStop
      <4>3. CASE j' = 0 /\ round' = {} BY <3>3, <4>1, <4>3 DEF TestStop
      <4> QED BY <3>3, <4>2, <4>3 DEF TestStop
    <3>4. CASE Connect \/ EndRound \/ WakeUp BY <3>4 DEF Connect, EndRound, WakeUp
    <3> QED BY <1>2, <3>1, <3>2, <3>3, <3>4 DEF SenderStep, SilentStep
  <2>5. ClientTypeOK' BY <2>1, <2>4 DEF ClientTypeOK, main, settings
  <2>6. gape' = gape BY <2>1 DEF main, settings
  <2>7. Numbers' = Numbers /\ \A n : SentBefore(n)' = SentBefore(n)
    BY <2>6 DEF Numbers, SentBefore, Sends
  <2>8. j \in Nat BY DEF ClientTypeOK
  <2>9. CASE Send
    <3>1. {i \in {j} : Sends(i)} = {j} BY <2>9 DEF Send
    <3>2. SentBefore(j + 1) = SentBefore(j) \cup {j} BY <3>1, <2>8, SentNext
    <3>3. round' = SentBefore(j + 1) BY <3>2, <2>9 DEF Send, RoundInv
    <3>4. j' = j + 1 /\ sender' = "round" BY <2>9 DEF Send
    <3>5. round' = SentBefore(j)' BY <3>3, <3>4, <2>6 DEF SentBefore, Sends
    <3> QED BY <3>4, <3>5, <2>3, <2>5 DEF RoundInv
  <2>10. CASE Skip
    <3>1. {i \in {j} : Sends(i)} = {} BY <2>10 DEF Skip
    <3>2. SentBefore(j + 1) = SentBefore(j) BY <3>1, <2>8, SentNext
    <3>3. round' = SentBefore(j + 1) BY <3>2, <2>10 DEF Skip, RoundInv
    <3>4. j' = j + 1 /\ sender' = "round" BY <2>10 DEF Skip
    <3>5. round' = SentBefore(j)' BY <3>3, <3>4, <2>6 DEF SentBefore, Sends
    <3> QED BY <3>4, <3>5, <2>3, <2>5 DEF RoundInv
  <2>11. CASE EndRound
    <3>1. j = Window BY <2>11 DEF EndRound, ClientTypeOK
    <3>2. SentBefore(j) = Numbers BY <3>1 DEF SentBefore, Numbers
    <3> QED BY <3>2, <2>7, <2>11, <2>3, <2>5 DEF EndRound, RoundInv
  <2>12. CASE TestStop
    <3>1. (SentBefore(j)' = {}) \/ j' # 0 BY DEF SentBefore
    <3> QED BY <3>1, <2>7, <2>12, <2>3, <2>5 DEF TestStop, RoundInv
  <2>13. CASE Connect \/ WakeUp
    BY <2>7, <2>13, <2>3, <2>5 DEF Connect, WakeUp, RoundInv
  <2> QED BY <1>2, <2>9, <2>10, <2>11, <2>12, <2>13 DEF SenderStep, SilentStep
<1> QED BY <1>1, <1>2

\* Every step keeps the invariant.
LEMMA NextPreserves == Inv /\ [Next]_vars => Inv'
<1> SUFFICES ASSUME Inv, [Next]_vars PROVE Inv'
  OBVIOUS
<1>1. CASE MainStep BY <1>1, MainPreserves
<1>2. CASE WorkerStep BY <1>2, WorkerPreserves
<1>3. CASE SenderStep BY <1>3, SenderPreserves
<1>4. CASE Terminate \/ UNCHANGED vars
  <2> USE DEF Inv, Terminate, vars, main, settings, traffic
  <2>1. ClientTypeOK' BY <1>4 DEF ClientTypeOK
  <2>2. ThreadsInv' BY <1>4 DEF ThreadsInv
  <2>3. UNCHANGED <<sender, round, j, gape>> BY <1>4
  <2> QED BY <2>1, <2>2, <2>3, RoundStays
<1> QED BY <1>1, <1>2, <1>3, <1>4 DEF Next, Silent, SenderStep

\* The invariant holds in every behaviour; fairness is not needed.
THEOREM Invariance == Spec => []Inv
BY InitInv, NextPreserves, PTL DEF Spec

-----------------------------------------------------------------------------
\* The sender never reads a configuration that is gone, although only the
\* order of the members in app.hpp makes ~app wait for it.
THEOREM SenderIsOutlived == Spec => []SenderOutlivedByMembers
<1>1. Inv => SenderOutlivedByMembers
  BY DEF Inv, ClientTypeOK, ThreadsInv, SenderOutlivedByMembers, Alive
<1> QED BY <1>1, Invariance, PTL

\* For every window and gape a stop leaves whole rounds behind.
THEOREM StopsBetweenRounds == Spec => []RoundsAreWhole
<1>1. Inv => RoundsAreWhole BY DEF Inv, RoundInv, RoundsAreWhole
<1> QED BY <1>1, Invariance, PTL
=============================================================================
