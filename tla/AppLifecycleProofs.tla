------------------------- MODULE AppLifecycleProofs --------------------------
(***************************************************************************)
(* Theorems about AppLifecycle, for any number of HTTP threads.            *)
(***************************************************************************)
EXTENDS AppLifecycle, TLAPS

\* Where the worker is says what exists, until ~app begins.
SetUpInv ==
  /\ pc \in {"initialize", "startup", "spawn"} => worker = "none"
  /\ Destroying => worker \in {"none", "over"}
  /\ ~Destroying => member["m_traffic_detectors"] = "live"
  /\ ~Destroying => member["m_logger"] # "destroyed"
  /\ ~Destroying /\ worker \notin {"none", "create_folder"} =>
       member["m_logger"] = "live"
  /\ ~Destroying /\ worker \in {"create_http", "handle", "start", "wait", "over"} =>
       member["m_primes_detector"] = "live"
  /\ ~Destroying /\ worker \in {"handle", "start", "wait", "over"} =>
       member["m_http_server"] = "live"
  /\ worker \in {"start", "wait", "over"} => routes

\* There are requests only after the last step of the set-up.
ServingInv ==
  /\ serving => worker \in {"wait", "over"}
  /\ \A t \in HttpThreads : request[t] # "none" => worker \in {"wait", "over"}

Inv == TypeOK /\ SetUpInv /\ ServingInv

-----------------------------------------------------------------------------
\* The service starts with everything but the map null.
LEMMA InitInv == Init => Inv
BY DEF Init, Inv, TypeOK, SetUpInv, ServingInv, Members, Needs, Destroying

\* The steps of the application's thread until it waits for the request to
\* terminate.
LEMMA BeginPreserves ==
  ASSUME Inv,
         \/ initialize \/ initializeThrows \/ startup \/ startupNoLogger
         \/ startupThrows \/ Spawn \/ SpawnThrows
  PROVE  Inv'
<1> USE DEF Inv, TypeOK, SetUpInv, ServingInv, Members, Needs, Destroying, service
<1>1. CASE initialize BY <1>1 DEF initialize
<1>2. CASE initializeThrows BY <1>2 DEF initializeThrows
<1>3. CASE startup BY <1>3 DEF startup, Set
<1>4. CASE startupNoLogger BY <1>4 DEF startupNoLogger
<1>5. CASE startupThrows BY <1>5 DEF startupThrows, Crash
<1>6. CASE Spawn BY <1>6 DEF Spawn
<1>7. CASE SpawnThrows BY <1>7 DEF SpawnThrows, Crash
<1> QED BY <1>1, <1>2, <1>3, <1>4, <1>5, <1>6, <1>7

\* exit(), and the destructors in their order.
LEMMA EndPreserves ==
  ASSUME Inv,
         \/ exit \/ Join
         \/ DestroyPrimes \/ DestroyDetectors \/ DestroyHttp \/ DestroyLogger
  PROVE  Inv'
<1> USE DEF Inv, TypeOK, SetUpInv, ServingInv, Members, Needs, Destroying, service
<1>1. CASE exit BY <1>1 DEF exit, Crash
<1>2. CASE Join BY <1>2 DEF Join
<1>3. CASE DestroyPrimes BY <1>3 DEF DestroyPrimes, Set
<1>4. CASE DestroyDetectors BY <1>4 DEF DestroyDetectors, Set
<1>5. CASE DestroyHttp BY <1>5 DEF DestroyHttp, Set
<1>6. CASE DestroyLogger BY <1>6 DEF DestroyLogger, Set
<1> QED BY <1>1, <1>2, <1>3, <1>4, <1>5, <1>6

\* m_main_thread.
LEMMA WorkerPreserves ==
  ASSUME Inv, WorkerStep
  PROVE  Inv'
<1> USE DEF Inv, TypeOK, SetUpInv, ServingInv, Members, Needs, Destroying, service, Alive
<1>1. CASE CreateFolder BY <1>1 DEF CreateFolder, NoLogger, Crash
<1>2. CASE CreatePrimes BY <1>2 DEF CreatePrimes, Set
<1>3. CASE CreateHttp BY <1>3 DEF CreateHttp, Set
<1>4. CASE Handle BY <1>4 DEF Handle
<1>5. CASE StartHttp BY <1>5 DEF StartHttp
<1>6. CASE WorkerThrows BY <1>6 DEF WorkerThrows, Crash
<1>7. CASE WaitForStop BY <1>7 DEF WaitForStop
<1> QED BY <1>1, <1>2, <1>3, <1>4, <1>5, <1>6, <1>7 DEF WorkerStep

\* Requests, and the environment.
LEMMA RequestPreserves ==
  ASSUME Inv, NEW t \in HttpThreads, Finish(t) \/ \E m \in Needs : Accept(t, m)
  PROVE  Inv'
<1> USE DEF Inv, TypeOK, SetUpInv, ServingInv, Members, Needs, Destroying, service
<1>1. CASE Finish(t) BY <1>1 DEF Finish
<1>2. CASE \E m \in Needs : Accept(t, m) BY <1>2 DEF Accept
<1> QED BY <1>1, <1>2

\* Every step keeps the invariant.
LEMMA NextPreserves == Inv /\ [Next]_vars => Inv'
<1> SUFFICES ASSUME Inv, [Next]_vars PROVE Inv'
  OBVIOUS
<1>1. CASE MainStep BY <1>1, BeginPreserves, EndPreserves DEF MainStep
<1>2. CASE WorkerStep BY <1>2, WorkerPreserves
<1>3. CASE Terminate
  BY <1>3 DEF Terminate, Inv, TypeOK, SetUpInv, ServingInv, Destroying, service
<1>4. CASE Ended \/ UNCHANGED vars
  BY <1>4 DEF Ended, vars, Inv, TypeOK, SetUpInv, ServingInv, Destroying, service
<1>5. CASE \E t \in HttpThreads : Finish(t) \/ \E m \in Needs : Accept(t, m)
  BY <1>5, RequestPreserves
<1> QED BY <1>1, <1>2, <1>3, <1>4, <1>5 DEF Next

\* The invariant holds in every behaviour; fairness is not needed.
THEOREM Invariance == Spec => []Inv
BY InitInv, NextPreserves, PTL DEF Spec

-----------------------------------------------------------------------------
\* The members, threads and requests keep their types, and a server accepts
\* requests only while it is live.
THEOREM TypeCorrect == Spec => []TypeOK
<1>1. Inv => TypeOK BY DEF Inv
<1> QED BY <1>1, Invariance, PTL

\* Until ~app begins every request finds its route, the logger and the member
\* it needs, whenever the termination request comes.
THEOREM ServiceIsThere == Spec => []RequestsFindTheService
<1>1. Inv => RequestsFindTheService
  BY DEF Inv, TypeOK, SetUpInv, ServingInv, RequestsFindTheService, Needs
<1> QED BY <1>1, Invariance, PTL

\* What ~app destroys is not created again: the set-up is over by then.
THEOREM SetUpBeforeDestruction == Spec => NothingIsCreatedAfterwards
<1> DEFINE OnlyDestroyed ==
      Destroying => \A m \in Members : member'[m] # member[m] => member'[m] = "destroyed"
<1>1. Inv /\ [Next]_vars => [OnlyDestroyed]_vars
  <2> SUFFICES ASSUME Inv, Next, Destroying,
                      NEW m \in Members, member'[m] # member[m]
               PROVE  member'[m] = "destroyed"
    BY DEF Destroying
  <2>1. worker \in {"none", "over"} BY DEF Inv, SetUpInv
  <2>2. CASE MainStep
    BY <2>2 DEF MainStep, initialize, initializeThrows, startup, startupNoLogger,
       startupThrows, Spawn, SpawnThrows, exit, Join, DestroyPrimes, DestroyDetectors,
       DestroyHttp, DestroyLogger, Set, Crash, Destroying, Inv, TypeOK, Members
  <2>3. CASE WorkerStep
    BY <2>1, <2>3 DEF WorkerStep, CreateFolder, CreatePrimes, CreateHttp, Handle, StartHttp,
       WorkerThrows, WaitForStop
  <2>4. CASE Terminate \/ Ended BY <2>4 DEF Terminate, Ended, vars
  <2>5. CASE \E t \in HttpThreads : Finish(t) \/ \E n \in Needs : Accept(t, n)
    BY <2>5 DEF Finish, Accept
  <2> QED BY <2>2, <2>3, <2>4, <2>5 DEF Next
<1> QED BY <1>1, Invariance, PTL DEF Spec, NothingIsCreatedAfterwards
=============================================================================
