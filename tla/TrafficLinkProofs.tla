-------------------------- MODULE TrafficLinkProofs --------------------------
(***************************************************************************)
(* Theorems about TrafficLink, for every window, gape and network.  A      *)
(* behaviour of the link is one of the client and one of the detector, so  *)
(* what UdpClientProofs and LossesDetectorProofs show of these holds here. *)
(***************************************************************************)
EXTENDS TrafficLink, UdpClientProofs, FiniteSetTheorems

D == INSTANCE LossesDetectorProofs WITH Serials <- 0..(Window - 1)

linkVars == <<client, net, repeats, service>>

-----------------------------------------------------------------------------
(* The two parts.                                                          *)

\* What the detector assumes holds for the numbers of the client.
LEMMA SerialsAreIntegers == 0..(Window - 1) \subseteq Int
  BY ClientAssumption

\* Whatever the network does, the client does what UdpClient says.
THEOREM LinkIsClient == LinkSpec => Spec
<1>1. LinkInit => Init
  BY DEF LinkInit
<1>2. [LinkNext]_linkVars => [Next]_vars
  <2> SUFFICES ASSUME [LinkNext]_linkVars PROVE [Next]_vars
    OBVIOUS
  <2>1. CASE SendDatagram
    BY <2>1 DEF SendDatagram, Next
  <2>2. CASE ClientStep
    BY <2>2 DEF ClientStep, Next
  <2>3. CASE ServiceStep \/ UNCHANGED linkVars
    BY <2>3, Zenon DEF ServiceStep, linkVars, client
  <2>4. ASSUME NEW d \in net, Lose(d) \/ Deliver(d) PROVE UNCHANGED vars
    BY <2>4, Zenon DEF Lose, Deliver, client
  <2>5. QED BY <2>1, <2>2, <2>3, <2>4, Zenon DEF LinkNext
<1>3. QED BY <1>1, <1>2, PTL DEF LinkSpec, Spec, linkVars

LEMMA OneCardinality ==
  ASSUME NEW S
  PROVE  Detector!Cardinality(S) = Cardinality(S) /\ D!Cardinality(S) = Cardinality(S)
<1>1. Detector!Cardinality(S) = D!Cardinality(S)
  BY DEF Detector!Cardinality, D!Cardinality
<1>2. D!Cardinality(S) = Cardinality(S)
  BY DEF Cardinality, D!Cardinality
<1>3. QED BY <1>1, <1>2

LEMMA InitIsDetectors == LinkInit => D!Init
  BY Zenon DEF LinkInit, Detector!Init, Detector!Epoch, Detector!NoCall,
               D!Init, D!Epoch, D!NoCall

LEMMA ReceiveIsDetectors ==
  ASSUME NEW sn, Detector!Receive(sn)
  PROVE  D!Receive(sn)
  BY Zenon DEF Detector!Receive, Detector!Epoch, Detector!NoCall,
               D!Receive, D!Epoch, D!NoCall

LEMMA FileIsDetectors == Detector!Tick \/ Detector!File => D!Tick \/ D!File
<1>1. Detector!Tick => D!Tick
  BY Zenon DEF Detector!Tick, D!Tick
<1>2. Detector!File => D!File
  BY Zenon DEF Detector!File, Detector!NoCall, Detector!Periods, Detector!NewPeriod,
     Detector!Holding, Detector!AddPacket, Detector!Empty, Detector!Unknown,
     D!File, D!NoCall, D!Periods, D!NewPeriod, D!Holding, D!AddPacket, D!Empty, D!Unknown
<1>3. QED BY <1>1, <1>2

LEMMA OneOperators ==
  /\ \A T : Detector!Min(T) = D!Min(T)
  /\ \A f : Detector!Range(f) = D!Range(f)
  /\ Detector!Periods = D!Periods
  /\ \A n : Detector!LastPeriods(n) = D!LastPeriods(n)
  /\ \A ks : Detector!Sum(ks) = D!Sum(ks)
  /\ \A c, v : Detector!AddLoss(c, v) = D!AddLoss(c, v)
  /\ \A k : Detector!Calculating(k) = D!Calculating(k)
  /\ \A k, cells : Detector!Intersection(k, cells) = D!Intersection(k, cells)
  /\ \A cells : Detector!RacedSortings(cells) = D!RacedSortings(cells)
  /\ \A cells : Detector!Sortings(cells) = D!Sortings(cells)
<1>1. \A T : Detector!Min(T) = D!Min(T)
  BY Zenon DEF Detector!Min, D!Min
<1>2. \A f : Detector!Range(f) = D!Range(f)
  BY Zenon DEF Detector!Range, D!Range
<1>3. Detector!Periods = D!Periods
  BY Zenon DEF Detector!Periods, D!Periods
<1>4. \A S : Detector!Cardinality(S) = D!Cardinality(S)
  BY OneCardinality
<1>5. ASSUME NEW n PROVE Detector!LastPeriods(n) = D!LastPeriods(n)
  BY <1>3, <1>4 DEF Detector!LastPeriods, D!LastPeriods
<1>6. ASSUME NEW ks PROVE Detector!Sum(ks) = D!Sum(ks)
  BY <1>4 DEF Detector!Sum, D!Sum
<1>7. ASSUME NEW c, NEW v PROVE Detector!AddLoss(c, v) = D!AddLoss(c, v)
  BY <1>1 DEF Detector!AddLoss, D!AddLoss
<1>8. ASSUME NEW k PROVE Detector!Calculating(k) = D!Calculating(k)
  BY <1>1 DEF Detector!Calculating, D!Calculating
<1>9. ASSUME NEW k, NEW cells
      PROVE  Detector!Intersection(k, cells) = D!Intersection(k, cells)
  BY <1>2, <1>4 DEF Detector!Intersection, D!Intersection, Detector!Expected, D!Expected
<1>10. ASSUME NEW cells PROVE Detector!RacedSortings(cells) = D!RacedSortings(cells)
  BY <1>2 DEF Detector!RacedSortings, D!RacedSortings
<1>11. ASSUME NEW cells PROVE Detector!Sortings(cells) = D!Sortings(cells)
  BY <1>2, <1>4 DEF Detector!Sortings, D!Sortings
<1>12. QED BY <1>1, <1>2, <1>3, <1>5, <1>6, <1>7, <1>8, <1>9, <1>10, <1>11, Zenon

LEMMA QueriesAreDetectors ==
  ASSUME NEW r \in Readers
  PROVE  /\ Detector!GetCurrentLoss(r) => D!GetCurrentLoss(r)
         /\ Detector!GetAverageLoss(r) => D!GetAverageLoss(r)
         /\ Detector!GetLoss(r) => D!GetLoss(r)
         /\ Detector!CalcLoss(r) => D!CalcLoss(r)
         /\ Detector!EndSum(r) => D!EndSum(r)
         /\ Detector!Return(r) => D!Return(r)
<1>0. \A S : Detector!Cardinality(S) = D!Cardinality(S)
  BY OneCardinality
<1>1. Detector!GetCurrentLoss(r) => D!GetCurrentLoss(r)
  BY <1>0, OneOperators DEF Detector!GetCurrentLoss, Detector!NoCall, Detector!Result,
     D!GetCurrentLoss, D!NoCall, D!Result
<1>2. Detector!GetAverageLoss(r) => D!GetAverageLoss(r)
  BY <1>0, OneOperators DEF Detector!GetAverageLoss, Detector!NoCall,
     D!GetAverageLoss, D!NoCall
<1>3. Detector!GetLoss(r) => D!GetLoss(r)
  BY OneOperators DEF Detector!GetLoss, Detector!Unknown, D!GetLoss, D!Unknown
<1>4. ASSUME Detector!CalcLoss(r) PROVE D!CalcLoss(r)
  <2> DEFINE m == Detector!Min(reader[r].todo)
             k == D!Min(reader[r].todo)
             old(l) == m_packets[l].m_current
  <2>1. PICK n \in IF reader[r].raced THEN 0..Detector!Intersection(m, old(m))
                   ELSE {Detector!Intersection(m, old(m))},
             cells \in IF reader[r].raced THEN Detector!RacedSortings(old(m))
                       ELSE Detector!Sortings(old(m)) :
          /\ m_packets' = [m_packets EXCEPT
               ![m].m_current = cells, ![m].m_losses = PacketsByPeriod - n]
          /\ reader' = [reader EXCEPT
               ![r] = Detector!AddLoss(reader[r], PacketsByPeriod - n)]
    BY <1>4, Zenon DEF Detector!CalcLoss
  <2>2. m = k
    BY OneOperators
  <2> HIDE DEF m, k
  <2>3. Detector!Intersection(m, old(m)) = D!Intersection(k, old(k))
    BY <2>2, OneOperators
  <2>4. /\ Detector!RacedSortings(old(m)) = D!RacedSortings(old(k))
        /\ Detector!Sortings(old(m)) = D!Sortings(old(k))
    BY <2>2, OneOperators
  <2>5. Detector!AddLoss(reader[r], PacketsByPeriod - n) = D!AddLoss(reader[r], PacketsByPeriod - n)
    BY OneOperators, Zenon
  <2>6. n \in IF reader[r].raced THEN 0..D!Intersection(k, old(k))
              ELSE {D!Intersection(k, old(k))}
    BY <2>1, <2>3
  <2>7. cells \in IF reader[r].raced THEN D!RacedSortings(old(k)) ELSE D!Sortings(old(k))
    BY <2>1, <2>4
  <2>8. m_packets' = [m_packets EXCEPT
          ![k].m_current = cells, ![k].m_losses = PacketsByPeriod - n]
    BY <2>1, <2>2
  <2>9. reader' = [reader EXCEPT ![r] = D!AddLoss(reader[r], PacketsByPeriod - n)]
    BY <2>1, <2>5
  <2>10. /\ ~overrun /\ reader[r].at = "calc"
         /\ UNCHANGED <<now, m_last_point, m_last_period, feeder, overrun, delivered>>
    BY <1>4 DEF Detector!CalcLoss
  <2>11. QED BY <2>6, <2>7, <2>8, <2>9, <2>10, Zenon DEF D!CalcLoss, k
<1>5. Detector!EndSum(r) => D!EndSum(r)
  BY SMT DEF Detector!EndSum, Detector!Result, Detector!Percentage, Detector!NotANumber,
     D!EndSum, D!Result, D!Percentage, D!NotANumber
<1>6. Detector!Return(r) => D!Return(r)
  BY Zenon DEF Detector!Return, Detector!NoCall, D!Return, D!NoCall
<1>7. QED BY <1>1, <1>2, <1>3, <1>4, <1>5, <1>6

-----------------------------------------------------------------------------
(* What the client has sent.                                               *)

LEMMA BelowFinite ==
  ASSUME Inv, NEW i
  PROVE  /\ IsFiniteSet({l \in Numbers : l < i})
         /\ Cardinality({l \in Numbers : l < i}) \in Nat
         /\ built \in Nat
<1>1. 0 \in Int /\ Window - 1 \in Int
  BY ClientAssumption
<1>2. IsFiniteSet(0..(Window - 1))
  BY <1>1, FS_Interval, Zenon
<1>3. {l \in Numbers : l < i} \subseteq 0..(Window - 1)
  BY DEF Numbers
<1>4. IsFiniteSet({l \in Numbers : l < i})
  BY <1>2, <1>3, FS_Subset, Zenon
<1>5. built \in Nat
  BY ClientAssumption DEF Inv, ClientTypeOK
<1>6. QED BY <1>4, <1>5, FS_CardinalityType, Zenon

\* What is sent stays sent, since gape is read before the first packet.
LEMMA SentGrows ==
  ASSUME Inv, Inv', built <= built', gape' = gape \/ built = 0
  PROVE  Sent \subseteq Sent'
<1> SUFFICES ASSUME NEW i \in Sent PROVE i \in Sent'
  OBVIOUS
<1> DEFINE n == Cardinality({l \in Numbers : l < i})
<1>1. n \in Nat /\ built \in Nat /\ built' \in Nat
  BY BelowFinite DEF Inv, ClientTypeOK
<1>2. i \in Numbers /\ n < built
  BY DEF Sent
<1>3. gape' = gape
  BY <1>1, <1>2
<1>4. Numbers' = Numbers
  BY <1>3 DEF Numbers, Sends
<1>5. n < built'
  BY <1>1, <1>2
<1>6. QED BY <1>2, <1>4, <1>5 DEF Sent

\* A step of the client that puts nothing on the wire.
LEMMA SilentKeeps ==
  ASSUME Inv, SentInv, [Silent]_vars
  PROVE  /\ built' = built /\ (gape' = gape \/ built = 0)
         /\ Cardinality(round') <= built
         /\ sender' \in {"none", "connect"} => built = 0
<1> USE DEF SentInv
<1>0. built \in Nat /\ Cardinality({}) = 0
  BY FS_EmptySet, ClientAssumption DEF Inv, ClientTypeOK
<1>1. CASE MainStep
  <2>1. UNCHANGED <<sender, j, built, round>>
    BY <1>1 DEF MainStep, initialize, initializeThrows, startup, startupNoLogger,
       startupThrows, Spawn, SpawnThrows, exit, Join, DestroyTraffic, JoinTraffic,
       DestroyMembers, Crash, traffic
  <2>2. gape' = gape \/ pc = "startup"
    BY <1>1 DEF MainStep, initialize, initializeThrows, startup, startupNoLogger,
       startupThrows, Spawn, SpawnThrows, exit, Join, DestroyTraffic, JoinTraffic,
       DestroyMembers, Crash, settings
  <2>3. pc = "startup" => built = 0
    BY DEF Inv, ThreadsInv
  <2>4. QED BY <2>1, <2>2, <2>3
<1>2. CASE WorkerStep
  <2>1. UNCHANGED <<built, round, gape>>
    BY <1>2 DEF WorkerStep, CreateFolder, StartSender, WorkerThrows, WaitForStop, Crash,
       main, settings, traffic
  <2>2. sender' = sender \/ worker = "start"
    BY <1>2 DEF WorkerStep, CreateFolder, StartSender, WorkerThrows, WaitForStop, Crash,
       traffic
  <2>3. worker = "start" => built = 0
    BY DEF Inv, ThreadsInv
  <2>4. QED BY <2>1, <2>2, <2>3
<1>3. CASE SilentStep
  <2>1. UNCHANGED <<built, gape>>
    BY <1>3 DEF SilentStep, Connect, TestStop, Skip, SenderThrows, EndRound, WakeUp, Crash,
       main, settings, traffic
  <2>2. round' = round \/ round' = {}
    BY <1>3 DEF SilentStep, Connect, TestStop, Skip, SenderThrows, EndRound, WakeUp, Crash,
       traffic
  <2>3. sender' = sender \/ sender' \notin {"none", "connect"}
    BY <1>3 DEF SilentStep, Connect, TestStop, Skip, SenderThrows, EndRound, WakeUp, Crash,
       traffic
  <2>4. QED BY <1>0, <2>1, <2>2, <2>3
<1>4. CASE Terminate \/ UNCHANGED vars
  BY <1>4 DEF Terminate, vars, main, settings, traffic
<1>5. QED BY <1>1, <1>2, <1>3, <1>4 DEF Silent

\* The number that Send puts on the wire is counted by built from then on.
LEMMA SendCounts ==
  ASSUME Inv, Inv', SentInv, Send
  PROVE  /\ j \in Sent' /\ built' = built + 1 /\ built' \in 1..built'
         /\ gape' = gape /\ sender' = "round"
         /\ Cardinality(round') <= built'
<1>1. /\ built' = built + 1 /\ gape' = gape /\ sender' = "round" /\ sender = "round"
      /\ j < Window /\ Sends(j) /\ round' = round \cup {j}
  BY DEF Send, main, settings
<1>2. j \in Nat /\ built \in Nat /\ Window \in Nat
  BY ClientAssumption DEF Inv, ClientTypeOK
<1>3. j \in Numbers
  BY <1>1, <1>2 DEF Numbers
<1>4. round = {l \in Numbers : l < j}
  <2>1. round = SentBefore(j)
    BY <1>1 DEF Inv, RoundInv
  <2>2. \A i : i \in 0..(j - 1) <=> i \in 0..(Window - 1) /\ i < j
    BY <1>1, <1>2
  <2>3. QED BY <2>1, <2>2 DEF SentBefore, Numbers
<1>5. Cardinality(round) < built'
  <2>1. Cardinality(round) <= built /\ Cardinality(round) \in Nat
    BY <1>4, BelowFinite DEF SentInv
  <2>2. QED BY <1>1, <1>2, <2>1
<1>6. Numbers' = Numbers
  BY <1>1 DEF Numbers, Sends
<1>7. j \in Sent'
  BY <1>3, <1>4, <1>5, <1>6 DEF Sent
<1>8. IsFiniteSet(round) /\ Cardinality(round) \in Nat
  BY <1>4, BelowFinite
<1>9. Cardinality(round') \in {Cardinality(round), Cardinality(round) + 1}
  BY <1>1, <1>8, FS_AddElement
<1>10. Cardinality(round') \in Nat /\ Cardinality(round') <= Cardinality(round) + 1
  BY <1>8, <1>9
<1>11. QED BY <1>1, <1>2, <1>5, <1>7, <1>8, <1>10 DEF SentInv

\* The steps of the service file what waits for the lock, or leave it alone.
LEMMA ServiceFiles ==
  ASSUME ServiceStep
  PROVE  \/ UNCHANGED <<feeder, delivered>>
         \/ /\ feeder # Detector!NoCall
            /\ feeder' = Detector!NoCall
            /\ delivered' = [delivered EXCEPT ![m_last_period] = @ \cup {feeder.sn}]
<1>1. CASE Detector!Tick
  BY <1>1 DEF Detector!Tick
<1>2. CASE Detector!File
  BY <1>2, Zenon DEF Detector!File
<1>3. ASSUME NEW r \in Readers,
             \/ Detector!GetCurrentLoss(r) \/ Detector!GetAverageLoss(r)
             \/ Detector!GetLoss(r) \/ Detector!CalcLoss(r)
             \/ Detector!EndSum(r) \/ Detector!Return(r)
      PROVE  UNCHANGED <<feeder, delivered>>
  BY <1>3, Zenon DEF Detector!GetCurrentLoss, Detector!GetAverageLoss, Detector!GetLoss,
     Detector!CalcLoss, Detector!EndSum, Detector!Return
<1>4. QED BY <1>1, <1>2, <1>3, Zenon DEF ServiceStep

\* What SentInv says of the service, carried over to a larger set.
LEMMA ServiceKeeps ==
  ASSUME SentInv, NEW S, Sent \subseteq S
  PROVE  /\ \A d \in net : d.serial \in S
         /\ feeder # Detector!NoCall => feeder.sn \in S
         /\ \A k \in 0..MaxPeriod : delivered[k] \subseteq S
  BY Zenon DEF SentInv

LEMMA SentStep == Inv /\ Inv' /\ SentInv /\ [LinkNext]_linkVars => SentInv'
<1> SUFFICES ASSUME Inv, Inv', SentInv, [LinkNext]_linkVars PROVE SentInv'
  OBVIOUS
<1>0. built \in Nat
  BY ClientAssumption DEF Inv, ClientTypeOK
<1>1. CASE SendDatagram
  <2>1. /\ j \in Sent' /\ built' = built + 1 /\ built' \in 1..built' /\ gape' = gape
        /\ sender' = "round" /\ Cardinality(round') <= built'
    BY <1>1, SendCounts DEF SendDatagram
  <2>2. Sent \subseteq Sent'
    BY <1>0, <2>1, SentGrows
  <2>3. UNCHANGED <<feeder, delivered>>
    BY <1>1 DEF SendDatagram, service
  <2>4. \A d \in net' : d.serial \in Sent' /\ d.requests \in 1..built'
    <3>1. net' = net \cup {Datagram(j, built')}
      BY <1>1 DEF SendDatagram
    <3>2. \A d \in net : d.requests \in 1..built'
      BY <1>0, <2>1 DEF SentInv
    <3>3. Datagram(j, built').serial = j /\ Datagram(j, built').requests = built'
      BY DEF Datagram
    <3>4. QED BY <2>1, <2>2, <3>1, <3>2, <3>3, ServiceKeeps
  <2>5. QED BY <2>1, <2>2, <2>3, <2>4, ServiceKeeps DEF SentInv
<1>2. CASE ClientStep
  <2>1. /\ built' = built /\ (gape' = gape \/ built = 0)
        /\ Cardinality(round') <= built /\ (sender' \in {"none", "connect"} => built = 0)
    BY <1>2, SilentKeeps DEF ClientStep
  <2>2. Sent \subseteq Sent'
    BY <1>0, <2>1, SentGrows
  <2>3. UNCHANGED <<net, feeder, delivered>>
    BY <1>2 DEF ClientStep, service
  <2>4. QED BY <2>1, <2>2, <2>3, ServiceKeeps DEF SentInv
<1>3. CASE UNCHANGED client
  <2>1. UNCHANGED <<built, gape, sender, round>>
    BY <1>3 DEF client, vars, main, settings, traffic
  <2>2. Sent' = Sent
    BY <2>1 DEF Sent, Numbers, Sends
  <2>3. CASE ServiceStep
    <3>1. net' = net
      BY <2>3 DEF ServiceStep
    <3>2. CASE UNCHANGED <<feeder, delivered>>
      BY <2>1, <2>2, <3>1, <3>2 DEF SentInv
    <3>3. CASE /\ feeder # Detector!NoCall
               /\ feeder' = Detector!NoCall
               /\ delivered' = [delivered EXCEPT ![m_last_period] = @ \cup {feeder.sn}]
      <4>1. feeder.sn \in Sent
        BY <3>3 DEF SentInv
      <4>2. DOMAIN delivered' = DOMAIN delivered
        BY <3>3
      <4>3. \A k \in 0..MaxPeriod : delivered'[k] \subseteq Sent
        BY <3>3, <4>1 DEF SentInv
      <4>4. QED BY <2>1, <2>2, <3>1, <3>3, <4>2, <4>3 DEF SentInv
    <3>4. QED BY <2>3, <3>2, <3>3, ServiceFiles
  <2>4. ASSUME NEW d \in net, Lose(d) PROVE SentInv'
    <3>1. net' \subseteq net /\ UNCHANGED <<feeder, delivered>>
      BY <2>4 DEF Lose, service
    <3>2. QED BY <2>1, <2>2, <3>1 DEF SentInv
  <2>5. ASSUME NEW d \in net, Deliver(d) PROVE SentInv'
    <3>1. net' \subseteq net /\ delivered' = delivered /\ feeder'.sn = d.serial
      BY <2>5 DEF Deliver, Detector!Receive
    <3>2. d.serial \in Sent
      BY DEF SentInv
    <3>3. QED BY <2>1, <2>2, <3>1, <3>2 DEF SentInv
  <2>6. CASE UNCHANGED linkVars
    <3>1. UNCHANGED <<net, feeder, delivered>>
      BY <2>6 DEF linkVars, service
    <3>2. QED BY <2>1, <2>2, <3>1 DEF SentInv
  <2>7. QED BY <1>1, <1>2, <2>3, <2>4, <2>5, <2>6, Zenon DEF LinkNext
<1>4. SendDatagram \/ ClientStep \/ UNCHANGED client
  <2>1. CASE ServiceStep \/ UNCHANGED linkVars
    BY <2>1, Zenon DEF ServiceStep, linkVars
  <2>2. ASSUME NEW d \in net, Lose(d) \/ Deliver(d) PROVE UNCHANGED client
    BY <2>2, Zenon DEF Lose, Deliver
  <2>3. QED BY <2>1, <2>2, Zenon DEF LinkNext
<1>5. QED BY <1>1, <1>2, <1>3, <1>4

LEMMA SentInit == LinkInit => SentInv
<1> SUFFICES ASSUME LinkInit PROVE SentInv
  OBVIOUS
<1>1. Cardinality({}) = 0
  BY FS_EmptySet
<1>2. built = 0 /\ round = {} /\ net = {} /\ feeder = Detector!NoCall
  BY DEF LinkInit, Init, Detector!Init
<1>3. delivered = [k \in 0..MaxPeriod |-> {}]
  BY DEF LinkInit, Detector!Init
<1>4. QED BY <1>1, <1>2, <1>3 DEF SentInv

LEMMA SentInvariance == LinkSpec => []Inv /\ []SentInv
<1>1. LinkSpec => []Inv
  BY LinkIsClient, Invariance, PTL
<1>2. QED BY <1>1, SentInit, SentStep, PTL DEF LinkSpec, linkVars

\* Whatever the client and the network do, the detector does what
\* LossesDetector says of one that is fed with the numbers of a window.
THEOREM LinkIsDetector == LinkSpec => D!Spec
<1>1. Inv /\ SentInv /\ [LinkNext]_linkVars => [D!Next]_(D!vars)
  <2> SUFFICES ASSUME SentInv, [LinkNext]_linkVars PROVE D!Next \/ UNCHANGED D!vars
    OBVIOUS
  <2>1. CASE SendDatagram \/ ClientStep \/ UNCHANGED linkVars
    BY <2>1, Zenon DEF SendDatagram, ClientStep, linkVars, service, D!vars
  <2>2. CASE ServiceStep
    <3>1. CASE Detector!Tick \/ Detector!File
      BY <3>1, FileIsDetectors, Zenon DEF D!Next
    <3>2. ASSUME NEW r \in Readers,
                 \/ Detector!GetCurrentLoss(r) \/ Detector!GetAverageLoss(r)
                 \/ Detector!GetLoss(r) \/ Detector!CalcLoss(r)
                 \/ Detector!EndSum(r) \/ Detector!Return(r)
          PROVE  D!Next
      BY <3>2, QueriesAreDetectors, Zenon DEF D!Next
    <3>3. QED BY <2>2, <3>1, <3>2, Zenon DEF ServiceStep
  <2>3. ASSUME NEW d \in net, Lose(d) PROVE UNCHANGED D!vars
    BY <2>3, Zenon DEF Lose, service, D!vars
  <2>4. ASSUME NEW d \in net, Deliver(d) PROVE D!Next
    <3>1. d.serial \in 0..(Window - 1)
      BY DEF SentInv, Sent, Numbers
    <3>2. D!Receive(d.serial)
      BY <2>4, ReceiveIsDetectors, Zenon DEF Deliver
    <3>3. QED BY <3>1, <3>2, Zenon DEF D!Next
  <2>5. QED BY <2>1, <2>2, <2>3, <2>4, Zenon DEF LinkNext
<1>2. QED BY <1>1, InitIsDetectors, SentInvariance, PTL DEF LinkSpec, D!Spec, linkVars

-----------------------------------------------------------------------------
(* The packets of a period, counted.                                       *)

\* A step of the service counts no packet, counts the one that waited for the
\* lock, or finds a full period.
LEMMA ServiceCounts ==
  ASSUME D!LossesInv, ServiceStep
  PROVE  \/ /\ UNCHANGED <<feeder, overrun>> /\ DOMAIN m_packets' = DOMAIN m_packets
            /\ \A k \in DOMAIN m_packets :
                 m_packets'[k].m_last_packet = m_packets[k].m_last_packet
         \/ /\ feeder # Detector!NoCall /\ feeder' = Detector!NoCall /\ overrun' = overrun
            /\ \A k \in DOMAIN m_packets' :
                 \/ m_packets'[k].m_last_packet = 1
                 \/ /\ k \in DOMAIN m_packets
                    /\ m_packets'[k].m_last_packet \in
                         {m_packets[k].m_last_packet, m_packets[k].m_last_packet + 1}
         \/ /\ feeder # Detector!NoCall /\ UNCHANGED <<feeder, m_packets>>
            /\ \E k \in DOMAIN m_packets : m_packets[k].m_last_packet >= PacketsByPeriod
<1>0. m_packets \in [D!Periods -> D!PeriodSet] /\ D!Periods = DOMAIN m_packets
  BY Zenon DEF D!LossesInv, D!StateInv, D!Periods
<1>1. CASE D!Tick
  BY <1>1 DEF D!Tick
<1>2. CASE D!File
  <2> DEFINE k == m_last_period
             period == IF k \in D!Periods THEN m_packets[k] ELSE D!NewPeriod
  <2>1. feeder # Detector!NoCall
    BY <1>2 DEF D!File, D!NoCall, Detector!NoCall
  <2>2. D!NewPeriod.m_last_packet = 0 /\ D!NewPeriod \in D!PeriodSet
    BY LinkAssumption DEF D!NewPeriod, D!PeriodSet, D!Empty, D!Unknown
  <2>3. period \in D!PeriodSet
    BY <1>0, <2>2
  <2>4. CASE /\ m_packets' = [l \in D!Periods \cup {k} |->
                   IF l = k THEN D!AddPacket(period, feeder.sn) ELSE m_packets[l]]
             /\ feeder' = D!NoCall /\ UNCHANGED overrun
    <3>1. D!AddPacket(period, feeder.sn).m_last_packet = period.m_last_packet + 1
      BY <2>3 DEF D!AddPacket, D!PeriodSet
    <3>2. \A l \in D!Periods \ {k} : m_packets'[l] = m_packets[l]
      BY <2>4
    <3>3. m_packets'[k].m_last_packet = period.m_last_packet + 1
      BY <2>4, <3>1
    <3>4. DOMAIN m_packets' = D!Periods \cup {k}
      BY <2>4
    <3>5. k \notin D!Periods => m_packets'[k].m_last_packet = 1
      BY <2>2, <3>3
    <3>6. k \in D!Periods => m_packets'[k].m_last_packet = m_packets[k].m_last_packet + 1
      BY <3>3
    <3>7. ASSUME NEW l \in DOMAIN m_packets'
          PROVE  \/ m_packets'[l].m_last_packet = 1
                 \/ /\ l \in DOMAIN m_packets
                    /\ m_packets'[l].m_last_packet \in
                         {m_packets[l].m_last_packet, m_packets[l].m_last_packet + 1}
      BY <1>0, <3>2, <3>4, <3>5, <3>6
    <3>8. feeder' = Detector!NoCall
      BY <2>4 DEF D!NoCall, Detector!NoCall
    <3>9. QED BY <2>1, <2>4, <3>7, <3>8
  <2>5. CASE period.m_last_packet >= PacketsByPeriod /\ UNCHANGED <<m_packets, feeder>>
    <3>1. k \in D!Periods
      BY <2>2, <2>5, LinkAssumption
    <3>2. QED BY <1>0, <2>1, <2>5, <3>1
  <2>6. QED BY <1>2, <2>4, <2>5, Zenon DEF D!File
<1>3. ASSUME NEW r \in Readers,
             \/ D!GetCurrentLoss(r) \/ D!GetAverageLoss(r) \/ D!GetLoss(r)
             \/ D!EndSum(r) \/ D!Return(r)
      PROVE  UNCHANGED <<feeder, overrun, m_packets>>
  BY <1>3, Zenon DEF D!GetCurrentLoss, D!GetAverageLoss, D!GetLoss, D!EndSum, D!Return
<1>4. ASSUME NEW r \in Readers, D!CalcLoss(r)
      PROVE  /\ UNCHANGED <<feeder, overrun>> /\ DOMAIN m_packets' = DOMAIN m_packets
             /\ \A k \in DOMAIN m_packets :
                  m_packets'[k].m_last_packet = m_packets[k].m_last_packet
  <2>1. UNCHANGED <<feeder, overrun>>
    BY <1>4, Zenon DEF D!CalcLoss
  <2>2. \E k, cells, l : m_packets' = [m_packets EXCEPT ![k].m_current = cells, ![k].m_losses = l]
    BY <1>4, Zenon DEF D!CalcLoss
  <2>3. QED BY <1>0, <2>1, <2>2 DEF D!PeriodSet
<1>5. \/ D!Tick \/ D!File
      \/ \E r \in Readers : \/ D!GetCurrentLoss(r) \/ D!GetAverageLoss(r) \/ D!GetLoss(r)
                            \/ D!EndSum(r) \/ D!Return(r) \/ D!CalcLoss(r)
  BY FileIsDetectors, QueriesAreDetectors, Zenon DEF ServiceStep
<1>6. QED BY <1>1, <1>2, <1>3, <1>4, <1>5

LEMMA LargerSum ==
  ASSUME NEW a \in Nat, NEW b \in Nat, NEW c \in Nat, NEW d \in Nat, NEW n \in Nat,
         a + b <= c + d
  PROVE  a + b > n => c + d > n
  OBVIOUS

\* A step that leaves the periods alone keeps the count when what is on its way
\* grows by no more than what was sent or repeated.
LEMMA CountKeeps ==
  ASSUME D!LossesInv, CountInv, built \in Nat, built' \in Nat, repeats' \in Nat,
         IsFiniteSet(net'), UNCHANGED <<m_packets, overrun>>,
         built + repeats <= built' + repeats',
         Waiting' + Cardinality(net') + (built + repeats)
           <= Waiting + Cardinality(net) + (built' + repeats')
  PROVE  CountInv'
<1>1. /\ repeats \in Nat /\ Waiting \in Nat /\ Waiting' \in Nat
      /\ Cardinality(net) \in Nat /\ Cardinality(net') \in Nat
  <2>1. IsFiniteSet(net) /\ repeats \in Nat
    BY DEF CountInv
  <2>2. Waiting \in Nat /\ Waiting' \in Nat
    BY DEF Waiting
  <2>3. QED BY <2>1, <2>2, FS_CardinalityType
<1>2. Waiting' + Cardinality(net') <= built' + repeats'
  <2>1. Waiting + Cardinality(net) <= built + repeats
    BY DEF CountInv
  <2>2. QED BY <1>1, <2>1
<1>3. ASSUME NEW k \in DOMAIN m_packets
      PROVE  m_packets[k].m_last_packet + Waiting' + Cardinality(net') <= built' + repeats'
  <2>1. m_packets[k].m_last_packet \in Nat
    <3>1. m_packets[k] \in D!PeriodSet
      BY Zenon DEF D!LossesInv, D!StateInv, D!Periods
    <3>2. QED BY <3>1, LinkAssumption DEF D!PeriodSet
  <2>2. m_packets[k].m_last_packet + Waiting + Cardinality(net) <= built + repeats
    BY DEF CountInv
  <2>3. QED BY <1>1, <2>1, <2>2
<1>4. OverrunTakesMoreThanAWindow'
  <2>1. overrun => built + repeats > PacketsByPeriod
    BY DEF CountInv, OverrunTakesMoreThanAWindow
  <2>2. PacketsByPeriod \in Nat
    BY LinkAssumption
  <2>3. built + repeats > PacketsByPeriod => built' + repeats' > PacketsByPeriod
    BY <1>1, <2>2, LargerSum, Zenon
  <2>4. (overrun => built + repeats > PacketsByPeriod)'
    BY <2>1, <2>3, Zenon
  <2>5. QED BY <2>4, Zenon DEF OverrunTakesMoreThanAWindow
<1>5. QED BY <1>2, <1>3, <1>4 DEF CountInv

\* The datagram of a packet that is filed is no longer on its way.
LEMMA CountFiles ==
  ASSUME D!LossesInv, CountInv, built \in Nat, ServiceStep, UNCHANGED built
  PROVE  CountInv'
<1>0. UNCHANGED <<net, repeats, built>>
  BY DEF ServiceStep
<1>1. /\ Cardinality(net) \in Nat /\ repeats \in Nat /\ Waiting \in Nat
      /\ PacketsByPeriod \in Nat
  BY FS_CardinalityType, LinkAssumption DEF CountInv, Waiting
<1>2. \A k \in DOMAIN m_packets : m_packets[k].m_last_packet \in Nat
  <2>1. \A k \in DOMAIN m_packets : m_packets[k] \in D!PeriodSet
    BY Zenon DEF D!LossesInv, D!StateInv, D!Periods
  <2>2. QED BY <2>1, LinkAssumption DEF D!PeriodSet
<1>3. /\ Waiting + Cardinality(net) <= built + repeats
      /\ \A k \in DOMAIN m_packets :
           m_packets[k].m_last_packet + Waiting + Cardinality(net) <= built + repeats
      /\ overrun => built + repeats > PacketsByPeriod
  BY DEF CountInv, OverrunTakesMoreThanAWindow
<1>4. CASE /\ UNCHANGED <<feeder, overrun>> /\ DOMAIN m_packets' = DOMAIN m_packets
           /\ \A k \in DOMAIN m_packets :
                m_packets'[k].m_last_packet = m_packets[k].m_last_packet
  BY <1>0, <1>4 DEF CountInv, Waiting, OverrunTakesMoreThanAWindow
<1>5. CASE /\ feeder # Detector!NoCall /\ feeder' = Detector!NoCall /\ overrun' = overrun
           /\ \A k \in DOMAIN m_packets' :
                \/ m_packets'[k].m_last_packet = 1
                \/ /\ k \in DOMAIN m_packets
                   /\ m_packets'[k].m_last_packet \in
                        {m_packets[k].m_last_packet, m_packets[k].m_last_packet + 1}
  <2>1. Waiting = 1 /\ Waiting' = 0
    BY <1>5 DEF Waiting
  <2>2. ASSUME NEW k \in DOMAIN m_packets'
        PROVE  m_packets'[k].m_last_packet + Waiting' + Cardinality(net) <= built + repeats
    <3>1. CASE m_packets'[k].m_last_packet = 1
      BY <1>1, <1>3, <2>1, <3>1
    <3>2. CASE /\ k \in DOMAIN m_packets
               /\ m_packets'[k].m_last_packet \in
                    {m_packets[k].m_last_packet, m_packets[k].m_last_packet + 1}
      <4>1. /\ m_packets[k].m_last_packet \in Nat
            /\ m_packets[k].m_last_packet + 1 + Cardinality(net) <= built + repeats
        BY <1>2, <1>3, <2>1, <3>2
      <4>2. QED BY <1>1, <2>1, <3>2, <4>1
    <3>3. QED BY <1>5, <3>1, <3>2
  <2>3. Waiting' + Cardinality(net) <= built + repeats
    BY <1>1, <1>3, <2>1
  <2>4. OverrunTakesMoreThanAWindow'
    BY <1>0, <1>3, <1>5 DEF OverrunTakesMoreThanAWindow
  <2>5. QED BY <1>0, <2>2, <2>3, <2>4 DEF CountInv
<1>6. CASE /\ feeder # Detector!NoCall /\ UNCHANGED <<feeder, m_packets>>
           /\ \E k \in DOMAIN m_packets : m_packets[k].m_last_packet >= PacketsByPeriod
  <2>1. Waiting = 1 /\ Waiting' = 1
    BY <1>6 DEF Waiting
  <2>2. PICK k \in DOMAIN m_packets : m_packets[k].m_last_packet >= PacketsByPeriod
    BY <1>6
  <2>3. /\ m_packets[k].m_last_packet \in Nat
        /\ m_packets[k].m_last_packet + 1 + Cardinality(net) <= built + repeats
    BY <1>2, <1>3, <2>1
  <2>4. built + repeats > PacketsByPeriod
    BY <1>1, <2>2, <2>3
  <2>5. QED BY <1>0, <1>6, <2>1, <2>4 DEF CountInv, OverrunTakesMoreThanAWindow
<1>7. QED BY <1>4, <1>5, <1>6, ServiceCounts

LEMMA CountStep ==
  Inv /\ Inv' /\ SentInv /\ D!LossesInv /\ CountInv /\ [LinkNext]_linkVars => CountInv'
<1> SUFFICES ASSUME Inv, Inv', SentInv, D!LossesInv, CountInv, [LinkNext]_linkVars
             PROVE  CountInv'
  OBVIOUS
<1>0. /\ built \in Nat /\ built' \in Nat /\ repeats \in Nat
      /\ IsFiniteSet(net) /\ Cardinality(net) \in Nat
  BY ClientAssumption, FS_CardinalityType DEF Inv, ClientTypeOK, CountInv
<1>1. CASE SendDatagram
  <2>1. /\ built' = built + 1 /\ net' = net \cup {Datagram(j, built')}
        /\ UNCHANGED <<repeats, feeder, m_packets, overrun>>
    BY <1>1 DEF SendDatagram, Send, service
  <2>2. /\ IsFiniteSet(net') /\ Cardinality(net') \in Nat
        /\ Cardinality(net') <= Cardinality(net) + 1
    <3>1. /\ IsFiniteSet(net')
          /\ Cardinality(net') = Cardinality(net) \/ Cardinality(net') = Cardinality(net) + 1
      BY <1>0, <2>1, FS_AddElement
    <3>2. QED BY <1>0, <3>1
  <2>3. Waiting' = Waiting /\ Waiting \in Nat
    BY <2>1 DEF Waiting
  <2>4. QED BY <1>0, <2>1, <2>2, <2>3, CountKeeps
<1>2. CASE ClientStep \/ UNCHANGED linkVars
  <2>1. built' = built
    <3>1. CASE ClientStep
      BY <3>1, SilentKeeps DEF ClientStep
    <3>2. CASE UNCHANGED linkVars
      BY <3>2 DEF linkVars, client, vars, traffic
    <3>3. QED BY <1>2, <3>1, <3>2
  <2>2. UNCHANGED <<net, repeats, feeder, m_packets, overrun>>
    BY <1>2 DEF ClientStep, linkVars, service
  <2>3. QED BY <2>1, <2>2 DEF CountInv, Waiting, OverrunTakesMoreThanAWindow
<1>3. CASE ServiceStep
  <2>1. built' = built
    BY <1>3 DEF ServiceStep, client, vars, traffic
  <2>2. QED BY <1>0, <1>3, <2>1, CountFiles
<1>4. ASSUME NEW d \in net, Lose(d) PROVE CountInv'
  <2>1. net' = net \ {d} /\ UNCHANGED <<repeats, built, feeder, m_packets, overrun>>
    BY <1>4 DEF Lose, service, client, vars, traffic
  <2>2. IsFiniteSet(net') /\ Cardinality(net') = Cardinality(net) - 1 /\ Cardinality(net') \in Nat
    BY <1>0, <2>1, FS_RemoveElement, FS_CardinalityType
  <2>3. Waiting' = Waiting /\ Waiting \in Nat
    BY <2>1 DEF Waiting
  <2>4. QED BY <1>0, <2>1, <2>2, <2>3, CountKeeps
<1>5. ASSUME NEW d \in net, Deliver(d) PROVE CountInv'
  <2>1. built' = built
    BY <1>5 DEF Deliver, client, vars, traffic
  <2>2. feeder = Detector!NoCall /\ UNCHANGED <<m_packets, overrun>>
    BY <1>5 DEF Deliver, Detector!Receive
  <2>3. Waiting = 0 /\ Waiting' \in 0..1
    BY <2>2 DEF Waiting
  <2>4. CASE net' = net \ {d} /\ UNCHANGED repeats
    <3>1. /\ IsFiniteSet(net') /\ Cardinality(net') = Cardinality(net) - 1
          /\ Cardinality(net') \in Nat
      BY <1>0, <2>4, FS_RemoveElement, FS_CardinalityType
    <3>2. QED BY <1>0, <2>1, <2>2, <2>3, <2>4, <3>1, CountKeeps
  <2>5. CASE repeats' = repeats + 1 /\ UNCHANGED net
    BY <1>0, <2>1, <2>2, <2>3, <2>5, CountKeeps
  <2>6. QED BY <1>5, <2>4, <2>5, Zenon DEF Deliver
<1>6. QED BY <1>1, <1>2, <1>3, <1>4, <1>5, Zenon DEF LinkNext

LEMMA CountInit == LinkInit => CountInv
<1> SUFFICES ASSUME LinkInit PROVE CountInv
  OBVIOUS
<1>1. IsFiniteSet({}) /\ Cardinality({}) = 0
  BY FS_EmptySet
<1>2. /\ built = 0 /\ net = {} /\ repeats = 0
      /\ feeder = Detector!NoCall /\ overrun = FALSE /\ m_packets = <<>>
  BY DEF LinkInit, Init, Detector!Init
<1>3. DOMAIN m_packets = {}
  BY <1>2
<1>4. QED BY <1>1, <1>2, <1>3 DEF CountInv, Waiting, OverrunTakesMoreThanAWindow

-----------------------------------------------------------------------------
(* The theorems.                                                           *)

\* The invariant of the whole link: that of the client, that of the detector,
\* and that everything in between was sent.
LEMMA LinkInvariance == LinkSpec => []Inv /\ []SentInv /\ []D!LossesInv
<1>1. D!Spec => []D!LossesInv
  BY D!Invariance, LinkAssumption, SerialsAreIntegers
<1>2. QED BY <1>1, SentInvariance, LinkIsDetector, PTL

LEMMA DetectorTypeOK == D!TypeOK => Detector!TypeOK
<1>1. Detector!Periods = D!Periods
  BY OneOperators
<1>2. QED BY <1>1, Zenon DEF Detector!TypeOK, D!TypeOK, Detector!Epoch, D!Epoch,
        Detector!Empty, D!Empty, Detector!Unknown, D!Unknown

\* The variables of the client, of the detector and of the network between
\* them keep their types, and no datagram holds more requests than were built.
THEOREM LinkTypeCorrect == LinkSpec => []LinkTypeOK
<1>1. LinkSpec => []D!TypeOK
  <2>1. D!Spec => []D!TypeOK
    BY D!TypeCorrect, LinkAssumption, SerialsAreIntegers
  <2>2. QED BY <2>1, LinkIsDetector, PTL
<1>2. Inv /\ SentInv /\ D!TypeOK => LinkTypeOK
  <2> SUFFICES ASSUME Inv, SentInv, D!TypeOK PROVE LinkTypeOK
    OBVIOUS
  <2>1. \A d \in net : d.serial \in 0..(Window - 1) /\ d.requests \in 1..built
    BY DEF SentInv, Sent, Numbers
  <2>2. Detector!TypeOK
    BY DetectorTypeOK
  <2>3. QED BY <2>1, <2>2 DEF LinkTypeOK, Inv
<1>3. QED BY <1>1, <1>2, SentInvariance, PTL

\* What a period is credited with are packets that were filed into it and that
\* it expected: LossNeverHidden of the detector, from the other side.
LEMMA CreditedFacts ==
  ASSUME Inv, D!LossesInv, NEW k \in Known
  PROVE  /\ k \in Nat /\ k \in 0..MaxPeriod
         /\ Credited(k) \in Nat
         /\ Credited(k) <= Cardinality(D!Expected(k) \cap delivered[k])
         /\ IsFiniteSet(D!Expected(k) \cap delivered[k])
         /\ Cardinality(D!Expected(k) \cap delivered[k]) \in Nat
         /\ delivered[k] \subseteq 0..(Window - 1)
<1> USE LinkAssumption, SerialsAreIntegers
<1>1. k \in D!Periods /\ m_packets[k].m_losses # D!Unknown
  BY DEF Known, D!Periods, D!Unknown, Detector!Unknown
<1>2. D!StateInv /\ D!LossNeverHidden
  BY Zenon DEF D!LossesInv
<1>3. /\ k \in Nat /\ k \in 0..MaxPeriod
      /\ m_packets[k] \in D!PeriodSet /\ delivered[k] \subseteq 0..(Window - 1)
  BY <1>1, <1>2, D!PeriodFacts
<1>4. m_packets[k].m_losses \in 0..PacketsByPeriod
  BY <1>1, <1>3 DEF D!PeriodSet
<1>5. m_packets[k].m_losses >= D!Lost(k)
  BY <1>1, <1>2, Zenon DEF D!LossNeverHidden
<1>6. D!Cardinality(D!Expected(k) \cap delivered[k]) = Cardinality(D!Expected(k) \cap delivered[k])
  BY OneCardinality
<1>7. /\ D!IsFiniteSet(D!Expected(k) \cap delivered[k])
      /\ Cardinality(D!Expected(k) \cap delivered[k]) \in 0..PacketsByPeriod
  BY <1>3, <1>6, D!ReceivedFacts
<1>8. IsFiniteSet(D!Expected(k) \cap delivered[k])
  BY <1>7, Zenon DEF D!IsFiniteSet, IsFiniteSet
<1>9. D!Lost(k) = PacketsByPeriod - Cardinality(D!Expected(k) \cap delivered[k])
  BY <1>6, Zenon DEF D!Lost
<1>10. QED BY <1>3, <1>4, <1>5, <1>7, <1>8, <1>9 DEF Credited

\* For every window that fits a period, and whatever the network does: only
\* period 0 is ever credited with a packet of the repository's client.
THEOREM LaterPeriodsCountNothing == LinkSpec => []OnlyTheFirstPeriodCounts
<1>1. Inv /\ D!LossesInv => OnlyTheFirstPeriodCounts
  <2> SUFFICES ASSUME Inv, D!LossesInv, Window <= PacketsByPeriod, NEW k \in Known \ {0}
               PROVE  Credited(k) = 0
    BY DEF OnlyTheFirstPeriodCounts
  <2>1. /\ k \in Nat /\ k # 0 /\ Credited(k) \in Nat
        /\ Credited(k) <= Cardinality(D!Expected(k) \cap delivered[k])
        /\ delivered[k] \subseteq 0..(Window - 1)
    BY CreditedFacts
  <2>2. k * PacketsByPeriod >= PacketsByPeriod /\ PacketsByPeriod \in Nat /\ Window \in Nat
    BY <2>1, LinkAssumption, ClientAssumption
  <2>3. D!Expected(k) \cap (0..(Window - 1)) = {}
    BY <2>1, <2>2 DEF D!Expected
  <2>4. D!Expected(k) \cap delivered[k] = {}
    BY <2>1, <2>3
  <2>5. Cardinality(D!Expected(k) \cap delivered[k]) = 0
    BY <2>4, FS_EmptySet
  <2>6. QED BY <2>1, <2>5
<1>2. QED BY <1>1, LinkInvariance, PTL

\* A period is never credited with more packets than numbers of the client have
\* arrived in it, for every window and gape and however often the network repeats
\* a datagram.
THEOREM CreditsHaveArrived == LinkSpec => []OnlyArrivalsCount
<1>1. Inv /\ SentInv /\ D!LossesInv => OnlyArrivalsCount
  <2> SUFFICES ASSUME Inv, SentInv, D!LossesInv, NEW k \in Known
               PROVE  Credited(k) <= Cardinality(delivered[k] \cap Sent)
    BY DEF OnlyArrivalsCount
  <2> DEFINE T == D!Expected(k) \cap delivered[k]
             S == delivered[k] \cap Sent
  <2>1. /\ k \in 0..MaxPeriod /\ Credited(k) \in Nat /\ Credited(k) <= Cardinality(T)
        /\ Cardinality(T) \in Nat /\ delivered[k] \subseteq 0..(Window - 1)
    BY CreditedFacts
  <2>2. T \subseteq S
    BY <2>1 DEF SentInv
  <2>3. 0 \in Int /\ Window - 1 \in Int
    BY ClientAssumption
  <2>4. IsFiniteSet(0..(Window - 1))
    BY <2>3, FS_Interval, Zenon
  <2>5. S \subseteq 0..(Window - 1)
    BY <2>1
  <2>6. IsFiniteSet(S)
    BY <2>4, <2>5, FS_Subset, Zenon
  <2> HIDE DEF T, S
  <2>7. Cardinality(T) <= Cardinality(S) /\ Cardinality(S) \in Nat
    BY <2>2, <2>6, FS_Subset, FS_CardinalityType
  <2>8. Credited(k) <= Cardinality(S)
    BY <2>1, <2>7
  <2>9. QED BY <2>8 DEF S
<1>2. QED BY <1>1, LinkInvariance, PTL

\* AddPacket leaves m_current only when more datagrams than a window were sent or
\* repeated: for every window and gape, every order and every delay of the network.
THEOREM OneRoundFits == LinkSpec => []OverrunTakesMoreThanAWindow
<1>1. LinkSpec => []CountInv
  BY LinkInvariance, CountInit, CountStep, PTL DEF LinkSpec, linkVars
<1>2. CountInv => OverrunTakesMoreThanAWindow
  BY DEF CountInv
<1>3. QED BY <1>1, <1>2, PTL
=============================================================================
