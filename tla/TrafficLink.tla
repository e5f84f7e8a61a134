----------------------------- MODULE TrafficLink -----------------------------
(***************************************************************************)
(* The client of src/udp/client, a network that delays, reorders, loses    *)
(* and repeats its datagrams, and the losses detector of the traffic point *)
(* it sends to.  A datagram that finds no traffic point, or a full buffer  *)
(* of the UDP server, is a lost one; that one thread feeds the detector is *)
(* TrafficPoints!FeedsItsOwn.  Because a datagram may be late by any time, *)
(* the client's sleep is not related to the clock of the service.          *)
(***************************************************************************)
EXTENDS UdpClient, Sequences, FiniteSets

CONSTANTS
  MaxRepeats,   \* bound: datagrams the network repeats
  Readers, EvaluatePeriod, CurrentPeriod, PacketsByPeriod, MaxTime, MaxPeriod

\* What LossesDetector assumes of the constants it gets from here.
ASSUME LinkAssumption ==
  /\ MaxRepeats \in Nat
  /\ EvaluatePeriod \in Nat \ {0}
  /\ CurrentPeriod \in Nat \ {0}
  /\ PacketsByPeriod \in Nat \ {0}
  /\ MaxTime \in Nat /\ MaxPeriod \in Nat

VARIABLES
  net,          \* the datagrams on their way
  repeats,      \* how many of them were repeated
  now, m_last_point, m_last_period, m_packets, feeder, reader, overrun, delivered

Detector == INSTANCE LossesDetector WITH Serials <- 0..(Window - 1)

client  == vars
service == <<now, m_last_point, m_last_period, m_packets, feeder, reader, overrun,
             delivered>>

\* A datagram: the newest request in it, which is all the server reads, and
\* how many there are.
Datagram(serial, requests) == [serial |-> serial, requests |-> requests]

LinkInit == Init /\ Detector!Init /\ net = {} /\ repeats = 0

\* The client sends: UDP takes the datagram, whoever listens.
SendDatagram ==
  /\ Send
  /\ net' = net \cup {Datagram(j, built')}
  /\ UNCHANGED <<repeats, service>>

ClientStep == Silent /\ UNCHANGED <<net, repeats, service>>

Lose(d) ==
  /\ net' = net \ {d}
  /\ UNCHANGED <<repeats, client, service>>

\* processData takes the number from the datagram, whichever one comes next.
\* The UDP server cuts a datagram that is longer than its buffer.  The builder
\* fills it from the back, so that the newest request, which is all that is
\* read, is at the front and stays whole.
Deliver(d) ==
  /\ Detector!Receive(d.serial)
  /\ \/ net' = net \ {d} /\ UNCHANGED repeats
     \/ repeats < MaxRepeats /\ repeats' = repeats + 1 /\ UNCHANGED net
  /\ UNCHANGED client

\* The rest of the service: the clock, the feeding thread, the queries.
ServiceStep ==
  /\ \/ Detector!Tick
     \/ Detector!File
     \/ \E r \in Readers :
          \/ Detector!GetCurrentLoss(r) \/ Detector!GetAverageLoss(r)
          \/ Detector!GetLoss(r) \/ Detector!CalcLoss(r)
          \/ Detector!EndSum(r) \/ Detector!Return(r)
  /\ UNCHANGED <<client, net, repeats>>

LinkNext ==
  \/ SendDatagram
  \/ ClientStep
  \/ ServiceStep
  \/ \E d \in net : Lose(d) \/ Deliver(d)

\* Only the client's threads are fair: the network owes nobody a datagram.
LinkSpec ==
  /\ LinkInit /\ [][LinkNext]_<<client, net, repeats, service>>
  /\ Fairness

-----------------------------------------------------------------------------
(* Properties.                                                             *)

LinkTypeOK ==
  /\ ClientTypeOK /\ Detector!TypeOK
  /\ \A d \in net : d.serial \in 0..(Window - 1) /\ d.requests \in 1..built

Known == {k \in DOMAIN m_packets : m_packets[k].m_losses # Detector!Unknown}

\* The packets the queries count as received in period k.
Credited(k) == PacketsByPeriod - m_packets[k].m_losses

\* The client numbers every round from 0, and period k expects the numbers
\* from k times the window on: whatever the network does, each period after
\* the first one is reported as lost completely.
OnlyTheFirstPeriodCounts ==
  Window <= PacketsByPeriod => \A k \in Known \ {0} : Credited(k) = 0

\* The numbers the client has put on the wire since it started.
Sent == {i \in Numbers : Cardinality({l \in Numbers : l < i}) < built}

\* A period is never credited with more packets than numbers of the client have
\* arrived in it, however often the network repeats a datagram or a later round
\* the number: a repetition cannot stand in for a packet that was lost or skipped
\* or that came in another period.
OnlyArrivalsCount ==
  \A k \in Known : Credited(k) <= Cardinality(delivered[k] \cap Sent)

\* AddPacket leaves m_current only when the datagrams the client has sent and
\* the network has repeated are more than the window of a period: one round of
\* the client does not, in whatever order and however late it arrives.
OverrunTakesMoreThanAWindow == overrun => built + repeats > PacketsByPeriod

\* AddPacket stays inside m_current when the repository's own client feeds the
\* point.  README: "traffic_packets_window : number of traffic packets in time
\* period".
WindowHolds == ~overrun

-----------------------------------------------------------------------------
(* The inductive invariant of TrafficLinkProofs, beside those of the parts. *)

\* Whatever is on its way, waits for the lock or was filed the client has sent:
\* a round reaches a number after it has sent the smaller ones.
SentInv ==
  /\ Cardinality(round) <= built
  /\ sender \in {"none", "connect"} => built = 0
  /\ \A d \in net : d.serial \in Sent /\ d.requests \in 1..built
  /\ feeder # Detector!NoCall => feeder.sn \in Sent
  /\ DOMAIN delivered = 0..MaxPeriod
  /\ \A k \in 0..MaxPeriod : delivered[k] \subseteq Sent

\* Every packet of a period, in the network or waiting for the lock is a datagram
\* of its own, sent or repeated.
Waiting == IF feeder = Detector!NoCall THEN 0 ELSE 1

CountInv ==
  /\ IsFiniteSet(net) /\ repeats \in Nat
  /\ Waiting + Cardinality(net) <= built + repeats
  /\ \A k \in DOMAIN m_packets :
       m_packets[k].m_last_packet + Waiting + Cardinality(net) <= built + repeats
  /\ OverrunTakesMoreThanAWindow
=============================================================================
