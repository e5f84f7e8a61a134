------------------------ MODULE LossesDetectorProofs -------------------------
(***************************************************************************)
(* Theorems about LossesDetector, for every window, every number of        *)
(* readers and of periods.                                                 *)
(***************************************************************************)
EXTENDS LossesDetector, FiniteSetTheorems, WellFoundedInduction, TLAPS

-----------------------------------------------------------------------------
(* Sets of period numbers.                                                 *)

LEMMA Least ==
  ASSUME NEW T, T \subseteq Nat, T # {}
  PROVE  \E x \in T : \A y \in T : x <= y
<1> DEFINE R == {ss \in Nat \X Nat : ss[1] < ss[2]}
<1>1. R = OpToRel(<, Nat)
  BY Zenon DEF OpToRel
<1>2. IsWellFoundedOn(R, Nat)
  BY <1>1, NatLessThanWellFounded, Zenon
<1>3. \A a, b \in Nat : a < b => <<a, b>> \in R
  OBVIOUS
<1> HIDE DEF R
<1>4. PICK x \in T : \A y \in T : ~(<<y, x>> \in R)
  BY <1>2, WFMin
<1>5. ASSUME NEW y \in T PROVE x <= y
  <2>1. x \in Nat /\ y \in Nat
    BY <1>4
  <2>2. ~(y < x)
    BY <1>3, <1>4, <2>1
  <2>3. QED BY <2>1, <2>2
<1>6. QED BY <1>5

\* Min of the library chooses a key of the set.
LEMMA MinIsKey ==
  ASSUME NEW T, T \subseteq 0..MaxPeriod, T # {}
  PROVE  Min(T) \in T
<1>1. T \subseteq Nat
  OBVIOUS
<1>2. \E x \in T : \A y \in T : x <= y
  BY <1>1, Least
<1>3. QED BY <1>2 DEF Min

LEMMA KeysFinite ==
  ASSUME NEW T, T \subseteq 0..MaxPeriod
  PROVE  IsFiniteSet(T) /\ Cardinality(T) \in Nat
<1>1. 0 \in Int /\ MaxPeriod \in Int
  BY LossesAssumption
<1>2. IsFiniteSet(0..MaxPeriod)
  BY <1>1, FS_Interval, Zenon
<1>3. IsFiniteSet(T)
  BY <1>2, FS_Subset, Zenon
<1>4. QED BY <1>3, FS_CardinalityType, Zenon

LEMMA KeyTaken ==
  ASSUME NEW T, T \subseteq 0..MaxPeriod, T # {}
  PROVE  /\ Cardinality(T \ {Min(T)}) = Cardinality(T) - 1
         /\ Cardinality(T) >= 1
<1>1. Min(T) \in T
  BY MinIsKey
<1>2. IsFiniteSet(T) /\ Cardinality(T) \in Nat
  BY KeysFinite
<1>3. Cardinality(T \ {Min(T)}) = Cardinality(T) - 1
  BY <1>1, <1>2, FS_RemoveElement
<1>4. Cardinality(T) # 0
  BY <1>2, FS_EmptySet
<1>5. QED BY <1>2, <1>3, <1>4

LEMMA Greatest ==
  ASSUME NEW T, T \subseteq 0..MaxPeriod, T # {}
  PROVE  \E x \in T : \A y \in T : y <= x
<1> DEFINE C == {z \in 0..MaxPeriod : MaxPeriod - z \in T}
<1>0. MaxPeriod \in Nat
  BY LossesAssumption
<1>1. C \subseteq Nat
  OBVIOUS
<1>2. \A y \in T : y \in 0..MaxPeriod /\ MaxPeriod - y \in C
  BY <1>0
<1>3. C # {}
  BY <1>2
<1>4. \A z \in C : z \in Nat /\ MaxPeriod - z \in T
  OBVIOUS
<1> HIDE DEF C
<1>5. PICK z \in C : \A w \in C : z <= w
  BY <1>1, <1>3, Least
<1>6. MaxPeriod - z \in T /\ z \in Nat
  BY <1>4, <1>5
<1>7. ASSUME NEW y \in T PROVE y <= MaxPeriod - z
  <2>1. z <= MaxPeriod - y
    BY <1>2, <1>5
  <2>2. y \in 0..MaxPeriod
    BY <1>2
  <2>3. QED BY <1>0, <1>6, <2>1, <2>2
<1>8. QED BY <1>6, <1>7

\* A loop over some of the last periods is not over before it begins.
LEMMA LastPeriodsFacts ==
  ASSUME NEW n \in Nat, Periods \subseteq 0..MaxPeriod
  PROVE  /\ LastPeriods(n) \subseteq Periods
         /\ n # 0 /\ Periods # {} => LastPeriods(n) # {}
<1>1. LastPeriods(n) \subseteq Periods
  BY DEF LastPeriods
<1>2. ASSUME n # 0, Periods # {} PROVE LastPeriods(n) # {}
  <2>1. PICK x \in Periods : \A y \in Periods : y <= x
    BY <1>2, Greatest
  <2>2. {l \in Periods : l > x} = {}
    <3>1. \A y \in Periods : ~(y > x)
      <4>1. \A y \in Periods : y \in Int
        OBVIOUS
      <4>2. QED BY <2>1, <4>1
    <3>2. QED BY <3>1
  <2>3. Cardinality({l \in Periods : l > x}) = 0
    BY <2>2, FS_EmptySet
  <2>4. x \in LastPeriods(n)
    BY <1>2, <2>3 DEF LastPeriods
  <2>5. QED BY <2>4
<1>3. QED BY <1>1, <1>2

-----------------------------------------------------------------------------
(* The numbers a period expects.                                           *)

LEMMA ExpectedFacts ==
  ASSUME NEW k \in Nat
  PROVE  /\ IsFiniteSet(Expected(k)) /\ Cardinality(Expected(k)) = PacketsByPeriod
         /\ Empty \notin Expected(k)
<1> DEFINE a == k * PacketsByPeriod
           b == k * PacketsByPeriod + PacketsByPeriod - 1
<1>0. PacketsByPeriod \in Nat /\ PacketsByPeriod # 0
  BY LossesAssumption
<1>1. a \in Nat
  BY <1>0
<1>2. b = a + PacketsByPeriod - 1
  OBVIOUS
<1>3. Expected(k) = a..b
  BY DEF Expected
<1> HIDE DEF a, b
<1>4. a \in Int /\ b \in Int
  BY <1>0, <1>1, <1>2
<1>5. /\ IsFiniteSet(a..b)
      /\ Cardinality(a..b) = IF a > b THEN 0 ELSE b - a + 1
  BY <1>4, FS_Interval, Zenon
<1>6. ~(a > b) /\ b - a + 1 = PacketsByPeriod
  BY <1>0, <1>1, <1>2
<1>7. Cardinality(a..b) = PacketsByPeriod
  BY <1>5, <1>6, Zenon
<1>8. Empty \notin a..b
  BY <1>1, <1>4 DEF Empty
<1>9. QED BY <1>3, <1>5, <1>7, <1>8, Zenon

LEMMA ReceivedFacts ==
  ASSUME NEW k \in Nat, NEW S
  PROVE  /\ IsFiniteSet(Expected(k) \cap S)
         /\ Cardinality(Expected(k) \cap S) \in 0..PacketsByPeriod
<1>1. IsFiniteSet(Expected(k)) /\ Cardinality(Expected(k)) = PacketsByPeriod
  BY ExpectedFacts
<1>2. Expected(k) \cap S \subseteq Expected(k)
  OBVIOUS
<1>3. /\ IsFiniteSet(Expected(k) \cap S)
      /\ Cardinality(Expected(k) \cap S) <= Cardinality(Expected(k))
  BY <1>1, <1>2, FS_Subset, Zenon
<1>4. Cardinality(Expected(k) \cap S) \in Nat
  BY <1>3, FS_CardinalityType
<1>5. PacketsByPeriod \in Nat
  BY LossesAssumption
<1>6. QED BY <1>1, <1>3, <1>4, <1>5

LEMMA ReceivedMonotone ==
  ASSUME NEW k \in Nat, NEW S, NEW T, S \subseteq T \cup {Empty}
  PROVE  Cardinality(Expected(k) \cap S) <= Cardinality(Expected(k) \cap T)
<1>1. Expected(k) \cap S \subseteq Expected(k) \cap T
  BY ExpectedFacts
<1>2. IsFiniteSet(Expected(k) \cap T)
  BY ReceivedFacts
<1>3. QED BY <1>1, <1>2, FS_Subset, Zenon

\* What CalcLoss can take for the packets of a period is never more than what
\* was filed into it, and exactly that as long as nobody sorted the cells.
LEMMA IntersectionFacts ==
  ASSUME NEW k \in Nat, NEW cells, NEW T, Range(cells) \subseteq T \cup {Empty}
  PROVE  /\ Intersection(k, cells) \in 0..PacketsByPeriod
         /\ Intersection(k, cells) <= Cardinality(Expected(k) \cap T)
         /\ T \subseteq Range(cells) \cup {Empty} =>
              Intersection(k, cells) = Cardinality(Expected(k) \cap T)
<1>1. Intersection(k, cells) \in 0..PacketsByPeriod
  BY ReceivedFacts, Zenon DEF Intersection
<1>2. Intersection(k, cells) <= Cardinality(Expected(k) \cap T)
  BY ReceivedMonotone, Zenon DEF Intersection
<1>3. ASSUME T \subseteq Range(cells) \cup {Empty}
      PROVE  Intersection(k, cells) = Cardinality(Expected(k) \cap T)
  <2>1. Expected(k) \cap T = Expected(k) \cap Range(cells)
    BY <1>3, ExpectedFacts
  <2>2. QED BY <2>1, Zenon DEF Intersection
<1>4. QED BY <1>1, <1>2, <1>3

-----------------------------------------------------------------------------
(* The invariant holds at the start.                                       *)

LEMMA InitInv == Init => LossesInv
<1> SUFFICES ASSUME Init PROVE LossesInv
  OBVIOUS
<1> USE DEF Init
<1>1. Periods = {}
  BY DEF Periods
<1>2. StateInv
  <2>1. 0 \in 0..MaxTime /\ 0 \in 0..MaxPeriod
    BY LossesAssumption
  <2>2. m_packets \in [Periods -> PeriodSet]
    BY <1>1
  <2>3. reader \in [Readers -> Calls]
    BY DEF Calls
  <2>4. QED BY <1>1, <2>1, <2>2, <2>3 DEF StateInv, Feeds
<1>3. CellsInv /\ LossNeverHidden
  BY <1>1, LossesAssumption DEF CellsInv, LossNeverHidden
<1>4. SumInv
  BY DEF SumInv, NoCall
<1>5. QED BY <1>2, <1>3, <1>4 DEF LossesInv

-----------------------------------------------------------------------------
(* Facts about the state that the steps use.                               *)

LEMMA PeriodFacts ==
  ASSUME StateInv
  PROVE  /\ Periods \subseteq 0..MaxPeriod
         /\ \A k \in Periods :
              /\ k \in Nat
              /\ m_packets[k] \in PeriodSet
              /\ delivered[k] \subseteq Serials
<1>1. m_last_period \in 0..MaxPeriod /\ MaxPeriod \in Nat
  BY LossesAssumption DEF StateInv
<1>2. Periods \subseteq 0..MaxPeriod
  BY <1>1 DEF StateInv
<1>3. QED BY <1>2 DEF StateInv

LEMMA HolderFacts ==
  ASSUME StateInv, SumInv, NEW r \in Readers, reader[r].at \in {"sum", "calc"}
  PROVE  /\ reader[r].todo \subseteq Periods
         /\ reader[r].todo \subseteq 0..MaxPeriod
         /\ reader[r].periods \in Nat /\ reader[r].loss \in Nat
         /\ reader[r].at = "calc" =>
              reader[r] \in [at : {"calc"}, todo : SUBSET (0..MaxPeriod),
                             periods : Nat, loss : Nat, raced : BOOLEAN]
<1>1. reader[r] \in Calls
  BY DEF StateInv
<1>2. reader[r].todo \subseteq Periods
  BY DEF SumInv, Adds
<1>3. QED BY <1>1, <1>2 DEF Calls, NoCall

-----------------------------------------------------------------------------
(* The clock and the first half of OnPacketReceived.                       *)

LEMMA TickInv == LossesInv /\ Tick => LossesInv'
<1> SUFFICES ASSUME LossesInv, Tick PROVE LossesInv'
  OBVIOUS
<1>1. StateInv'
  BY DEF LossesInv, StateInv, Tick, Periods
<1>2. CellsInv'
  BY DEF LossesInv, CellsInv, Tick, Periods
<1>3. SumInv'
  BY DEF LossesInv, SumInv, Adds, Tick, Periods
<1>4. LossNeverHidden'
  BY DEF LossesInv, LossNeverHidden, Lost, Tick, Periods
<1>5. QED BY <1>1, <1>2, <1>3, <1>4 DEF LossesInv

LEMMA ReceiveInv ==
  ASSUME LossesInv, NEW sn \in Serials, Receive(sn)
  PROVE  LossesInv'
<1>1. StateInv'
  <2>1. /\ now \in Int /\ m_last_point \in Int /\ m_last_period \in Nat
        /\ MaxTime \in Nat /\ MaxPeriod \in Nat /\ EvaluatePeriod \in Nat
    BY LossesAssumption DEF LossesInv, StateInv, Epoch
  <2>2. feeder' \in Feeds
    BY <2>1 DEF Receive, Feeds
  <2>3. m_last_point' \in {Epoch} \cup 0..MaxTime
    BY DEF LossesInv, StateInv, Receive
  <2>4. m_last_period' \in 0..MaxPeriod /\ m_last_period <= m_last_period'
    BY <2>1 DEF LossesInv, StateInv, Receive
  <2>5. Periods' \subseteq 0..m_last_period'
    BY <2>1, <2>4 DEF LossesInv, StateInv, Receive, Periods
  <2>6. m_packets' \in [Periods' -> PeriodSet]
    BY DEF LossesInv, StateInv, Receive, Periods
  <2>7. QED BY <2>2, <2>3, <2>4, <2>5, <2>6 DEF LossesInv, StateInv, Receive
<1>2. CellsInv'
  BY DEF LossesInv, CellsInv, Receive, Periods
<1>3. SumInv'
  BY DEF LossesInv, SumInv, Adds, Receive, Periods
<1>4. LossNeverHidden'
  BY DEF LossesInv, LossNeverHidden, Lost, Receive, Periods
<1>5. QED BY <1>1, <1>2, <1>3, <1>4 DEF LossesInv

-----------------------------------------------------------------------------
(* try_emplace and AddPacket.                                              *)

LEMMA AddPacketFacts ==
  ASSUME NEW p \in PeriodSet, NEW sn \in Serials, p.m_last_packet < PacketsByPeriod
  PROVE  /\ AddPacket(p, sn) \in PeriodSet
         /\ AddPacket(p, sn).m_losses = p.m_losses
         /\ AddPacket(p, sn).m_last_packet = p.m_last_packet + 1
         /\ AddPacket(p, sn).m_current =
              [p.m_current EXCEPT ![p.m_last_packet + 1] = sn]
<1>1. PacketsByPeriod \in Nat
  BY LossesAssumption
<1>2. /\ p.m_last_packet \in 0..PacketsByPeriod
      /\ p.m_current \in [1..PacketsByPeriod -> Serials \cup {Empty}]
  BY DEF PeriodSet
<1>3. p.m_last_packet + 1 \in 0..PacketsByPeriod
  BY <1>1, <1>2
<1>4. [p.m_current EXCEPT ![p.m_last_packet + 1] = sn]
        \in [1..PacketsByPeriod -> Serials \cup {Empty}]
  BY <1>2
<1>5. QED BY <1>3, <1>4 DEF AddPacket, PeriodSet

LEMMA NewPeriodFacts ==
  /\ NewPeriod \in PeriodSet
  /\ NewPeriod.m_losses = Unknown
  /\ HoldsPackets(NewPeriod, {})
<1>1. PacketsByPeriod \in Nat
  BY LossesAssumption
<1>2. NewPeriod \in PeriodSet
  BY <1>1 DEF NewPeriod, PeriodSet
<1>3. Range(NewPeriod.m_current) \subseteq {Empty}
  BY DEF NewPeriod, Range
<1>4. QED BY <1>2, <1>3 DEF NewPeriod, HoldsPackets

\* The packet that is written takes the place of no other one.
LEMMA AddPacketHolds ==
  ASSUME NEW p \in PeriodSet, NEW D, NEW sn \in Serials,
         p.m_last_packet < PacketsByPeriod, HoldsPackets(p, D)
  PROVE  HoldsPackets(AddPacket(p, sn), D \cup {sn})
<1> DEFINE q == AddPacket(p, sn)
           n == p.m_last_packet + 1
<1>1. PacketsByPeriod \in Nat /\ p.m_last_packet \in 0..PacketsByPeriod
  BY LossesAssumption DEF PeriodSet
<1>2. DOMAIN p.m_current = 1..PacketsByPeriod
  BY DEF PeriodSet
<1>3. /\ q.m_losses = p.m_losses /\ q.m_last_packet = n
      /\ q.m_current = [p.m_current EXCEPT ![n] = sn]
  BY AddPacketFacts
<1> HIDE DEF q
<1>4. n \in 1..PacketsByPeriod
  BY <1>1
<1>5. /\ DOMAIN q.m_current = 1..PacketsByPeriod
      /\ q.m_current[n] = sn
      /\ \A c \in 1..PacketsByPeriod : c # n => q.m_current[c] = p.m_current[c]
  BY <1>2, <1>3, <1>4
<1>6. Range(q.m_current) \subseteq Range(p.m_current) \cup {sn}
  BY <1>2, <1>5 DEF Range
<1>7. ASSUME p.m_losses = Unknown
      PROVE  /\ D \cup {sn} \subseteq Range(q.m_current) \cup {Empty}
             /\ \A c \in 1..PacketsByPeriod : c > n => q.m_current[c] = Empty
  <2>1. p.m_current[n] = Empty
    BY <1>1, <1>4, <1>7 DEF HoldsPackets
  <2>2. Range(p.m_current) \subseteq Range(q.m_current) \cup {Empty}
    BY <1>2, <1>5, <2>1 DEF Range
  <2>3. sn \in Range(q.m_current)
    BY <1>4, <1>5 DEF Range
  <2>4. D \subseteq Range(p.m_current) \cup {Empty}
    BY <1>7 DEF HoldsPackets
  <2>5. ASSUME NEW c \in 1..PacketsByPeriod, c > n PROVE q.m_current[c] = Empty
    <3>1. c # n /\ c > p.m_last_packet
      BY <1>1, <2>5
    <3>2. p.m_current[c] = Empty
      BY <1>7, <3>1 DEF HoldsPackets
    <3>3. QED BY <1>5, <3>1, <3>2
  <2>6. QED BY <2>2, <2>3, <2>4, <2>5
<1>8. Range(p.m_current) \subseteq D \cup {Empty}
  BY DEF HoldsPackets
<1>9. HoldsPackets(q, D \cup {sn})
  BY <1>3, <1>6, <1>7, <1>8 DEF HoldsPackets
<1>10. QED BY <1>9 DEF q

LEMMA FileInv == LossesInv /\ File => LossesInv'
<1> SUFFICES ASSUME LossesInv, File PROVE LossesInv'
  OBVIOUS
<1> DEFINE k == m_last_period
           period == IF k \in Periods THEN m_packets[k] ELSE NewPeriod
<1> USE DEF LossesInv
<1>0. CASE period.m_last_packet >= PacketsByPeriod
  <2>1. UNCHANGED <<now, m_last_point, m_last_period, m_packets, feeder, reader, delivered>>
        /\ overrun' \in BOOLEAN
    <3>1. PacketsByPeriod \in Nat /\ period.m_last_packet \in Int
      BY LossesAssumption, PeriodFacts, NewPeriodFacts DEF PeriodSet
    <3>2. ~(period.m_last_packet < PacketsByPeriod)
      BY <1>0, <3>1
    <3>3. QED BY <3>2, Zenon DEF File
  <2>2. QED BY <2>1 DEF StateInv, CellsInv, SumInv, Adds, LossNeverHidden, Lost, Periods
<1>1. CASE period.m_last_packet < PacketsByPeriod
  <2> DEFINE D == IF k \in Periods THEN delivered[k] ELSE {}
             q == AddPacket(period, feeder.sn)
  <2>1. k \in 0..MaxPeriod /\ k \in Nat /\ MaxPeriod \in Nat
    BY LossesAssumption DEF StateInv
  <2>2. period \in PeriodSet /\ HoldsPackets(period, D)
    BY PeriodFacts, NewPeriodFacts DEF CellsInv
  <2>3. feeder.sn \in Serials
    BY DEF StateInv, Feeds, File
  <2>4. /\ q \in PeriodSet /\ q.m_losses = period.m_losses
        /\ HoldsPackets(q, D \cup {feeder.sn})
    BY <1>1, <2>2, <2>3, AddPacketFacts, AddPacketHolds
  <2>5. D = delivered[k]
    BY <2>1 DEF CellsInv
  <2>6. period.m_last_packet \in Int /\ PacketsByPeriod \in Nat
    BY <2>2, LossesAssumption DEF PeriodSet
  <2>7. /\ m_packets' = [l \in Periods \cup {k} |-> IF l = k THEN q ELSE m_packets[l]]
        /\ delivered' = [delivered EXCEPT ![k] = @ \cup {feeder.sn}]
        /\ m_last_point' = IF feeder.over THEN now ELSE m_last_point
        /\ feeder' = NoCall
        /\ UNCHANGED <<now, m_last_period, reader, overrun>>
    BY <1>1, <2>6 DEF File, Periods
  <2>8. k \notin Periods => q.m_losses = Unknown
    BY <2>4, NewPeriodFacts
  <2>9. k \in Periods => q.m_losses = m_packets[k].m_losses
    BY <2>4
  <2> HIDE DEF q, period, D
  <2>10. Periods' = Periods \cup {k}
    BY <2>7 DEF Periods
  <2>11. /\ m_packets'[k] = q
         /\ \A l \in Periods : l # k => m_packets'[l] = m_packets[l]
    BY <2>7
  <2>12. /\ delivered'[k] = D \cup {feeder.sn}
         /\ \A l \in 0..MaxPeriod : l # k => delivered'[l] = delivered[l]
         /\ delivered' \in [0..MaxPeriod -> SUBSET Serials]
    BY <2>1, <2>3, <2>5, <2>7 DEF StateInv
  <2>13. StateInv'
    <3>1. m_packets' \in [Periods' -> PeriodSet]
      BY <2>4, <2>7, <2>10, PeriodFacts
    <3>2. Periods' \subseteq 0..m_last_period'
      BY <2>1, <2>7, <2>10 DEF StateInv
    <3>3. m_last_point' \in {Epoch} \cup 0..MaxTime
      BY <2>7 DEF StateInv
    <3>4. QED BY <2>7, <2>12, <3>1, <3>2, <3>3 DEF StateInv, Feeds
  <2>14. CellsInv'
    <3>1. \A l \in (0..MaxPeriod) \ Periods' : delivered'[l] = {}
      BY <2>10, <2>12 DEF CellsInv
    <3>2. ASSUME NEW l \in Periods' PROVE HoldsPackets(m_packets'[l], delivered'[l])
      <4>1. CASE l = k
        BY <2>4, <2>11, <2>12, <4>1
      <4>2. CASE l # k
        <5>1. l \in Periods /\ l \in 0..MaxPeriod
          BY <2>10, <4>2, PeriodFacts
        <5>2. m_packets'[l] = m_packets[l] /\ delivered'[l] = delivered[l]
          BY <2>11, <2>12, <4>2, <5>1
        <5>3. QED BY <5>1, <5>2 DEF CellsInv
      <4>3. QED BY <4>1, <4>2
    <3>3. QED BY <3>1, <3>2, Zenon DEF CellsInv, HoldsPackets
  <2>15. SumInv'
    BY <2>7 DEF SumInv, File, Holding
  <2>16. LossNeverHidden'
    <3> SUFFICES ASSUME NEW l \in Periods', m_packets'[l].m_losses # Unknown
                 PROVE  m_packets'[l].m_losses >= Lost(l)'
      BY DEF LossNeverHidden
    <3>1. l \in Periods /\ l \in 0..MaxPeriod /\ l \in Nat
      BY <2>8, <2>10, <2>11, PeriodFacts
    <3>2. m_packets'[l].m_losses = m_packets[l].m_losses
      BY <2>9, <2>11, <3>1
    <3>3. m_packets[l].m_losses >= Lost(l)
      BY <3>1, <3>2 DEF LossNeverHidden
    <3>4. delivered[l] \subseteq delivered'[l] \cup {Empty}
      BY <2>5, <2>12, <3>1
    <3>5. Cardinality(Expected(l) \cap delivered[l]) <= Cardinality(Expected(l) \cap delivered'[l])
      BY <3>1, <3>4, ReceivedMonotone
    <3>6. /\ Cardinality(Expected(l) \cap delivered[l]) \in Nat
          /\ Cardinality(Expected(l) \cap delivered'[l]) \in Nat
      BY <3>1, ReceivedFacts
    <3>7. Lost(l)' = PacketsByPeriod - Cardinality(Expected(l) \cap delivered'[l])
      BY DEF Lost, Expected
    <3>8. m_packets[l].m_losses \in Int
      BY <2>6, <3>1, PeriodFacts DEF PeriodSet, Unknown
    <3>9. QED BY <2>6, <3>2, <3>3, <3>5, <3>6, <3>7, <3>8 DEF Lost
  <2>17. QED BY <2>13, <2>14, <2>15, <2>16
<1>2. PacketsByPeriod \in Nat /\ period.m_last_packet \in Int
  BY LossesAssumption, PeriodFacts, NewPeriodFacts DEF PeriodSet
<1>3. QED BY <1>0, <1>1, <1>2

-----------------------------------------------------------------------------
(* The steps of a reader.                                                  *)

\* Steps that leave everything but the readers alone.
LEMMA ReadersMove ==
  ASSUME LossesInv,
         UNCHANGED <<now, m_last_point, m_last_period, m_packets, feeder, overrun,
                     delivered>>,
         reader' \in [Readers -> Calls],
         \A s \in Readers : reader'[s].at \in {"sum", "calc"} => Adds(reader'[s])
  PROVE  LossesInv'
<1>1. Periods' = Periods
  BY DEF Periods
<1>2. StateInv'
  BY <1>1 DEF LossesInv, StateInv
<1>3. CellsInv'
  BY <1>1 DEF LossesInv, CellsInv
<1>4. SumInv'
  BY <1>1 DEF SumInv, Adds
<1>5. LossNeverHidden'
  BY <1>1 DEF LossesInv, LossNeverHidden, Lost
<1>6. QED BY <1>2, <1>3, <1>4, <1>5 DEF LossesInv

\* The same where one reader moves.
LEMMA ReaderMoves ==
  ASSUME LossesInv, NEW r \in Readers, NEW c \in Calls,
         UNCHANGED <<now, m_last_point, m_last_period, m_packets, feeder, overrun,
                     delivered>>,
         reader' = [reader EXCEPT ![r] = c],
         c.at \in {"sum", "calc"} => Adds(c)
  PROVE  LossesInv'
<1>1. reader \in [Readers -> Calls]
  BY DEF LossesInv, StateInv
<1>2. reader' \in [Readers -> Calls] /\ reader'[r] = c
      /\ \A s \in Readers \ {r} : reader'[s] = reader[s]
  BY <1>1
<1>3. \A s \in Readers : reader'[s].at \in {"sum", "calc"} => Adds(reader'[s])
  BY <1>2 DEF LossesInv, SumInv
<1>4. QED BY <1>2, <1>3, ReadersMove

LEMMA ResultFacts ==
  ASSUME NEW v \in Int
  PROVE  Result(v) \in Calls /\ Result(v).at = "returned" /\ Result(v).value = v
  BY DEF Result, Calls

\* A loop that has not begun.
LEMMA SumFacts ==
  ASSUME StateInv, NEW n \in Nat, Periods # {} => n # 0
  PROVE  /\ Sum(LastPeriods(n)) \in Calls
         /\ Sum(LastPeriods(n)).at = "sum"
         /\ Adds(Sum(LastPeriods(n)))
<1> DEFINE ks == LastPeriods(n)
<1>1. Periods \subseteq 0..MaxPeriod
  BY PeriodFacts
<1>2. ks \subseteq Periods /\ (Periods # {} => ks # {})
  BY <1>1, LastPeriodsFacts
<1>3. PacketsByPeriod \in Nat
  BY LossesAssumption
<1> HIDE DEF ks
<1>4. IsFiniteSet(ks) /\ Cardinality(ks) \in Nat
  BY <1>1, <1>2, KeysFinite
<1>5. Cardinality(ks) = 0 => ks = {}
  BY <1>4, FS_EmptySet
<1>6. Sum(ks) \in Calls
  BY <1>1, <1>2, <1>4 DEF Sum, Calls
<1>7. (Cardinality(ks) - Cardinality(ks)) * PacketsByPeriod = 0
  BY <1>3, <1>4
<1>8. Adds(Sum(ks))
  BY <1>2, <1>4, <1>5, <1>7 DEF Sum, Adds
<1>9. Sum(ks).at = "sum"
  BY DEF Sum
<1>10. QED BY <1>6, <1>8, <1>9 DEF ks

LEMMA OneMorePeriod ==
  ASSUME NEW P \in Nat, NEW n \in Nat, n >= 1, NEW m \in Nat, n <= m,
         NEW l \in Nat, l <= (m - n) * P, NEW v \in 0..P
  PROVE  l + v <= (m - (n - 1)) * P
<1>1. (m - (n - 1)) * P = (m - n) * P + P
  OBVIOUS
<1>2. (m - n) * P \in Nat
  OBVIOUS
<1>3. QED BY <1>1, <1>2

LEMMA AddLossFacts ==
  ASSUME LossesInv, NEW r \in Readers, reader[r].at \in {"sum", "calc"},
         reader[r].todo # {}, NEW v \in 0..PacketsByPeriod
  PROVE  /\ AddLoss(reader[r], v) \in Calls
         /\ AddLoss(reader[r], v).at = "sum"
         /\ Adds(AddLoss(reader[r], v))
<1> DEFINE c == reader[r]
           d == AddLoss(c, v)
<1>1. /\ c.todo \subseteq Periods /\ c.todo \subseteq 0..MaxPeriod
      /\ c.periods \in Nat /\ c.loss \in Nat
  BY HolderFacts DEF LossesInv
<1>2. Adds(c)
  BY DEF LossesInv, SumInv
<1>3. /\ Cardinality(c.todo \ {Min(c.todo)}) = Cardinality(c.todo) - 1
      /\ Cardinality(c.todo) >= 1 /\ Cardinality(c.todo) \in Nat
  BY <1>1, KeyTaken, KeysFinite
<1>4. PacketsByPeriod \in Nat
  BY LossesAssumption
<1>5. c.loss + v <= (c.periods - (Cardinality(c.todo) - 1)) * PacketsByPeriod
  BY <1>1, <1>2, <1>3, <1>4, OneMorePeriod DEF Adds
<1>6. /\ d.at = "sum" /\ d.todo = c.todo \ {Min(c.todo)}
      /\ d.periods = c.periods /\ d.loss = c.loss + v
  BY DEF AddLoss
<1>7. d \in Calls
  <2>1. c.loss + v \in Nat
    BY <1>1, <1>4
  <2>2. c.todo \ {Min(c.todo)} \in SUBSET (0..MaxPeriod)
    BY <1>1
  <2> HIDE DEF c
  <2>3. QED BY <1>1, <2>1, <2>2 DEF AddLoss, Calls
<1> HIDE DEF c, d
<1>8. Adds(d)
  <2>1. Cardinality(d.todo) <= d.periods
    BY <1>1, <1>2, <1>3, <1>6 DEF Adds
  <2>2. QED BY <1>1, <1>2, <1>3, <1>5, <1>6, <2>1 DEF Adds
<1>9. QED BY <1>6, <1>7, <1>8 DEF c, d

LEMMA GetCurrentLossInv ==
  ASSUME LossesInv, NEW r \in Readers, GetCurrentLoss(r)
  PROVE  LossesInv'
<1>1. CurrentPeriod \in Nat /\ CurrentPeriod # 0
  BY LossesAssumption
<1> DEFINE c == IF Cardinality(Periods) < CurrentPeriod THEN Result(0)
                ELSE Sum(LastPeriods(CurrentPeriod))
<1>2. c \in Calls /\ (c.at \in {"sum", "calc"} => Adds(c))
  BY <1>1, ResultFacts, SumFacts DEF LossesInv
<1>3. reader' = [reader EXCEPT ![r] = c]
  BY DEF GetCurrentLoss
<1> HIDE DEF c
<1>4. QED BY <1>2, <1>3, ReaderMoves DEF GetCurrentLoss

LEMMA GetAverageLossInv ==
  ASSUME LossesInv, NEW r \in Readers, GetAverageLoss(r)
  PROVE  LossesInv'
<1> DEFINE n == Cardinality(Periods)
           c == Sum(LastPeriods(n))
<1>1. IsFiniteSet(Periods) /\ n \in Nat
  BY PeriodFacts, KeysFinite DEF LossesInv
<1>2. Periods # {} => n # 0
  BY <1>1, FS_EmptySet
<1> HIDE DEF n
<1>3. c \in Calls /\ Adds(c)
  BY <1>1, <1>2, SumFacts DEF LossesInv
<1>4. reader' = [reader EXCEPT ![r] = c]
  BY DEF GetAverageLoss, n
<1> HIDE DEF c
<1>5. QED BY <1>3, <1>4, ReaderMoves DEF GetAverageLoss

\* The percentage of a loop that is over.
LEMMA PercentageFacts ==
  ASSUME NEW l \in Nat, NEW m \in Nat, l <= m * PacketsByPeriod
  PROVE  /\ Percentage(l, m) \in Int
         /\ m # 0 => Percentage(l, m) \in 0..100
<1>1. PacketsByPeriod \in Nat /\ PacketsByPeriod >= 1
  BY LossesAssumption
<1>2. CASE m = 0
  BY <1>2 DEF Percentage, NotANumber
<1>3. CASE m # 0
  <2> DEFINE t == m * PacketsByPeriod
  <2>1. t \in Nat /\ t >= 1
    BY <1>1, <1>3
  <2>2. l <= t
    OBVIOUS
  <2>3. Percentage(l, m) = (l * 100) \div t
    BY <1>3 DEF Percentage
  <2> HIDE DEF t
  <2>4. (l * 100) \div t \in 0..100
    BY <2>1, <2>2
  <2>5. QED BY <2>3, <2>4
<1>4. QED BY <1>2, <1>3

\* What EndSum makes of a call.
LEMMA EndSumFacts ==
  ASSUME LossesInv, NEW r \in Readers, reader[r].at = "sum", reader[r].todo = {}
  PROVE  /\ Percentage(reader[r].loss, reader[r].periods) \in Int
         /\ Periods # {} => Percentage(reader[r].loss, reader[r].periods) \in 0..100
<1> DEFINE l == reader[r].loss
           m == reader[r].periods
<1>1. l \in Nat /\ m \in Nat
  BY HolderFacts DEF LossesInv
<1>2. Cardinality({}) = 0
  BY FS_EmptySet
<1>3. l <= (m - 0) * PacketsByPeriod /\ (m = 0 => Periods = {})
  BY <1>2 DEF LossesInv, SumInv, Adds
<1>4. l <= m * PacketsByPeriod
  BY <1>1, <1>3
<1>5. QED BY <1>1, <1>3, <1>4, PercentageFacts

LEMMA EndSumInv ==
  ASSUME LossesInv, NEW r \in Readers, EndSum(r)
  PROVE  LossesInv'
<1> DEFINE v == Percentage(reader[r].loss, reader[r].periods)
<1>1. v \in Int
  BY EndSumFacts DEF EndSum
<1>2. reader' = [reader EXCEPT ![r] = Result(v)]
  BY DEF EndSum
<1> HIDE DEF v
<1>3. QED BY <1>1, <1>2, ResultFacts, ReaderMoves DEF EndSum

LEMMA ReturnInv ==
  ASSUME LossesInv, NEW r \in Readers, Return(r)
  PROVE  LossesInv'
<1>1. NoCall \in Calls /\ NoCall.at = "idle"
  BY DEF Calls, NoCall
<1>2. QED BY <1>1, ReaderMoves DEF Return

LEMMA NextKey ==
  ASSUME LossesInv, NEW r \in Readers, reader[r].at \in {"sum", "calc"},
         reader[r].todo # {}
  PROVE  /\ Min(reader[r].todo) \in Periods /\ Min(reader[r].todo) \in Nat
         /\ m_packets[Min(reader[r].todo)] \in PeriodSet
<1>1. reader[r].todo \subseteq Periods /\ reader[r].todo \subseteq 0..MaxPeriod
  BY HolderFacts DEF LossesInv
<1>2. Min(reader[r].todo) \in Periods
  BY <1>1, MinIsKey
<1>3. QED BY <1>2, PeriodFacts DEF LossesInv

LEMMA GetLossInv ==
  ASSUME LossesInv, NEW r \in Readers, GetLoss(r)
  PROVE  LossesInv'
<1> DEFINE c == reader[r]
           k == Min(c.todo)
<1>1. c.at = "sum" /\ c.todo # {}
  BY DEF GetLoss
<1>2. k \in Periods /\ m_packets[k] \in PeriodSet
  BY <1>1, NextKey
<1>3. UNCHANGED <<now, m_last_point, m_last_period, m_packets, feeder, overrun, delivered>>
  BY DEF GetLoss
<1>4. CASE /\ m_packets[k].m_losses # Unknown
           /\ reader' = [reader EXCEPT ![r] = AddLoss(c, m_packets[k].m_losses)]
  <2> DEFINE v == m_packets[k].m_losses
  <2>1. v \in 0..PacketsByPeriod
    BY <1>2, <1>4 DEF PeriodSet
  <2>2. reader' = [reader EXCEPT ![r] = AddLoss(reader[r], v)]
    BY <1>4
  <2> HIDE DEF v
  <2>3. /\ AddLoss(reader[r], v) \in Calls
        /\ AddLoss(reader[r], v).at = "sum" /\ Adds(AddLoss(reader[r], v))
    BY <1>1, <2>1, AddLossFacts
  <2>4. QED BY <1>3, <2>2, <2>3, ReaderMoves
<1>5. CASE /\ m_packets[k].m_losses = Unknown
           /\ reader' = [s \in Readers |->
                IF s = r THEN [at |-> "calc", todo |-> c.todo, periods |-> c.periods,
                               loss |-> c.loss, raced |-> Calculating(k) # {}]
                ELSE IF s \in Calculating(k) THEN [reader[s] EXCEPT !.raced = TRUE]
                ELSE reader[s]]
  <2>0. (Calculating(k) # {}) \in BOOLEAN
    OBVIOUS
  <2> DEFINE b == Calculating(k) # {}
             d == [at |-> "calc", todo |-> c.todo, periods |-> c.periods,
                   loss |-> c.loss, raced |-> b]
  <2>1. /\ c.todo \subseteq 0..MaxPeriod /\ c.periods \in Nat /\ c.loss \in Nat
        /\ Adds(c)
    BY <1>1, HolderFacts DEF LossesInv, SumInv
  <2>2. b \in BOOLEAN
    BY <2>0
  <2> HIDE DEF b
  <2>3. d \in Calls
    BY <2>1, <2>2 DEF Calls
  <2>4. Adds(d)
    BY <1>1, <2>1 DEF Adds
  <2>5. ASSUME NEW s \in Calculating(k)
        PROVE  /\ [reader[s] EXCEPT !.raced = TRUE] \in Calls
               /\ Adds([reader[s] EXCEPT !.raced = TRUE])
    <3>1. s \in Readers /\ reader[s].at = "calc"
      BY DEF Calculating
    <3>2. /\ reader[s] \in [at : {"calc"}, todo : SUBSET (0..MaxPeriod),
                            periods : Nat, loss : Nat, raced : BOOLEAN]
          /\ Adds(reader[s])
      BY <3>1, HolderFacts DEF LossesInv, SumInv
    <3> DEFINE e == [reader[s] EXCEPT !.raced = TRUE]
    <3>3. /\ e \in [at : {"calc"}, todo : SUBSET (0..MaxPeriod),
                    periods : Nat, loss : Nat, raced : BOOLEAN]
          /\ e.at = reader[s].at /\ e.todo = reader[s].todo
          /\ e.periods = reader[s].periods /\ e.loss = reader[s].loss
      BY <3>2
    <3> HIDE DEF e
    <3>4. e \in Calls
      BY <3>3, Zenon DEF Calls
    <3>5. Adds(e)
      BY <3>2, <3>3 DEF Adds
    <3>6. QED BY <3>4, <3>5 DEF e
  <2>6. reader' = [s \in Readers |->
           IF s = r THEN d
           ELSE IF s \in Calculating(k) THEN [reader[s] EXCEPT !.raced = TRUE]
           ELSE reader[s]]
    BY <1>5, Zenon DEF b
  <2> HIDE DEF d, k
  <2>7. \A s \in Readers : reader[s] \in Calls
                           /\ (reader[s].at \in {"sum", "calc"} => Adds(reader[s]))
    BY DEF LossesInv, StateInv, SumInv
  <2>8. ASSUME NEW s \in Readers
        PROVE  /\ reader'[s] \in Calls
               /\ reader'[s].at \in {"sum", "calc"} => Adds(reader'[s])
    <3>1. CASE s = r
      <4>1. reader'[s] = d
        BY <2>6, <3>1
      <4>2. QED BY <2>3, <2>4, <4>1
    <3>2. CASE s # r /\ s \in Calculating(k)
      <4>1. reader'[s] = [reader[s] EXCEPT !.raced = TRUE]
        BY <2>6, <3>2
      <4>2. QED BY <2>5, <3>2, <4>1, Zenon
    <3>3. CASE s # r /\ s \notin Calculating(k)
      <4>1. reader'[s] = reader[s]
        BY <2>6, <3>3
      <4>2. QED BY <2>7, <4>1
    <3>4. QED BY <3>1, <3>2, <3>3
  <2>9. reader' \in [Readers -> Calls]
    <3>1. reader' = [s \in Readers |-> reader'[s]]
      BY <2>6
    <3>2. QED BY <2>8, <3>1
  <2>10. QED BY <1>3, <2>8, <2>9, ReadersMove
<1>6. QED BY <1>4, <1>5 DEF GetLoss

\* What a sort leaves in the cells was there before, in one thread or in two.
LEMMA SortedCells ==
  ASSUME NEW p \in PeriodSet,
         NEW cells \in RacedSortings(p.m_current) \cup Sortings(p.m_current)
  PROVE  /\ cells \in [1..PacketsByPeriod -> Serials \cup {Empty}]
         /\ Range(cells) \subseteq Range(p.m_current)
<1>1. p.m_current \in [1..PacketsByPeriod -> Serials \cup {Empty}]
  BY DEF PeriodSet
<1>2. cells \in [1..PacketsByPeriod -> Range(p.m_current)]
  BY <1>1 DEF RacedSortings, Sortings
<1>3. Range(p.m_current) \subseteq Serials \cup {Empty}
  BY <1>1 DEF Range
<1>4. QED BY <1>2, <1>3 DEF Range

\* The whole of CalcLoss and of the loop's addition.
LEMMA CalcLossFacts ==
  ASSUME LossesInv, NEW r \in Readers, CalcLoss(r)
  PROVE  LET k == Min(reader[r].todo) IN
         \E n \in 0..Intersection(k, m_packets[k].m_current),
            cells \in [1..PacketsByPeriod -> Serials \cup {Empty}] :
           /\ ~reader[r].raced => n = Intersection(k, m_packets[k].m_current)
           /\ Range(cells) \subseteq Range(m_packets[k].m_current)
           /\ m_packets' = [m_packets EXCEPT
                ![k].m_current = cells, ![k].m_losses = PacketsByPeriod - n]
           /\ reader' = [reader EXCEPT ![r] = AddLoss(reader[r], PacketsByPeriod - n)]
<1> DEFINE c == reader[r]
           k == Min(c.todo)
           exact == Intersection(k, m_packets[k].m_current)
<1>1. reader[r].at = "calc" /\ reader[r].todo # {}
  BY DEF CalcLoss, LossesInv, SumInv, Adds
<1>2. k \in Nat /\ m_packets[k] \in PeriodSet
  BY <1>1, NextKey
<1>3. exact \in Nat
  BY <1>2, ReceivedFacts DEF Intersection
<1>4. PICK n \in IF c.raced THEN 0..exact ELSE {exact},
        cells \in IF c.raced THEN RacedSortings(m_packets[k].m_current)
                  ELSE Sortings(m_packets[k].m_current) :
       /\ m_packets' = [m_packets EXCEPT
            ![k].m_current = cells, ![k].m_losses = PacketsByPeriod - n]
       /\ reader' = [reader EXCEPT ![r] = AddLoss(c, PacketsByPeriod - n)]
  BY Zenon DEF CalcLoss
<1> HIDE DEF exact, k
<1>5. n \in 0..exact /\ (~c.raced => n = exact)
  BY <1>3
<1>6. cells \in RacedSortings(m_packets[k].m_current) \cup Sortings(m_packets[k].m_current)
  BY Zenon
<1>7. /\ cells \in [1..PacketsByPeriod -> Serials \cup {Empty}]
      /\ Range(cells) \subseteq Range(m_packets[k].m_current)
  BY <1>2, <1>6, SortedCells
<1>8. QED BY <1>4, <1>5, <1>7, Zenon DEF exact, k

LEMMA CalcLossInv ==
  ASSUME LossesInv, NEW r \in Readers, CalcLoss(r)
  PROVE  LossesInv'
<1> DEFINE k == Min(reader[r].todo)
           p == m_packets[k]
<1>1. reader[r].at = "calc" /\ reader[r].todo # {}
  BY DEF CalcLoss, LossesInv, SumInv, Adds
<1>2. k \in Periods /\ k \in Nat /\ p \in PeriodSet
  BY <1>1, NextKey
<1>3. PICK n \in 0..Intersection(k, p.m_current),
           cells \in [1..PacketsByPeriod -> Serials \cup {Empty}] :
        /\ Range(cells) \subseteq Range(p.m_current)
        /\ m_packets' = [m_packets EXCEPT
             ![k].m_current = cells, ![k].m_losses = PacketsByPeriod - n]
        /\ reader' = [reader EXCEPT ![r] = AddLoss(reader[r], PacketsByPeriod - n)]
  BY CalcLossFacts, Zenon
<1>4. UNCHANGED <<now, m_last_point, m_last_period, feeder, overrun, delivered>>
  BY DEF CalcLoss
<1> HIDE DEF k
<1> DEFINE v == PacketsByPeriod - n
           q == [p EXCEPT !.m_current = cells, !.m_losses = v]
<1>5. PacketsByPeriod \in Nat
  BY LossesAssumption
<1>6. HoldsPackets(p, delivered[k])
  BY <1>2 DEF LossesInv, CellsInv
<1>7. /\ Intersection(k, p.m_current) \in 0..PacketsByPeriod
      /\ Intersection(k, p.m_current) <= Cardinality(Expected(k) \cap delivered[k])
  BY <1>2, <1>6, IntersectionFacts DEF HoldsPackets
<1>8. v \in 0..PacketsByPeriod
  BY <1>3, <1>5, <1>7
<1>9. v >= Lost(k)
  <2>1. Cardinality(Expected(k) \cap delivered[k]) \in 0..PacketsByPeriod
    BY <1>2, ReceivedFacts, Zenon
  <2>2. QED BY <1>3, <1>5, <1>7, <2>1 DEF Lost
<1>10. m_packets \in [Periods -> PeriodSet]
  BY DEF LossesInv, StateInv
<1>11. m_packets' = [m_packets EXCEPT ![k] = q]
  BY <1>2, <1>3, <1>10
<1> HIDE DEF v
<1>12. /\ q \in PeriodSet /\ q.m_current = cells /\ q.m_losses = v
  BY <1>2, <1>3, <1>8 DEF PeriodSet
<1> HIDE DEF q
<1>13. /\ m_packets' \in [Periods -> PeriodSet] /\ Periods' = Periods
       /\ m_packets'[k] = q
       /\ \A l \in Periods \ {k} : m_packets'[l] = m_packets[l]
  BY <1>2, <1>10, <1>11, <1>12 DEF Periods
<1>14. v # Unknown
  BY <1>8 DEF Unknown
<1>15. /\ AddLoss(reader[r], v) \in Calls /\ AddLoss(reader[r], v).at = "sum"
       /\ Adds(AddLoss(reader[r], v))
  BY <1>1, <1>8, AddLossFacts
<1>16. reader' = [reader EXCEPT ![r] = AddLoss(reader[r], v)]
  BY <1>3 DEF v
<1>17. /\ reader' \in [Readers -> Calls] /\ reader'[r] = AddLoss(reader[r], v)
       /\ \A s \in Readers \ {r} : reader'[s] = reader[s]
  BY <1>15, <1>16 DEF LossesInv, StateInv
<1>18. StateInv'
  BY <1>4, <1>13, <1>17 DEF LossesInv, StateInv
<1>19. CellsInv'
  <2>1. HoldsPackets(q, delivered[k])
    BY <1>3, <1>6, <1>12, <1>14 DEF HoldsPackets
  <2>2. \A l \in Periods : HoldsPackets(m_packets'[l], delivered[l])
    BY <1>13, <2>1 DEF LossesInv, CellsInv
  <2>3. QED BY <1>4, <1>13, <2>2, Zenon DEF LossesInv, CellsInv, HoldsPackets
<1>20. SumInv'
  <2>1. \A s \in Readers : reader'[s].at \in {"sum", "calc"} => Adds(reader'[s])
    BY <1>15, <1>17 DEF LossesInv, SumInv
  <2>2. QED BY <1>13, <2>1 DEF SumInv, Adds
<1>21. LossNeverHidden'
  <2>1. \A l \in Periods : m_packets'[l].m_losses # Unknown => m_packets'[l].m_losses >= Lost(l)
    BY <1>9, <1>12, <1>13 DEF LossesInv, LossNeverHidden
  <2>2. QED BY <1>4, <1>13, <2>1 DEF LossNeverHidden, Lost
<1>22. QED BY <1>18, <1>19, <1>20, <1>21 DEF LossesInv

-----------------------------------------------------------------------------
(* The theorems.                                                           *)

LEMMA StepInv == LossesInv /\ [Next]_vars => LossesInv'
<1> SUFFICES ASSUME LossesInv, [Next]_vars PROVE LossesInv'
  OBVIOUS
<1>1. CASE Tick
  BY <1>1, TickInv
<1>2. ASSUME NEW sn \in Serials, Receive(sn) PROVE LossesInv'
  BY <1>2, ReceiveInv
<1>3. CASE File
  BY <1>3, FileInv
<1>4. ASSUME NEW r \in Readers, GetCurrentLoss(r) \/ GetAverageLoss(r) PROVE LossesInv'
  BY <1>4, GetCurrentLossInv, GetAverageLossInv
<1>5. ASSUME NEW r \in Readers, GetLoss(r) \/ CalcLoss(r) PROVE LossesInv'
  BY <1>5, GetLossInv, CalcLossInv
<1>6. ASSUME NEW r \in Readers, EndSum(r) \/ Return(r) PROVE LossesInv'
  BY <1>6, EndSumInv, ReturnInv
<1>7. CASE UNCHANGED vars
  <2>1. UNCHANGED <<now, m_last_point, m_last_period, m_packets, feeder, overrun, delivered>>
        /\ reader' = reader
    BY <1>7 DEF vars
  <2>2. QED BY <2>1, ReadersMove DEF LossesInv, StateInv, SumInv
<1>8. QED BY <1>1, <1>2, <1>3, <1>4, <1>5, <1>6, <1>7, Zenon DEF Next

\* The invariant of the detector, from which the theorems follow.
THEOREM Invariance == Spec => []LossesInv
<1>1. QED BY InitInv, StepInv, PTL DEF Spec

\* The variables of the detector, of its periods and of the calls that read
\* them keep their types, whatever packets arrive and whoever asks: a loss is
\* unknown or between none and all packets, and a loop over periods only goes
\* through periods that are there.
THEOREM TypeCorrect == Spec => []TypeOK
<1>1. LossesInv => TypeOK
  <2> SUFFICES ASSUME LossesInv PROVE TypeOK
    OBVIOUS
  <2>1. \A k \in Periods :
          /\ m_packets[k].m_current \in [1..PacketsByPeriod -> Serials \cup {Empty}]
          /\ m_packets[k].m_last_packet \in 0..PacketsByPeriod
          /\ m_packets[k].m_losses \in {Unknown} \cup 0..PacketsByPeriod
    BY PeriodFacts DEF LossesInv, PeriodSet
  <2>2. \A r \in Readers :
          reader[r].at \in {"sum", "calc"} => reader[r].todo \subseteq Periods
    BY DEF LossesInv, SumInv, Adds
  <2>3. QED BY <2>1, <2>2 DEF LossesInv, StateInv, TypeOK
<1>2. QED BY <1>1, Invariance, PTL

\* No loss that CalcLoss has stored is below the number of packets the period
\* expected and did not get, also when two readers sorted its cells at once or
\* packets were written over sorted cells.
THEOREM LossesAreNotHidden == Spec => []LossNeverHidden
<1>1. LossesInv => LossNeverHidden
  BY DEF LossesInv
<1>2. QED BY <1>1, Invariance, PTL

\* A reader that computes alone the loss of a period that is closed and that
\* nobody asked for before stores the exact loss.
THEOREM ClosedPeriodsAreExact == Spec => ClosedPeriodExact
<1> DEFINE Exact(r) ==
      reader[r].at = "calc" /\ reader'[r] # reader[r] /\ ~reader[r].raced =>
         LET k == Min(reader[r].todo) IN
         /\ k < m_last_period
         /\ m_packets[k].m_losses = Unknown
         /\ m_packets'[k].m_losses # Unknown
         => m_packets'[k].m_losses = Lost(k)
<1>1. ASSUME LossesInv, [Next]_vars, NEW r \in Readers PROVE Exact(r)
  <2> DEFINE k == Min(reader[r].todo)
  <2> SUFFICES ASSUME reader[r].at = "calc", reader'[r] # reader[r], ~reader[r].raced,
                      m_packets[k].m_losses = Unknown,
                      m_packets'[k].m_losses # Unknown
               PROVE  m_packets'[k].m_losses = Lost(k)
    OBVIOUS
  <2>1. PICK s \in Readers : \/ GetCurrentLoss(s) \/ GetAverageLoss(s) \/ GetLoss(s)
                             \/ CalcLoss(s) \/ EndSum(s) \/ Return(s)
    BY <1>1 DEF Next, vars, Tick, Receive, File
  <2>2. CalcLoss(s)
    BY <2>1 DEF GetCurrentLoss, GetAverageLoss, GetLoss, EndSum, Return
  <2>3. s = r
    <3>1. reader \in [Readers -> Calls]
      BY <1>1 DEF LossesInv, StateInv
    <3>2. \E c : reader' = [reader EXCEPT ![s] = c]
      BY <2>2 DEF CalcLoss
    <3>3. QED BY <3>1, <3>2
  <2>4. k \in Periods /\ k \in Nat
    BY <1>1, <2>2, <2>3, NextKey DEF LossesInv, SumInv, Adds
  <2>5. PICK n \in 0..Intersection(k, m_packets[k].m_current),
             cells \in [1..PacketsByPeriod -> Serials \cup {Empty}] :
          /\ ~reader[r].raced => n = Intersection(k, m_packets[k].m_current)
          /\ m_packets' = [m_packets EXCEPT
               ![k].m_current = cells, ![k].m_losses = PacketsByPeriod - n]
    <3>1. CalcLoss(r) /\ LossesInv
      BY <1>1, <2>2, <2>3
    <3> HIDE DEF k
    <3>2. QED BY <3>1, CalcLossFacts, Zenon DEF k
  <2>6. n = Intersection(k, m_packets[k].m_current)
    BY <2>5
  <2>7. m_packets \in [Periods -> PeriodSet]
    BY <1>1 DEF LossesInv, StateInv
  <2> HIDE DEF k
  <2>8. m_packets'[k].m_losses = PacketsByPeriod - n
    BY <2>4, <2>5, <2>7 DEF PeriodSet
  <2>9. HoldsPackets(m_packets[k], delivered[k])
    BY <1>1, <2>4 DEF LossesInv, CellsInv
  <2>10. n = Cardinality(Expected(k) \cap delivered[k])
    BY <2>4, <2>6, <2>9, IntersectionFacts DEF HoldsPackets
  <2>11. QED BY <2>8, <2>10 DEF Lost
<1>2. LossesInv /\ [Next]_vars => [\A r \in Readers : Exact(r)]_vars
  BY <1>1
<1>3. QED BY <1>2, Invariance, PTL DEF Spec, ClosedPeriodExact

\* Once a packet was filed every answer is between 0 and 100: the loop of
\* CalcLoss never divides by a total of zero, and never adds up more than a
\* whole loss for each period it counts.
THEOREM AnswersArePercentages == Spec => FedDetectorReportsPercentage
<1> DEFINE Answer(r) ==
      Periods # {} /\ reader'[r].at = "returned" /\ reader'[r] # reader[r] =>
         reader'[r].value \in 0..100
<1>1. ASSUME LossesInv, [Next]_vars, NEW r \in Readers PROVE Answer(r)
  <2> SUFFICES ASSUME Periods # {}, reader'[r].at = "returned", reader'[r] # reader[r]
               PROVE  reader'[r].value \in 0..100
    OBVIOUS
  <2>1. PICK s \in Readers : \/ GetCurrentLoss(s) \/ GetAverageLoss(s) \/ GetLoss(s)
                             \/ CalcLoss(s) \/ EndSum(s) \/ Return(s)
    BY <1>1 DEF Next, vars, Tick, Receive, File
  <2>2. reader \in [Readers -> Calls]
    BY <1>1 DEF LossesInv, StateInv
  <2>3. CASE GetCurrentLoss(s)
    BY <2>2, <2>3 DEF GetCurrentLoss, Result, Sum
  <2>4. CASE GetAverageLoss(s)
    BY <2>2, <2>4 DEF GetAverageLoss, Sum
  <2>5. CASE CalcLoss(s)
    BY <2>2, <2>5 DEF CalcLoss, AddLoss
  <2>6. CASE EndSum(s)
    <3>1. s = r
      BY <2>2, <2>6 DEF EndSum
    <3>2. reader'[r] = Result(Percentage(reader[r].loss, reader[r].periods))
      BY <2>2, <2>6, <3>1 DEF EndSum
    <3>3. Percentage(reader[r].loss, reader[r].periods) \in 0..100
      BY <1>1, <2>6, <3>1, EndSumFacts DEF EndSum
    <3>4. QED BY <3>2, <3>3 DEF Result
  <2>7. CASE Return(s)
    BY <2>2, <2>7 DEF Return, NoCall
  <2>8. CASE GetLoss(s)
    <3>1. CASE reader' = [reader EXCEPT ![s] = AddLoss(reader[s], m_packets[Min(reader[s].todo)].m_losses)]
      BY <2>2, <3>1 DEF AddLoss
    <3>2. CASE reader' # [reader EXCEPT ![s] = AddLoss(reader[s], m_packets[Min(reader[s].todo)].m_losses)]
      <4>1. r # s /\ r \in Calculating(Min(reader[s].todo))
        BY <2>8, <3>2 DEF GetLoss
      <4>2. reader'[r] = [reader[r] EXCEPT !.raced = TRUE]
        BY <2>8, <3>2, <4>1 DEF GetLoss
      <4>3. reader[r].at = "calc"
        BY <4>1 DEF Calculating
      <4>4. reader[r] \in Calls
        BY <2>2
      <4>5. [reader[r] EXCEPT !.raced = TRUE].at = "calc"
        BY <4>3, <4>4 DEF Calls, NoCall
      <4>6. QED BY <4>2, <4>5
    <3>3. QED BY <3>1, <3>2
  <2>9. QED BY <2>1, <2>3, <2>4, <2>5, <2>6, <2>7, <2>8
<1>2. LossesInv /\ [Next]_vars => [\A r \in Readers : Answer(r)]_vars
  BY <1>1
<1>3. QED BY <1>2, Invariance, PTL DEF Spec, FedDetectorReportsPercentage
=============================================================================
