--------------------------- MODULE LossesDetector ----------------------------
(***************************************************************************)
(* losses::detector (src/losses/detector.cpp): packets are filed by arrival *)
(* time into periods, and the share of the packets a period expected and    *)
(* did not get is computed when somebody asks for it.                       *)
(*                                                                          *)
(* One thread feeds a detector (TrafficPoints!FeedsItsOwn); any number of   *)
(* HTTP threads read it.  The feeding thread locks m_packets_lock for       *)
(* writing; readers lock it for reading, although GetLoss sorts m_current   *)
(* and stores m_losses: two readers of one period race.  What a reader that *)
(* raced computes is modelled as any count its period's packets allow, and *)
(* what two sorts at once make of the cells as any of their numbers in each.*)
(***************************************************************************)
EXTENDS Integers, FiniteSets, FiniteSetsExt, Functions

CONSTANTS
  Readers,           \* HTTP threads in http_traffic_point_losses_callback
  Serials,           \* what the 64-bit ids of the packets are as std::int32_t
  EvaluatePeriod,    \* m_evaluate_period, in ticks of the clock
  CurrentPeriod,     \* m_current_period.count()
  PacketsByPeriod,   \* m_packets_by_period
  MaxTime,           \* bound: ticks of the clock
  MaxPeriod          \* bound: number of the last period

ASSUME LossesAssumption ==
  /\ Serials \subseteq Int
  /\ EvaluatePeriod \in Nat \ {0}
  /\ CurrentPeriod \in Nat \ {0}
  /\ PacketsByPeriod \in Nat \ {0}
  /\ MaxTime \in Nat /\ MaxPeriod \in Nat

VARIABLES
  now,            \* std::chrono::system_clock
  m_last_point,   \* start of the current period, or Epoch
  m_last_period,  \* its number
  m_packets,      \* std::map: period number -> period
  feeder,         \* the thread in OnPacketReceived
  reader,         \* per HTTP thread: its call of GetCurrentLoss/GetAverageLoss
  overrun,        \* a packet was written past the end of m_current
  delivered       \* history: per period, the serial numbers filed into it

vars == <<now, m_last_point, m_last_period, m_packets, feeder, reader,
          overrun, delivered>>

Epoch == -1     \* time_point{}
Empty == -1     \* a cell of m_current no packet was written to
Unknown == -1   \* m_losses before CalcLoss

\* What (0.0 / 0.0) * 100 converts to.
NotANumber == -2147483647 - 1

-----------------------------------------------------------------------------
(* losses::period                                                          *)

\* A mutant of Expected: the numbers begin at that of the period.
Expected_NoProduct(k) == k..(k + PacketsByPeriod - 1)

Expected(k) == (k * PacketsByPeriod)..(k * PacketsByPeriod + PacketsByPeriod - 1)

\* A mutant of NewPeriod: the cells are not set to -1.
NewPeriod_ZeroFilled == [m_current |-> [c \in 1..PacketsByPeriod |-> 0],
                         m_last_packet |-> 0, m_losses |-> Unknown]

\* A mutant of NewPeriod: the first cell is left out.
NewPeriod_SecondCell == [m_current |-> [c \in 1..PacketsByPeriod |-> Empty],
                         m_last_packet |-> 1, m_losses |-> Unknown]

NewPeriod == [m_current |-> [c \in 1..PacketsByPeriod |-> Empty],
              m_last_packet |-> 0, m_losses |-> Unknown]

\* A mutant of AddPacket: every packet is written to the first cell.
AddPacket_FirstCell(period, sn) ==
  [period EXCEPT !.m_current[1] = sn, !.m_last_packet = @ + 1]

\* AddPacket within the bounds of m_current.
AddPacket(period, sn) ==
  [period EXCEPT !.m_current[period.m_last_packet + 1] = sn,
                 !.m_last_packet = @ + 1]

\* What std::sort makes of the cells.
Sortings(cells) ==
  {s \in [DOMAIN cells -> Range(cells)] :
     /\ \A c, d \in DOMAIN cells : c < d => s[c] <= s[d]
     /\ \A v \in Range(cells) : Cardinality({c \in DOMAIN cells : s[c] = v})
                              = Cardinality({c \in DOMAIN cells : cells[c] = v})}

\* What two sorts at the same time can make of them.
RacedSortings(cells) == [DOMAIN cells -> Range(cells)]

\* A mutant of Intersection: every occurrence of a number counts.
Intersection_Occurrences(k, cells) ==
  Cardinality({c \in DOMAIN cells : cells[c] \in Expected(k)})

\* Size of the std::set_intersection with the sorted m_current.
Intersection(k, cells) == Cardinality(Expected(k) \cap Range(cells))

-----------------------------------------------------------------------------
(* The result of a reader that summed up periods and losses.               *)

\* A mutant of Percentage: the total is that of one period.
Percentage_OnePeriod(loss, periods) ==
  IF periods = 0 THEN NotANumber ELSE (loss * 100) \div PacketsByPeriod

\* Truncated as the conversion of the quotient to std::int32_t does.
Percentage(loss, periods) ==
  IF periods = 0 THEN NotANumber
  ELSE (loss * 100) \div (periods * PacketsByPeriod)

Periods == DOMAIN m_packets

\* A mutant of LastPeriods: the keys are computed from m_last_period.
LastPeriods_ByNumber(n) == (m_last_period - n + 1)..m_last_period

\* The keys CalcLoss(n) goes through: the n last ones.
LastPeriods(n) == {k \in Periods : Cardinality({l \in Periods : l > k}) < n}

NoCall == [at |-> "idle"]

Holding == {r \in Readers : reader[r].at \in {"sum", "calc"}}

\* The readers that are inside CalcLoss of period k.
Calculating(k) == {r \in Readers : reader[r].at = "calc" /\ Min(reader[r].todo) = k}

Init ==
  /\ now = 0
  /\ m_last_point = Epoch
  /\ m_last_period = 0
  /\ m_packets = <<>>
  /\ feeder = NoCall
  /\ reader = [r \in Readers |-> NoCall]
  /\ overrun = FALSE
  /\ delivered = [k \in 0..MaxPeriod |-> {}]

\* The system clock goes on, and now and then is set.
Tick ==
  /\ ~overrun
  /\ now' \in (0..MaxTime) \ {now}
  /\ UNCHANGED <<m_last_point, m_last_period, m_packets, feeder, reader,
                 overrun, delivered>>

-----------------------------------------------------------------------------
(* OnPacketReceived                                                        *)

\* The clock is read and the number of the period decided before the lock is
\* taken.
Receive(sn) ==
  LET start == IF m_last_point = Epoch THEN now ELSE m_last_point
      over  == now - start >= EvaluatePeriod
  IN
  /\ ~overrun /\ feeder = NoCall
  /\ over => m_last_period < MaxPeriod
  /\ m_last_point' = start
  /\ m_last_period' = m_last_period + (IF over THEN 1 ELSE 0)
  /\ feeder' = [at |-> "lock", sn |-> sn, over |-> over]
  /\ UNCHANGED <<now, m_packets, reader, overrun, delivered>>

\* try_emplace and AddPacket under the unique lock; the next period is timed
\* from a second look at the clock.
File ==
  LET k == m_last_period
      period == IF k \in Periods THEN m_packets[k] ELSE NewPeriod
  IN
  /\ ~overrun /\ feeder # NoCall
  /\ Holding = {}
  /\ \/ /\ period.m_last_packet < PacketsByPeriod
        /\ m_packets' = [l \in Periods \cup {k} |->
                           IF l = k THEN AddPacket(period, feeder.sn)
                           ELSE m_packets[l]]
        /\ delivered' = [delivered EXCEPT ![k] = @ \cup {feeder.sn}]
        /\ m_last_point' = IF feeder.over THEN now ELSE m_last_point
        /\ feeder' = NoCall
        /\ UNCHANGED overrun
     \/ /\ period.m_last_packet >= PacketsByPeriod
        /\ overrun' = TRUE
        /\ UNCHANGED <<m_packets, delivered, m_last_point, feeder>>
  /\ UNCHANGED <<now, m_last_period, reader>>

-----------------------------------------------------------------------------
(* GetCurrentLoss and GetAverageLoss                                       *)

\* CalcLoss(periodsCount) before its loop, which goes through the keys in
\* order, and the end of a call.
Sum(ks) == [at |-> "sum", todo |-> ks, periods |-> Cardinality(ks), loss |-> 0]
Result(v) == [at |-> "returned", value |-> v]

GetCurrentLoss(r) ==
  /\ ~overrun /\ reader[r] = NoCall
  /\ reader' = [reader EXCEPT ![r] =
       IF Cardinality(Periods) < CurrentPeriod THEN Result(0)
       ELSE Sum(LastPeriods(CurrentPeriod))]
  /\ UNCHANGED <<now, m_last_point, m_last_period, m_packets, feeder, overrun,
                 delivered>>

GetAverageLoss(r) ==
  /\ ~overrun /\ reader[r] = NoCall
  /\ reader' = [reader EXCEPT ![r] = Sum(LastPeriods(Cardinality(Periods)))]
  /\ UNCHANGED <<now, m_last_point, m_last_period, m_packets, feeder, overrun,
                 delivered>>

AddLoss(c, v) == [at |-> "sum", todo |-> c.todo \ {Min(c.todo)},
                  periods |-> c.periods, loss |-> c.loss + v]

\* GetLoss of a period whose loss is known, or entry into CalcLoss.  A reader
\* that enters CalcLoss beside another one spoils both computations.
GetLoss(r) ==
  LET c == reader[r]
      k == Min(c.todo)
      raced == Calculating(k) # {}
  IN
  /\ ~overrun
  /\ c.at = "sum" /\ c.todo # {}
  /\ \/ /\ m_packets[k].m_losses # Unknown
        /\ reader' = [reader EXCEPT ![r] = AddLoss(c, m_packets[k].m_losses)]
     \/ /\ m_packets[k].m_losses = Unknown
        /\ reader' = [s \in Readers |->
             IF s = r THEN [at |-> "calc", todo |-> c.todo, periods |-> c.periods,
                            loss |-> c.loss, raced |-> raced]
             ELSE IF s \in Calculating(k) THEN [reader[s] EXCEPT !.raced = TRUE]
             ELSE reader[s]]
  /\ UNCHANGED <<now, m_last_point, m_last_period, m_packets, feeder, overrun,
                 delivered>>

\* CalcLoss sorts m_current in place, counts, stores m_losses, and GetLoss
\* returns it.
CalcLoss(r) ==
  LET c == reader[r]
      k == Min(c.todo)
      exact == Intersection(k, m_packets[k].m_current)
  IN
  /\ ~overrun
  /\ c.at = "calc"
  /\ \E n \in IF c.raced THEN 0..exact ELSE {exact},
        cells \in IF c.raced THEN RacedSortings(m_packets[k].m_current)
                 ELSE Sortings(m_packets[k].m_current) :
       /\ m_packets' = [m_packets EXCEPT
            ![k].m_current = cells, ![k].m_losses = PacketsByPeriod - n]
       /\ reader' = [reader EXCEPT ![r] = AddLoss(c, PacketsByPeriod - n)]
  /\ UNCHANGED <<now, m_last_point, m_last_period, feeder, overrun, delivered>>

EndSum(r) ==
  LET c == reader[r] IN
  /\ ~overrun
  /\ c.at = "sum" /\ c.todo = {}
  /\ reader' = [reader EXCEPT ![r] = Result(Percentage(c.loss, c.periods))]
  /\ UNCHANGED <<now, m_last_point, m_last_period, m_packets, feeder, overrun,
                 delivered>>

Return(r) ==
  /\ ~overrun
  /\ reader[r].at = "returned"
  /\ reader' = [reader EXCEPT ![r] = NoCall]
  /\ UNCHANGED <<now, m_last_point, m_last_period, m_packets, feeder, overrun,
                 delivered>>

-----------------------------------------------------------------------------
Next ==
  \/ Tick
  \/ \E sn \in Serials : Receive(sn)
  \/ File
  \/ \E r \in Readers :
       \/ GetCurrentLoss(r) \/ GetAverageLoss(r) \/ GetLoss(r)
       \/ CalcLoss(r) \/ EndSum(r) \/ Return(r)

Spec == Init /\ [][Next]_vars

-----------------------------------------------------------------------------
(* Properties.                                                             *)

TypeOK ==
  /\ now \in 0..MaxTime
  /\ m_last_point \in {Epoch} \cup 0..MaxTime
  /\ m_last_period \in 0..MaxPeriod
  /\ Periods \subseteq 0..m_last_period
  /\ \A k \in Periods :
       /\ m_packets[k].m_current \in [1..PacketsByPeriod -> Serials \cup {Empty}]
       /\ m_packets[k].m_last_packet \in 0..PacketsByPeriod
       /\ m_packets[k].m_losses \in {Unknown} \cup 0..PacketsByPeriod
  /\ \A r \in Readers :
       reader[r].at \in {"sum", "calc"} => reader[r].todo \subseteq Periods

\* The packets period k expected and did not get.
Lost(k) == PacketsByPeriod - Cardinality(Expected(k) \cap delivered[k])

\* A reported loss may be too high, because it was computed too early or by
\* two readers at once, but it never hides a lost packet: duplicates, packets
\* of other periods and cells that were sorted and overwritten do not count.
LossNeverHidden ==
  \A k \in Periods : LET l == m_packets[k].m_losses IN l # Unknown => l >= Lost(k)

\* The loss of a period that nobody asked for while it was the current one,
\* and that one reader computes alone, is exact, although the clock may be set
\* and a packet of the next period may be waiting for the lock.
ClosedPeriodExact ==
  [][\A r \in Readers :
       reader[r].at = "calc" /\ reader'[r] # reader[r] /\ ~reader[r].raced =>
         LET k == Min(reader[r].todo) IN
         /\ k < m_last_period
         /\ m_packets[k].m_losses = Unknown
         /\ m_packets'[k].m_losses # Unknown
         => m_packets'[k].m_losses = Lost(k)]_vars

\* Once a packet was filed, every answer is a percentage.
FedDetectorReportsPercentage ==
  [][\A r \in Readers :
       Periods # {} /\ reader'[r].at = "returned" /\ reader'[r] # reader[r] =>
         reader'[r].value \in 0..100]_vars
-----------------------------------------------------------------------------
(* The inductive invariant of LossesDetectorProofs.                        *)

PeriodSet == [m_current : [1..PacketsByPeriod -> Serials \cup {Empty}],
              m_last_packet : 0..PacketsByPeriod,
              m_losses : {Unknown} \cup 0..PacketsByPeriod]

Feeds == {NoCall} \cup [at : {"lock"}, sn : Serials, over : BOOLEAN]

Calls == {NoCall}
  \cup [at : {"returned"}, value : Int]
  \cup [at : {"sum"}, todo : SUBSET (0..MaxPeriod), periods : Nat, loss : Nat]
  \cup [at : {"calc"}, todo : SUBSET (0..MaxPeriod), periods : Nat, loss : Nat,
        raced : BOOLEAN]

\* What the variables hold.
StateInv ==
  /\ now \in 0..MaxTime
  /\ m_last_point \in {Epoch} \cup 0..MaxTime
  /\ m_last_period \in 0..MaxPeriod
  /\ Periods \subseteq 0..m_last_period
  /\ m_packets \in [Periods -> PeriodSet]
  /\ feeder \in Feeds
  /\ reader \in [Readers -> Calls]
  /\ overrun \in BOOLEAN
  /\ delivered \in [0..MaxPeriod -> SUBSET Serials]

\* The cells of period p hold packets of D, those filed into it, and all of
\* them, in the order they came, until somebody sorts them.
HoldsPackets(p, D) ==
  /\ Range(p.m_current) \subseteq D \cup {Empty}
  /\ p.m_losses = Unknown =>
       /\ D \subseteq Range(p.m_current) \cup {Empty}
       /\ \A c \in 1..PacketsByPeriod : c > p.m_last_packet => p.m_current[c] = Empty

CellsInv ==
  /\ \A k \in (0..MaxPeriod) \ Periods : delivered[k] = {}
  /\ \A k \in Periods : HoldsPackets(m_packets[k], delivered[k])

\* A reader has added up what it took out of todo, at most a whole period each
\* time, and it has nothing to add up only in a detector without periods.
Adds(c) ==
  /\ c.todo \subseteq Periods
  /\ Cardinality(c.todo) <= c.periods
  /\ c.loss <= (c.periods - Cardinality(c.todo)) * PacketsByPeriod
  /\ c.periods = 0 => Periods = {}
  /\ c.at = "calc" => c.todo # {}

SumInv == \A r \in Readers : reader[r].at \in {"sum", "calc"} => Adds(reader[r])

LossesInv == StateInv /\ CellsInv /\ SumInv /\ LossNeverHidden
=============================================================================
