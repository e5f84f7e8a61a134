SPECIFICATION Spec
CONSTANTS
  r1 = r1
  r2 = r2
  Readers = {r1, r2}
  Serials <- MCSerials
  EvaluatePeriod = 1
  CurrentPeriod = 2
  PacketsByPeriod = 2
  MaxTime = 1
  MaxPeriod = 1
SYMMETRY MCSymmetry
INVARIANTS TypeOK LossNeverHidden
PROPERTIES ClosedPeriodExact FedDetectorReportsPercentage
CHECK_DEADLOCK FALSE
