SPECIFICATION Spec
CONSTANTS
  t1 = t1
  t2 = t2
  None = None
  Threads = {t1, t2}
  Inputs <- MCInputs
  Max = 5
  IntMax = 3
  Portion = 0
  Workers = 2
  Cores = 1
  Marked <- MCBuilt
INVARIANTS TypeOK AnswerIsTheMark AsyncBounded CounterIsSplits
PROPERTY EveryNumberAnswered
