SPECIFICATION FairSpec
CONSTANTS
  Signals = {s1, s2}
  NoSignal = NoSignal
  Symbols = {c1}
  Pnl <- PnlValues
  StartTime = 1
  MaxTime = 5
  Weekend = {}
  MaxFaults = 0
  Mode = "paper"
  RiskBatch = 2
  ExecBatch = 1
  MaxConsecutiveLosses = 2
  MaxTradesPerDay = 1
  MaxDailyLoss = 2
  MaxConcurrentPositions = 2
  KillLayers = {}
INVARIANTS
  LedgerAgrees
PROPERTIES
  HaltHolds
  StreamsDrain
CHECK_DEADLOCK FALSE
