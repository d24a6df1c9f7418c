SPECIFICATION FairSpec
CONSTANTS
  Signals = {s1}
  NoSignal = NoSignal
  Symbols = {c1}
  Pnl <- PnlValues
  StartTime = 1
  MaxTime = 3
  Weekend = {}
  MaxFaults = 1
  Mode = "paper"
  RiskBatch = 2
  ExecBatch = 1
  MaxConsecutiveLosses = 1
  MaxTradesPerDay = 2
  MaxDailyLoss = 2
  MaxConcurrentPositions = 2
  KillLayers = {}
PROPERTIES
  FillsAreReconciled
CHECK_DEADLOCK FALSE
