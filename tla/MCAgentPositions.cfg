SPECIFICATION FairSpec
CONSTANTS
  Signals = {s1}
  NoSignal = NoSignal
  Symbols = {c1}
  Pnl <- PnlValues
  StartTime = 1
  MaxTime = 7
  Weekend = {}
  MaxFaults = 2
  Mode = "paper"
  RiskBatch = 2
  ExecBatch = 1
  MaxConsecutiveLosses = 1
  MaxTradesPerDay = 2
  MaxDailyLoss = 2
  MaxConcurrentPositions = 2
  KillLayers = {"local", "cli"}
PROPERTIES
  PositionsAreClosed
CHECK_DEADLOCK FALSE
