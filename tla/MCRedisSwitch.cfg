SPECIFICATION FairSpec
CONSTANTS
  Signals = {s1}
  NoSignal = NoSignal
  Symbols = {c1}
  Pnl <- PnlValues
  StartTime = 1
  MaxTime = 1
  Weekend = {}
  MaxFaults = 0
  Mode = "paper"
  RiskBatch = 2
  ExecBatch = 1
  MaxConsecutiveLosses = 1
  MaxTradesPerDay = 2
  MaxDailyLoss = 2
  MaxConcurrentPositions = 2
  KillLayers = {"cli", "bot"}
PROPERTIES
  SwitchStopsNewSignals
CHECK_DEADLOCK FALSE
