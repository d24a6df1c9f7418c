SPECIFICATION Spec
CONSTANTS
  Signals = {s1, s2}
  NoSignal = NoSignal
  Symbols = {c1}
  Pnl <- PnlValues
  StartTime = 1
  MaxTime = 1
  Weekend = {}
  MaxFaults = 2
  Mode = "paper"
  RiskBatch = 2
  ExecBatch = 1
  MaxConsecutiveLosses = 1
  MaxTradesPerDay = 2
  MaxDailyLoss = 1
  MaxConcurrentPositions = 2
  KillLayers = {"local", "env"}
SYMMETRY SignalSymmetry
INVARIANTS
  TypeOK
  OneEntryPerAcceptedSignal
  TradesAreBacked
  FillsLostOnlyByFaults
  ExitsLostOnlyByFaults
  UpdatesAreJournaled
PROPERTIES
  HaltHolds
  SwitchesHold
  SignalsOnlyAdvance
CHECK_DEADLOCK FALSE
