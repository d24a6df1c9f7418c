SPECIFICATION Spec
CONSTANTS
  Prices = {1000, 1004, 1012}
  OpenTime = 1
  RangeEnd = 4
  EntryCutoff = 6
  LastMinute = 6
  LastDay = 2
  ClosedDays = {1}
  MaxMissed = 1
  MaxRestarts = 2
  Resolutions = {"1minute", "5minute"}
  Coarse = {"5minute"}
  BarValues <- LowHighAndWild
  Feeds <- FeedsUsed
  MaxBars = 2
  Quiet = {}
  Cooldown = 1
  ReadCount = 1
  MaxFailures = 1
  Expiries = {1, 4, 7, 10}
  Horizon = 7
  Strikes = {100, 102, 104}
  Spots = {101, 104}
  Preference = "current_week"
  SwitchDays = 2
  MaxDay = 7
  DayLength = 4
  FireAt = 1
  SquareOffAt = 3
  ReplayDays = 2
  Premiums = {0, 70, 71, 100, 159, 160}
  Suggested <- SuggestedUsed
  DefaultStop = 30
  DefaultTarget = 60
INVARIANTS
  OrbTypeOK
  OneSignalPerDay
  SignalsInWindow
  ArmedRangeIsWhole
  RegimeTypeOK
  CooldownHolds
  RegimeFollowsBars
  CooldownIsForASignal
  SelectorTypeOK
  ChainIsThere
  FreshDumpRolls
  ExitsAgree
CHECK_DEADLOCK FALSE
