SPECIFICATION BotSpec
CONSTANTS
  Procs = {p1, p2}
  FireMinute = 1
  LunchStart = 2
  LunchEnd = 3
  NoEntryAfter = 3
  LastMinute = 2
  LastDay = 1
  Weekend = {}
  Directions <- FlatOrUp
  MaxFaults = 1
  MaxBotLives = 2
  MaxByHand = 1
  ReadCount = 10
CHECK_DEADLOCK FALSE
INVARIANTS
  BotTypeOK
  OneTestPerDay
  NoSlotPassedOver
  TestsLostOnlyByFaults
  OneAgentPerBot
  AlertsInOrder
PROPERTIES
  StopIsAnswered
