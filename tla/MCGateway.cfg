SPECIFICATION GatewaySpec
CONSTANTS
  Setups <- Parts
  Configs <- ChannelSets
  SeenCap = 1
  UidCap = 1
  GroupPolicy = "mention"
  MaxMessages = 2
  MaxRepeats = 1
  MaxFaults = 1
  MaxNotices = 1
  Client = {k1, k2}
  QueueSize = 2
  MaxEvents = 3
  SeenIds = 2
  MaxSession = 2
  MaxPanel = 2
  MaxLosses = 1
  MaxRestarts = 1
  Run = {r1, r2}
  MaxRefusals = 1
INVARIANTS
  GatewayTypeOK
  OnceInOrder
  EventsKept
  TakenOnce
PROPERTIES
  AnswersEnd
  TypingEnds
  SubscriptionsEnd
  TimedOutStops
CHECK_DEADLOCK FALSE
