CONSTANTS
  Engine = engine
  Body = body
  Ecus <- MCEcus
  RequestCanId <- MCRequestCanId
  Outcomes <- MCOutcomes
  Callers = {c1, c2}
  OtherKinds = {"Frame"}
  Monitors = {m1}
  ChannelCapacity = 1
  HistoryCapacity = 1
  BatchSize = 2
  HistoryLimits <- MCLimits
  MaxEvents = 3
SPECIFICATION FairSpec
INVARIANTS BusyMeansClaimed EveryGapIsAnnounced
PROPERTIES BusyEcuIsReleased NewsReachesMonitors
CHECK_DEADLOCK FALSE
