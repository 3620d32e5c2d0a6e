CONSTANTS
  EngineId = engine
  GatewayId = gateway
  BroadcastId = broadcast
  Ids <- MCIds
  Ecus <- MCEcus
  Functional = broadcast
  Plans <- MCPlans
  MaxSize = 2
  Modulus = 3
  MaxWaits = 1
  BlockSize = 1
  BufferSize = 2
  RequestSizes <- MCSizes
  TesterBlocks = {1}
  MaxRequests <- MCRequests
SPECIFICATION FairSpec
INVARIANTS DeferralMakesNoHole NothingIsLeftAside
PROPERTIES BridgeComesBack
CHECK_DEADLOCK FALSE
