CONSTANTS
  MCMessages = 3
  MaxMessages = 3
  Ids <- MCIds
  MaxSize = 5
  Modulus = 3
  MaxWaits = 1
  BlockSize = 2
  BufferSize = 5
  Sizes = {0, 1, 3, 5}
  InFlight = 3
  PeerWaits = {0, 1, 2}
SPECIFICATION FairSpec
INVARIANTS UndisturbedArrives ReplayAgrees
PROPERTIES TransportDelivers TransferEnds
CHECK_DEADLOCK FALSE
