CONSTANTS
  Ecus <- MCEcus
  Topics <- MCTopics
  OrdinaryId = 288
  Marked = {416944369, 417001744}
  MaxPendingRequests = 3
  LogicalAddresses = {1, 2}
  Requests <- MCRequests
  Reports = {4}
  PayloadLengths = {1}
  SequenceModulus = 32
  FirstSequences <- MCFirstSequences
  MaxMessages = 4
  SegmentLengths = {1, 3}
  MaxTrouble = 1
SPECIFICATION CaptureSpec
INVARIANTS
  EcusAreWhatTheyAnswered
  AddressesAreTrue
  NothingIsMisread
  InterleavingIsRestored
CHECK_DEADLOCK FALSE
