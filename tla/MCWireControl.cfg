CONSTANTS
  Callers = {c1, c2}
  Workers = {c1, c2}
  Bridge = task
  Nothing = nothing
  Addresses = {a1}
  Candidates <- MCCandidates
  Fallback = 1
  Commandable = {1, 2}
  HostRates = {1, 2, 3}
  Adapters <- MCAdapters
SPECIFICATION FairSpec
INVARIANTS RunningMeansServed DetectedLinkIsHeard
 
CHECK_DEADLOCK FALSE
