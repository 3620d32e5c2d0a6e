CONSTANTS
  Callers = {c1}
  Workers = {c1}
  Bridge = task
  Nothing = nothing
  Addresses = {a1}
  Candidates <- MCCandidates
  Fallback = 1
  Commandable = {1, 2}
  HostRates = {1, 2, 3}
  Adapters <- MCAdapters
SPECIFICATION Spec
INVARIANTS RevertReachesTheMovedAdapter

CHECK_DEADLOCK FALSE
