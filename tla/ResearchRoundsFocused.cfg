\* A run with budget for two rounds, not cut off.
SPECIFICATION Spec
CONSTANTS
  Opp = {o1, o2}
  CallLimits = {11}
  RequestLimits = {2}
  SignalLimits = {2}
  SearchLimits = {1}
  RoundLimits = {2}
  MaxCuts = 0
INVARIANT FocusedRoundPublished
CHECK_DEADLOCK FALSE
