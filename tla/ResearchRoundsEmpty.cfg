\* A run without search, not cut off.
SPECIFICATION Spec
CONSTANTS
  Opp = {o1, o2}
  CallLimits = {11}
  RequestLimits = {2}
  SignalLimits = {2}
  SearchLimits = {0}
  RoundLimits = {1, 2}
  MaxCuts = 0
INVARIANT EmptyRunSucceeds
CHECK_DEADLOCK FALSE
