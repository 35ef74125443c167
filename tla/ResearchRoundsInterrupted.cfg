\* A run with budget for one round, cut off once.
SPECIFICATION Spec
CONSTANTS
  Opp = {o1}
  CallLimits = {6}
  RequestLimits = {2}
  SignalLimits = {2}
  SearchLimits = {2}
  RoundLimits = {1}
  MaxCuts = 1
PROPERTY ReservationBlocksReplay
CHECK_DEADLOCK FALSE
