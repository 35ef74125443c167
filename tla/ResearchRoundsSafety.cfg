\* Two opportunities, budgets from too little to just enough and more, two cuts.
SPECIFICATION FairSpec
CONSTANTS
  Opp = {o1, o2}
  CallLimits = {10, 12}
  RequestLimits = {3}
  SignalLimits = {3}
  SearchLimits = {1, 2}
  RoundLimits = {1, 2}
  MaxCuts = 2
INVARIANTS
  TypeOK
  ExternalLedger
  StopsForGood
  SecondRoundPublished
  InterruptedRoundPassedOver
PROPERTY TaskEnds
CHECK_DEADLOCK FALSE
