SPECIFICATION Spec
CONSTANTS
  o1 = o1
  o2 = o2
  Opportunity = {o1}
  Request = {q1}
  MaxRuns = 2
  Cooldown = 1
INVARIANT
  KnownProblemGrows
CHECK_DEADLOCK FALSE
