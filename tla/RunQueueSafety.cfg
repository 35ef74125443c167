\* Two workers and two runs of one task each, with a crash; a lease
\* can lapse and the task be claimed again before the deadline.
SPECIFICATION Spec
CONSTANTS
  w1 = w1
  w2 = w2
  Worker = {w1, w2}
  NoWorker = NoWorker
  Revision = {rev1, rev2}
  NoRevision = NoRevision
  Mode = {"HUNT", "MONITOR"}
  Key = {"root"}
  Root = "root"
  Kind = {"TIMEOUT"}
  MaxRuns = 2
  LeaseTime = 2
  RunTime = 4
  RetryDelay = 1
  MaxAttempts = 2
  MaxCrashes = 1
SYMMETRY Symmetry
INVARIANTS
  TypeOK
  OneRunning
  LeaseWithinDeadline
  OwnerIsCurrentAttempt
  EndsExactlyWhenSettled
PROPERTIES
  OnlyLiveAttemptSettles
