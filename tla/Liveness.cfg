\* Two workers, two runs, fair processes: every run ends, and the abstraction is implemented;
\* one call of the provider, and what it starts.
SPECIFICATION LiveSpec
CONSTANTS
  w1 = w1
  w2 = w2
  Worker = {w1, w2}
  NoWorker = NoWorker
  Revision = {rev1}
  NoRevision = NoRevision
  Mode = {"HUNT"}
  Key = {"root"}
  Root = "root"
  Kind = {"TIMEOUT"}
  MaxRuns = 2
  LeaseTime = 1
  RunTime = 2
  RetryDelay = 1
  MaxAttempts = 2
  MaxCrashes = 1
PROPERTIES
  RunsEnd
  CallEnds
  ImplementsResearchRuns
CHECK_DEADLOCK FALSE
