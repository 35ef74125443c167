\* One worker that may die while the provider works.
SPECIFICATION HFairSpec
CONSTANTS
  w1 = w1
  w2 = w2
  Worker = {w1}
  NoWorker = NoWorker
  Revision = {rev1}
  NoRevision = NoRevision
  Mode = {"HUNT"}
  Key = {"root"}
  Root = "root"
  Kind = {"AUTH_REQUIRED", "BUDGET_EXHAUSTED", "DEADLINE_EXCEEDED", "INTEGRITY",
          "INVALID_OUTPUT", "RATE_LIMITED", "TIMEOUT", "TRANSIENT_NETWORK", "PERMANENT"}
  MaxRuns = 1
  LeaseTime = 1
  RunTime = 2
  RetryDelay = 1
  MaxAttempts = 2
  MaxCrashes = 1
  Stages = 1
  External = {}
  Closing = {}
  ProviderLease = 1
  MaxParallel = 1
  MaxCalls = 2
PROPERTY EveryCallIsRecorded
