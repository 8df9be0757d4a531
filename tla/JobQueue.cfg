SPECIFICATION SpecWatched
CONSTANTS
  Jobs = {j1, j2}
  Workers = {w1, w2}
  NoJob = NoJob
  Watched = {j1}
  JobTimeout = 2
  Grace = 1
  Slack = 2
  ResultTtl = 2
  FailureTtl = 1
  MaxCrashes = 2
  MayStick = FALSE
  MayResend = FALSE
SYMMETRY Symmetric
INVARIANTS OneRunPerJob OnePlace AbandonedMeansGone RecordLifetime
PROPERTIES AheadNeverGrows ImplementsContract
