SPECIFICATION SpecReader
CONSTANTS
  Jobs = {j1}
  Workers = {w1, w2}
  NoJob = NoJob
  Watched = {j1}
  JobTimeout = 2
  Grace = 1
  Slack = 2
  ResultTtl = 2
  FailureTtl = 1
  MaxCrashes = 0
  MayStick = TRUE
  MayResend = FALSE
PROPERTY AbandonedIsFinal
