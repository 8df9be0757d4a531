SPECIFICATION FairSpecProcess
CONSTANTS
  Jobs = {j1}
  Workers = {w1, w2}
  NoJob = NoJob
  JobTimeout = 1
  Grace = 0
  Slack = 0
  ResultTtl = 1
  FailureTtl = 1
  MaxCrashes = 1
  MaxDeaths = 1
  MayStick = TRUE
  MayResend = TRUE
INVARIANTS TypeOKProcess NoLostJob
PROPERTIES EveryJobGetsItsTime EveryRecordExpires DeadThreadShows
