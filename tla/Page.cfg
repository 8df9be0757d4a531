SPECIFICATION FairSpecPage
CONSTANTS
  Jobs = {j1}
  Workers = {w1, w2}
  NoJob = NoJob
  JobTimeout = 2
  Grace = 1
  Slack = 2
  ResultTtl = 2
  FailureTtl = 2
  MaxCrashes = 1
  MaxFaults = 1
  MayStick = TRUE
  MayResend = FALSE
INVARIANT TypeOKPage
PROPERTIES StartedSettlesUnattended EveryCardSettles
