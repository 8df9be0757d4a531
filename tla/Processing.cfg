SPECIFICATION SpecProcessing
CONSTANTS
  Hosts = {h1, h2}
  NoHost = NoHost
  Addresses = {a1, a2, private}
  Public = {a1, a2}
  Nowhere = Nowhere
  MaxRedirects = 2
  MaxChunks = 2
  Deadline = 2
  LongCall = 1
  MaxDrip = 2
  MaxDetectionSize = 1600
  Sizes <- MCSizes
  Candidates <- MCCandidates
  MaxFaces = 3
INVARIANTS TypeOKProcessing DialsOnlyChecked OverInTime NothingInFlight ResultIsWhole FoundWhereTheyAre LandsWhereDrawn Timeline
