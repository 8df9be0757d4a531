SPECIFICATION Spec
CONSTANTS
  Ids = {i1, i2}
  Uploads = {i1, i2}
  Threads = {t1, t2}
  NoJob = NoJob
  BlobTtl = 3
  MaxBytes = 6
  MinAge = 2
  ResultTtl = 3
  RunTime = 1
  Patience = 2
SYMMETRY Symmetric
INVARIANTS TypeOK SourceSpared ResultLasts SharedIsWhole
