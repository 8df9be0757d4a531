SPECIFICATION FairSpec
CONSTANTS
  Dirs = {d1, d2}
  Names = {n1}
  Writers = {a}
  Sweepers = {s1, s2}
  Nowhere = Nowhere
  MaxWrites = 1
  BlobTtl = 1
  MaxBytes = 1
  MinAge = 1
INVARIANTS TypeOK YoungWritesComplete
PROPERTIES SweepRestoresCeiling StoreDrains
