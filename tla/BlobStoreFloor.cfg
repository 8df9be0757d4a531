SPECIFICATION Spec
CONSTANTS
  Dirs = {d1, d2}
  Names = {n1, n2}
  Writers = {a}
  Sweepers = {s1}
  Nowhere = Nowhere
  MaxWrites = 3
  BlobTtl = 2
  MaxBytes = 1
  MinAge = 1
PROPERTY FloorHolds
