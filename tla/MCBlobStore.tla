----------------------------- MODULE MCBlobStore -----------------------------
(* Instances of BlobStore for TLC: two directories, so that there is an older *)
(* and a younger one, and a ceiling that holds one file.                      *)
EXTENDS BlobStore, TLC

Symmetric == Permutations(Dirs) \cup Permutations(Names)
             \cup Permutations(Sweepers) \cup Permutations(Writers)
=============================================================================
