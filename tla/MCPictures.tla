------------------------------ MODULE MCPictures ------------------------------
(* Instances of Pictures for TLC: two uploads, the second of which may be a   *)
(* retry of the first.  A finished job weighs 5 or 6 files, so a MaxBytes of  *)
(* 6 is a ceiling two jobs exceed and one alone does not.  Patience + RunTime *)
(* is at most BlobTtl: no job expires in the queue.                           *)
EXTENDS Pictures, TLC

Symmetric == Permutations(Threads)
=============================================================================
