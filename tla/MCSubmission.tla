----------------------------- MODULE MCSubmission -----------------------------
(* Instances of Submission for TLC: two handlers that may both pass the same  *)
(* check for one client, and limits low enough to be met and passed.          *)
EXTENDS Submission, TLC

Symmetric == Permutations(Clients) \cup Permutations(Handlers)
=============================================================================
