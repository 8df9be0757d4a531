----------------------------- MODULE MCJobReader -----------------------------
(* Instances of JobReader for TLC: two jobs, two threads (the default), and a *)
(* clock scaled down so that Grace < Slack and a crash, a reap and an expiry  *)
(* all fit.  Polls of two jobs share nothing but the broker, which they only  *)
(* read, so it is enough that the client of one of them polls.                *)
EXTENDS JobReader, TLC

CONSTANT Watched \* the jobs whose clients poll

NextWatched ==
  \/ Next /\ UNCHANGED readerVars
  \/ \E j \in Watched : Poll(j)

SpecWatched == InitReader /\ [][NextWatched]_allVars

Symmetric == Permutations(Workers)
=============================================================================
