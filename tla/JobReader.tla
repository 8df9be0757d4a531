------------------------------- MODULE JobReader -------------------------------
(***************************************************************************)
(* A client polling a job: result_for of src/jobs.py, behind GET           *)
(* /api/jobs/{id} and the card fragment, against the moving broker of      *)
(* JobQueue.  A poll is one round trip for a pending job and up to four    *)
(* for one that has ended: peek, fetch, the status again, the result.      *)
(* Everything may move between them.                                       *)
(***************************************************************************)
EXTENDS JobQueue

VARIABLES
  polling, \* how far the poll of each job has got: "idle", "fetch", "status", "value"
  reply    \* what the client was last told about each job

readerVars == <<polling, reply>>
allVars == <<vars, polling, reply>>

Pending == {"queued", "started"}
\* "finished": with pictures.  "refused": failed with the task's own message.
\* "failed": GENERIC_FAILURE.  "abandoned": failed with ABANDONED.
\* "missing": None, a 404.  "error": the status re-read raised, a 500.
Failures == {"refused", "failed", "abandoned"}
Settled == {"finished", "missing"} \cup Failures
Replies == {"none", "error"} \cup Pending \cup Settled

InitReader ==
  /\ Init
  /\ polling = [j \in Jobs |-> "idle"]
  /\ reply = [j \in Jobs |-> "none"]

Tell(j, r) ==
  /\ polling' = [polling EXCEPT ![j] = "idle"]
  /\ reply' = [reply EXCEPT ![j] = r]

Continue(j, at) ==
  /\ polling' = [polling EXCEPT ![j] = at]
  /\ UNCHANGED reply

\* Mutant of Peek: a started job is taken at its word.
PeekTrusting(j) ==
  /\ polling[j] = "idle"
  /\ status[j] # "unborn" /\ j \notin unacked
  /\ \/ status[j] = "expired" /\ Tell(j, "missing")
     \/ status[j] \in Pending /\ Tell(j, status[j])
     \/ status[j] \in Terminal /\ Continue(j, "fetch")
  /\ UNCHANGED vars

\* _peek, and the three answers it can give on its own.  The id reaches the
\* client in the reply to the submission, so not before the enqueue is acked.
Peek(j) ==
  /\ polling[j] = "idle"
  /\ status[j] # "unborn" /\ j \notin unacked
  /\ \/ status[j] = "expired" /\ Tell(j, "missing")
     \/ Abandoned(j) /\ Tell(j, "abandoned")
     \/ status[j] \in Pending /\ ~Abandoned(j) /\ Tell(j, status[j])
     \/ status[j] \in Terminal /\ Continue(j, "fetch")
  /\ UNCHANGED vars

\* _fetch: the whole hash, which may be gone by now.
Fetch(j) ==
  /\ polling[j] = "fetch"
  /\ IF status[j] = "expired" THEN Tell(j, "missing") ELSE Continue(j, "status")
  /\ UNCHANGED vars

\* _state_of asks the broker for the status a second time.
ReadStatus(j) ==
  /\ polling[j] = "status"
  /\ \/ status[j] = "expired" /\ Tell(j, "error")
     \/ status[j] = "failed" /\ Tell(j, "failed")
     \/ status[j] \in Pending /\ Tell(j, status[j])
     \/ status[j] = "finished" /\ Continue(j, "value")
  /\ UNCHANGED vars

\* Mutant of ReadValue: a return value that is gone still counts as finished.
ReadValueUnchecked(j) ==
  /\ polling[j] = "value"
  /\ Tell(j, IF verdict[j] = "refused" THEN "refused" ELSE "finished")
  /\ UNCHANGED vars

\* _finished_result reads the return value; one that is gone reads as {}.
ReadValue(j) ==
  /\ polling[j] = "value"
  /\ \/ verdict[j] = "pictures" /\ Tell(j, "finished")
     \/ verdict[j] = "refused" /\ Tell(j, "refused")
     \/ verdict[j] = "none" /\ Tell(j, "failed")
  /\ UNCHANGED vars

Poll(j) == Peek(j) \/ Fetch(j) \/ ReadStatus(j) \/ ReadValue(j)

NextReader ==
  \/ Next /\ UNCHANGED readerVars
  \/ \E j \in Jobs : Poll(j)

SpecReader == InitReader /\ [][NextReader]_allVars

-----------------------------------------------------------------------------
(* Properties. *)

\* The reader's part of the type invariant; a poll gets past its peek only for
\* a job that has ended, so what the later round trips read is never pending.
TypeOKReader ==
  /\ TypeOK
  /\ \A j \in Jobs : polling[j] # "idle" => status[j] \in Terminal \cup {"expired"}
  /\ polling \in [Jobs -> {"idle", "fetch", "status", "value"}]
  /\ reply \in [Jobs -> Replies]

\* Refinement: however many round trips a poll takes, what the client is told
\* is what the record said at one instant of the poll; only a poll that found
\* the job ended and outlived its record may be told a failure it did not have
\* (_finished_result reads {}) or a 500.  An abandoned record counts as broken
\* before anything in the broker says so.
Life(j) ==
  CASE status[j] = "unborn"   -> "unborn"
    [] status[j] = "expired"  -> "forgotten"
    [] status[j] = "queued"   -> "waiting"
    [] status[j] = "started"  -> IF Abandoned(j) THEN "broken" ELSE "working"
    [] status[j] = "failed"   -> "broken"
    [] status[j] = "finished" -> IF verdict[j] = "pictures" THEN "delivered" ELSE "refused"

Told(j) ==
  CASE reply[j] = "queued"    -> "waiting"
    [] reply[j] = "started"   -> "working"
    [] reply[j] = "finished"  -> "delivered"
    [] reply[j] \in {"failed", "abandoned"} -> "broken"
    [] reply[j] = "missing"   -> "forgotten"
    [] OTHER -> reply[j]

Contract == INSTANCE JobContract WITH
  life <- [j \in Jobs |-> Life(j)], told <- [j \in Jobs |-> Told(j)],
  asking <- {j \in Jobs : polling[j] # "idle"}

ImplementsContract == Contract!Spec

\* A client told that the worker went away is told the truth: the job is in no
\* thread's hands, and pictures never arrive afterwards.
AbandonedIsFinal ==
  [][\A j \in Jobs : reply[j] = "abandoned" => reply'[j] \notin {"finished", "refused"}]_allVars
=============================================================================
