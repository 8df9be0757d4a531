------------------------------- MODULE JobQueue -------------------------------
(***************************************************************************)
(* The life of a job in the broker: the hash and the queue list that       *)
(* src/jobs.py writes and reads, the worker threads of src/worker.py that  *)
(* run src/tasks.py process_image under a death penalty, the process crash *)
(* that takes every thread with it, RQ's maintenance pass, and the TTLs.   *)
(*                                                                         *)
(* Time is a discrete clock of ages and remaining lifetimes, all bounded:  *)
(* nothing reads an absolute time.  RQ itself is not in the repository; it *)
(* is modelled from the parameters jobs.py and worker.py give it.          *)
(***************************************************************************)
EXTENDS Integers, Sequences, FiniteSets

CONSTANTS
  Jobs,         \* the job ids the web tier may mint
  Workers,      \* the threads of the worker process
  NoJob,        \* what an idle thread holds
  JobTimeout,   \* settings.job_timeout, in ticks
  Grace,        \* ABANDONED_GRACE
  Slack,        \* how much later than job_timeout RQ gives a started job up
  ResultTtl,    \* settings.result_ttl
  FailureTtl,   \* settings.failure_ttl
  MaxCrashes,   \* bound: crashes of the worker process in one behaviour
  MayStick,     \* whether a native call may outlast the death penalty
  MayResend     \* whether a reply to the enqueue pipeline may be lost

ASSUME WorkAssumption == NoJob \notin Jobs /\ MayStick \in BOOLEAN /\ MayResend \in BOOLEAN
ASSUME TimeAssumption ==
  /\ JobTimeout \in Nat \ {0} /\ Grace \in Nat /\ Slack \in Nat
  /\ ResultTtl \in Nat \ {0} /\ FailureTtl \in Nat \ {0} /\ MaxCrashes \in Nat

\* The percentages process_image reports, in order: fetching, looking for
\* faces, drawing, writing, animating.
Checkpoints == <<10, 35, 75, 90, 95>>
Looking == 2
Animating == 5

\* Ages saturate here: past it nothing in the code tells two ages apart.
AgeCap == JobTimeout + Grace + Slack + 1

Terminal == {"finished", "failed"}
Absent == {"unborn", "expired"}
Status == {"queued", "started"} \cup Terminal \cup Absent
Verdicts == {"none", "pictures", "refused"}

VARIABLES
  status,     \* the job hash's `status`; "unborn" and "expired": there is no hash
  startedAge, \* ticks since the hash's `started_at`
  ttl,        \* ticks the hash and its result still have; 0: no expiry set
  verdict,    \* what the task returned, kept beside the hash
  progress,   \* meta['progress']
  queue,      \* the queue list, ids in FIFO order
  limbo,      \* ids a dead thread left in RQ's intermediate list
  unacked,    \* jobs whose enqueue reply the web tier has not seen yet
  alive,      \* whether the worker process is up
  crashes,    \* crashes so far (history, bounded by MaxCrashes)
  hand,       \* the job a thread holds
  phase,      \* "idle", "taken" (popped, not started) or "running"
  point,      \* how many checkpoints the thread has reported
  elapsed,    \* ticks its death penalty has been running
  fired,      \* whether the death penalty has been raised into it
  runs        \* how often each job was started (history)

vars == <<status, startedAge, ttl, verdict, progress, queue, limbo, unacked,
          alive, crashes, hand, phase, point, elapsed, fired, runs>>

InQueue(j) == \E i \in DOMAIN queue : queue[i] = j
Idle(w) == alive /\ phase[w] = "idle"
Running(w) == phase[w] = "running"
\* The death penalty is due and has not been raised into this thread.
Overdue(w) == elapsed[w] >= JobTimeout /\ ~fired[w]

\* Mutant of Abandoned: no grace after the timeout.
AbandonedAtTimeout(j) == status[j] = "started" /\ startedAge[j] >= JobTimeout

\* The reader's own verdict on a job nobody is coming back to.
Abandoned(j) == status[j] = "started" /\ startedAge[j] > JobTimeout + Grace

Init ==
  /\ status = [j \in Jobs |-> "unborn"]
  /\ startedAge = [j \in Jobs |-> 0]
  /\ ttl = [j \in Jobs |-> 0]
  /\ verdict = [j \in Jobs |-> "none"]
  /\ progress = [j \in Jobs |-> 0]
  /\ queue = <<>> /\ limbo = {} /\ unacked = {}
  /\ alive = TRUE /\ crashes = 0
  /\ hand = [w \in Workers |-> NoJob]
  /\ phase = [w \in Workers |-> "idle"]
  /\ point = [w \in Workers |-> 0]
  /\ elapsed = [w \in Workers |-> 0]
  /\ fired = [w \in Workers |-> FALSE]
  /\ runs = [j \in Jobs |-> 0]

-----------------------------------------------------------------------------
(* The web tier. *)

\* Mutant of Submit: the id is pushed at the end threads take from.
SubmitAtFront(j) ==
  /\ status[j] = "unborn"
  /\ status' = [status EXCEPT ![j] = "queued"]
  /\ queue' = <<j>> \o queue
  /\ UNCHANGED <<startedAge, ttl, verdict, progress, limbo, unacked, alive, crashes,
                 hand, phase, point, elapsed, fired, runs>>

\* One pipeline writes the hash and pushes the id.
Submit(j) ==
  /\ status[j] = "unborn"
  /\ status' = [status EXCEPT ![j] = "queued"]
  /\ queue' = Append(queue, j)
  /\ \/ UNCHANGED unacked
     \/ MayResend /\ unacked' = unacked \cup {j}
  /\ UNCHANGED <<startedAge, ttl, verdict, progress, limbo, alive, crashes,
                 hand, phase, point, elapsed, fired, runs>>

\* The reply timed out, so the client executes the whole pipeline again
\* (retry_on_timeout): the hash is rewritten and the id pushed a second time.
\* A TTL the first execution's run has set stays on the key.
Resend(j) ==
  /\ j \in unacked
  /\ unacked' = unacked \ {j}
  /\ status' = [status EXCEPT ![j] = "queued"]
  /\ startedAge' = [startedAge EXCEPT ![j] = 0]
  /\ progress' = [progress EXCEPT ![j] = 0]
  /\ queue' = Append(queue, j)
  /\ UNCHANGED <<ttl, verdict, limbo, alive, crashes,
                 hand, phase, point, elapsed, fired, runs>>

-----------------------------------------------------------------------------
(* A worker thread. *)

\* BLMOVE: the head of the list goes to the intermediate list.
Take(w) ==
  /\ Idle(w) /\ queue # <<>>
  /\ queue' = Tail(queue)
  /\ IF status[Head(queue)] = "expired"
       THEN UNCHANGED <<hand, phase>>
       ELSE /\ hand' = [hand EXCEPT ![w] = Head(queue)]
            /\ phase' = [phase EXCEPT ![w] = "taken"]
  /\ UNCHANGED <<status, startedAge, ttl, verdict, progress, limbo, unacked,
                 alive, crashes, point, elapsed, fired, runs>>

\* The job is `started` from here on, and the death penalty runs.
Prepare(w) ==
  /\ phase[w] = "taken"
  /\ phase' = [phase EXCEPT ![w] = "running"]
  /\ status' = [status EXCEPT ![hand[w]] = "started"]
  /\ startedAge' = [startedAge EXCEPT ![hand[w]] = 0]
  /\ runs' = [runs EXCEPT ![hand[w]] = @ + 1]
  /\ UNCHANGED <<ttl, verdict, progress, queue, limbo, unacked, alive, crashes,
                 hand, point, elapsed, fired>>

\* report_progress, at the five places process_image and the processor call it.
Report(w) ==
  /\ Running(w) /\ (elapsed[w] <= JobTimeout \/ fired[w])
  /\ point[w] < Animating
  /\ point' = [point EXCEPT ![w] = @ + 1]
  /\ progress' = [progress EXCEPT ![hand[w]] = Checkpoints[point[w] + 1]]
  /\ UNCHANGED <<status, startedAge, ttl, verdict, queue, limbo, unacked,
                 alive, crashes, hand, phase, elapsed, fired, runs>>

\* RQ records how the run ended, sets the TTL, and the thread is free again.
EndRun(w, s, v, lifetime) ==
  /\ status' = [status EXCEPT ![hand[w]] = s]
  /\ verdict' = [verdict EXCEPT ![hand[w]] = v]
  /\ ttl' = [ttl EXCEPT ![hand[w]] = lifetime]
  /\ hand' = [hand EXCEPT ![w] = NoJob]
  /\ phase' = [phase EXCEPT ![w] = "idle"]
  /\ point' = [point EXCEPT ![w] = 0]
  /\ elapsed' = [elapsed EXCEPT ![w] = 0]
  /\ fired' = [fired EXCEPT ![w] = FALSE]
  /\ UNCHANGED <<startedAge, progress, queue, limbo, unacked, alive, crashes, runs>>

\* The pictures are written and the task returns them.
Finish(w) ==
  /\ Running(w) /\ (elapsed[w] <= JobTimeout \/ fired[w])
  /\ point[w] = Animating
  /\ EndRun(w, "finished", "pictures", ResultTtl)

\* A DealWithItError while fetching or looking for faces: a finished job to
\* RQ, carrying an error string.
Refuse(w) ==
  /\ Running(w) /\ (elapsed[w] <= JobTimeout \/ fired[w])
  /\ point[w] \in 1..Looking
  /\ EndRun(w, "finished", "refused", ResultTtl)

\* Any other exception escapes the task.
Raise(w) ==
  /\ Running(w) /\ (elapsed[w] <= JobTimeout \/ fired[w])
  /\ EndRun(w, "failed", "none", FailureTtl)

\* The death penalty is raised into the thread once it is back in Python.
TimeOut(w) ==
  /\ Running(w) /\ Overdue(w)
  /\ EndRun(w, "failed", "none", FailureTtl)

\* Raised inside animate, the same exception is caught by its `except
\* Exception`: the job goes on without a GIF, and the timer is spent.
TimeOutSwallowed(w) ==
  /\ Running(w) /\ Overdue(w)
  /\ point[w] = Animating
  /\ fired' = [fired EXCEPT ![w] = TRUE]
  /\ UNCHANGED <<status, startedAge, ttl, verdict, progress, queue, limbo, unacked,
                 alive, crashes, hand, phase, point, elapsed, runs>>

Work(w) ==
  \/ Take(w) \/ Prepare(w)
  \/ Report(w) \/ Finish(w) \/ Refuse(w) \/ Raise(w)
  \/ TimeOut(w) \/ TimeOutSwallowed(w)

-----------------------------------------------------------------------------
(* Maintenance, run by a thread between two jobs every REAP_INTERVAL. *)

\* Mutants of Reap: the job is queued again; it is failed with no expiry.
ReapRequeueing(w, j) ==
  /\ Idle(w)
  /\ status[j] = "started" /\ startedAge[j] > JobTimeout + Slack
  /\ status' = [status EXCEPT ![j] = "queued"]
  /\ queue' = Append(queue, j)
  /\ UNCHANGED <<startedAge, ttl, verdict, progress, limbo, unacked,
                 alive, crashes, hand, phase, point, elapsed, fired, runs>>

ReapForGood(w, j) ==
  /\ Idle(w)
  /\ status[j] = "started" /\ startedAge[j] > JobTimeout + Slack
  /\ status' = [status EXCEPT ![j] = "failed"]
  /\ UNCHANGED <<startedAge, ttl, verdict, progress, queue, limbo, unacked,
                 alive, crashes, hand, phase, point, elapsed, fired, runs>>

\* Give up a started job whose registry entry has expired.
Reap(w, j) ==
  /\ Idle(w)
  /\ status[j] = "started" /\ startedAge[j] > JobTimeout + Slack
  /\ status' = [status EXCEPT ![j] = "failed"]
  /\ ttl' = [ttl EXCEPT ![j] = FailureTtl]
  /\ UNCHANGED <<startedAge, verdict, progress, queue, limbo, unacked,
                 alive, crashes, hand, phase, point, elapsed, fired, runs>>

\* Mutants of ReapLimbo: the entry stays; its job is left as it is.
ReapLimboKeeping(w, j) ==
  /\ Idle(w)
  /\ j \in limbo /\ status[j] \notin {"started", "failed", "expired"}
  /\ status' = [status EXCEPT ![j] = "failed"]
  /\ ttl' = [ttl EXCEPT ![j] = FailureTtl]
  /\ UNCHANGED <<startedAge, verdict, progress, queue, limbo, unacked,
                 alive, crashes, hand, phase, point, elapsed, fired, runs>>

ReapLimboSilently(w, j) ==
  /\ Idle(w)
  /\ j \in limbo /\ status[j] # "started"
  /\ limbo' = limbo \ {j}
  /\ UNCHANGED <<status, startedAge, ttl, verdict, progress, queue, unacked,
                 alive, crashes, hand, phase, point, elapsed, fired, runs>>

\* Fail a job that a dead thread had popped and not started.
ReapLimbo(w, j) ==
  /\ Idle(w)
  /\ j \in limbo /\ status[j] # "started"
  /\ limbo' = limbo \ {j}
  /\ IF status[j] = "expired"
       THEN UNCHANGED <<status, ttl>>
       ELSE /\ status' = [status EXCEPT ![j] = "failed"]
            /\ ttl' = [ttl EXCEPT ![j] = FailureTtl]
  /\ UNCHANGED <<startedAge, verdict, progress, queue, unacked,
                 alive, crashes, hand, phase, point, elapsed, fired, runs>>

Maintain(w) == \E j \in Jobs : Reap(w, j) \/ ReapLimbo(w, j)

-----------------------------------------------------------------------------
(* The process, and time. *)

\* Native code, the OOM killer or a deploy takes every thread down at once.
Crash ==
  /\ alive /\ crashes < MaxCrashes
  /\ alive' = FALSE /\ crashes' = crashes + 1
  /\ limbo' = limbo \cup {hand[w] : w \in {x \in Workers : phase[x] = "taken"}}
  /\ hand' = [w \in Workers |-> NoJob]
  /\ phase' = [w \in Workers |-> "idle"]
  /\ point' = [w \in Workers |-> 0]
  /\ elapsed' = [w \in Workers |-> 0]
  /\ fired' = [w \in Workers |-> FALSE]
  /\ UNCHANGED <<status, startedAge, ttl, verdict, progress, queue, unacked, runs>>

Restart ==
  /\ ~alive
  /\ alive' = TRUE
  /\ UNCHANGED <<status, startedAge, ttl, verdict, progress, queue, limbo, unacked,
                 crashes, hand, phase, point, elapsed, fired, runs>>

Older(n) == IF n < AgeCap THEN n + 1 ELSE n

\* A tick is longer than the socket timeout and than the gap between popping
\* a job and starting it.  Unless a native call may stick, a thread is not
\* still running when the clock passes its timeout: that is what the death
\* penalty enforces.
Tick ==
  /\ unacked = {}
  /\ \A w \in Workers : phase[w] # "taken"
  /\ \A w \in Workers : Running(w) => elapsed[w] < JobTimeout \/ MayStick
  /\ startedAge' = [j \in Jobs |-> IF runs[j] > 0 /\ status[j] \notin Absent
                                     THEN Older(startedAge[j]) ELSE startedAge[j]]
  /\ ttl' = [j \in Jobs |-> IF ttl[j] > 0 THEN ttl[j] - 1 ELSE 0]
  /\ status' = [j \in Jobs |-> IF ttl[j] = 1 THEN "expired" ELSE status[j]]
  /\ verdict' = [j \in Jobs |-> IF ttl[j] = 1 THEN "none" ELSE verdict[j]]
  /\ elapsed' = [w \in Workers |-> IF Running(w) THEN Older(elapsed[w]) ELSE elapsed[w]]
  /\ UNCHANGED <<progress, queue, limbo, unacked, alive, crashes,
                 hand, phase, point, fired, runs>>

Next ==
  \/ \E j \in Jobs : Submit(j) \/ Resend(j)
  \/ \E w \in Workers : Work(w) \/ Maintain(w)
  \/ Crash \/ Restart \/ Tick

Spec == Init /\ [][Next]_vars

-----------------------------------------------------------------------------
(* Properties. *)

\* The type invariant; an idle thread holds nothing and a busy one holds a job.
TypeOK ==
  /\ status \in [Jobs -> Status]
  /\ startedAge \in [Jobs -> 0..AgeCap]
  /\ ttl \in [Jobs -> Nat]
  /\ verdict \in [Jobs -> Verdicts]
  /\ progress \in [Jobs -> {0, 10, 35, 75, 90, 95}]
  /\ queue \in Seq(Jobs)
  /\ limbo \subseteq Jobs /\ unacked \subseteq Jobs
  /\ alive \in BOOLEAN /\ crashes \in 0..MaxCrashes
  /\ hand \in [Workers -> Jobs \cup {NoJob}]
  /\ phase \in [Workers -> {"idle", "taken", "running"}]
  /\ point \in [Workers -> 0..Animating]
  /\ elapsed \in [Workers -> 0..AgeCap]
  /\ fired \in [Workers -> BOOLEAN]
  /\ runs \in [Jobs -> Nat]
  /\ \A w \in Workers : phase[w] = "idle" <=> hand[w] = NoJob

\* A job that says it is queued can still be reached: its id is in the queue
\* list, in the hand of a thread about to start it, or in the intermediate
\* list maintenance looks at.  No crash and no resent pipeline loses one.
NoLostJob ==
  \A j \in Jobs : status[j] = "queued" =>
    \/ InQueue(j) \/ j \in limbo
    \/ \E w \in Workers : hand[w] = j /\ phase[w] = "taken"

\* When the enqueue pipeline is executed once, no job is ever started twice,
\* whatever crashes: what a dead worker held is failed, never run again.
OneRunPerJob == \A j \in Jobs : runs[j] <= 1

\* A waiting job is in one place only: once in the queue list, in one hand or in
\* the intermediate list, and whatever is in one of them is waiting.
OnePlace ==
  /\ \A i, k \in DOMAIN queue : queue[i] = queue[k] => i = k
  /\ \A i \in DOMAIN queue : status[queue[i]] = "queued" /\ queue[i] \notin limbo
  /\ \A w \in Workers : phase[w] = "taken" =>
       /\ status[hand[w]] = "queued" /\ hand[w] \notin limbo /\ ~InQueue(hand[w])
       /\ \A x \in Workers : phase[x] = "taken" /\ hand[x] = hand[w] => x = w
  /\ \A j \in limbo : status[j] = "queued"

\* `_abandoned`: "the worker that had it is gone".  No thread holds a job
\* that a reader would call abandoned.
AbandonedMeansGone ==
  \A j \in Jobs : Abandoned(j) => \A w \in Workers : hand[w] # j

\* A record has an expiry exactly when its job has ended: a waiting job can
\* never lapse, and the payload of an abandoned job "is still there" to retry.
RecordLifetime ==
  \A j \in Jobs : ttl[j] > 0 <=> status[j] \in Terminal

\* LPOS of a job: how many ids are in front of the first copy of its id.
Ahead(j) == (CHOOSE i \in DOMAIN queue :
               queue[i] = j /\ \A k \in 1..(i - 1) : queue[k] # j) - 1

\* The number of jobs ahead that a card shows never grows while it waits.
AheadNeverGrows ==
  [][\A j \in Jobs : InQueue(j) /\ InQueue(j)' => Ahead(j)' <= Ahead(j)]_vars

\* Every record leaves the broker in the end: Redis is `noeviction`, and a
\* hash left at `started` for good would fill it.
EveryRecordExpires ==
  \A j \in Jobs : (status[j] # "unborn") ~> (status[j] = "expired")

=============================================================================
