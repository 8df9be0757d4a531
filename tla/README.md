# A formal model of Deal With It

TLA+ specifications of the parts of this repository that are hard to test: the
job broker and its worker threads, the worker process around them, the reader
behind the API and the cards on the page, the handlers that queue a job and the
limits they pass, the task that makes a picture, the blob store with its sweep
and the HTTP/3 client in front of it. TLC checks them on small instances; TLAPS
proves their safety properties and a refinement for every value of the constants.

Paths below are relative to the repository (`src/jobs.py` is the application's
`jobs.py`).

## 1. The system

A visitor submits a picture or a URL (`src/api.py`, `src/ui.py`). The web tier
stores the bytes, asks for admission (`src/throttle.py`), and writes a job to Redis
through RQ (`src/jobs.py`). Worker processes (`src/worker.py`), each with several
threads, take jobs and run `process_image` (`src/tasks.py`): load
(`src/images.py`), write the thumbnail and the Before half, find faces and draw
(`src/processors/`), write the results (`src/derivatives.py`), animate
(`src/animation.py`), write `meta.json`, return. The card polls `result_for` every
second until the job settles. The pictures live in a blob store on disk
(`src/blobs.py`), reached directly or through a service (`src/store.py`) over
HTTP/3 (`src/h3.py`). A cron enqueues `sweep_blobs`, which drops what has outlived
`blob_ttl` and what exceeds `blob_max_bytes`.

| Part | State it keeps | Operations | Talks to |
|---|---|---|---|
| Broker and threads (`jobs.py`, `tasks.py`, `worker.py`) | job hash, queue list, RQ's registries and intermediate list; per thread its job, checkpoint, death penalty | enqueue (and redis-py's re-execution of it), dequeue, start, report, finish, refuse, fail, time out, maintenance, crash, restart, expiry | web tier, through Redis |
| Worker process (`worker.py`) | its threads and their loops, the stop flag, the grace, registrations | serve, stop, drain, exit, health; threads that die by themselves | broker |
| Reader (`jobs.py`, `api.py`) | none of its own; what the client was last told | peek, fetch, status again, return value | broker, four round trips |
| Cards (`ui.py`) | what the page shows and whether it asks again | poll, retry, remove | reader, admission |
| Submission handlers (`api.py`, `ui.py`, `models.py`, `app.py`) | a request under way: what is stored, pushed, answered | URL, picture, upload or sample, retry | store, admission, broker |
| Admission (`throttle.py`) | counter per client and window; the queue's depth | check depth, check rate, enqueue | broker, three round trips |
| Job processing (`tasks.py`, `derivatives.py`) | what is written and named, the second thread | every write, every way out | store |
| Image loading (`images.py`) | pins, hops, clock, bytes | resolve, dial, read, decode | the web |
| Faces and glasses (`processors/`, `derivatives.py`) | scale, pass, boxes | shrink, detect, scale back, place | |
| Animation (`animation.py`) | the list of sprites, the frame | order, stagger, fall, caption | |
| Blob store (`blobs.py`) | directories, files, temporary files, mtimes | put, link, reap | file system, no locks |
| Pictures of a job (`tasks.py`, `derivatives.py`, `jobs.py`, `store.py`, `ui.py`) | which file of which job is there, what the record and `meta.json` name, `expires_at` | store, enqueue, retry by link, each write of `process_image`, the sweep | store, broker |
| Store service, HTTP/3 client (`store.py`, `h3.py`) | one connection, its lock, requests on the wire | connect, send, time out, retry; put, link, stop, restart | the disk |
| Pages, assets, settings, response models | none that changes | | |

What is hard in it:

- **Crash between two steps.** Threads share a process; native code (OpenCV,
  Pillow), the OOM killer or a deploy takes them all down. A popped job that was
  not started is then in no queue and no registry.
- **A job nobody is coming back to.** The broker keeps saying `started`. Two
  clocks decide: the reader's (`_abandoned`) and RQ's registry, later.
- **The death penalty is not a kill.** It cannot interrupt a native call, and
  raised inside `animate` it is swallowed by `except Exception`.
- **A deploy that polls**: threads blocked in a BLMOVE do not see the stop flag.
- **Reads made of several round trips**, of a record that ends or expires
  between them.
- **A chain of polls carried by its own answers**: one that fails ends it.
- **An enqueue, a count, a put or a link executed twice** by a silent retry.
- **A handshake that outlives its caller**: cancelling a coroutine closes nothing.
- **A file system without locks**: mkdir, temporary file, rename and hard link
  against `rmtree`, itself a listing, unlinks and an rmdir.
- **A sweep that decides on a snapshot**, under two clocks (age of the directory,
  `expires_at`) and a ceiling that knows nothing of the broker.
- **Checks and the acts they justify in different round trips** (admission,
  retry, resolving a name and dialling it).
- **A second thread in the task**, whose write may fail or come late.
- **Numbers rounded at every change of scale**: detection size, the doubled
  pass, the GIF.

`PROJECT.json` lists each hazard at its line, with the properties that would
catch it going wrong. What makes each part correct is in section 3.

## 2. Modules and code

    JobContract <--refines-- JobReader --- Page --- ReaderProofs
                                 |
                             JobQueue --- WorkerProcess
                                 |             |
                          JobQueueProofs --- WorkerProcessProofs

    Admission --- Submission --- SubmissionProofs

    Reaping --- BlobStore --- BlobStoreProofs
       \------- Pictures --- PicturesProofs     StoreClient --- StoreClientProofs

    Detection --- Choreography --\
                       Loading --- Processing --- ProcessingProofs

A line is an EXTENDS, `refines` an INSTANCE with a mapping. Each module that is
checked has an `MC` module, which adds symmetry sets and the values of constants
that a `.cfg` cannot write; JobQueue is checked under its reader (`MCJobReader`),
which only looks on. Definitions named as mutants in comments are
variations used to confirm that a property can fail.

**JobQueue.** The record of each job (`status`, `startedAge`, `ttl`, `verdict`,
`progress`), the queue list, RQ's intermediate list (`limbo`), and per thread
`hand`, `phase`, `point`, `elapsed`, `fired`. `Submit` is `enqueue`, one pipeline;
`Resend` is the second execution that `retry_on_timeout` makes when the reply is
lost. `Take`, `Prepare`, `EndRun`, `Reap` and `ReapLimbo` are RQ, which is not in
the repository: they are modelled from how `jobs.py` and `worker.py` parameterise
it and marked external. `Report` is `report_progress` at its five call sites,
`Finish`, `Refuse` and `Raise` the outcomes of `process_image`, `TimeOut` and
`TimeOutSwallowed` the death penalty of `ThreadWorker`, outside and inside
`animate`. `Crash` and `Restart` are the process. `Abandoned` is `_abandoned`.
`MayStick` (native calls may outlast the penalty) and `MayResend` (a reply may be
lost) switch the two hazards on and off, because some promises hold only without
them; each theorem names which. Ages saturate at `AgeCap`, above every threshold.

**WorkerProcess** wraps JobQueue's threads in the process: `AskToStop` is the stop
flag on every worker, by SIGTERM (`Terminate`) or because all threads have ended
(`AllExited`); `TakeLate` the thread that comes out of its BLMOVE with a job
after it was asked; `ThreadsDie` an exception that escapes `work()`; `Exit` the end
of the grace or of the last busy thread; `Killed` and `Started` the container. A
registration (`keys`, `ghosts`) is what `--health` counts.

**JobReader** adds a polling client: `Peek`, `Fetch`, `ReadStatus` and `ReadValue`
are the round trips of `result_for`, each its own step with any step of JobQueue in
between. **JobContract** is what the API promises, without broker or round trips:
one life per job that only moves forward, and answers that are the life at the
instant they are given. It names one exception, `Outlive`, because the code has it:
a poll that found the job ended still has to read the rest of its record, and if that
expires first it may answer with a 500 or a generic failure. `Find` is what makes the
exception narrow: a poll of a job that has not ended, or was forgotten before the
poll began, is told nothing but its life.

**Page** puts the cards of `src/ui.py` around that reader. A card of a pending job
carries the request for the next one; a settled one carries none. `Ask`, `Read`
and `Deliver` are a poll, `Retry` to `Replace` the Retry button and its handler
with the limits first, `Remove` and `Removed` the Remove button, `Lose` a request
that ends in a 500 or is dropped. htmx is external: an answer replaces the article
that sent it and does nothing if that has gone; a 500 is not swapped in. That is
also why a Remove whose article a poll has just replaced is answered and removes
nothing: the article it was sent from is no longer there.

**Admission** is `admit` and the enqueue that follows, run by concurrent handlers;
`EnqueueSweep` is the cron, which asks nobody and counts towards the depth. Any
round trip may fail: both checks then fail open, and an enqueue that fails may have
been executed. One whose reply times out is made again (`retry_on_timeout`):
`RepeatRate` and `RepeatEnqueue` are executions before the one that is answered, so a
202 may have pushed its id more than once. **Submission** is every handler that
queues a job, in the order each runs: the API checks, admits, stores and pushes; the
interface stores an upload first. Its steps are Admission's plus what comes before
and after; the limits carry over by construction (`Simulates`), and what is checked
of it is what Admission does not have: pictures, routes and answers.

**Loading**, **Detection** and **Choreography** are the parts of a task, and
**Processing** is `process_image` around them. Loading is `fetch_url` and `decode`:
each blocking call takes up to `LongCall` ticks of an honest server or of the
resolver, a server may add up to `MaxDrip` to any call it answers (`Hear`) by
dripping bytes, and the deadline is looked at between calls, as in the code.
Detection is integer arithmetic in the code's roundings: the factor of the shrunk
picture, a pass that doubles it, the box back on the original, the glasses over the
eyes, the same on the GIF. Faces are upright and one axis of a box is modelled, the
other being treated alike. Choreography is the frames: sorted sprites, staggered
starts, a quadratic fall, the caption. Processing has `WriteBefore` on the second
thread, every write that may fail (`Put`), `CallRaises` for an exception from
anywhere (the death penalty too), `Unwind` and `LeavePool` for the `except` and the
end of the pool's `with`.

**Reaping** is the decision of `blobs.reap` over a snapshot: expiry, ceiling,
floor. `Doomed` is the set of all answers it may give; equal mtimes make more than
one. It is characterised rather than looped: the oldest first, none below the
floor, and not one more than the ceiling asks for.

**BlobStore** is the store used directly from threads, at system-call
granularity: `MakeDir`, `WriteTemp`, `Replace`, `LinkFile` of a writer; of a sweep
`ListRoot`, `OpenDir` and `MeasureDir`, which are `usage()` with its `except
FileNotFoundError: continue`, then `Decide`, and `ListDir`, `Unlink` and `RemoveDir` of
one `rmtree` after another. The stats of one directory's files are one step, in which
a file that has gone may or may not have been seen in time; a directory is opened by
name at each of `rmtree`'s steps, where the library may hold a descriptor of the one
it listed: the model then removes more than the code, not less.

**Pictures** is a job's life in the store when the store is the service, whose
handlers run one at a time: a put, a link and a reap are each one step. The image
files of one write are one name ("result" stands for full, view, card and the
downloads). The ceiling may take the pictures of a job that has finished, too:
`config.py` and `api.py` say so, and `evicted` remembers it, so that the
properties can speak of the rest. A finished job whose record has expired is
`lapsed`: the broker has forgotten it, and its links must still work until the
`expires_at` it was given.

**StoreClient** is the shared connection of `h3.py` against the routes of
`store.py`. A step is what the loop does between two awaits: when a connection ends,
every request on it is failed in one callback and resumes, in order, before the loop
reads the network again, so that is one step. `GiveUp` is a request's timeout or the
caller's own, which cancels it; a request given up may still be executed. Cancelled
while it is connecting, a call leaves its handshake behind (`Abandon`): only
`TimeoutError` closes the protocol. Such a stray may succeed, and is then an open
connection the client knows nothing of (`orphans`), until it goes idle. A connection
the store no longer knows ends by its idle timeout, which is longer than a
request's.

## 3. Runs

| Run | Checks | Shows |
|---|---|---|
| `job_queue` | OneRunPerJob, OnePlace, AbandonedMeansGone, RecordLifetime, AheadNeverGrows, ImplementsContract | Two jobs, two threads, two crashes, a polling client: a waiting job is in exactly one place, is started at most once, only moves up; an abandoned one is in nobody's hands; a record has an expiry exactly when its job has ended; polls of up to four round trips answer as JobContract says |
| `worker_process` | TypeOKProcess, NoLostJob, EveryJobGetsItsTime, EveryRecordExpires, DeadThreadShows | Deploys or a kill, and threads dying one by one, with enqueues executed twice and calls that stick: no queued job is out of reach, no running one is cut short of its timeout, every record leaves the (`noeviction`) broker, a dead thread shows in the health check, in a process that follows a killed one too |
| `job_reader_stuck` (violation) | AbandonedIsFinal | With a sticking native call a client is told "abandoned", then "finished" |
| `page` | TypeOKPage, StartedSettlesUnattended, EveryCardSettles | A started card settles on the clock alone, with every worker dead; with workers, every card whose chain of polls was not cut settles |
| `submission` | TypeOKSubmission, RateHolds, DepthBounded, AnswerIsTrue, PictureBeforeJob, LeftoversAreUploads | The rate is exact and the depth overshot by the other handlers, plus one for each round trip that failed or was repeated; a 202 has a job; a picture is stored before its job is pushed; only an upload turned away, or an error, leaves a picture without one |
| `processing` | TypeOKProcessing, DialsOnlyChecked, OverInTime, NothingInFlight, ResultIsWhole, FoundWhereTheyAre, LandsWhereDrawn, Timeline | One task, every way out: only checked addresses are dialled, the fetch ends within two calls of its deadline but for what a server drips away, nothing is in flight at the end, what is named is there, boxes are on the faces and glasses on the eyes after every change of scale, the GIF's frames fall in order |
| `fetch_drips` (violation) | DripsAreCut | A server that drips bytes holds a download past its deadline |
| `blob_store` | TypeOK, YoungWritesComplete, SweepRestoresCeiling, StoreDrains | Two sweeps and a writer: a write in a directory no sweep may take completes; a sweep nothing wrote during brings what it measured under the ceiling; the disk empties once writes stop |
| `blob_store_floor` (violation) | FloorHolds | A ceiling eviction deletes what was written after its snapshot |
| `pictures` | TypeOK, SourceSpared, ResultLasts, SharedIsWhole | Only the ceiling, past its floor, takes a waiting job's source; what it did not take lasts as long as the record and `expires_at` promise; a share page is all or nothing |
| `pictures_queued` (violation) | SourceKept | The ceiling evicts the source of a job that waited `2 * job_timeout` |
| `store_client` | TypeOK, OneConnection, RepeatSucceeds, NeverWedged | Drops, stops, restarts, slow answers and cancelled handshakes: the client forgets no connection it made, and never uses one it did not; a put or link sent twice is answered as the first was, and the client finds its way back |

The four violations are disagreements between a comment or a document and what
the code does; `PROJECT.json` quotes the lines.

**Bounds.** Two jobs and two threads give every pairwise interference (a third job
only lengthens the queue, a third thread repeats a role). `JobTimeout` 2, `Grace` 1,
`Slack` 2 keep the order of the thresholds (timeout < abandoned < reaped) with room
for a tick between any two. Two crashes let a crash hit the run after a restart.
`job_queue` has `MayResend` and `MayStick` off: what it checks is said of pipelines
that are executed once. One of its two jobs has a client: polls of different jobs
share nothing but the broker, which they only read. `worker_process` has one job,
which a resent pipeline puts in two threads at once; the process goes down once and
threads die at one other moment, each with a bound of its own, so that the
registrations of a killed process and a dead thread of the next one are there
together; its `JobTimeout` and TTLs are 1, the smallest at which a job that has had
its time differs from one that has not. The page has one card, with a crash, one
failed request and two threads that may stick; cards share nothing but the reader.
In Submission two handlers of one client, limits of 1 and three requests meet and
pass every limit; `MaxErrors` is 2, and `MaxWaiting` (5) is above what DepthBounded
allows (4), so it is not the bound that makes it hold. Several clients are covered
by the proof. In Processing two redirects (a chain that pins, is redirected, pins
again and is given up), two public addresses and a private one; `Deadline` 2,
`LongCall` 1 and `MaxDrip` 2 let a call straddle the deadline and a server drip past
it; four pictures (shrunk for the detector, tall with odd sides, a strip, one that
is not shrunk) and three faces, one over each edge. In the store two directories
give an older and a younger one, and `MaxBytes` 1 is a ceiling that one file fits
and two do not; the store may hold any of its files to begin with, so that the one
write of the instance meets directories of every age; two sweepers are the
concurrency two scheduled sweeps can have. In Pictures a job weighs 5 or 6 files, so
a `MaxBytes` of 6 is exceeded by two jobs; `Patience` bounds the wait in the queue
at the floor, where `SourceKept` turns, and `Patience + RunTime <= BlobTtl`, so that
no job expires while it waits. In StoreClient two callers, one put and one link of
what it put, and two faults (a drop, a stop, a slow answer or a cancelled handshake
each), which is what it takes to lose a connection during another's retry, or to
have an orphan when the client reconnects; `get` and `exists` change nothing and are
left out of the instance.

**Deadlock** is checked in every run: time, or the arrival of requests, can always
go on, and the one task of Processing stands still only when it is over (`Ended`).

**Fairness.** Weak only; crashes, submissions and outcomes are never assumed.
`worker_process`: threads run, maintenance is due every `REAP_INTERVAL`, redis-py
does retry, the main thread polls, the container has a restart policy
(`docs/LOAD.md`), registrations have a TTL, time passes. `page`: requests are
answered and time passes (`PageFairness`); only `EveryCardSettles` assumes the
workers, as its own hypothesis (`WorkerFairness`), while `StartedSettlesUnattended`
assumes nothing of them. `blob_store`: the cron sweeps, a write that has begun goes
on, time passes. `store_client`: the loop runs and, for each caller at work, one of what
it waits for comes to pass: the lock, the handshake, its answer, or the timer of a
wait that is hopeless (`Moves`); dead connections go idle, the store is restarted; that
every caller keeps calling is the hypothesis of `NeverWedged`.

## 4. Proofs

All for arbitrary sets of jobs, threads, clients, handlers, callers, hosts,
directories and pictures, any timeouts and any number of faults, from the named
ASSUMEs of the modules (the constants are naturals of the right sign, the TTLs are
in the order the settings enforce, the set of handlers is finite).

| Theorem | Assumes besides | States |
|---|---|---|
| `JobQueueProofs!TypeCorrect`, `NeverLost` | | `Spec => []TypeOK`, `[]NoLostJob` |
| `JobQueueProofs!InOnePlace`, `StartedAtMostOnce`, `ExpiryMeansEnded`, `OnlyMovesUp` | no lost reply | `[]OnePlace`, `[]OneRunPerJob`, `[]RecordLifetime`, `AheadNeverGrows` |
| `JobQueueProofs!AbandonedIsGone` | no lost reply, no sticking call | `[]AbandonedMeansGone` |
| `ReaderProofs!KeepsContract`, `AbandonedForGood` | no lost reply, no sticking call | `SpecReader => ImplementsContract`, `AbandonedIsFinal` |
| `ReaderProofs!PageTypeCorrect` | no lost reply | `SpecPage => []TypeOKPage` |
| `WorkerProcessProofs!ProcessTypeCorrect`, `ProcessNeverLoses` | | `SpecProcess => []TypeOKProcess`, `[]NoLostJob` |
| `WorkerProcessProofs!DeploysLeaveTime` | | `SpecProcess => EveryJobGetsItsTime` |
| `SubmissionProofs!TypeCorrect`, `RateLimited`, `DepthIsBounded` | | `Spec => []TypeOK`, `[]RateHolds`, `[]DepthBounded` (of Admission) |
| `SubmissionProofs!LimitsHold` | | `SpecSubmission => [](RateHolds /\ DepthBounded)` |
| `SubmissionProofs!SubmissionTypeCorrect`, `AnswersAreTrue`, `PicturesComeFirst`, `OnlyUploadsAreLeft` | | `[]TypeOKSubmission`, `[]AnswerIsTrue`, `[]PictureBeforeJob`, `[]LeftoversAreUploads` |
| `ProcessingProofs!OnlyCheckedAreDialled`, `FetchIsOverInTime` | | `SpecProcessing => []DialsOnlyChecked`, `[]OverInTime` |
| `ProcessingProofs!NothingIsInFlight`, `ResultsAreWhole`, `ProcessingTypeCorrect` | | `[]NothingInFlight`, `[]ResultIsWhole`, `[]TypeOKProcessing` |
| `ProcessingProofs!FoundInPlace` | `Reports` | `[]FoundWhereTheyAre` |
| `ProcessingProofs!LandsInPlace` | `Reports`, `ReachThePicture` | `[]LandsWhereDrawn` |
| `ProcessingProofs!FallIsStaggered` | `LandsNear` | `[]Timeline` |
| `BlobStoreProofs!TypeCorrect`, `WritesComplete`, `CeilingRestored` | | `Spec => []TypeOK`, `[]YoungWritesComplete`, `SweepRestoresCeiling` |
| `PicturesProofs!TypeCorrect` | | `Spec => []TypeOK` |
| `PicturesProofs!ShareIsWhole`, `ResultOutlasts` | `RunTime <= BlobTtl` | `[]SharedIsWhole`, `[]ResultLasts` |
| `PicturesProofs!QueuedIsSpared` | `Unhurried` | `[]SourceSpared` |
| `StoreClientProofs!TypeCorrect`, `OneConnectionHolds`, `RepetitionsSucceed` | | `Spec => []TypeOK`, `[]OneConnection`, `[]RepeatSucceeds` |

Every safety property of a passing run is a theorem. What some of them assume
besides:

- **No lost reply, no sticking call** (`~MayResend`, `~MayStick`). What the code
  takes for granted: the docstring of `_abandoned` relies on the death penalty, and
  a second execution of an enqueue by redis-py is nowhere considered. The run
  `job_reader_stuck` shows that the second one is needed.
- **`RunTime <= BlobTtl`**: a run, which `job_timeout` ends, is over within
  `blob_ttl`; **`Unhurried`**: a wait in the queue and a run are, together. The
  defaults are two minutes and an hour. No validator compares them, and a long queue
  of slow jobs can make one wait longer, so these are hypotheses of the theorems and
  not assumptions of the module; the instance of `pictures` satisfies both. Neither
  can be dropped: with a `RunTime` above `BlobTtl` TLC finds a sweep in the middle of a
  run that leaves a `meta.json` naming pictures already gone, and with a longer wait
  a source that expires in the queue.
- **`Reports`**: the box of a face overlaps the picture the detector was given, and
  its eyes are no further outside than the picture is wide. **`ReachThePicture`**:
  the glasses lie no further above or below the picture than it is tall. A network
  can answer anything; these say what `FoundWhereTheyAre` and `LandsWhereDrawn` need
  of the answer, and no more of it.
- **`LandsNear`**: the lower edge of the glasses on the GIF is no higher than the
  margin above its top edge that they fall from, and not below line 1215. The
  animation is 640 pixels wide at most; this fails for a picture about 1280 times
  as tall as wide. TLC evaluates all three on the faces of the instance
  (`FacesReported`).

`NoLostJob` is inductive relative to the types: the pop moves an id from the list
into a hand, the crash from the hand into the intermediate list, and maintenance
drops it from there only with its status. In WorkerProcess every step is one of
JobQueue's, or an exit, a signal or a dying thread (`QueueSteps`), so only those
three are new.

`OneRunPerJob` is not inductive: that a job is started once follows from its id
being in one place, and that it stays so from the records (a job with an expiry
has ended, so no queued record can lapse under its id, and no running job is
queued). `Once` is the conjunction of the three: `OnePlace`, `Records`, nothing
awaiting a reply.

`AheadNeverGrows` uses two facts: the list changes only by a push at its end or a
pop of its head (`QueueMoves`), and in a list without repetitions LPOS has one
answer (`OnlyPlace`).

`AbandonedMeansGone` needs `Prompt`: a thread's penalty timer has not passed the
timeout, and the record's `started_at` is no older than the timer.

`ImplementsContract` is a step simulation over the same invariants: a step of the
broker moves one job's life forward or is none, and an answer is true of the instant
of the round trip that decided it, or the poll had found the job ended (`asking`)
and its record is gone: what an unfinished poll has read so far is of a job that has
ended, and of one that has ended nothing but its forgetting is left.
`AbandonedIsFinal` adds that what was called abandoned is in nobody's hands
(`AbandonedMeansGone`) and so ends only in maintenance.

`EveryJobGetsItsTime` is about threads that are running. It needs `InTime`: while the
process drains, what a thread has run and what is left of the grace add up to the
timeout, for every thread that was at a job when the flag was set. A job popped and
not started when nobody else is busy is dropped at once, and `NoLostJob` says only that
maintenance still finds it.

`RateHolds` needs `Counted`: the counter counts the requests admitted, but for those
a failed round trip let through; one counted twice only makes it larger.
`DepthBounded` needs `Room`: the queue and the handlers in flight together stay within
the bound, and a repeated pipeline raises both sides by one.

`AnswerIsTrue`, `PictureBeforeJob` and `LeftoversAreUploads` are read off `Orderly`, which
says of every task, alone, what it has stored, pushed and been told at each stage,
and that a handler is in the hands of the limits exactly between asking and its
answer. The limits are inherited (`LimitsHold`).

`DialsOnlyChecked` needs `Pinned`: whatever is pinned is public, and whoever is to
be dialled is pinned. `OverInTime` needs `Timed`: less what was dripped away, only a
redirect's resolution may come on top of a call that ran over the deadline.
`NothingInFlight` needs `Flight`: the second thread is at work only while its task
is in the pool. `ResultIsWhole` needs `Written`: what is stored and what is named at
every stage after the pool.

`FoundWhereTheyAre` and `LandsWhereDrawn` are arithmetic: `round`, `int` and `//` as
inequalities on products, one change of scale at a time, with the rounding each
adds (`Deviation`, `Scaled`, `Carried`, `Drifts`). The factor of the shrunk picture
is a fraction in lowest terms, so they need that `Gcd` divides, and that needs
induction. It is done by least counterexample: a set of naturals that is not empty
has a least element (`Least`), from the library's well-foundedness of `<`, which takes
no operator as a parameter. `GcdUnfolds` exhibits a solution of the recursive
definition (the best common divisor), without which the definition says nothing.
`Timeline` needs `Falling`, that the sprites being drawn are the arranged glasses of
the faces found; the rest is the monotonicity of the fall.

`YoungWritesComplete` needs `AllSafe`: the directory of a write that is not at risk is
there, is too young for any sweep, and is in no sweep's list. Every entry of such a
list was ripe when it was measured (`SweepsMarkTheRipe`), a directory that is touched
only gets younger (`YoungerStill`), and what no sweep has marked no step of a sweep
touches (`UnmarkedUntouched`). A write that starts in a directory that is of age, or
marked, or that comes of age meanwhile, is at risk (`risk`), and the run
`blob_store_floor` shows what may become of it.

`SweepRestoresCeiling` needs `Clearing`: while nothing is written, a sweep that
lists the store has still to see, has seen or has passed over every directory there
is, and none weighs more than it measured; what it then has not doomed is under the
ceiling or too young, and the directory it empties holds nothing it has not listed.
Other sweeps only take away, so it remains to be shown that a store that loses files
weighs no more (`WeighsNoMore`). The total is a fold; it is found by least
counterexample again, now over the subsets of a finite set (`Smallest`), to count
the units of weight (`TotalCounts`), and a smaller store has fewer. That the store
is finite is an invariant (`Finite`) rather than an assumption.

`SharedIsWhole` and `ResultLasts` need `Clocks` and `Storing`. The first relates a
directory's age to the job's `expires_at`, its record and its run; the second says
which writes are behind a job at each stage of its run, and what of them may be
missing. `SourceSpared` needs `Sparing`: until its source is loaded, a job's directory
is no older than the job has waited and run.

`OneConnection` needs `Locked`: whoever connects holds the lock and found no
connection alive; and `Numbered`: connections are numbered as they are made, so that
an orphan is never the one the next handshake returns. `RepeatSucceeds` needs
`Lasting`: what was executed would be answered ok again, since files only come until
a sweep. Both rest on `Shaped`: a caller waits for one stream, the one it sent its
request on.

**Model-checked only:** liveness (`EveryRecordExpires`, `DeadThreadShows`,
`StartedSettlesUnattended`, `EveryCardSettles`, `StoreDrains`, `NeverWedged`), which is
out of this prover's reach, as fairness and ENABLED are.

## 5. What the documents say and the model does not check

Met while modelling, plain from the code, and left in prose:

- `README.md` says everything under `/i/` stops existing at `expires_at`; the stamp
  is made before the last put and a sweep comes later, so it stops at the first
  sweep after.
- `docs/LOAD.md` says the submitted source is deleted on success; no code does that
  (a retry needs it).
- `src/config.py` says submissions are refused with "more than" `max_queue_depth`
  waiting; `check_queue_depth` refuses at exactly that many.
- `_abandoned`'s docstring speaks of a reaper that runs every ten minutes;
  `REAP_INTERVAL` makes it every minute, as `docs/LOAD.md` says.
- `_abandoned` says the death penalty enforces the timeout; `ThreadWorker` says it
  cannot interrupt a native call (the run `job_reader_stuck` shows the consequence).
- `README.md` says "An unknown or expired job id gives a `404`". A poll that finds the
  job ended and whose record expires before it has read the rest may be told a 500 or
  a failure instead (`Outlive` in JobContract); it is milliseconds wide, and the next
  poll says 404.
- `h3.py` says that "N threads asking at once are N streams on one connection". A
  caller cancelled during the handshake leaves an endpoint nothing closes, which may
  connect and stay open until it goes idle (`orphans` in StoreClient); no request ever
  goes out on it.
- An error while a body is read is raised outside `fetch_url`'s `try`: the job
  fails, where a message to the visitor is what the other errors get.
- `blobs.py` says an `immutable` picture can never outlive its file; a browser that
  fetches one late keeps it for `blob_ttl` from the fetch.
- Glasses are at least 16 pixels wide, on the GIF and on the finished picture, and
  the two have different scales: on a very small face the last frame of the GIF,
  which `place` calls "the picture the job produced", shows larger glasses than that.
- `exists` over HTTP/3 says False when the store does not answer, and a retry then
  tells the visitor that the picture is gone.
- A cron thread that dies is logged and nothing else: no health check counts it.

With a resent pipeline a job can run twice, its card can go back from finished to
queued, and a TTL of the first run can lapse while the id waits. Nothing in the
repository promises otherwise; `NoLostJob` and `EveryRecordExpires` are what still holds.

## 6. Plan

Done: the broker, its reader and process, the page, the handlers and their limits,
the task with its parts, the store, its client and its pictures; and a proof of
every safety property and of the refinement. What is left, in this order:

1. A disk under the service: BlobStore's writes driven by StoreClient's `Execute`.
2. The vertical side of a box and a tilted face in Detection.
3. `LandsNear` from the shape of the picture (see section 4).
4. `delete` and `forget` in BlobStore, if a caller appears.

## 7. Not modelled, and why

- The networks' answers, pixels, palettes, fonts and drawing: numerical code whose
  results are the inputs of Detection and Choreography. The rotation of a tilted
  face and the lean of a turned one are left out with them.
- Landing page, docs, share page's layout, theme and style; static assets and
  picture serving: they read state and change none but a cookie. What a browser
  caches is outside the repository.
- Settings, response models and errors are data. The rule `result_ttl <= blob_ttl`
  is an assumption of Pictures; the validators of a request are a flaw a
  Submission may have.
- The byte counter of the body limit: a sum compared with a limit, present as the
  refusal that comes before anything else.
- Proxies from the environment and `allow_private_addresses`, which is off by
  default, in Loading.
- The boundary of a rate window, where a request stamped in one window is counted
  in the next, is milliseconds wide and accepted by the docstring: reading the
  clock and the INCR are one step. Limits set to 0 and requests without a client
  address, which `throttle.py` does not limit.
- `delete`, `forget` and `usage` of the store, and `close()` of the client: neither
  tier calls them. The cron's thread. `meta` fields other than the progress.
