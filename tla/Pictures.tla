------------------------------- MODULE Pictures -------------------------------
(***************************************************************************)
(* Where a job's pictures are, from the upload to the share page: the      *)
(* submission of src/api.py and src/ui.py, process_image of src/tasks.py   *)
(* with the writes of src/derivatives.py, resubmit and shared_record of    *)
(* src/jobs.py, and the sweep.  The store is the service of src/store.py,  *)
(* whose handlers run one at a time on one event loop: a put, a link and a *)
(* whole reap are each one step.  BlobStore has the disk underneath.       *)
(***************************************************************************)
EXTENDS Reaping

CONSTANTS
  Ids,       \* job ids
  Uploads,   \* those submitted with a picture, not a URL
  Threads,   \* worker threads
  NoJob,     \* what an idle thread runs
  ResultTtl, \* settings.result_ttl = settings.failure_ttl, in ticks
  RunTime,   \* settings.job_timeout: how long a thread may have a job
  Patience   \* bound: ticks a job waits in the queue

\* The settings validator refuses a store that forgets before the broker, and
\* sweep_blobs passes twice the job timeout for the floor.  RQ refuses a timeout
\* of 0, and with a TTL of 0 would drop a job's record the moment it ends.
ASSUME PictureAssumption == /\ NoJob \notin Ids /\ Uploads \subseteq Ids
                            /\ ResultTtl \in Nat \ {0} /\ RunTime \in Nat \ {0}
                            /\ Patience \in Nat
                            /\ ResultTtl <= BlobTtl /\ MinAge = RunTime * 2

AgeCap == BlobTtl + 1
Names == {"source", "thumb", "before", "result", "animation", "meta"}

VARIABLES
  dirs, files, age, \* the store
  state,   \* what has become of each job; "lapsed": finished, and its record dropped
  origin,  \* the job a retry takes its picture from
  waited,  \* ticks a job has been waiting for a thread, or been with one
  ttl,     \* ticks the broker still keeps an ended job
  written, \* the pictures the job's result and meta.json name
  expires, \* ticks until the job's `expires_at`
  run,     \* what each thread is doing
  evicted  \* directories the ceiling took before their time (history)

store == <<dirs, files, age>>
vars == <<dirs, files, age, state, origin, waited, ttl, written, expires, run,
          evicted>>

States == {"unborn", "linking", "stored", "waiting", "running", "finished",
           "refused", "failed", "lapsed", "forgotten"}
Known == {"waiting", "running", "finished", "refused", "failed"}
Open == {"waiting", "running"}
NoRun == [job |-> NoJob, at |-> "idle", before |-> "none"]

Init ==
  /\ dirs = {} /\ files = [j \in Ids |-> {}] /\ age = [j \in Ids |-> 0]
  /\ state = [j \in Ids |-> "unborn"]
  /\ origin = [j \in Ids |-> NoJob]
  /\ waited = [j \in Ids |-> 0] /\ ttl = [j \in Ids |-> 0]
  /\ written = [j \in Ids |-> {}] /\ expires = [j \in Ids |-> 0]
  /\ run = [t \in Threads |-> NoRun]
  /\ evicted = {}

Weight == [d \in Ids |-> Cardinality(files[d])]

\* One request to the store: the file is there, and the directory is fresh.
Put(j, n) ==
  /\ dirs' = dirs \cup {j}
  /\ files' = [files EXCEPT ![j] = @ \cup {n}]
  /\ age' = [age EXCEPT ![j] = 0]

Become(j, s) == state' = [state EXCEPT ![j] = s]

-----------------------------------------------------------------------------
(* Submitting. *)

\* The bytes go into the store before anything is queued.
Store(j) ==
  /\ state[j] = "unborn" /\ j \in Uploads
  /\ Put(j, "source") /\ Become(j, "stored")
  /\ UNCHANGED <<origin, waited, ttl, written, expires, run, evicted>>

\* The interface asks for admission only now, so a refusal leaves the picture
\* in the store with no job to its name.
TurnAway(j) ==
  /\ state[j] = "stored" /\ origin[j] = NoJob
  /\ Become(j, "forgotten")
  /\ UNCHANGED <<dirs, files, age, origin, waited, ttl, written, expires, run, evicted>>

Enqueue(j) ==
  /\ state[j] = "stored" \/ (state[j] = "unborn" /\ j \notin Uploads)
  /\ Become(j, "waiting")
  /\ UNCHANGED <<dirs, files, age, origin, waited, ttl, written, expires, run, evicted>>

\* resubmit: any job the broker still knows, into a fresh id, if its picture
\* exists.  The link is a second request.
CheckRetry(i, j) ==
  /\ state[i] \in Known /\ i \in Uploads
  /\ state[j] = "unborn" /\ j \in Uploads
  /\ "source" \in files[i]
  /\ Become(j, "linking")
  /\ origin' = [origin EXCEPT ![j] = i]
  /\ UNCHANGED <<dirs, files, age, waited, ttl, written, expires, run, evicted>>

\* Mutant of LinkRetry: the failed link goes unnoticed and the job is queued.
LinkRetryBlindly(j) ==
  /\ state[j] = "linking"
  /\ dirs' = dirs \cup {j} /\ age' = [age EXCEPT ![j] = 0]
  /\ files' = [files EXCEPT ![j] = files[origin[j]] \cap {"source"}]
  /\ Become(j, "stored")
  /\ UNCHANGED <<origin, waited, ttl, written, expires, run, evicted>>

\* A picture swept since leaves the directory link had made, and a 500.
LinkRetry(j) ==
  /\ state[j] = "linking"
  /\ IF "source" \in files[origin[j]]
       THEN Put(j, "source") /\ Become(j, "stored")
       ELSE /\ dirs' = dirs \cup {j} /\ age' = [age EXCEPT ![j] = 0]
            /\ Become(j, "forgotten") /\ UNCHANGED files
  /\ UNCHANGED <<origin, waited, ttl, written, expires, run, evicted>>

-----------------------------------------------------------------------------
(* process_image, in a worker thread. *)

Step(t, at) == run' = [run EXCEPT ![t].at = at]

\* Mutant of End: the thread is not given back.
EndHolding(t, s) ==
  /\ Become(run[t].job, s)
  /\ ttl' = [ttl EXCEPT ![run[t].job] = ResultTtl]
  /\ waited' = [waited EXCEPT ![run[t].job] = 0]
  /\ run' = [run EXCEPT ![t].at = "idle"]

End(t, s) ==
  /\ Become(run[t].job, s)
  /\ ttl' = [ttl EXCEPT ![run[t].job] = ResultTtl]
  /\ waited' = [waited EXCEPT ![run[t].job] = 0]
  /\ run' = [run EXCEPT ![t] = NoRun]

Start(t, j) ==
  /\ run[t] = NoRun /\ state[j] = "waiting"
  /\ Become(j, "running")
  /\ waited' = [waited EXCEPT ![j] = 0]
  /\ run' = [run EXCEPT ![t] = [job |-> j, at |-> "load", before |-> "none"]]
  /\ UNCHANGED <<dirs, files, age, origin, ttl, written, expires, evicted>>

\* images.load: a picture that is no longer in the store is a refusal, and so
\* is one that cannot be fetched or decoded.
Load(t) ==
  LET j == run[t].job IN
  /\ run[t].at = "load"
  /\ \/ /\ j \in Uploads => "source" \in files[j]
        /\ Step(t, "thumb")
        /\ UNCHANGED <<state, ttl, waited>>
     \/ End(t, "refused")
  /\ UNCHANGED <<dirs, files, age, origin, written, expires, evicted>>

WriteThumb(t) ==
  /\ run[t].at = "thumb"
  /\ Put(run[t].job, "thumb")
  /\ run' = [run EXCEPT ![t].at = "draw", ![t].before = "pending"]
  /\ UNCHANGED <<state, origin, waited, ttl, written, expires, evicted>>

\* The Before half, on a second thread while the glasses are drawn.
WriteBefore(t) ==
  /\ run[t].before = "pending"
  /\ Put(run[t].job, "before")
  /\ run' = [run EXCEPT ![t].before = "done"]
  /\ UNCHANGED <<state, origin, waited, ttl, written, expires, evicted>>

\* Mutant of Draw: nothing waits for the second thread.
DrawAlone(t) ==
  /\ run[t].at = "draw"
  /\ \/ Step(t, "result") /\ UNCHANGED <<state, ttl, waited>>
     \/ End(t, "refused")
  /\ UNCHANGED <<dirs, files, age, origin, written, expires, evicted>>

\* Leaving the executor's block waits for it, whichever way call() went.
Draw(t) ==
  /\ run[t].at = "draw" /\ run[t].before = "done"
  /\ \/ Step(t, "result") /\ UNCHANGED <<state, ttl, waited>>
     \/ End(t, "refused")
  /\ UNCHANGED <<dirs, files, age, origin, written, expires, evicted>>

\* write_result: full, view, card and the downloads.
WriteResult(t) ==
  /\ run[t].at = "result"
  /\ Put(run[t].job, "result") /\ Step(t, "animate")
  /\ UNCHANGED <<state, origin, waited, ttl, written, expires, evicted>>

\* animate swallows its failures; then expires_at is stamped.
Animate(t) ==
  LET j == run[t].job
      stills == {"thumb", "before", "result"} IN
  /\ run[t].at = "animate"
  /\ \/ Put(j, "animation") /\ written' = [written EXCEPT ![j] = stills \cup {"animation"}]
     \/ UNCHANGED store /\ written' = [written EXCEPT ![j] = stills]
  /\ expires' = [expires EXCEPT ![j] = BlobTtl]
  /\ Step(t, "meta")
  /\ UNCHANGED <<state, origin, waited, ttl, evicted>>

WriteMeta(t) ==
  /\ run[t].at = "meta"
  /\ Put(run[t].job, "meta") /\ Step(t, "return")
  /\ UNCHANGED <<state, origin, waited, ttl, written, expires, evicted>>

Return(t) ==
  /\ run[t].at = "return"
  /\ End(t, "finished")
  /\ UNCHANGED <<dirs, files, age, origin, written, expires, evicted>>

\* A put that fails, a timeout or a crash: the job ends without a result,
\* leaving in the store what it had written.
Fail(t) ==
  /\ run[t].job # NoJob
  /\ End(t, "failed")
  /\ UNCHANGED <<dirs, files, age, origin, written, expires, evicted>>

Process(t) ==
  \/ \E j \in Ids : Start(t, j)
  \/ Load(t) \/ WriteThumb(t) \/ WriteBefore(t) \/ Draw(t) \/ WriteResult(t)
  \/ Animate(t) \/ WriteMeta(t) \/ Return(t) \/ Fail(t)

-----------------------------------------------------------------------------
(* The sweep, and time. *)

SweepBlobs ==
  /\ \E D \in Doomed(dirs, age, Weight) :
       /\ D # {}
       /\ dirs' = dirs \ D
       /\ files' = [j \in Ids |-> IF j \in D THEN {} ELSE files[j]]
       /\ evicted' = evicted \cup (D \ Expired(dirs, age))
  /\ UNCHANGED <<age, state, origin, waited, ttl, written, expires, run>>

\* No job waits longer than Patience, and the death penalty ends a run at
\* RunTime.  What the web tier does takes less than a tick, and so does
\* returning from the task once meta.json is in the store.
Tick ==
  /\ \A j \in Ids : /\ state[j] = "waiting" => waited[j] < Patience
                    /\ state[j] = "running" => waited[j] < RunTime
                    /\ state[j] \notin {"linking", "stored"}
  /\ \A t \in Threads : run[t].at # "return"
  /\ age' = [j \in Ids |-> IF j \in dirs /\ age[j] < AgeCap THEN age[j] + 1 ELSE age[j]]
  /\ waited' = [j \in Ids |-> IF state[j] \in Open THEN waited[j] + 1 ELSE waited[j]]
  /\ ttl' = [j \in Ids |-> IF ttl[j] > 0 THEN ttl[j] - 1 ELSE 0]
  /\ state' = [j \in Ids |-> IF ttl[j] # 1 THEN state[j]
                             ELSE IF state[j] = "finished" THEN "lapsed" ELSE "forgotten"]
  /\ expires' = [j \in Ids |-> IF expires[j] > 0 THEN expires[j] - 1 ELSE 0]
  /\ UNCHANGED <<dirs, files, origin, written, run, evicted>>

Next ==
  \/ \E j \in Ids : Store(j) \/ TurnAway(j) \/ Enqueue(j) \/ LinkRetry(j)
  \/ \E i, j \in Ids : CheckRetry(i, j)
  \/ \E t \in Threads : Process(t)
  \/ SweepBlobs \/ Tick

Spec == Init /\ [][Next]_vars

-----------------------------------------------------------------------------
(* Properties. *)

\* The type invariant; a thread's job is running and no other thread has it.
TypeOK ==
  /\ dirs \subseteq Ids /\ files \in [Ids -> SUBSET Names] /\ age \in [Ids -> 0..AgeCap]
  /\ state \in [Ids -> States] /\ origin \in [Ids -> Ids \cup {NoJob}]
  /\ waited \in [Ids -> Nat] /\ ttl \in [Ids -> 0..ResultTtl]
  /\ written \in [Ids -> SUBSET Names] /\ expires \in [Ids -> 0..BlobTtl]
  /\ \A t \in Threads :
       run[t] # NoRun => /\ run[t].job \in Ids /\ state[run[t].job] = "running"
                         /\ \A u \in Threads \ {t} : run[u].job # run[t].job

\* sweep_blobs: "Never evict something that may still be queued".  A waiting
\* job's picture is there until a thread has loaded it, a retry's included
\* though the directory it was linked from may be gone.
SourceKept ==
  \A j \in Uploads :
    \/ state[j] \in {"stored", "waiting"}
    \/ \E t \in Threads : run[t].job = j /\ run[t].at = "load"
    => "source" \in files[j]

\* What does hold of it: only the ceiling, and only past its floor, takes the
\* picture of a job that waits for a thread.
SourceSpared ==
  \A j \in Uploads :
    \/ state[j] \in {"stored", "waiting"}
    \/ \E t \in Threads : run[t].job = j /\ run[t].at = "load"
    => "source" \in files[j] \/ (j \in evicted /\ age[j] >= MinAge)

\* The settings validator: "A finished job whose pictures have been swept is a
\* card full of broken images".  What the broker calls finished is all there...
FinishedHasPictures(j) == state[j] = "finished" => written[j] \subseteq files[j]

\* ...and until `expires_at`, every link of a delivered result works, on the
\* share page after the broker has forgotten the job as well.
LinksLastUntilExpiry(j) ==
  state[j] \in {"finished", "lapsed"} /\ expires[j] > 0
    => written[j] \cup {"meta"} \subseteq files[j]

\* A result lasts as long as the record and the promise made with it, unless
\* the ceiling takes it.
ResultLasts == \A j \in Ids \ evicted : FinishedHasPictures(j) /\ LinksLastUntilExpiry(j)

\* A share page "lasts exactly as long as what it shows": while meta.json is
\* there, so is every picture it names, whatever the ceiling took.
SharedIsWhole == \A j \in Ids : "meta" \in files[j] => written[j] \subseteq files[j]
=============================================================================
