----------------------------- MODULE PicturesProofs -----------------------------
(***************************************************************************)
(* Proofs about Pictures, for any number of jobs, uploads and threads, any *)
(* ceiling and any TTLs that the settings validator lets through.          *)
(***************************************************************************)
EXTENDS Pictures, TLAPS

Stages == {"load", "thumb", "draw", "result", "animate", "meta", "return"}
Ended == {"finished", "refused", "failed"}
Runs == {NoRun} \cup [job : Ids, at : Stages, before : {"none", "pending", "done"}]

\* The type invariant, with the threads, and the directory every file is in.
Typed ==
  /\ TypeOK
  /\ run \in [Threads -> Runs] /\ evicted \subseteq Ids
  /\ \A j \in Ids : files[j] # {} => j \in dirs

\* How long a job has been where it is, and that a record expires when its job
\* has ended.
Clock(j) ==
  /\ state[j] \notin Open => waited[j] = 0
  /\ state[j] = "waiting" => waited[j] <= Patience
  /\ state[j] = "running" => waited[j] <= RunTime
  /\ state[j] \in Ended => ttl[j] > 0
  /\ state[j] \notin Ended => ttl[j] = 0

Clocks == \A j \in Ids : Clock(j)

-----------------------------------------------------------------------------
(* The operators. *)

\* A sweep drops directories of the store, each expired or past the floor.
LEMMA DoomedFacts ==
  ASSUME NEW ds, NEW ages, NEW weights, NEW D \in Doomed(ds, ages, weights)
  PROVE  /\ D \subseteq ds
         /\ \A d \in D : ages[d] > BlobTtl \/ (ages[d] >= MinAge /\ d \notin Expired(ds, ages))
<1>1. PICK E \in SUBSET (ds \ Expired(ds, ages)) :
        /\ D = Expired(ds, ages) \cup E
        /\ Evictable(ds \ Expired(ds, ages), ages, weights, E)
  BY DEF Doomed
<1>2. \A d \in E : ages[d] >= MinAge /\ d \notin Expired(ds, ages)
  BY <1>1 DEF Evictable
<1>3. QED
  BY <1>1, <1>2 DEF Expired

\* What a request to the store does to it.
LEMMA PutFacts ==
  ASSUME Typed, NEW j \in Ids, NEW n \in Names, Put(j, n)
  PROVE  /\ dirs' \subseteq Ids /\ files' \in [Ids -> SUBSET Names] /\ age' \in [Ids -> 0..AgeCap]
         /\ \A k \in Ids : files'[k] # {} => k \in dirs'
         /\ files'[j] = files[j] \cup {n} /\ age'[j] = 0 /\ j \in dirs'
         /\ \A k \in Ids \ {j} : /\ files'[k] = files[k] /\ age'[k] = age[k]
                                 /\ k \in dirs' <=> k \in dirs
<1>1. 0 \in 0..AgeCap
  BY ReapAssumption DEF AgeCap
<1>2. QED
  BY <1>1 DEF Typed, TypeOK, Put

\* What a thread that is busy is busy with.
LEMMA BusyRun ==
  ASSUME Typed, NEW t \in Threads, run[t] # NoRun
  PROVE  /\ run[t] \in [job : Ids, at : Stages, before : {"none", "pending", "done"}]
         /\ run[t].job \in Ids /\ run[t].at \in Stages
         /\ run[t].before \in {"none", "pending", "done"}
         /\ state[run[t].job] = "running"
         /\ \A u \in Threads \ {t} : run[u].job # run[t].job
<1>1. run[t] \in Runs
  BY DEF Typed
<1>2. run[t] \in [job : Ids, at : Stages, before : {"none", "pending", "done"}]
  BY <1>1 DEF Runs
<1>3. QED
  BY <1>2 DEF Typed, TypeOK

\* A thread is idle exactly when it has no job.
LEMMA IdleRun ==
  ASSUME Typed, NEW t \in Threads
  PROVE  /\ run[t] = NoRun <=> run[t].job = NoJob
         /\ run[t] = NoRun => run[t].at = "idle" /\ run[t].before = "none"
         /\ run[t].at # "idle" \/ run[t].before # "none" => run[t] # NoRun
<1>1. run[t] = NoRun => run[t].job = NoJob /\ run[t].at = "idle" /\ run[t].before = "none"
  BY DEF NoRun
<1>2. run[t] # NoRun => run[t].job # NoJob
  BY BusyRun, PictureAssumption
<1>3. QED
  BY <1>1, <1>2

\* A thread that goes on with its job.
LEMMA GoOn ==
  ASSUME Typed, NEW t \in Threads, run[t] # NoRun, NEW a \in Stages,
         NEW b \in {"none", "pending", "done"},
         run' = [run EXCEPT ![t] = [job |-> run[t].job, at |-> a, before |-> b]],
         state'[run[t].job] = "running",
         \A k \in Ids : state[k] = "running" => state'[k] = "running"
  PROVE  /\ run' \in [Threads -> Runs]
         /\ \A u \in Threads : run'[u] # NoRun =>
              /\ run'[u].job \in Ids /\ state'[run'[u].job] = "running"
              /\ \A v \in Threads \ {u} : run'[v].job # run'[u].job
<1> DEFINE r == [job |-> run[t].job, at |-> a, before |-> b]
<1>1. run[t].job \in Ids /\ \A u \in Threads \ {t} : run[u].job # run[t].job
  BY BusyRun
<1>2. r \in Runs /\ r.job = run[t].job
  BY <1>1 DEF Runs
<1>3. run'[t] = r /\ \A u \in Threads \ {t} : run'[u] = run[u]
  BY DEF Typed
<1>4. run' \in [Threads -> Runs]
  BY <1>2 DEF Typed
<1>5. \A u \in Threads : run'[u].job = run[u].job
  BY <1>2, <1>3
<1>6. \A u \in Threads : run'[u] # NoRun => run[u] # NoRun
  BY <1>3
<1>7. QED
  BY <1>4, <1>5, <1>6, BusyRun

\* A thread that lets go of its job.
LEMMA LetGo ==
  ASSUME Typed, NEW t \in Threads, run[t] # NoRun, NEW s \in Ended, End(t, s)
  PROVE  /\ run' \in [Threads -> Runs]
         /\ state' \in [Ids -> States] /\ ttl' \in [Ids -> 0..ResultTtl] /\ waited' \in [Ids -> Nat]
         /\ \A u \in Threads : run'[u] # NoRun =>
              /\ run'[u].job \in Ids /\ state'[run'[u].job] = "running"
              /\ \A v \in Threads \ {u} : run'[v].job # run'[u].job
         /\ state'[run[t].job] = s /\ ttl'[run[t].job] = ResultTtl /\ waited'[run[t].job] = 0
         /\ run'[t] = NoRun /\ \A u \in Threads \ {t} : run'[u] = run[u]
         /\ \A k \in Ids \ {run[t].job} : /\ state'[k] = state[k] /\ ttl'[k] = ttl[k]
                                          /\ waited'[k] = waited[k]
<1> DEFINE j == run[t].job
<1>1. j \in Ids /\ \A u \in Threads \ {t} : run[u].job # j
  BY BusyRun
<1>2. /\ run'[t] = NoRun /\ \A u \in Threads \ {t} : run'[u] = run[u]
      /\ run' \in [Threads -> Runs]
  BY DEF Typed, End, Runs
<1>3. /\ state' \in [Ids -> States] /\ ttl' \in [Ids -> 0..ResultTtl] /\ waited' \in [Ids -> Nat]
      /\ state'[j] = s /\ ttl'[j] = ResultTtl /\ waited'[j] = 0
      /\ \A k \in Ids \ {j} : /\ state'[k] = state[k] /\ ttl'[k] = ttl[k] /\ waited'[k] = waited[k]
  BY <1>1, PictureAssumption DEF Typed, TypeOK, End, Become, Ended, States
<1>4. ASSUME NEW u \in Threads, run'[u] # NoRun
      PROVE  /\ run'[u].job \in Ids /\ state'[run'[u].job] = "running"
             /\ \A v \in Threads \ {u} : run'[v].job # run'[u].job
  <2>1. u # t /\ run'[u] = run[u] /\ run[u] # NoRun
    BY <1>2, <1>4
  <2>2. run[u].job \in Ids /\ run[u].job # j /\ state[run[u].job] = "running"
        /\ \A v \in Threads \ {u} : run[v].job # run[u].job
    BY <1>1, <2>1, BusyRun
  <2>3. NoJob # run[u].job
    BY <2>2, PictureAssumption
  <2>4. \A v \in Threads \ {u} : run'[v].job # run[u].job
    BY <1>2, <2>2, <2>3 DEF NoRun
  <2>5. QED
    BY <1>3, <2>1, <2>2, <2>4
<1>5. QED
  BY <1>2, <1>3, <1>4

\* The ways a thread's stage is written, as one record.
LEMMA StepFacts ==
  ASSUME Typed, NEW t \in Threads, run[t] # NoRun, NEW a, NEW b
  PROVE  /\ [run EXCEPT ![t].at = a]
              = [run EXCEPT ![t] = [job |-> run[t].job, at |-> a, before |-> run[t].before]]
         /\ [run EXCEPT ![t].before = b]
              = [run EXCEPT ![t] = [job |-> run[t].job, at |-> run[t].at, before |-> b]]
         /\ [run EXCEPT ![t].at = a, ![t].before = b]
              = [run EXCEPT ![t] = [job |-> run[t].job, at |-> a, before |-> b]]
<1> DEFINE R == [job : Ids, at : Stages, before : {"none", "pending", "done"}]
<1>1. run[t] \in R
  BY BusyRun
<1>2. run \in [Threads -> Runs]
  BY DEF Typed
<1>3. ASSUME NEW r \in R PROVE [r EXCEPT !.at = a] = [job |-> r.job, at |-> a, before |-> r.before]
  OBVIOUS
<1>4. ASSUME NEW r \in R PROVE [r EXCEPT !.before = b] = [job |-> r.job, at |-> r.at, before |-> b]
  OBVIOUS
<1>5. ASSUME NEW r \in R
      PROVE  [r EXCEPT !.at = a, !.before = b] = [job |-> r.job, at |-> a, before |-> b]
  <2>1. [r EXCEPT !.at = a, !.before = b] = [[r EXCEPT !.at = a] EXCEPT !.before = b]
    OBVIOUS
  <2>2. [r EXCEPT !.at = a] = [job |-> r.job, at |-> a, before |-> r.before]
    BY <1>3
  <2>3. [[job |-> r.job, at |-> a, before |-> r.before] EXCEPT !.before = b]
          = [job |-> r.job, at |-> a, before |-> b]
    OBVIOUS
  <2>4. QED
    BY <2>1, <2>2, <2>3
<1>6. [run EXCEPT ![t].at = a] = [run EXCEPT ![t] = [run[t] EXCEPT !.at = a]]
  BY <1>2
<1>7. [run EXCEPT ![t].before = b] = [run EXCEPT ![t] = [run[t] EXCEPT !.before = b]]
  BY <1>2
<1>8. [run EXCEPT ![t].at = a, ![t].before = b]
        = [run EXCEPT ![t] = [run[t] EXCEPT !.at = a, !.before = b]]
  BY <1>2
<1>9. QED
  BY <1>1, <1>3, <1>4, <1>5, <1>6, <1>7, <1>8

-----------------------------------------------------------------------------
(* Types. *)

LEMMA InitTyped == Init => Typed
BY PictureAssumption, ReapAssumption DEF Init, Typed, TypeOK, AgeCap, States, Runs, NoRun, Ended

\* A thread's step that leaves its job running.
LEMMA WorkTyped ==
  ASSUME Typed, NEW t \in Threads, run[t] # NoRun, NEW a \in Stages,
         NEW b \in {"none", "pending", "done"},
         run' = [run EXCEPT ![t] = [job |-> run[t].job, at |-> a, before |-> b]],
         UNCHANGED <<state, origin, waited, ttl, evicted>>,
         UNCHANGED store \/ \E n \in Names : Put(run[t].job, n),
         written' \in [Ids -> SUBSET Names], expires' \in [Ids -> 0..BlobTtl]
  PROVE  Typed'
<1>1. run[t].job \in Ids /\ state[run[t].job] = "running"
  BY BusyRun
<1>2. /\ run' \in [Threads -> Runs]
      /\ \A u \in Threads : run'[u] # NoRun =>
           /\ run'[u].job \in Ids /\ state'[run'[u].job] = "running"
           /\ \A v \in Threads \ {u} : run'[v].job # run'[u].job
  BY <1>1, GoOn
<1>3. /\ dirs' \subseteq Ids /\ files' \in [Ids -> SUBSET Names] /\ age' \in [Ids -> 0..AgeCap]
      /\ \A k \in Ids : files'[k] # {} => k \in dirs'
  <2>1. CASE UNCHANGED store
    BY <2>1 DEF store, Typed, TypeOK
  <2>2. ASSUME NEW n \in Names, Put(run[t].job, n)
        PROVE  /\ dirs' \subseteq Ids /\ files' \in [Ids -> SUBSET Names]
               /\ age' \in [Ids -> 0..AgeCap]
               /\ \A k \in Ids : files'[k] # {} => k \in dirs'
    BY <1>1, <2>2, PutFacts
  <2>3. QED
    BY <2>1, <2>2
<1>4. QED
  BY <1>2, <1>3 DEF Typed, TypeOK

\* A thread's step that ends its run.
LEMMA EndTyped ==
  ASSUME Typed, NEW t \in Threads, run[t] # NoRun, NEW s \in Ended, End(t, s),
         UNCHANGED <<dirs, files, age, origin, written, expires, evicted>>
  PROVE  Typed'
BY LetGo DEF Typed, TypeOK

\* A step that starts or ends no run.
LEMMA RestTyped ==
  ASSUME Typed, UNCHANGED <<run, evicted>>,
         \A k \in Ids : state[k] = "running" => state'[k] = "running",
         state' \in [Ids -> States], origin' \in [Ids -> Ids \cup {NoJob}],
         waited' \in [Ids -> Nat], ttl' \in [Ids -> 0..ResultTtl],
         written' \in [Ids -> SUBSET Names], expires' \in [Ids -> 0..BlobTtl],
         dirs' \subseteq Ids, files' \in [Ids -> SUBSET Names], age' \in [Ids -> 0..AgeCap],
         \A k \in Ids : files'[k] # {} => k \in dirs'
  PROVE  Typed'
<1>1. \A u \in Threads : run[u] # NoRun =>
        /\ run[u].job \in Ids /\ state'[run[u].job] = "running"
        /\ \A v \in Threads \ {u} : run[v].job # run[u].job
  BY BusyRun
<1>2. QED
  BY <1>1 DEF Typed, TypeOK

LEMMA NextTyped == Typed /\ Clocks /\ [Next]_vars => Typed'
<1> SUFFICES ASSUME Typed, Clocks, [Next]_vars PROVE Typed'
  OBVIOUS
<1>a. /\ dirs \subseteq Ids /\ files \in [Ids -> SUBSET Names] /\ age \in [Ids -> 0..AgeCap]
      /\ state \in [Ids -> States] /\ origin \in [Ids -> Ids \cup {NoJob}]
      /\ waited \in [Ids -> Nat] /\ ttl \in [Ids -> 0..ResultTtl]
      /\ written \in [Ids -> SUBSET Names] /\ expires \in [Ids -> 0..BlobTtl]
      /\ \A k \in Ids : files[k] # {} => k \in dirs
  BY DEF Typed, TypeOK
<1>b. "source" \in Names /\ AgeCap \in Nat /\ AgeCap = BlobTtl + 1 /\ BlobTtl \in Nat /\ ResultTtl \in Nat
  BY ReapAssumption, PictureAssumption DEF Names, AgeCap
<1>1. ASSUME NEW j \in Ids, Store(j) PROVE Typed'
  <2>1. /\ state' \in [Ids -> States]
        /\ \A k \in Ids : state[k] = "running" => state'[k] = "running"
    BY <1>a, <1>1 DEF Store, Become, States
  <2>2. Put(j, "source") /\ UNCHANGED <<origin, waited, ttl, written, expires, run, evicted>>
    BY <1>1 DEF Store
  <2>3. QED
    BY <1>a, <1>b, <2>1, <2>2, PutFacts, RestTyped
<1>2. ASSUME NEW j \in Ids, TurnAway(j) \/ Enqueue(j) PROVE Typed'
  <2>1. /\ state' \in [Ids -> States]
        /\ \A k \in Ids : state[k] = "running" => state'[k] = "running"
    BY <1>a, <1>2 DEF TurnAway, Enqueue, Become, States
  <2>2. UNCHANGED <<dirs, files, age, origin, waited, ttl, written, expires, run, evicted>>
    BY <1>2 DEF TurnAway, Enqueue
  <2>3. QED
    BY <1>a, <2>1, <2>2, RestTyped
<1>3. ASSUME NEW j \in Ids, LinkRetry(j) PROVE Typed'
  <2>1. /\ state' \in [Ids -> States]
        /\ \A k \in Ids : state[k] = "running" => state'[k] = "running"
    BY <1>a, <1>3 DEF LinkRetry, Become, States
  <2>2. UNCHANGED <<origin, waited, ttl, written, expires, run, evicted>>
    BY <1>3 DEF LinkRetry
  <2>3. CASE Put(j, "source")
    BY <1>a, <1>b, <2>1, <2>2, <2>3, PutFacts, RestTyped
  <2>4. CASE dirs' = dirs \cup {j} /\ age' = [age EXCEPT ![j] = 0] /\ UNCHANGED files
    <3>1. age' \in [Ids -> 0..AgeCap]
      BY <1>a, <1>b, <2>4
    <3>2. QED
      BY <1>a, <2>1, <2>2, <2>4, <3>1, RestTyped
  <2>5. QED
    BY <1>3, <2>3, <2>4 DEF LinkRetry
<1>4. ASSUME NEW i \in Ids, NEW j \in Ids, CheckRetry(i, j) PROVE Typed'
  <2>1. /\ state' \in [Ids -> States]
        /\ \A k \in Ids : state[k] = "running" => state'[k] = "running"
    BY <1>a, <1>4 DEF CheckRetry, Become, States
  <2>2. origin' \in [Ids -> Ids \cup {NoJob}]
    BY <1>a, <1>4 DEF CheckRetry
  <2>3. UNCHANGED <<dirs, files, age, waited, ttl, written, expires, run, evicted>>
    BY <1>4 DEF CheckRetry
  <2>4. QED
    BY <1>a, <2>1, <2>2, <2>3, RestTyped
<1>5. ASSUME NEW t \in Threads, NEW j \in Ids, Start(t, j) PROVE Typed'
  <2> DEFINE r == [job |-> j, at |-> "load", before |-> "none"]
  <2>1. /\ run[t] = NoRun /\ state[j] = "waiting" /\ run' = [run EXCEPT ![t] = r]
        /\ UNCHANGED <<dirs, files, age, origin, ttl, written, expires, evicted>>
    BY <1>5 DEF Start
  <2>2. r \in Runs /\ r.job = j
    BY DEF Runs, Stages
  <2>3. /\ run' \in [Threads -> Runs] /\ run'[t] = r
        /\ \A u \in Threads \ {t} : run'[u] = run[u]
    BY <2>1, <2>2 DEF Typed
  <2>4. /\ state' \in [Ids -> States] /\ state'[j] = "running"
        /\ \A k \in Ids \ {j} : state'[k] = state[k]
        /\ waited' \in [Ids -> Nat]
    BY <1>a, <1>5 DEF Start, Become, States
  <2>5. \A u \in Threads : run[u].job # j
    BY <2>1, BusyRun, IdleRun, PictureAssumption
  <2>6. ASSUME NEW u \in Threads, run'[u] # NoRun
        PROVE  /\ run'[u].job \in Ids /\ state'[run'[u].job] = "running"
               /\ \A v \in Threads \ {u} : run'[v].job # run'[u].job
    <3>1. CASE u = t
      BY <2>2, <2>3, <2>4, <2>5, <3>1
    <3>2. CASE u # t
      <4>1. run'[u] = run[u] /\ run[u] # NoRun
        BY <2>3, <2>6, <3>2
      <4>2. QED
        BY <2>2, <2>3, <2>4, <2>5, <4>1, BusyRun
    <3>3. QED
      BY <3>1, <3>2
  <2>7. QED
    BY <1>a, <2>1, <2>3, <2>4, <2>6 DEF Typed, TypeOK
<1>6. ASSUME NEW t \in Threads, NEW s \in Ended, End(t, s), run[t] # NoRun,
             UNCHANGED <<dirs, files, age, origin, written, expires, evicted>>
      PROVE  Typed'
  BY <1>6, EndTyped
<1>7. ASSUME NEW t \in Threads, Load(t) \/ Draw(t) PROVE Typed'
  <2>1. run[t] # NoRun /\ UNCHANGED <<dirs, files, age, origin, written, expires, evicted>>
    BY <1>7, IdleRun DEF Load, Draw
  <2>2. ASSUME NEW a \in {"thumb", "result"}, Step(t, a), UNCHANGED <<state, ttl, waited>>
        PROVE  Typed'
    <3>1. run' = [run EXCEPT ![t] = [job |-> run[t].job, at |-> a, before |-> run[t].before]]
      BY <2>1, <2>2, StepFacts DEF Step
    <3>2. a \in Stages /\ run[t].before \in {"none", "pending", "done"}
      BY <2>1, BusyRun DEF Stages
    <3>3. QED
      BY <1>a, <2>1, <2>2, <3>1, <3>2, WorkTyped DEF store
  <2>3. QED
    BY <1>6, <1>7, <2>1, <2>2 DEF Load, Draw, Ended
<1>8. ASSUME NEW t \in Threads, WriteThumb(t) \/ WriteBefore(t) \/ WriteResult(t) \/ WriteMeta(t)
      PROVE  Typed'
  <2>1. run[t] # NoRun /\ UNCHANGED <<state, origin, waited, ttl, written, expires, evicted>>
    BY <1>8, IdleRun DEF WriteThumb, WriteBefore, WriteResult, WriteMeta
  <2>2. \E n \in Names : Put(run[t].job, n)
    BY <1>8 DEF WriteThumb, WriteBefore, WriteResult, WriteMeta, Names
  <2>3. run[t].at \in Stages /\ run[t].before \in {"none", "pending", "done"}
    BY <2>1, BusyRun
  <2>4. \E a \in Stages, b \in {"none", "pending", "done"} :
          run' = [run EXCEPT ![t] = [job |-> run[t].job, at |-> a, before |-> b]]
    <3>1. CASE WriteThumb(t)
      <4>1. run' = [run EXCEPT ![t] = [job |-> run[t].job, at |-> "draw", before |-> "pending"]]
        <5>1. run' = [run EXCEPT ![t].at = "draw", ![t].before = "pending"]
          BY <3>1 DEF WriteThumb
        <5>2. [run EXCEPT ![t].at = "draw", ![t].before = "pending"]
                = [run EXCEPT ![t] = [job |-> run[t].job, at |-> "draw", before |-> "pending"]]
          BY <2>1, StepFacts, Zenon
        <5>3. QED
          BY <5>1, <5>2
      <4>2. QED
        BY <4>1 DEF Stages
    <3>2. CASE WriteBefore(t)
      <4>1. run' = [run EXCEPT ![t] = [job |-> run[t].job, at |-> run[t].at, before |-> "done"]]
        BY <2>1, <3>2, StepFacts DEF WriteBefore
      <4>2. QED
        BY <2>3, <4>1
    <3>3. CASE WriteResult(t)
      <4>1. run' = [run EXCEPT ![t] = [job |-> run[t].job, at |-> "animate", before |-> run[t].before]]
        BY <2>1, <3>3, StepFacts DEF WriteResult, Step
      <4>2. QED
        BY <2>3, <4>1 DEF Stages
    <3>4. CASE WriteMeta(t)
      <4>1. run' = [run EXCEPT ![t] = [job |-> run[t].job, at |-> "return", before |-> run[t].before]]
        BY <2>1, <3>4, StepFacts DEF WriteMeta, Step
      <4>2. QED
        BY <2>3, <4>1 DEF Stages
    <3>5. QED
      BY <1>8, <3>1, <3>2, <3>3, <3>4
  <2>5. QED
    BY <1>a, <2>1, <2>2, <2>4, WorkTyped
<1>9. ASSUME NEW t \in Threads, Animate(t) PROVE Typed'
  <2>1. run[t] # NoRun /\ UNCHANGED <<state, origin, waited, ttl, evicted>>
    BY <1>9, IdleRun DEF Animate
  <2>2. run' = [run EXCEPT ![t] = [job |-> run[t].job, at |-> "meta", before |-> run[t].before]]
    BY <1>9, <2>1, StepFacts DEF Animate, Step
  <2>3. "meta" \in Stages /\ run[t].before \in {"none", "pending", "done"} /\ run[t].job \in Ids
    BY <2>1, BusyRun DEF Stages
  <2>4. written' \in [Ids -> SUBSET Names] /\ expires' \in [Ids -> 0..BlobTtl]
    BY <1>a, <1>b, <1>9, <2>3 DEF Animate, Names
  <2>5. UNCHANGED store \/ \E n \in Names : Put(run[t].job, n)
    BY <1>9 DEF Animate, Names
  <2>6. QED
    BY <2>1, <2>2, <2>3, <2>4, <2>5, WorkTyped
<1>10. ASSUME NEW t \in Threads, Return(t) \/ Fail(t) PROVE Typed'
  <2>1. run[t] # NoRun /\ UNCHANGED <<dirs, files, age, origin, written, expires, evicted>>
    BY <1>10, IdleRun DEF Return, Fail
  <2>2. QED
    BY <1>6, <1>10, <2>1 DEF Return, Fail, Ended
<1>11. CASE SweepBlobs
  <2>1. PICK D \in Doomed(dirs, age, Weight) :
          /\ dirs' = dirs \ D
          /\ files' = [j \in Ids |-> IF j \in D THEN {} ELSE files[j]]
          /\ evicted' = evicted \cup (D \ Expired(dirs, age))
    BY <1>11 DEF SweepBlobs
  <2>2. UNCHANGED <<age, state, origin, waited, ttl, written, expires, run>>
    BY <1>11 DEF SweepBlobs
  <2>3. D \subseteq dirs
    BY DoomedFacts
  <2>4. /\ dirs' \subseteq Ids /\ files' \in [Ids -> SUBSET Names] /\ evicted' \subseteq Ids
        /\ \A k \in Ids : files'[k] # {} => k \in dirs'
    BY <1>a, <2>1, <2>3 DEF Typed
  <2>5. QED
    BY <2>2, <2>4 DEF Typed, TypeOK
<1>12. CASE Tick
  <2>1. UNCHANGED <<dirs, files, origin, written, run, evicted>>
    BY <1>12 DEF Tick
  <2>2. age' \in [Ids -> 0..AgeCap]
    BY <1>a, <1>b, <1>12 DEF Tick
  <2>3. waited' \in [Ids -> Nat]
    BY <1>a, <1>12 DEF Tick
  <2>4. ttl' \in [Ids -> 0..ResultTtl] /\ expires' \in [Ids -> 0..BlobTtl]
    BY <1>a, <1>b, <1>12 DEF Tick
  <2>5. state' \in [Ids -> States]
    BY <1>a, <1>12 DEF Tick, States
  <2>6. ASSUME NEW k \in Ids, state[k] = "running" PROVE state'[k] = "running"
    <3>1. ttl[k] = 0
      BY <2>6 DEF Clocks, Clock, Ended
    <3>2. QED
      BY <1>12, <2>6, <3>1 DEF Tick
  <2>7. QED
    BY <1>a, <2>1, <2>2, <2>3, <2>4, <2>5, <2>6, RestTyped
<1>13. CASE UNCHANGED vars
  BY <1>13 DEF vars, Typed, TypeOK
<1>14. QED
  BY <1>1, <1>2, <1>3, <1>4, <1>5, <1>7, <1>8, <1>9, <1>10, <1>11, <1>12, <1>13
     DEF Next, Process

-----------------------------------------------------------------------------
(* What the steps do to a job, job by job. *)

\* The step touches no job but j.
Only(j) ==
  /\ evicted' = evicted
  /\ \A k \in Ids \ {j} :
       /\ state'[k] = state[k] /\ waited'[k] = waited[k] /\ ttl'[k] = ttl[k]
       /\ written'[k] = written[k] /\ expires'[k] = expires[k]
       /\ files'[k] = files[k] /\ age'[k] = age[k]

\* The web tier's step for job j.
Submit(j) == \/ Store(j) \/ TurnAway(j) \/ Enqueue(j) \/ LinkRetry(j)
             \/ \E i \in Ids : CheckRetry(i, j)

LEMMA SubmitFacts ==
  ASSUME Typed, NEW j \in Ids, Submit(j)
  PROVE  /\ Only(j) /\ UNCHANGED <<waited, ttl, written, expires, run>>
         /\ state[j] \in {"unborn", "linking", "stored"}
         /\ state'[j] \in {"linking", "stored", "waiting", "forgotten"}
         /\ files'[j] \subseteq files[j] \cup {"source"}
         /\ state'[j] = "stored" => "source" \in files'[j] /\ age'[j] = 0
         /\ j \in Uploads /\ state'[j] = "waiting"
              => state[j] = "stored" /\ files'[j] = files[j] /\ age'[j] = age[j]
<1>a. /\ state \in [Ids -> States] /\ age \in [Ids -> 0..AgeCap] /\ "source" \in Names
  BY DEF Typed, TypeOK, Names
<1>1. CASE Store(j)
  <2>1. Put(j, "source") /\ UNCHANGED <<origin, waited, ttl, written, expires, run, evicted>>
    BY <1>1 DEF Store
  <2>2. /\ state[j] = "unborn" /\ state'[j] = "stored"
        /\ \A k \in Ids \ {j} : state'[k] = state[k]
    BY <1>a, <1>1 DEF Store, Become
  <2>3. QED
    BY <1>a, <2>1, <2>2, PutFacts DEF Only
<1>2. CASE TurnAway(j) \/ Enqueue(j) \/ \E i \in Ids : CheckRetry(i, j)
  <2>1. UNCHANGED <<files, age, waited, ttl, written, expires, run, evicted>>
    BY <1>2 DEF TurnAway, Enqueue, CheckRetry
  <2>2. \A k \in Ids \ {j} : state'[k] = state[k]
    BY <1>a, <1>2 DEF TurnAway, Enqueue, CheckRetry, Become
  <2>3. \/ state[j] = "stored" /\ state'[j] = "forgotten"
        \/ state[j] = "stored" /\ state'[j] = "waiting"
        \/ state[j] = "unborn" /\ state'[j] = "waiting" /\ j \notin Uploads
        \/ state[j] = "unborn" /\ state'[j] = "linking"
    BY <1>a, <1>2 DEF TurnAway, Enqueue, CheckRetry, Become
  <2>4. QED
    BY <2>1, <2>2, <2>3 DEF Only
<1>3. CASE LinkRetry(j)
  <2>1. UNCHANGED <<waited, ttl, written, expires, run, evicted>> /\ state[j] = "linking"
    BY <1>3 DEF LinkRetry
  <2>2. CASE Put(j, "source") /\ Become(j, "stored")
    <3>1. state'[j] = "stored" /\ \A k \in Ids \ {j} : state'[k] = state[k]
      BY <1>a, <2>2 DEF Become
    <3>2. QED
      BY <1>a, <2>1, <2>2, <3>1, PutFacts DEF Only
  <2>3. CASE age' = [age EXCEPT ![j] = 0] /\ Become(j, "forgotten") /\ UNCHANGED files
    <3>1. /\ state'[j] = "forgotten" /\ \A k \in Ids \ {j} : state'[k] = state[k]
          /\ \A k \in Ids \ {j} : age'[k] = age[k]
      BY <1>a, <2>3 DEF Become
    <3>2. QED
      BY <2>1, <2>3, <3>1 DEF Only
  <2>4. QED
    BY <1>3, <2>2, <2>3 DEF LinkRetry
<1>4. QED
  BY <1>1, <1>2, <1>3 DEF Submit

LEMMA StartFacts ==
  ASSUME Typed, NEW t \in Threads, NEW j \in Ids, Start(t, j)
  PROVE  /\ Only(j) /\ UNCHANGED <<files, age, written, expires, ttl>>
         /\ run'[t] = [job |-> j, at |-> "load", before |-> "none"]
         /\ \A u \in Threads \ {t} : run'[u] = run[u]
         /\ state[j] = "waiting" /\ state'[j] = "running" /\ waited'[j] = 0
         /\ \A u \in Threads : run[u].job # j
<1>1. state \in [Ids -> States] /\ waited \in [Ids -> Nat] /\ run \in [Threads -> Runs]
  BY DEF Typed, TypeOK
<1>2. \A u \in Threads : run[u].job # j
  BY BusyRun, IdleRun, PictureAssumption DEF Start
<1>3. QED
  BY <1>1, <1>2 DEF Start, Become, Only

\* A thread's step that leaves its job running, but for starting it.
Work(t) == \/ Load(t) /\ Step(t, "thumb") /\ UNCHANGED <<state, waited, ttl>>
           \/ Draw(t) /\ Step(t, "result") /\ UNCHANGED <<state, waited, ttl>>
           \/ WriteThumb(t) \/ WriteBefore(t) \/ WriteResult(t) \/ Animate(t) \/ WriteMeta(t)

\* A thread's step that ends its run, with what becomes of the job.
Finish(t, s) ==
  /\ run[t] # NoRun /\ End(t, s) /\ s \in Ended
  /\ UNCHANGED <<dirs, files, age, origin, written, expires, evicted>>
  /\ s = "finished" => run[t].at = "return"

LEMMA EndingsFinish ==
  ASSUME Typed, NEW t \in Threads, Process(t)
  PROVE  \/ \E j \in Ids : Start(t, j)
         \/ run[t] # NoRun /\ Work(t)
         \/ \E s \in Ended : Finish(t, s)
<1>1. CASE \E j \in Ids : Start(t, j)
  BY <1>1
<1>2. CASE Load(t) \/ Draw(t)
  <2>1. run[t] # NoRun
    BY <1>2, IdleRun DEF Load, Draw
  <2>2. \/ Work(t)
        \/ /\ End(t, "refused")
           /\ UNCHANGED <<dirs, files, age, origin, written, expires, evicted>>
    BY <1>2 DEF Load, Draw, Work
  <2>3. QED
    BY <2>1, <2>2 DEF Finish, Ended
<1>3. CASE WriteThumb(t) \/ WriteBefore(t) \/ WriteResult(t) \/ Animate(t) \/ WriteMeta(t)
  BY <1>3, IdleRun DEF Work, WriteThumb, WriteBefore, WriteResult, Animate, WriteMeta
<1>4. CASE Return(t)
  BY <1>4, IdleRun DEF Return, Finish, Ended
<1>5. CASE Fail(t)
  BY <1>5, IdleRun DEF Fail, Finish, Ended
<1>6. QED
  BY <1>1, <1>2, <1>3, <1>4, <1>5 DEF Process

-----------------------------------------------------------------------------
(* Clocks. *)

LEMMA InitClocks == Init => Clocks
BY PictureAssumption DEF Init, Clocks, Clock, Open, Ended

\* A step that touches one job.
LEMMA OneClock ==
  ASSUME Clocks, NEW j \in Ids, Only(j), Clock(j)'
  PROVE  Clocks'
BY DEF Only, Clocks, Clock

LEMMA NextClocks == Typed /\ Clocks /\ [Next]_vars => Clocks'
<1> SUFFICES ASSUME Typed, Clocks, [Next]_vars PROVE Clocks'
  OBVIOUS
<1>a. ResultTtl \in Nat \ {0} /\ RunTime \in Nat \ {0} /\ Patience \in Nat
  BY PictureAssumption
<1>b. \A j \in Ids : waited[j] \in Nat /\ ttl[j] \in Nat
  BY <1>a DEF Typed, TypeOK
<1>1. ASSUME NEW j \in Ids, Submit(j) PROVE Clocks'
  <2>1. /\ Only(j) /\ waited'[j] = waited[j] /\ ttl'[j] = ttl[j]
        /\ state[j] \in {"unborn", "linking", "stored"}
        /\ state'[j] \in {"linking", "stored", "waiting", "forgotten"}
    BY <1>1, SubmitFacts
  <2>2. Clock(j)'
    BY <1>a, <2>1 DEF Clocks, Clock, Open, Ended
  <2>3. QED
    BY <2>1, <2>2, OneClock
<1>2. ASSUME NEW t \in Threads, Process(t) PROVE Clocks'
  <2>1. ASSUME NEW j \in Ids, Start(t, j) PROVE Clocks'
    <3>1. /\ Only(j) /\ waited'[j] = 0 /\ ttl'[j] = ttl[j]
          /\ state[j] = "waiting" /\ state'[j] = "running"
      BY <2>1, StartFacts
    <3>2. Clock(j)'
      BY <1>a, <3>1 DEF Clocks, Clock, Open, Ended
    <3>3. QED
      BY <3>1, <3>2, OneClock
  <2>2. CASE Work(t)
    <3>1. UNCHANGED <<state, waited, ttl>>
      BY <2>2 DEF Work, WriteThumb, WriteBefore, WriteResult, Animate, WriteMeta
    <3>2. QED
      BY <3>1 DEF Clocks, Clock
  <2>3. ASSUME NEW s \in Ended, Finish(t, s) PROVE Clocks'
    <3>1. /\ \A k \in Ids \ {run[t].job} :
               state'[k] = state[k] /\ ttl'[k] = ttl[k] /\ waited'[k] = waited[k]
          /\ state'[run[t].job] = s /\ ttl'[run[t].job] = ResultTtl /\ waited'[run[t].job] = 0
      BY <2>3, LetGo DEF Finish
    <3>2. \A k \in Ids : Clock(k)'
      BY <1>a, <3>1 DEF Clocks, Clock, Ended
    <3>3. QED
      BY <3>2 DEF Clocks
  <2>4. QED
    BY <1>2, <2>1, <2>2, <2>3, EndingsFinish
<1>3. CASE SweepBlobs
  BY <1>3 DEF SweepBlobs, Clocks, Clock
<1>4. CASE Tick
  <2>1. SUFFICES ASSUME NEW k \in Ids PROVE Clock(k)'
    BY DEF Clocks
  <2>2. /\ state[k] = "waiting" => waited[k] < Patience
        /\ state[k] = "running" => waited[k] < RunTime
        /\ waited'[k] = IF state[k] \in Open THEN waited[k] + 1 ELSE waited[k]
        /\ ttl'[k] = IF ttl[k] > 0 THEN ttl[k] - 1 ELSE 0
        /\ state'[k] = IF ttl[k] # 1 THEN state[k]
                       ELSE IF state[k] = "finished" THEN "lapsed" ELSE "forgotten"
    BY <1>4 DEF Tick
  <2>3. Clock(k) /\ waited[k] \in Nat /\ ttl[k] \in Nat
    BY <1>b DEF Clocks
  <2>4. CASE ttl[k] = 1
    BY <1>a, <2>2, <2>3, <2>4 DEF Clock, Open, Ended
  <2>5. CASE ttl[k] # 1
    BY <1>a, <2>2, <2>3, <2>5 DEF Clock, Open, Ended
  <2>6. QED
    BY <2>4, <2>5
<1>5. CASE UNCHANGED vars
  BY <1>5 DEF vars, Clocks, Clock
<1>6. QED
  BY <1>1, <1>2, <1>3, <1>4, <1>5 DEF Next, Submit

\* Type correctness: no more than the types, yet it has to know that a record
\* that expires is not that of a running job.
THEOREM TypeCorrect == Spec => []TypeOK
<1>1. Init => Typed /\ Clocks
  BY InitTyped, InitClocks
<1>2. Typed /\ Clocks /\ [Next]_vars => (Typed /\ Clocks)'
  BY NextTyped, NextClocks
<1>3. Typed /\ Clocks => TypeOK
  BY DEF Typed
<1>4. QED
  BY <1>1, <1>2, <1>3, PTL DEF Spec

-----------------------------------------------------------------------------
(* What is in the store, while a job is made and afterwards. *)

Early == {"unborn", "linking", "stored", "waiting"}
Whole(j) == written[j] \cup {"meta"} \subseteq files[j]

\* A delivered result is whole, and was written to no longer ago than its
\* record and its promise were made.
Kept(j) ==
  /\ state[j] = "finished" => Whole(j) /\ age[j] + ttl[j] <= ResultTtl
  /\ state[j] \in {"finished", "lapsed"} /\ expires[j] > 0
       => Whole(j) /\ age[j] + expires[j] <= BlobTtl

Right(j) ==
  /\ state[j] \in Early => "meta" \notin files[j]
  /\ "meta" \in files[j] => written[j] \subseteq files[j]
  /\ j \notin evicted => Kept(j)

\* How far the run r has come: what it has put in the store, and that from its
\* first put on, the directory is no older than the run.
Made(r) ==
  /\ r.at \in {"load", "thumb"} => r.before = "none"
  /\ r.at \in {"load", "thumb", "draw", "result", "animate"} => "meta" \notin files[r.job]
  /\ r.at \notin {"load", "thumb"} => /\ age[r.job] <= waited[r.job]
                                      /\ "thumb" \in files[r.job]
  /\ r.at \in {"result", "animate", "meta", "return"} => r.before = "done"
  /\ r.before = "done" => "before" \in files[r.job]
  /\ r.at \in {"animate", "meta", "return"} => "result" \in files[r.job]
  /\ r.at \in {"meta", "return"} => written[r.job] \subseteq files[r.job]
  /\ r.at = "return" => "meta" \in files[r.job] /\ age[r.job] = 0

Making == \A t \in Threads : run[t] # NoRun => Made(run[t])
Storing == Making /\ \A j \in Ids : Right(j)

LEMMA InitStoring == Init => Storing
BY PictureAssumption DEF Init, Storing, Making, Right, Kept

\* A step that touches one job, and the threads that have it.
LEMMA OneStored ==
  ASSUME Typed, Storing, NEW j \in Ids, Only(j), Right(j)',
         \A u \in Threads : \/ run'[u] = NoRun
                            \/ run'[u] = run[u] /\ run[u].job # j
                            \/ Made(run[u])'
  PROVE  Storing'
<1>1. ASSUME NEW k \in Ids PROVE Right(k)'
  <2>1. CASE k = j
    BY <2>1
  <2>2. CASE k # j
    BY <2>2 DEF Storing, Only, Right, Kept, Whole
  <2>3. QED
    BY <2>1, <2>2
<1>2. ASSUME NEW u \in Threads, run'[u] # NoRun PROVE Made(run[u])'
  <2>1. CASE run'[u] = run[u] /\ run[u].job # j
    <3>1. Made(run[u]) /\ run[u].job \in Ids \ {j}
      BY <1>2, <2>1, BusyRun DEF Storing, Making
    <3>2. QED
      BY <2>1, <3>1 DEF Only, Made
  <2>2. QED
    BY <1>2, <2>1
<1>3. QED
  BY <1>1, <1>2 DEF Storing, Making

\* What a working thread changes.
LEMMA WorkFacts ==
  ASSUME Typed, NEW t \in Threads, run[t] # NoRun, Work(t)
  PROVE  /\ Only(run[t].job) /\ UNCHANGED <<state, waited, ttl>>
         /\ \A u \in Threads \ {t} : run'[u] = run[u]
         /\ run'[t] \in [job : Ids, at : Stages, before : {"none", "pending", "done"}]
         /\ run'[t].job = run[t].job
<1> DEFINE j == run[t].job
<1>1. j \in Ids /\ run \in [Threads -> Runs] /\ run[t].at \in Stages
      /\ run[t].before \in {"none", "pending", "done"}
  BY BusyRun DEF Typed
<1>2. \E a \in Stages, b \in {"none", "pending", "done"} :
        run' = [run EXCEPT ![t] = [job |-> j, at |-> a, before |-> b]]
  <2>1. ASSUME NEW a \in Stages, Step(t, a)
        PROVE  run' = [run EXCEPT ![t] = [job |-> j, at |-> a, before |-> run[t].before]]
    BY <2>1, StepFacts DEF Step
  <2>2. CASE WriteThumb(t)
    <3>1. run' = [run EXCEPT ![t].at = "draw", ![t].before = "pending"]
      BY <2>2 DEF WriteThumb
    <3>2. [run EXCEPT ![t].at = "draw", ![t].before = "pending"]
            = [run EXCEPT ![t] = [job |-> j, at |-> "draw", before |-> "pending"]]
      BY StepFacts, Zenon
    <3>3. QED
      BY <3>1, <3>2 DEF Stages
  <2>3. CASE WriteBefore(t)
    <3>1. run' = [run EXCEPT ![t] = [job |-> j, at |-> run[t].at, before |-> "done"]]
      BY <2>3, StepFacts DEF WriteBefore
    <3>2. QED
      BY <1>1, <3>1
  <2>4. CASE \E a \in Stages : Step(t, a)
    BY <1>1, <2>1, <2>4
  <2>5. QED
    BY <2>2, <2>3, <2>4 DEF Work, WriteResult, Animate, WriteMeta, Stages
<1>3. UNCHANGED <<state, waited, ttl>> /\ evicted' = evicted
  BY DEF Work, Load, Draw, WriteThumb, WriteBefore, WriteResult, Animate, WriteMeta
<1>4. \A k \in Ids \ {j} : files'[k] = files[k] /\ age'[k] = age[k]
  <2>1. UNCHANGED store \/ \E n \in Names : Put(j, n)
    BY DEF Work, Load, Draw, WriteThumb, WriteBefore, WriteResult, Animate, WriteMeta, Names, store
  <2>2. QED
    BY <1>1, <2>1, PutFacts DEF store
<1>5. \A k \in Ids \ {j} : written'[k] = written[k] /\ expires'[k] = expires[k]
  <2>1. CASE Animate(t)
    BY <1>1, <2>1 DEF Animate, Typed, TypeOK
  <2>2. CASE UNCHANGED <<written, expires>>
    BY <2>2
  <2>3. QED
    BY <2>1, <2>2 DEF Work, Load, Draw, WriteThumb, WriteBefore, WriteResult, WriteMeta
<1>6. QED
  BY <1>1, <1>2, <1>3, <1>4, <1>5 DEF Only

\* Each step of a run leaves it with what its next stage counts on.
LEMMA WorkMade ==
  ASSUME Typed, Storing, NEW t \in Threads, run[t] # NoRun, Work(t),
         NEW j \in Ids, j = run[t].job
  PROVE  Made(run[t])' /\ Right(j)'
<1>1. /\ j \in Ids /\ state[j] = "running" /\ run[t].at \in Stages
      /\ run[t].before \in {"none", "pending", "done"}
  BY BusyRun
<1>2. Made(run[t])
  BY DEF Storing, Making
<1>3. run'[t].job = j /\ state'[j] = "running" /\ waited'[j] = waited[j]
  BY <1>1, WorkFacts
<1>4. waited[j] \in Nat /\ 0 <= waited[j]
  BY <1>1 DEF Typed, TypeOK
<1>5. run[t] \in [job : Ids, at : Stages, before : {"none", "pending", "done"}] /\ run \in [Threads -> Runs]
  BY BusyRun DEF Typed
<1>6. ASSUME NEW a \in Stages, Step(t, a) PROVE run'[t].at = a /\ run'[t].before = run[t].before
  BY <1>5, <1>6 DEF Step
<1>7. ASSUME NEW n \in Names, Put(j, n) PROVE files'[j] = files[j] \cup {n} /\ age'[j] = 0
  BY <1>1, <1>7, PutFacts
<1>8. SUFFICES Made(run[t])' /\ ("meta" \in files'[j] => written'[j] \subseteq files'[j])
  BY <1>3 DEF Right, Early, Kept
<1>9. CASE Load(t) /\ Step(t, "thumb")
  <2>1. run[t].at = "load" /\ UNCHANGED <<files, age, written>>
    BY <1>9 DEF Load
  <2>2. run'[t].at = "thumb" /\ run'[t].before = run[t].before
    BY <1>6, <1>9 DEF Stages
  <2>3. QED
    BY <1>2, <1>3, <2>1, <2>2 DEF Made
<1>10. CASE Draw(t) /\ Step(t, "result")
  <2>1. run[t].at = "draw" /\ run[t].before = "done" /\ UNCHANGED <<files, age, written>>
    BY <1>10 DEF Draw
  <2>2. run'[t].at = "result" /\ run'[t].before = run[t].before
    BY <1>6, <1>10 DEF Stages
  <2>3. QED
    BY <1>2, <1>3, <2>1, <2>2 DEF Made
<1>11. CASE WriteThumb(t)
  <2>1. /\ run[t].at = "thumb" /\ Put(j, "thumb") /\ UNCHANGED written
        /\ run' = [run EXCEPT ![t].at = "draw", ![t].before = "pending"]
    BY <1>11 DEF WriteThumb
  <2>2. run'[t] = [job |-> j, at |-> "draw", before |-> "pending"]
    <3>1. [run EXCEPT ![t].at = "draw", ![t].before = "pending"]
            = [run EXCEPT ![t] = [job |-> run[t].job, at |-> "draw", before |-> "pending"]]
      BY StepFacts, Zenon
    <3>2. QED
      BY <1>5, <2>1, <3>1
  <2>3. files'[j] = files[j] \cup {"thumb"} /\ age'[j] = 0
    BY <1>7, <2>1 DEF Names
  <2>4. QED
    BY <1>2, <1>3, <1>4, <2>1, <2>2, <2>3 DEF Made
<1>12. CASE WriteBefore(t)
  <2>1. /\ run[t].before = "pending" /\ Put(j, "before") /\ UNCHANGED written
        /\ run' = [run EXCEPT ![t].before = "done"]
    BY <1>12 DEF WriteBefore
  <2>2. run'[t].at = run[t].at /\ run'[t].before = "done"
    BY <1>5, <2>1
  <2>3. files'[j] = files[j] \cup {"before"} /\ age'[j] = 0
    BY <1>7, <2>1 DEF Names
  <2>4. run[t].at = "draw"
    BY <1>1, <1>2, <2>1 DEF Made, Stages
  <2>5. QED
    BY <1>2, <1>3, <1>4, <2>1, <2>2, <2>3, <2>4 DEF Made
<1>13. CASE WriteResult(t)
  <2>1. run[t].at = "result" /\ Put(j, "result") /\ UNCHANGED written /\ Step(t, "animate")
    BY <1>13 DEF WriteResult
  <2>2. run'[t].at = "animate" /\ run'[t].before = run[t].before
    BY <1>6, <2>1 DEF Stages
  <2>3. files'[j] = files[j] \cup {"result"} /\ age'[j] = 0
    BY <1>7, <2>1 DEF Names
  <2>4. QED
    BY <1>2, <1>3, <1>4, <2>1, <2>2, <2>3 DEF Made
<1>14. CASE Animate(t)
  <2>1. run[t].at = "animate" /\ Step(t, "meta")
    BY <1>14 DEF Animate
  <2>2. run'[t].at = "meta" /\ run'[t].before = run[t].before
    BY <1>6, <2>1 DEF Stages
  <2>3. /\ \/ files'[j] = files[j] \cup {"animation"} /\ age'[j] = 0
              /\ written'[j] = {"thumb", "before", "result", "animation"}
           \/ files'[j] = files[j] /\ age'[j] = age[j] /\ written'[j] = {"thumb", "before", "result"}
    <3>1. written \in [Ids -> SUBSET Names] /\ "animation" \in Names
      BY DEF Typed, TypeOK, Names
    <3>2. CASE Put(j, "animation") /\ written' = [written EXCEPT ![j] = {"thumb", "before", "result"} \cup {"animation"}]
      BY <1>1, <1>7, <3>1, <3>2
    <3>3. CASE UNCHANGED store /\ written' = [written EXCEPT ![j] = {"thumb", "before", "result"}]
      BY <1>1, <3>1, <3>3 DEF store
    <3>4. QED
      BY <1>14, <3>2, <3>3 DEF Animate
  <2>4. /\ "thumb" \in files[j] /\ "before" \in files[j] /\ "result" \in files[j]
        /\ "meta" \notin files[j] /\ age[j] <= waited[j] /\ run[t].before = "done"
    BY <1>2, <2>1 DEF Made
  <2>5. /\ "thumb" \in files'[j] /\ "before" \in files'[j] /\ "result" \in files'[j]
        /\ written'[j] \subseteq files'[j] /\ age'[j] <= waited'[j]
    BY <1>3, <1>4, <2>3, <2>4
  <2>6. QED
    BY <1>3, <2>2, <2>4, <2>5 DEF Made
<1>15. CASE WriteMeta(t)
  <2>1. run[t].at = "meta" /\ Put(j, "meta") /\ UNCHANGED written /\ Step(t, "return")
    BY <1>15 DEF WriteMeta
  <2>2. run'[t].at = "return" /\ run'[t].before = run[t].before
    BY <1>6, <2>1 DEF Stages
  <2>3. files'[j] = files[j] \cup {"meta"} /\ age'[j] = 0
    BY <1>7, <2>1 DEF Names
  <2>4. QED
    BY <1>2, <1>3, <1>4, <2>1, <2>2, <2>3 DEF Made
<1>16. QED
  BY <1>9, <1>10, <1>11, <1>12, <1>13, <1>14, <1>15 DEF Work

\* A sweep takes nothing from a run that has put its first picture in the store.
LEMMA SweepSparesRuns ==
  ASSUME Typed, Clocks, RunTime <= BlobTtl, NEW D \in Doomed(dirs, age, Weight),
         NEW t \in Threads, run[t] # NoRun, Made(run[t]), run[t].at \notin {"load", "thumb"}
  PROVE  run[t].job \notin D
<1>1. run[t].job \in Ids /\ state[run[t].job] = "running"
  BY BusyRun
<1>2. age[run[t].job] <= RunTime
  BY <1>1, PictureAssumption DEF Made, Clocks, Clock, Typed, TypeOK
<1>3. ~(age[run[t].job] > BlobTtl) /\ ~(age[run[t].job] >= MinAge)
  BY <1>1, <1>2, PictureAssumption, ReapAssumption DEF Typed, TypeOK, AgeCap
<1>4. QED
  BY <1>3, DoomedFacts

\* Without the hypothesis the store could expire what a run is still writing.
LEMMA NextStoring == RunTime <= BlobTtl /\ Typed /\ Clocks /\ Storing /\ [Next]_vars => Storing'
<1> SUFFICES ASSUME RunTime <= BlobTtl, Typed, Clocks, Storing, [Next]_vars PROVE Storing'
  OBVIOUS
<1>a. /\ ResultTtl \in Nat \ {0} /\ RunTime \in Nat \ {0} /\ Patience \in Nat /\ BlobTtl \in Nat
      /\ ResultTtl <= BlobTtl
  BY PictureAssumption, ReapAssumption
<1>b. \A k \in Ids : /\ ttl[k] \in Nat /\ age[k] \in Nat /\ expires[k] \in 0..BlobTtl
                     /\ waited[k] \in Nat
  BY <1>a DEF Typed, TypeOK, AgeCap
<1>1. ASSUME NEW j \in Ids, Submit(j) PROVE Storing'
  <2>1. /\ Only(j) /\ UNCHANGED <<written, run>> /\ files'[j] \subseteq files[j] \cup {"source"}
        /\ state[j] \in Early /\ state[j] # "running"
        /\ state'[j] \notin {"finished", "lapsed"}
    BY <1>1, SubmitFacts DEF Early
  <2>2. "meta" \notin files'[j]
    BY <2>1 DEF Storing, Right
  <2>3. Right(j)'
    BY <2>1, <2>2 DEF Right, Kept
  <2>4. \A u \in Threads : run'[u] = NoRun \/ (run'[u] = run[u] /\ run[u].job # j)
    BY <2>1, BusyRun
  <2>5. QED
    BY <2>1, <2>3, <2>4, OneStored
<1>2. ASSUME NEW t \in Threads, Process(t) PROVE Storing'
  <2>1. ASSUME NEW j \in Ids, Start(t, j) PROVE Storing'
    <3>1. /\ Only(j) /\ UNCHANGED <<files, written>>
          /\ run'[t] = [job |-> j, at |-> "load", before |-> "none"]
          /\ \A u \in Threads \ {t} : run'[u] = run[u]
          /\ state[j] = "waiting" /\ state'[j] = "running"
          /\ \A u \in Threads : run[u].job # j
      BY <2>1, StartFacts
    <3>2. "meta" \notin files'[j]
      BY <3>1 DEF Storing, Right, Early
    <3>3. Right(j)' /\ Made(run[t])'
      BY <3>1, <3>2 DEF Right, Kept, Made
    <3>4. QED
      BY <3>1, <3>3, OneStored
  <2>2. CASE run[t] # NoRun /\ Work(t)
    <3> PICK j \in Ids : j = run[t].job
      BY <2>2, BusyRun
    <3>1. /\ Only(j) /\ \A u \in Threads \ {t} : run'[u] = run[u]
          /\ \A u \in Threads \ {t} : run[u].job # j
      BY <2>2, WorkFacts, BusyRun
    <3>2. Made(run[t])' /\ Right(j)'
      BY <2>2, WorkMade
    <3>3. QED
      BY <3>1, <3>2, OneStored
  <2>3. ASSUME NEW s \in Ended, Finish(t, s) PROVE Storing'
    <3> PICK j \in Ids : j = run[t].job
      BY <2>3, BusyRun DEF Finish
    <3>1. /\ run'[t] = NoRun /\ \A u \in Threads \ {t} : run'[u] = run[u]
          /\ state'[j] = s /\ ttl'[j] = ResultTtl
          /\ \A k \in Ids \ {j} : state'[k] = state[k] /\ ttl'[k] = ttl[k] /\ waited'[k] = waited[k]
      BY <2>3, LetGo DEF Finish
    <3>2. /\ UNCHANGED <<files, age, written, expires, evicted>> /\ run[t] # NoRun
          /\ s = "finished" => run[t].at = "return"
      BY <2>3 DEF Finish
    <3>3. /\ j \in Ids /\ state[j] = "running" /\ \A u \in Threads \ {t} : run[u].job # j
          /\ Made(run[t])
      BY <3>2, BusyRun DEF Storing, Making
    <3>4. Only(j)
      BY <3>1, <3>2 DEF Only
    <3>5. Kept(j)'
      <4>1. CASE s = "finished"
        <5>1. Whole(j) /\ age[j] = 0
          BY <3>2, <3>3, <4>1 DEF Made, Whole
        <5>2. QED
          BY <1>a, <1>b, <3>1, <3>2, <3>3, <5>1 DEF Kept, Whole
      <4>2. CASE s # "finished"
        BY <3>1, <4>2 DEF Kept, Ended
      <4>3. QED
        BY <4>1, <4>2
    <3>6. Right(j)'
      BY <3>1, <3>2, <3>3, <3>5 DEF Storing, Right, Early, Ended
    <3>7. QED
      BY <3>1, <3>3, <3>4, <3>6, OneStored
  <2>4. QED
    BY <1>2, <2>1, <2>2, <2>3, EndingsFinish
<1>3. CASE SweepBlobs
  <2>1. PICK D \in Doomed(dirs, age, Weight) :
          /\ files' = [j \in Ids |-> IF j \in D THEN {} ELSE files[j]]
          /\ evicted' = evicted \cup (D \ Expired(dirs, age))
          /\ UNCHANGED <<age, state, origin, waited, ttl, written, expires, run>>
    BY <1>3 DEF SweepBlobs
  <2>2. ASSUME NEW k \in Ids PROVE Right(k)'
    <3>1. CASE k \notin D
      BY <2>1, <2>2, <3>1 DEF Storing, Right, Kept, Whole
    <3>2. CASE k \in D
      <4>1. files'[k] = {} /\ (k \in evicted' <=> k \in evicted \/ k \notin Expired(dirs, age))
        BY <2>1, <3>2
      <4>2. k \in Expired(dirs, age) => age[k] > BlobTtl
        BY DEF Expired
      <4>3. CASE k \notin evicted'
        <5>1. Kept(k) /\ age[k] > BlobTtl
          BY <4>1, <4>2, <4>3 DEF Storing, Right
        <5>2. state[k] # "finished" /\ ~(state[k] = "lapsed" /\ expires[k] > 0)
          BY <1>a, <1>b, <5>1 DEF Kept
        <5>3. QED
          BY <2>1, <4>1, <5>2 DEF Right, Kept
      <4>4. CASE k \in evicted'
        BY <4>1, <4>4 DEF Right
      <4>5. QED
        BY <4>3, <4>4
    <3>3. QED
      BY <3>1, <3>2
  <2>3. ASSUME NEW t \in Threads, run'[t] # NoRun PROVE Made(run[t])'
    <3>1. run'[t] = run[t] /\ run[t] # NoRun /\ Made(run[t]) /\ run[t].job \in Ids
      BY <2>1, <2>3, BusyRun DEF Storing, Making
    <3>2. CASE run[t].job \notin D
      BY <2>1, <3>1, <3>2 DEF Made
    <3>3. CASE run[t].job \in D
      <4>1. run[t].at \in {"load", "thumb"}
        BY <3>1, <3>3, SweepSparesRuns
      <4>2. files'[run[t].job] = {} /\ run[t].before = "none"
        BY <2>1, <3>1, <3>3, <4>1 DEF Made
      <4>3. QED
        BY <3>1, <4>1, <4>2 DEF Made
    <3>4. QED
      BY <3>2, <3>3
  <2>4. QED
    BY <2>2, <2>3 DEF Storing, Making
<1>4. CASE Tick
  <2>1. ASSUME NEW k \in Ids
        PROVE  /\ age'[k] \in {age[k], age[k] + 1} /\ (k \in dirs => age'[k] <= age[k] + 1)
               /\ waited'[k] = IF state[k] \in Open THEN waited[k] + 1 ELSE waited[k]
               /\ ttl'[k] = IF ttl[k] > 0 THEN ttl[k] - 1 ELSE 0
               /\ state'[k] = IF ttl[k] # 1 THEN state[k]
                              ELSE IF state[k] = "finished" THEN "lapsed" ELSE "forgotten"
               /\ expires'[k] = IF expires[k] > 0 THEN expires[k] - 1 ELSE 0
    BY <1>b, <1>4 DEF Tick
  <2>2. UNCHANGED <<files, written, run, evicted>> /\ \A t \in Threads : run[t].at # "return"
    BY <1>4 DEF Tick
  <2>3. ASSUME NEW k \in Ids PROVE Right(k)'
    <3>1. state'[k] \in {state[k], "lapsed", "forgotten"}
      BY <2>1, <2>3
    <3>2. /\ state'[k] \in Early => "meta" \notin files'[k]
          /\ "meta" \in files'[k] => written'[k] \subseteq files'[k]
      BY <2>2, <2>3, <3>1 DEF Storing, Right, Early
    <3>3. ASSUME k \notin evicted' PROVE Kept(k)'
      <4>1. Kept(k) /\ Clock(k) /\ (Whole(k)' <=> Whole(k))
        BY <2>2, <2>3, <3>3 DEF Storing, Right, Clocks, Whole
      <4>2. age'[k] <= age[k] + 1
        BY <1>b, <2>1, <2>3
      <4>3. state[k] = "finished" => ttl[k] > 0 /\ ttl'[k] = ttl[k] - 1
        BY <1>b, <2>1, <2>3, <4>1 DEF Clock, Ended
      <4>4. state'[k] = "finished" => state[k] = "finished"
        BY <2>1, <2>3
      <4>5. state'[k] = "lapsed" => state[k] \in {"finished", "lapsed"}
        BY <2>1, <2>3
      <4>6. expires'[k] > 0 => expires[k] > 0 /\ expires'[k] = expires[k] - 1
        BY <1>b, <2>1, <2>3
      <4>7. state'[k] = "finished" => Whole(k)' /\ age'[k] + ttl'[k] <= ResultTtl
        BY <1>a, <1>b, <2>1, <2>3, <4>1, <4>2, <4>3, <4>4 DEF Kept
      <4>8. state'[k] \in {"finished", "lapsed"} /\ expires'[k] > 0
              => Whole(k)' /\ age'[k] + expires'[k] <= BlobTtl
        BY <1>a, <1>b, <2>1, <2>3, <4>1, <4>2, <4>4, <4>5, <4>6 DEF Kept
      <4>9. QED
        BY <4>7, <4>8 DEF Kept
    <3>4. QED
      BY <3>2, <3>3 DEF Right
  <2>4. ASSUME NEW t \in Threads, run'[t] # NoRun PROVE Made(run[t])'
    <3>1. /\ run'[t] = run[t] /\ run[t] # NoRun /\ Made(run[t]) /\ run[t].job \in Ids
          /\ state[run[t].job] = "running"
      BY <2>2, <2>4, BusyRun DEF Storing, Making
    <3>2. age[run[t].job] <= waited[run[t].job] => age'[run[t].job] <= waited'[run[t].job]
      BY <1>b, <2>1, <3>1 DEF Open
    <3>3. QED
      BY <2>2, <3>1, <3>2 DEF Made
  <2>5. QED
    BY <2>3, <2>4 DEF Storing, Making
<1>5. CASE UNCHANGED vars
  BY <1>5 DEF vars, Storing, Making, Made, Right, Kept, Whole
<1>6. QED
  BY <1>1, <1>2, <1>3, <1>4, <1>5 DEF Next, Submit

\* The share page and the result, for a store that keeps a directory at least
\* as long as a run may take.
LEMMA StoringInvariant == RunTime <= BlobTtl => (Spec => [](Typed /\ Clocks /\ Storing))
<1> SUFFICES ASSUME RunTime <= BlobTtl PROVE Spec => [](Typed /\ Clocks /\ Storing)
  OBVIOUS
<1>1. Init => Typed /\ Clocks /\ Storing
  BY InitTyped, InitClocks, InitStoring
<1>2. Typed /\ Clocks /\ Storing /\ [Next]_vars => (Typed /\ Clocks /\ Storing)'
  BY NextTyped, NextClocks, NextStoring
<1>3. QED
  BY <1>1, <1>2, PTL DEF Spec

\* Whatever a sweep may take while meta.json is there, it takes all of it, and
\* write_meta comes after everything meta.json names.
THEOREM ShareIsWhole == RunTime <= BlobTtl => (Spec => []SharedIsWhole)
<1> SUFFICES ASSUME RunTime <= BlobTtl PROVE Spec => []SharedIsWhole
  OBVIOUS
<1>1. Storing => SharedIsWhole
  BY DEF Storing, Right, SharedIsWhole
<1>2. QED
  BY <1>1, StoringInvariant, PTL

\* A finished job's record, and the links it gave out until its `expires_at`,
\* do not outlast the pictures, unless the ceiling took them.
THEOREM ResultOutlasts == RunTime <= BlobTtl => (Spec => []ResultLasts)
<1> SUFFICES ASSUME RunTime <= BlobTtl PROVE Spec => []ResultLasts
  OBVIOUS
<1>1. Storing => ResultLasts
  BY DEF Storing, Right, Kept, Whole, ResultLasts, FinishedHasPictures, LinksLastUntilExpiry
<1>2. QED
  BY <1>1, StoringInvariant, PTL

-----------------------------------------------------------------------------
(* The picture that a queued job is to be made of. *)

\* No wait in the queue and no run is so long that the source expires first.
Unhurried == Patience + RunTime <= BlobTtl

Loading(j) == \E t \in Threads : run[t].job = j /\ run[t].at = "load"
Wanted(j) == state[j] \in {"stored", "waiting"} \/ Loading(j)

\* The source is there, and no older than the job's time in the queue and with
\* its thread.
Young(j) ==
  /\ "source" \in files[j]
  /\ state[j] = "stored" => age[j] = 0
  /\ state[j] = "waiting" => age[j] <= waited[j]
  /\ state[j] = "running" => age[j] <= Patience + waited[j]

Spared(j) == Wanted(j) => Young(j) \/ (j \in evicted /\ age[j] >= MinAge)
Sparing == \A j \in Uploads : Spared(j)

LEMMA InitSparing == Init => Sparing
BY PictureAssumption DEF Init, Sparing, Spared, Wanted, Loading, NoRun

\* A step that touches one job, and the threads that have it.
LEMMA OneSpared ==
  ASSUME Sparing, NEW j \in Ids, Only(j), j \in Uploads => Spared(j)',
         \A u \in Threads : run'[u] = run[u] \/ run'[u].job = j \/ run'[u] = NoRun
  PROVE  Sparing'
<1>1. ASSUME NEW k \in Uploads, k # j PROVE Spared(k)'
  <2>1. k \in Ids \ {j} /\ Spared(k) /\ k # NoJob
    BY <1>1, PictureAssumption DEF Sparing
  <2>2. Loading(k)' => Loading(k)
    BY <1>1, <2>1 DEF Loading, NoRun
  <2>3. QED
    BY <2>1, <2>2 DEF Only, Spared, Wanted, Young
<1>2. QED
  BY <1>1 DEF Sparing

LEMMA NextSparing == Unhurried /\ Typed /\ Clocks /\ Storing /\ Sparing /\ [Next]_vars => Sparing'
<1> SUFFICES ASSUME Unhurried, Typed, Clocks, Storing, Sparing, [Next]_vars PROVE Sparing'
  OBVIOUS
<1>a. /\ RunTime \in Nat \ {0} /\ Patience \in Nat /\ BlobTtl \in Nat /\ Uploads \subseteq Ids
      /\ Patience + RunTime <= BlobTtl /\ NoJob \notin Ids
  BY PictureAssumption, ReapAssumption DEF Unhurried
<1>b. \A k \in Ids : age[k] \in Nat /\ waited[k] \in Nat
  BY <1>a DEF Typed, TypeOK, AgeCap
<1>1. ASSUME NEW j \in Ids, Submit(j) PROVE Sparing'
  <2>1. /\ Only(j) /\ UNCHANGED <<waited, run>>
        /\ state[j] # "running" /\ state'[j] \in {"linking", "stored", "waiting", "forgotten"}
        /\ state'[j] = "stored" => "source" \in files'[j] /\ age'[j] = 0
        /\ j \in Uploads /\ state'[j] = "waiting"
             => state[j] = "stored" /\ files'[j] = files[j] /\ age'[j] = age[j]
    BY <1>1, SubmitFacts
  <2>2. ~Loading(j)'
    <3>1. \A u \in Threads : run[u].job # j
      BY <1>a, <2>1, BusyRun, IdleRun
    <3>2. QED
      BY <2>1, <3>1 DEF Loading
  <2>3. ASSUME j \in Uploads PROVE Spared(j)'
    <3>1. CASE state'[j] = "stored"
      BY <2>1, <3>1 DEF Spared, Young
    <3>2. CASE state'[j] = "waiting"
      <4>1. Young(j) \/ (j \in evicted /\ age[j] >= MinAge)
        BY <2>1, <2>3, <3>2 DEF Sparing, Spared, Wanted
      <4>2. state[j] = "stored" /\ files'[j] = files[j] /\ age'[j] = age[j] /\ waited'[j] = waited[j]
            /\ evicted' = evicted
        BY <2>1, <2>3, <3>2 DEF Only
      <4>3. Young(j) => Young(j)'
        BY <1>b, <3>2, <4>2 DEF Young
      <4>4. QED
        BY <4>1, <4>2, <4>3 DEF Spared
    <3>3. QED
      BY <2>1, <2>2, <3>1, <3>2 DEF Spared, Wanted
  <2>4. QED
    BY <2>1, <2>3, OneSpared
<1>2. ASSUME NEW t \in Threads, Process(t) PROVE Sparing'
  <2>1. ASSUME NEW j \in Ids, Start(t, j) PROVE Sparing'
    <3>1. /\ Only(j) /\ UNCHANGED <<files, age>>
          /\ run'[t] = [job |-> j, at |-> "load", before |-> "none"]
          /\ \A u \in Threads \ {t} : run'[u] = run[u]
          /\ state[j] = "waiting" /\ state'[j] = "running" /\ waited'[j] = 0
      BY <2>1, StartFacts
    <3>2. ASSUME j \in Uploads PROVE Spared(j)'
      <4>1. (Young(j) \/ (j \in evicted /\ age[j] >= MinAge)) /\ Clock(j)
        BY <3>1, <3>2 DEF Sparing, Spared, Wanted, Clocks
      <4>2. Young(j) => Young(j)'
        BY <1>a, <1>b, <3>1, <4>1 DEF Young, Clock
      <4>3. QED
        BY <3>1, <4>1, <4>2 DEF Spared, Only
    <3>3. QED
      BY <3>1, <3>2, OneSpared
  <2>2. CASE run[t] # NoRun /\ Work(t)
    <3> PICK j \in Ids : j = run[t].job
      BY <2>2, BusyRun
    <3>1. /\ Only(j) /\ UNCHANGED <<state, waited>> /\ \A u \in Threads \ {t} : run'[u] = run[u]
          /\ run'[t].job = j /\ state[j] = "running"
          /\ \A u \in Threads \ {t} : run[u].job # j
      BY <2>2, WorkFacts, BusyRun
    <3>2. run'[t].at # "load"
      <4>1. run[t].at = "load" => run[t].before # "pending"
        BY <2>2 DEF Storing, Making, Made
      <4>2. run \in [Threads -> Runs] /\ run[t] \in [job : Ids, at : Stages, before : {"none", "pending", "done"}]
        BY <2>2, BusyRun DEF Typed
      <4>3. CASE \E a \in Stages \ {"load"} : Step(t, a)
        BY <4>2, <4>3 DEF Step
      <4>4. CASE WriteThumb(t)
        BY <4>2, <4>4 DEF WriteThumb
      <4>5. CASE WriteBefore(t)
        BY <4>1, <4>2, <4>5 DEF WriteBefore
      <4>6. QED
        BY <2>2, <4>3, <4>4, <4>5 DEF Work, WriteResult, Animate, WriteMeta, Stages
    <3>3. ~Wanted(j)'
      BY <3>1, <3>2 DEF Wanted, Loading
    <3>4. QED
      BY <3>1, <3>3, OneSpared DEF Spared
  <2>3. ASSUME NEW s \in Ended, Finish(t, s) PROVE Sparing'
    <3> PICK j \in Ids : j = run[t].job
      BY <2>3, BusyRun DEF Finish
    <3>1. /\ run'[t] = NoRun /\ \A u \in Threads \ {t} : run'[u] = run[u]
          /\ state'[j] = s
          /\ \A k \in Ids \ {j} : state'[k] = state[k] /\ ttl'[k] = ttl[k] /\ waited'[k] = waited[k]
          /\ \A u \in Threads \ {t} : run[u].job # j
      BY <2>3, LetGo, BusyRun DEF Finish
    <3>2. Only(j)
      BY <2>3, <3>1 DEF Only, Finish
    <3>3. ~Wanted(j)'
      BY <1>a, <3>1 DEF Wanted, Loading, Ended, NoRun
    <3>4. QED
      BY <3>1, <3>2, <3>3, OneSpared DEF Spared
  <2>4. QED
    BY <1>2, <2>1, <2>2, <2>3, EndingsFinish
<1>3. CASE SweepBlobs
  <2>1. PICK D \in Doomed(dirs, age, Weight) :
          /\ files' = [j \in Ids |-> IF j \in D THEN {} ELSE files[j]]
          /\ evicted' = evicted \cup (D \ Expired(dirs, age))
          /\ UNCHANGED <<age, state, origin, waited, ttl, written, expires, run>>
    BY <1>3 DEF SweepBlobs
  <2>2. SUFFICES ASSUME NEW k \in Uploads, Wanted(k)
                 PROVE  Young(k)' \/ (k \in evicted' /\ age'[k] >= MinAge)
    BY <2>1 DEF Sparing, Spared, Wanted, Loading
  <2>3. k \in Ids /\ Clock(k) /\ (Young(k) \/ (k \in evicted /\ age[k] >= MinAge))
    BY <1>a, <2>2 DEF Sparing, Spared, Clocks
  <2>4. CASE k \in evicted /\ age[k] >= MinAge
    BY <2>1, <2>4
  <2>5. CASE Young(k) /\ k \notin D
    BY <2>1, <2>3, <2>5 DEF Young
  <2>6. CASE Young(k) /\ k \in D
    <3>1. state[k] \in {"stored", "waiting", "running"}
      BY <2>2, <2>3, <1>a, BusyRun, IdleRun DEF Wanted, Loading
    <3>2. age[k] <= BlobTtl
      BY <1>a, <1>b, <2>3, <2>6, <3>1 DEF Young, Clock
    <3>3. k \notin Expired(dirs, age) /\ age[k] >= MinAge
      <4>1. ~(age[k] > BlobTtl)
        BY <1>a, <1>b, <2>3, <3>2
      <4>2. QED
        BY <2>6, <4>1, DoomedFacts
    <3>4. QED
      BY <2>1, <2>6, <3>3
  <2>7. QED
    BY <2>3, <2>4, <2>5, <2>6
<1>4. CASE Tick
  <2>1. SUFFICES ASSUME NEW k \in Uploads, Wanted(k)'
                 PROVE  Young(k)' \/ (k \in evicted' /\ age'[k] >= MinAge)
    BY DEF Sparing, Spared
  <2>2. /\ age'[k] \in {age[k], age[k] + 1}
        /\ waited'[k] = IF state[k] \in Open THEN waited[k] + 1 ELSE waited[k]
        /\ state'[k] \in {state[k], "lapsed", "forgotten"}
        /\ state[k] \notin {"linking", "stored"}
        /\ UNCHANGED <<files, run, evicted>> /\ k \in Ids
    BY <1>a, <1>b, <1>4 DEF Tick
  <2>3. Wanted(k)
    BY <2>1, <2>2 DEF Wanted, Loading
  <2>4. /\ Young(k) \/ (k \in evicted /\ age[k] >= MinAge)
        /\ state[k] \in {"waiting", "running"}
    BY <1>a, <2>2, <2>3, BusyRun, IdleRun DEF Sparing, Spared, Wanted, Loading
  <2>5. CASE Young(k)
    BY <1>a, <1>b, <2>2, <2>4, <2>5 DEF Young, Open
  <2>6. CASE k \in evicted /\ age[k] >= MinAge
    BY <1>a, <1>b, <2>2, <2>6, PictureAssumption
  <2>7. QED
    BY <2>4, <2>5, <2>6
<1>5. CASE UNCHANGED vars
  BY <1>5 DEF vars, Sparing, Spared, Wanted, Loading, Young
<1>6. QED
  BY <1>1, <1>2, <1>3, <1>4, <1>5 DEF Next, Submit

\* What there is of "Never evict something that may still be queued": expiry
\* never takes the picture of a job that waits for a thread or to be loaded,
\* and the ceiling does only once it is past the floor.
THEOREM QueuedIsSpared == Unhurried => (Spec => []SourceSpared)
<1> SUFFICES ASSUME Unhurried PROVE Spec => []SourceSpared
  OBVIOUS
<1>1. RunTime <= BlobTtl
  BY PictureAssumption, ReapAssumption DEF Unhurried
<1>2. Init => Sparing
  BY InitSparing
<1>3. (Typed /\ Clocks /\ Storing) /\ Sparing /\ [Next]_vars => Sparing'
  BY NextSparing
<1>4. Sparing => SourceSpared
  BY DEF Sparing, Spared, Wanted, Loading, Young, SourceSpared
<1>5. Spec => [](Typed /\ Clocks /\ Storing)
  BY <1>1, StoringInvariant
<1>6. QED
  BY <1>2, <1>3, <1>4, <1>5, PTL DEF Spec
=============================================================================
