-------------------------- MODULE WorkerProcessProofs --------------------------
(***************************************************************************)
(* Proofs about WorkerProcess, for any number of jobs, threads, deploys    *)
(* and crashes and any timeouts.  Most of its steps are steps of JobQueue, *)
(* and keep what those keep; what is new is a thread that dies by itself   *)
(* and a process that leaves by itself.                                    *)
(***************************************************************************)
EXTENDS WorkerProcess, JobQueueProofs

USE DEF Idle, Running

\* No process, no loop that was asked to stop, and no registration of its own.
Down == ~alive => main = "watching" /\ keys = {} /\ \A w \in Workers : loop[w] = "on"

\* While the process drains, whatever ran when it was asked to stop has as much
\* of the grace left as it needs; what was popped then has all of it.
InTime ==
  main = "draining" => \A w \in Workers \ late :
    /\ Running(w) => elapsed[w] + left >= JobTimeout
    /\ phase[w] = "taken" => left = JobTimeout

-----------------------------------------------------------------------------
(* The steps of the process, as steps of its queue. *)

\* Whatever the process does to the broker and its threads that JobQueue does
\* not do: it leaves, or it loses threads, or it is asked to stop.
LEMMA QueueSteps ==
  ASSUME [NextProcess]_processVars
  PROVE  \/ [Next]_vars \/ Exit \/ Terminate
         \/ \E ws \in SUBSET Workers \ {{}} : ThreadsDie(ws)
<1>1. ASSUME NEW w \in Workers, Serve(w) \/ TakeLate(w) PROVE Next
  BY <1>1 DEF Serve, TakeLate, Next, Work
<1>2. ASSUME NEW w \in Workers, Leave(w) \/ KeyExpires(w) PROVE UNCHANGED vars
  BY <1>2 DEF Leave, KeyExpires
<1>3. ASSUME NEW w \in Workers, Tidy(w) PROVE Next
  BY <1>3 DEF Tidy, Next
<1>4. CASE Killed \/ Started \/ TickProcess
  BY <1>4 DEF Killed, Started, TickProcess, Next
<1>5. CASE AllExited \/ UNCHANGED processVars
  BY <1>5 DEF AllExited, processVars
<1>6. ASSUME NEW j \in Jobs, Submit(j) \/ Resend(j) PROVE Next
  BY <1>6 DEF Next
<1>7. QED
  BY <1>1, <1>2, <1>3, <1>4, <1>5, <1>6 DEF NextProcess

\* One more time the process goes down.
LEMMA CrashesCount ==
  ASSUME TypeOK, crashes < MaxCrashes, crashes' = crashes + 1
  PROVE  crashes' \in 0..MaxCrashes
BY TimeAssumption DEF TypeOK

LEMMA ProcessType == TypeOK /\ [NextProcess]_processVars => TypeOK'
<1> SUFFICES ASSUME TypeOK, [NextProcess]_processVars PROVE TypeOK'
  OBVIOUS
<1>1. CASE [Next]_vars
  BY <1>1, NextType
<1>2. CASE Terminate
  BY <1>2, CrashesCount DEF Terminate, TypeOK
<1>3. CASE Exit
  <2>1. AgeCap \in Nat
    BY TimeAssumption DEF AgeCap
  <2>2. limbo' \subseteq Jobs
    BY <1>3, BusyHolds DEF Exit, TypeOK
  <2>3. /\ hand' \in [Workers -> Jobs \cup {NoJob}]
        /\ phase' \in [Workers -> {"idle", "taken", "running"}]
        /\ point' \in [Workers -> 0..Animating]
        /\ elapsed' \in [Workers -> 0..AgeCap]
        /\ fired' \in [Workers -> BOOLEAN]
    BY <1>3, <2>1 DEF Exit, Animating
  <2>4. \A x \in Workers : phase'[x] = "idle" <=> hand'[x] = NoJob
    BY <1>3 DEF Exit
  <2>5. alive' \in BOOLEAN
    BY <1>3 DEF Exit
  <2>6. QED
    BY <1>3, <2>2, <2>3, <2>4, <2>5 DEF Exit, TypeOK
<1>4. ASSUME NEW ws \in SUBSET Workers \ {{}}, ThreadsDie(ws) PROVE TypeOK'
  <2>1. limbo' \subseteq Jobs
    BY <1>4 DEF ThreadsDie, TypeOK
  <2>2. /\ hand' \in [Workers -> Jobs \cup {NoJob}]
        /\ phase' \in [Workers -> {"idle", "taken", "running"}]
        /\ \A x \in Workers : phase'[x] = "idle" <=> hand'[x] = NoJob
    BY <1>4 DEF ThreadsDie, TypeOK
  <2>3. UNCHANGED crashes
    BY <1>4 DEF ThreadsDie
  <2>4. QED
    BY <1>4, <2>1, <2>2, <2>3 DEF ThreadsDie, TypeOK
<1>5. QED
  BY <1>1, <1>2, <1>3, <1>4, QueueSteps

\* A job whose thread dies, or whose process leaves, between its pop and its
\* start is in the intermediate list.
LEMMA ProcessKeepsJobs == TypeOK /\ NoLostJob /\ [NextProcess]_processVars => NoLostJob'
<1> SUFFICES ASSUME TypeOK, NoLostJob, [NextProcess]_processVars PROVE NoLostJob'
  OBVIOUS
<1>1. CASE [Next]_vars
  BY <1>1, NextNoLostJob
<1>2. CASE Terminate
  BY <1>2 DEF Terminate, NoLostJob, InQueue
<1>3. CASE Exit
  <2>1. UNCHANGED <<status, queue>> /\ limbo \subseteq limbo'
        /\ \A w \in Workers : phase[w] = "taken" => hand[w] \in limbo'
    BY <1>3 DEF Exit
  <2>2. QED
    BY <2>1 DEF NoLostJob, InQueue
<1>4. ASSUME NEW ws \in SUBSET Workers \ {{}}, ThreadsDie(ws) PROVE NoLostJob'
  <2>1. UNCHANGED <<status, queue>> /\ limbo \subseteq limbo'
    BY <1>4 DEF ThreadsDie
  <2>2. ASSUME NEW w \in Workers, phase[w] = "taken"
        PROVE  hand[w] \in limbo' \/ (hand'[w] = hand[w] /\ phase'[w] = "taken")
    <3>1. hand[w] \in Jobs /\ NoJob \notin Jobs
      BY <2>2, BusyHolds, WorkAssumption
    <3>2. QED
      BY <1>4, <2>2, <3>1 DEF ThreadsDie
  <2>3. QED
    BY <2>1, <2>2 DEF NoLostJob, InQueue
<1>5. QED
  BY <1>1, <1>2, <1>3, <1>4, QueueSteps

\* No queued job is lost, through any number of deploys, crashes, threads that
\* die by themselves and resent pipelines.
THEOREM ProcessNeverLoses == SpecProcess => []NoLostJob
<1>1. InitProcess => TypeOK /\ NoLostJob
  BY InitType DEF InitProcess, Init, NoLostJob
<1>2. QED
  BY <1>1, ProcessType, ProcessKeepsJobs, PTL DEF SpecProcess

-----------------------------------------------------------------------------
(* Threads and their loops. *)

\* A step of a thread moves that thread only, and it holds a job afterwards
\* only if it did before, or popped one.
LEMMA WorkMoves ==
  ASSUME TypeOK, NEW w \in Workers, Work(w), NEW x \in Workers
  PROVE  /\ x # w => phase'[x] = phase[x] /\ elapsed'[x] = elapsed[x]
         /\ phase'[x] = "taken" => phase[x] = "taken" \/ Idle(x)
         /\ phase'[x] = "running" => phase[x] # "idle" /\ elapsed'[x] = elapsed[x]
         /\ phase[x] = "taken" => phase'[x] # "idle"
         /\ alive' = alive
<1>1. CASE Take(w)
  BY <1>1 DEF Take, TypeOK
<1>2. CASE Prepare(w)
  BY <1>2 DEF Prepare, TypeOK
<1>3. CASE Report(w) \/ TimeOutSwallowed(w)
  BY <1>3 DEF Report, TimeOutSwallowed
<1>4. ASSUME NEW s, NEW v, NEW n, EndRun(w, s, v, n), Running(w)
      PROVE  /\ x # w => phase'[x] = phase[x] /\ elapsed'[x] = elapsed[x]
             /\ phase'[x] = "taken" => phase[x] = "taken" \/ Idle(x)
             /\ phase'[x] = "running" => phase[x] # "idle" /\ elapsed'[x] = elapsed[x]
             /\ phase[x] = "taken" => phase'[x] # "idle"
             /\ alive' = alive
  BY <1>4 DEF EndRun, TypeOK
<1>5. CASE Finish(w) \/ Refuse(w) \/ Raise(w) \/ TimeOut(w)
  BY <1>4, <1>5 DEF Finish, Refuse, Raise, TimeOut
<1>6. QED
  BY <1>1, <1>2, <1>3, <1>5 DEF Work

\* What a step of the queue that is not of a thread does to threads.
LEMMA ThreadsRest ==
  ASSUME NEW j, NEW w, Submit(j) \/ Resend(j) \/ Maintain(w)
  PROVE  UNCHANGED <<phase, elapsed, alive>>
BY DEF Submit, Resend, Maintain, Reap, ReapLimbo

LEMMA LoopsTyped == TypeOK /\ TypeOKProcess /\ Down /\ [NextProcess]_processVars
                      => (TypeOK' => TypeOKProcess') /\ Down'
<1> SUFFICES ASSUME TypeOKProcess, TypeOK, Down, [NextProcess]_processVars
             PROVE  (TypeOK' => TypeOKProcess') /\ Down'
  OBVIOUS
<1> USE TimeAssumption DEF TypeOKProcess, Down
<1>1. ASSUME NEW w \in Workers, Serve(w) PROVE (TypeOK' => TypeOKProcess') /\ Down'
  <2>1. /\ UNCHANGED procVars
        /\ \A x \in Workers : x # w => phase'[x] = phase[x]
        /\ alive' = alive
    BY <1>1, WorkMoves DEF Serve
  <2>2. loop[w] \notin {"gone", "blocked"}
    BY <1>1 DEF Serve
  <2>3. QED
    BY <2>1, <2>2 DEF procVars
<1>2. ASSUME NEW w \in Workers, TakeLate(w) PROVE (TypeOK' => TypeOKProcess') /\ Down'
  <2>1. /\ Take(w) /\ loop[w] = "blocked" /\ UNCHANGED <<main, left, keys, ghosts, deaths, alive>>
    BY <1>2 DEF TakeLate, Take
  <2>2. phase[w] = "idle" /\ \A x \in Workers \ {w} : phase'[x] = phase[x]
    BY <2>1 DEF Take, TypeOK
  <2>3. CASE phase'[w] = "taken"
    <3>1. loop' = [loop EXCEPT ![w] = "leaving"] /\ late' = late \cup {w}
      BY <1>2, <2>3 DEF TakeLate
    <3>2. QED
      BY <2>1, <2>2, <2>3, <3>1
  <2>4. CASE phase'[w] # "taken"
    <3>1. UNCHANGED <<loop, late>> /\ phase'[w] = "idle"
      BY <1>2, <2>1, <2>2, <2>4 DEF TakeLate, Take, TypeOK
    <3>2. QED
      BY <2>1, <2>2, <3>1
  <2>5. QED
    BY <2>3, <2>4
<1>3. ASSUME NEW w \in Workers, Leave(w) PROVE (TypeOK' => TypeOKProcess') /\ Down'
  BY <1>3 DEF Leave, vars
<1>4. ASSUME NEW w \in Workers, Tidy(w) PROVE (TypeOK' => TypeOKProcess') /\ Down'
  BY <1>4, ThreadsRest DEF Tidy, procVars
<1>5. ASSUME NEW w \in Workers, KeyExpires(w) PROVE (TypeOK' => TypeOKProcess') /\ Down'
  BY <1>5 DEF KeyExpires, vars
<1>6. ASSUME NEW ws \in SUBSET Workers \ {{}}, ThreadsDie(ws)
      PROVE  (TypeOK' => TypeOKProcess') /\ Down'
  <2>1. deaths' \in 0..MaxDeaths
    BY <1>6, DeathAssumption DEF ThreadsDie
  <2>2. QED
    BY <1>6, <2>1 DEF ThreadsDie
<1>7. CASE Terminate \/ AllExited
  BY <1>7 DEF Terminate, AllExited, AskToStop, vars
<1>8. CASE Exit
  BY <1>8 DEF Exit, WatchAgain
<1>9. CASE Killed
  BY <1>9 DEF Killed, Crash, WatchAgain
<1>10. CASE Started
  BY <1>10 DEF Started, Restart
<1>11. CASE TickProcess
  <2>1. left' \in 0..JobTimeout
    BY <1>11 DEF TickProcess
  <2>2. QED
    BY <1>11, <2>1 DEF TickProcess, Tick
<1>12. ASSUME NEW j \in Jobs, (Submit(j) \/ Resend(j)) /\ UNCHANGED procVars
       PROVE  (TypeOK' => TypeOKProcess') /\ Down'
  BY <1>12, ThreadsRest DEF procVars
<1>13. CASE UNCHANGED processVars
  BY <1>13 DEF processVars, procVars, vars
<1>14. QED
  BY <1>1, <1>2, <1>3, <1>4, <1>5, <1>6, <1>7, <1>8, <1>9, <1>10, <1>11, <1>12, <1>13
     DEF NextProcess

\* Type correctness, and what it says of threads: asked to stop when main
\* drains, and with no job and no registration when they are gone.
THEOREM ProcessTypeCorrect == SpecProcess => []TypeOKProcess
<1>1. InitProcess => TypeOK /\ TypeOKProcess /\ Down
  BY InitType, TimeAssumption, DeathAssumption DEF InitProcess, Init, TypeOKProcess, Down
<1>2. QED
  BY <1>1, ProcessType, LoopsTyped, PTL DEF SpecProcess

-----------------------------------------------------------------------------
(* The grace. *)

LEMMA DrainsInTime ==
  ASSUME TypeOK, TypeOKProcess, InTime, [NextProcess]_processVars
  PROVE  InTime'
<1> USE DEF InTime
<1>0. AgeCap \in Nat /\ JobTimeout \in Nat /\ JobTimeout <= AgeCap
  BY TimeAssumption DEF AgeCap
<1>a. left \in Nat /\ \A w \in Workers : elapsed[w] \in Nat /\ elapsed[w] <= AgeCap
  BY <1>0 DEF TypeOK, TypeOKProcess
<1>1. ASSUME NEW w \in Workers, Serve(w) PROVE InTime'
  <2>1. UNCHANGED <<main, left, late>> /\ Work(w)
    BY <1>1 DEF Serve, procVars
  <2> SUFFICES ASSUME main = "draining", NEW x \in Workers \ late
               PROVE  /\ phase'[x] = "running" => elapsed'[x] + left >= JobTimeout
                      /\ phase'[x] = "taken" => left = JobTimeout
    BY <2>1
  <2>2. loop[w] # "on"
    BY DEF TypeOKProcess
  <2>3. phase[w] # "idle"
    BY <1>1, <2>2 DEF Serve
  <2>4. phase'[x] = "taken" => phase[x] = "taken"
    BY <2>1, <2>3, WorkMoves
  <2>5. phase'[x] = "running" => phase[x] \in {"taken", "running"} /\ elapsed'[x] = elapsed[x]
    BY <2>1, WorkMoves DEF TypeOK
  <2>6. QED
    BY <1>0, <1>a, <2>4, <2>5
<1>2. ASSUME NEW w \in Workers, TakeLate(w) PROVE InTime'
  <2>1. UNCHANGED <<main, left, elapsed>> /\ late \subseteq late'
        /\ \A x \in Workers : phase'[x] = phase[x] \/ x \in late'
    BY <1>2 DEF TakeLate, Take, TypeOK
  <2>2. QED
    BY <2>1
<1>3. ASSUME NEW w \in Workers, Leave(w) \/ Tidy(w) \/ KeyExpires(w) PROVE InTime'
  BY <1>3, ThreadsRest DEF Leave, Tidy, KeyExpires, procVars, vars
<1>4. ASSUME NEW ws \in SUBSET Workers \ {{}}, ThreadsDie(ws) PROVE InTime'
  BY <1>4 DEF ThreadsDie
<1>5. CASE Terminate \/ AllExited
  <2>1. main' = "draining" /\ left' = JobTimeout /\ UNCHANGED <<late, phase, elapsed>>
    BY <1>5 DEF Terminate, AllExited, AskToStop, vars
  <2>2. QED
    BY <1>0, <1>a, <2>1
<1>6. CASE Exit \/ Killed
  BY <1>6 DEF Exit, Killed, WatchAgain
<1>7. CASE Started
  BY <1>7 DEF Started, Restart
<1>8. CASE TickProcess
  <2>1. UNCHANGED <<main, late, phase>> /\ \A w \in Workers : phase[w] # "taken"
    BY <1>8 DEF TickProcess, Tick
  <2>2. left' = IF left > 0 THEN left - 1 ELSE 0
    BY <1>8 DEF TickProcess
  <2>3. \A w \in Workers : Running(w) => elapsed'[w] = Older(elapsed[w])
    BY <1>8 DEF TickProcess, Tick
  <2>4. QED
    BY <1>0, <1>a, <2>1, <2>2, <2>3 DEF Older
<1>9. ASSUME NEW j \in Jobs, (Submit(j) \/ Resend(j)) /\ UNCHANGED procVars PROVE InTime'
  BY <1>9, ThreadsRest DEF procVars
<1>10. CASE UNCHANGED processVars
  BY <1>10 DEF processVars, procVars, vars
<1>11. QED
  BY <1>1, <1>2, <1>3, <1>4, <1>5, <1>6, <1>7, <1>8, <1>9, <1>10 DEF NextProcess

\* A deploy cuts no job short that was running, or popped, when it came: by the
\* time the process leaves, such a job has had its whole timeout.
THEOREM DeploysLeaveTime == SpecProcess => EveryJobGetsItsTime
<1>1. InitProcess => InTime
  BY DEF InitProcess, InTime
<1>2. ASSUME TypeOK, TypeOKProcess, InTime, Exit
      PROVE  \A w \in Workers : Running(w) /\ w \notin late => elapsed[w] >= JobTimeout
  <2>1. \A w \in Workers : elapsed[w] \in Nat
    BY <1>2, TimeAssumption DEF TypeOK, AgeCap
  <2>2. CASE NobodyBusy
    BY <2>2 DEF NobodyBusy
  <2>3. CASE left = 0
    BY <1>2, <2>1, <2>3, TimeAssumption DEF Exit, InTime
  <2>4. QED
    BY <1>2, <2>2, <2>3 DEF Exit
<1>3. SpecProcess => []TypeOK /\ []InTime
  <2>1. InitProcess => TypeOK
    BY InitType DEF InitProcess
  <2>2. QED
    BY <1>1, <2>1, ProcessType, DrainsInTime, ProcessTypeCorrect, PTL DEF SpecProcess
<1>4. TypeOK /\ TypeOKProcess /\ InTime /\ [NextProcess]_processVars
        => [Exit => \A w \in Workers : Running(w) /\ w \notin late
                                        => elapsed[w] >= JobTimeout]_processVars
  BY <1>2
<1>5. QED
  BY <1>3, <1>4, ProcessTypeCorrect, PTL DEF SpecProcess, EveryJobGetsItsTime
=============================================================================
