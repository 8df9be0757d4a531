----------------------------- MODULE WorkerProcess -----------------------------
(***************************************************************************)
(* The worker process around the threads of JobQueue: `serve` of           *)
(* src/worker.py watches them, and on SIGTERM asks each to stop, waits for *)
(* the busy ones for a grace of job_timeout, and leaves; `health` counts   *)
(* the registrations that RQ keeps of this host's threads.                 *)
(*                                                                         *)
(* A thread blocked in its BLMOVE does not see that it was asked to stop.  *)
(* It wakes up within a minute, or with a job in its hand.                 *)
(***************************************************************************)
EXTENDS JobQueue

CONSTANT
  MaxDeaths \* bound: times threads die by themselves in one behaviour

ASSUME DeathAssumption == MaxDeaths \in Nat

VARIABLES
  main,   \* what the main thread does: "watching" or "draining"
  left,   \* ticks of the grace left
  loop,   \* each thread's loop: "on", "blocked" (asked to stop, in its BLMOVE),
          \* "leaving" (will stop when idle) or "gone"
  late,   \* threads that took their job after they were asked to stop (history)
  keys,   \* threads of this process that are registered
  ghosts, \* registrations of a process that died without taking them back
  deaths  \* times threads died by themselves (history, bounded by MaxDeaths)

procVars == <<main, left, loop, late, keys, ghosts, deaths>>
processVars == <<vars, procVars>>

InitProcess ==
  /\ Init
  /\ main = "watching" /\ left = 0
  /\ loop = [w \in Workers |-> "on"] /\ late = {}
  /\ keys = Workers /\ ghosts = {} /\ deaths = 0

WatchAgain ==
  /\ main' = "watching" /\ left' = 0 /\ late' = {}
  /\ loop' = [w \in Workers |-> "on"]

-----------------------------------------------------------------------------
(* The threads. *)

\* ThreadWorker.work: a thread that is on, or busy, as in JobQueue.
Serve(w) ==
  /\ loop[w] = "on" \/ phase[w] # "idle"
  /\ Work(w)
  /\ UNCHANGED procVars

\* A thread that was asked to stop while it waited for a job may still get one.
TakeLate(w) ==
  /\ loop[w] = "blocked" /\ Take(w)
  /\ IF phase'[w] = "taken"
       THEN loop' = [loop EXCEPT ![w] = "leaving"] /\ late' = late \cup {w}
       ELSE UNCHANGED <<loop, late>>
  /\ UNCHANGED <<main, left, keys, ghosts, deaths>>

\* The loop ends between two jobs, and the thread takes its registration back.
Leave(w) ==
  /\ loop[w] \in {"blocked", "leaving"} /\ Idle(w)
  /\ loop' = [loop EXCEPT ![w] = "gone"]
  /\ keys' = keys \ {w}
  /\ UNCHANGED <<vars, main, left, late, ghosts, deaths>>

\* Something escapes work(), in one thread or for one reason in several: what
\* they had popped is left behind.
ThreadsDie(ws) ==
  /\ alive /\ \A w \in ws : loop[w] # "gone" /\ ~Running(w)
  /\ deaths < MaxDeaths /\ deaths' = deaths + 1
  /\ limbo' = limbo \cup ({hand[w] : w \in ws} \ {NoJob})
  /\ hand' = [w \in Workers |-> IF w \in ws THEN NoJob ELSE hand[w]]
  /\ phase' = [w \in Workers |-> IF w \in ws THEN "idle" ELSE phase[w]]
  /\ loop' = [w \in Workers |-> IF w \in ws THEN "gone" ELSE loop[w]]
  /\ keys' = keys \ ws
  /\ UNCHANGED <<status, startedAge, ttl, verdict, progress, queue, unacked, alive, crashes,
                 point, elapsed, fired, runs, main, left, late, ghosts>>

Tidy(w) == loop[w] \in {"on", "leaving"} /\ Maintain(w) /\ UNCHANGED procVars

-----------------------------------------------------------------------------
(* The main thread. *)

\* Mutants of AskToStop: the idle are not asked; the grace is forgotten.
AskToStopBusy ==
  /\ main' = "draining" /\ left' = JobTimeout
  /\ loop' = [w \in Workers |-> IF phase[w] = "idle" THEN loop[w] ELSE "leaving"]
  /\ UNCHANGED <<late, keys, ghosts, deaths>>

AskToStopAtOnce ==
  /\ main' = "draining" /\ left' = 0
  /\ loop' = [w \in Workers |-> IF loop[w] = "gone" THEN "gone"
                                ELSE IF phase[w] = "idle" THEN "blocked" ELSE "leaving"]
  /\ UNCHANGED <<late, keys, ghosts, deaths>>

\* _stop_requested on every worker, and the grace starts.
AskToStop ==
  /\ main' = "draining" /\ left' = JobTimeout
  /\ loop' = [w \in Workers |-> IF loop[w] = "gone" THEN "gone"
                                ELSE IF phase[w] = "idle" THEN "blocked" ELSE "leaving"]
  /\ UNCHANGED <<late, keys, ghosts, deaths>>

\* SIGTERM: a deploy.  It counts as one of the times the process goes down.
Terminate ==
  /\ alive /\ main = "watching" /\ crashes < MaxCrashes
  /\ crashes' = crashes + 1
  /\ AskToStop
  /\ UNCHANGED <<status, startedAge, ttl, verdict, progress, queue, limbo, unacked,
                 alive, hand, phase, point, elapsed, fired, runs>>

\* Every thread has ended by itself.
AllExited ==
  /\ alive /\ main = "watching" /\ \A w \in Workers : loop[w] = "gone"
  /\ AskToStop
  /\ UNCHANGED vars

\* get_state() of no thread is BUSY.  A job popped and not started does not count.
NobodyBusy == \A w \in Workers : ~Running(w)

\* The grace is over or nobody is busy: register_death for every worker, and
\* the process leaves with its daemon threads, wherever they are.
Exit ==
  /\ alive /\ main = "draining" /\ (left = 0 \/ NobodyBusy)
  /\ alive' = FALSE
  /\ limbo' = limbo \cup {hand[w] : w \in {x \in Workers : phase[x] = "taken"}}
  /\ hand' = [w \in Workers |-> NoJob]
  /\ phase' = [w \in Workers |-> "idle"]
  /\ point' = [w \in Workers |-> 0]
  /\ elapsed' = [w \in Workers |-> 0]
  /\ fired' = [w \in Workers |-> FALSE]
  /\ keys' = {} /\ WatchAgain
  /\ UNCHANGED <<status, startedAge, ttl, verdict, progress, queue, unacked, crashes, runs,
                 ghosts, deaths>>

\* Killed: the registrations stay until they expire.
Killed ==
  /\ Crash /\ ghosts' = ghosts \cup keys /\ keys' = {} /\ WatchAgain
  /\ UNCHANGED deaths

\* A new process, in the same container or another; its threads register.
Started ==
  /\ Restart /\ keys' = Workers
  /\ UNCHANGED <<main, left, loop, late, ghosts, deaths>>

\* A registration nobody refreshes: its process is dead, or its thread has
\* been in one native call for longer than RQ trusts it.
KeyExpires(w) ==
  /\ \/ w \in ghosts /\ ghosts' = ghosts \ {w} /\ UNCHANGED keys
     \/ w \in keys /\ Running(w) /\ elapsed[w] > JobTimeout
        /\ keys' = keys \ {w} /\ UNCHANGED ghosts
  /\ UNCHANGED <<vars, main, left, loop, late, deaths>>

\* A tick is longer than the poll for busy threads.
TickProcess ==
  /\ Tick
  /\ alive => ~(main = "draining" /\ (left = 0 \/ NobodyBusy))
  /\ left' = IF left > 0 THEN left - 1 ELSE 0
  /\ UNCHANGED <<main, loop, late, keys, ghosts, deaths>>

\* Mutant of Healthy: some thread is registered.
HealthyAny == keys \cup ghosts # {}

\* `python -m src.worker --health`, on a host whose name outlives the process.
Healthy == Cardinality(keys) + Cardinality(ghosts) >= Cardinality(Workers)

-----------------------------------------------------------------------------
NextProcess ==
  \/ \E j \in Jobs : Submit(j) /\ UNCHANGED procVars
  \/ \E j \in Jobs : Resend(j) /\ UNCHANGED procVars
  \/ \E w \in Workers : Serve(w) \/ TakeLate(w) \/ Leave(w) \/ Tidy(w) \/ KeyExpires(w)
  \/ \E ws \in SUBSET Workers \ {{}} : ThreadsDie(ws)
  \/ Terminate \/ AllExited \/ Exit \/ Killed \/ Started
  \/ TickProcess

SpecProcess == InitProcess /\ [][NextProcess]_processVars

\* Threads run, maintenance is due every minute, redis-py does retry, the main
\* thread polls, the process runs under a restart policy (docs/LOAD.md),
\* registrations have a TTL, and time passes.
FairSpecProcess ==
  /\ SpecProcess
  /\ \A w \in Workers :
       /\ WF_processVars(Serve(w)) /\ WF_processVars(Tidy(w)) /\ WF_processVars(KeyExpires(w))
  /\ \A j \in Jobs : WF_processVars(Resend(j) /\ UNCHANGED procVars)
  /\ WF_processVars(AllExited) /\ WF_processVars(Exit) /\ WF_processVars(Started)
  /\ WF_processVars(TickProcess)

-----------------------------------------------------------------------------
(* Properties. *)

\* The type invariant; threads are asked to stop when main drains, and one that
\* is gone holds no job and no registration.
TypeOKProcess ==
  /\ TypeOK
  /\ main \in {"watching", "draining"} /\ left \in 0..JobTimeout
  /\ loop \in [Workers -> {"on", "blocked", "leaving", "gone"}]
  /\ late \subseteq Workers
  /\ keys \subseteq Workers /\ ghosts \subseteq Workers /\ deaths \in 0..MaxDeaths
  /\ \A w \in Workers :
       /\ loop[w] = "gone" => phase[w] = "idle" /\ w \notin keys
       /\ loop[w] = "on" => main = "watching"
       /\ loop[w] = "blocked" => main = "draining" /\ phase[w] = "idle"

\* A deploy cuts no job short that was running when it came: the grace is as
\* long as the timeout.  Only a job taken after that can be killed young.
EveryJobGetsItsTime ==
  [][Exit => \A w \in Workers : Running(w) /\ w \notin late => elapsed[w] >= JobTimeout]_processVars

\* "0 when every thread is alive": a thread that is gone, or is stuck for good,
\* shows in the health check unless the process itself is replaced.
DeadThreadShows ==
  \A w \in Workers : (alive /\ loop[w] = "gone") ~> (~Healthy \/ ~alive)
=============================================================================
