----------------------------- MODULE JobQueueProofs -----------------------------
(***************************************************************************)
(* Proofs about JobQueue, for any number of jobs, threads and crashes and  *)
(* any timeouts.                                                           *)
(***************************************************************************)
EXTENDS JobQueue, TLAPS

USE DEF Idle, Running, Overdue

\* A busy thread holds a job.
LEMMA BusyHolds ==
  ASSUME TypeOK, NEW w \in Workers, phase[w] # "idle"
  PROVE  hand[w] \in Jobs
BY DEF TypeOK

\* Ages saturate at a natural number.
LEMMA OlderType ==
  ASSUME NEW n \in 0..AgeCap
  PROVE  Older(n) \in 0..AgeCap
BY TimeAssumption DEF Older, AgeCap

\* The initial state is well typed.
LEMMA InitType == Init => TypeOK
<1> SUFFICES ASSUME Init PROVE TypeOK
  OBVIOUS
<1>1. AgeCap \in Nat /\ MaxCrashes \in Nat
  BY TimeAssumption DEF AgeCap
<1>2. NoJob \notin Jobs
  BY WorkAssumption
<1>3. QED
  BY <1>1, <1>2 DEF Init, TypeOK, Status, Terminal, Absent, Verdicts, Animating

\* However a run ends, the state stays well typed.
LEMMA EndRunType ==
  ASSUME TypeOK, NEW w \in Workers, Running(w),
         NEW s \in Terminal, NEW v \in Verdicts, NEW lifetime \in Nat,
         EndRun(w, s, v, lifetime)
  PROVE  TypeOK'
<1>1. hand[w] \in Jobs
  BY BusyHolds
<1>2. status' \in [Jobs -> Status] /\ verdict' \in [Jobs -> Verdicts] /\ ttl' \in [Jobs -> Nat]
  BY <1>1 DEF EndRun, TypeOK, Status
<1>3. AgeCap \in Nat
  BY TimeAssumption DEF AgeCap
<1>4. /\ hand' \in [Workers -> Jobs \cup {NoJob}]
      /\ phase' \in [Workers -> {"idle", "taken", "running"}]
      /\ point' \in [Workers -> 0..Animating]
      /\ elapsed' \in [Workers -> 0..AgeCap]
      /\ fired' \in [Workers -> BOOLEAN]
  BY <1>3 DEF EndRun, TypeOK, Animating
<1>5. \A x \in Workers : phase'[x] = "idle" <=> hand'[x] = NoJob
  BY WorkAssumption DEF EndRun, TypeOK
<1>6. QED
  BY <1>2, <1>4, <1>5 DEF EndRun, TypeOK

\* Every step keeps the state well typed.
LEMMA NextType == TypeOK /\ [Next]_vars => TypeOK'
<1> SUFFICES ASSUME TypeOK, [Next]_vars PROVE TypeOK'
  OBVIOUS
<1>a. AgeCap \in Nat /\ MaxCrashes \in Nat /\ ResultTtl \in Nat /\ FailureTtl \in Nat
  BY TimeAssumption DEF AgeCap
<1>1. ASSUME NEW j \in Jobs, Submit(j) PROVE TypeOK'
  <2>1. queue' \in Seq(Jobs)
    BY <1>1 DEF Submit, TypeOK
  <2>2. status' \in [Jobs -> Status] /\ unacked' \subseteq Jobs
    BY <1>1 DEF Submit, TypeOK, Status
  <2>3. QED
    BY <1>1, <2>1, <2>2 DEF Submit, TypeOK
<1>2. ASSUME NEW j \in Jobs, Resend(j) PROVE TypeOK'
  <2>1. queue' \in Seq(Jobs)
    BY <1>2 DEF Resend, TypeOK
  <2>2. status' \in [Jobs -> Status] /\ unacked' \subseteq Jobs
    BY <1>2 DEF Resend, TypeOK, Status
  <2>3. startedAge' \in [Jobs -> 0..AgeCap] /\ progress' \in [Jobs -> {0, 10, 35, 75, 90, 95}]
    BY <1>2, <1>a DEF Resend, TypeOK
  <2>4. QED
    BY <1>2, <2>1, <2>2, <2>3 DEF Resend, TypeOK
<1>3. ASSUME NEW w \in Workers, Take(w) PROVE TypeOK'
  <2>1. Head(queue) \in Jobs /\ Tail(queue) \in Seq(Jobs)
    BY <1>3 DEF Take, TypeOK
  <2>2. /\ hand' \in [Workers -> Jobs \cup {NoJob}]
        /\ phase' \in [Workers -> {"idle", "taken", "running"}]
    <3>1. CASE status[Head(queue)] = "expired"
      BY <1>3, <3>1 DEF Take, TypeOK
    <3>2. CASE status[Head(queue)] # "expired"
      <4>1. /\ hand' = [hand EXCEPT ![w] = Head(queue)]
            /\ phase' = [phase EXCEPT ![w] = "taken"]
        BY <1>3, <3>2 DEF Take
      <4>2. QED
        BY <2>1, <4>1 DEF TypeOK
    <3>3. QED
      BY <3>1, <3>2
  <2>3. \A x \in Workers : phase'[x] = "idle" <=> hand'[x] = NoJob
    BY <1>3, <2>1, WorkAssumption DEF Take, TypeOK
  <2>4. QED
    BY <1>3, <2>1, <2>2, <2>3 DEF Take, TypeOK
<1>4. ASSUME NEW w \in Workers, Prepare(w) PROVE TypeOK'
  <2>1. hand[w] \in Jobs
    BY <1>4, BusyHolds DEF Prepare
  <2>2. status' \in [Jobs -> Status]
    BY <1>4, <2>1 DEF Prepare, TypeOK, Status
  <2>3. startedAge' \in [Jobs -> 0..AgeCap] /\ runs' \in [Jobs -> Nat]
    BY <1>4, <1>a, <2>1 DEF Prepare, TypeOK
  <2>4. phase' \in [Workers -> {"idle", "taken", "running"}]
    BY <1>4 DEF Prepare, TypeOK
  <2>5. \A x \in Workers : phase'[x] = "idle" <=> hand'[x] = NoJob
    BY <1>4 DEF Prepare, TypeOK
  <2>6. QED
    BY <1>4, <2>2, <2>3, <2>4, <2>5 DEF Prepare, TypeOK
<1>5. ASSUME NEW w \in Workers, Report(w) PROVE TypeOK'
  <2>1. hand[w] \in Jobs
    BY <1>5, BusyHolds DEF Report
  <2>2. point[w] + 1 \in 1..5
    <3>1. point[w] < 5
      BY <1>5 DEF Report, Animating
    <3>2. point[w] \in 0..5
      BY DEF TypeOK, Animating
    <3>3. QED
      BY <3>1, <3>2
  <2>3. Checkpoints[point[w] + 1] \in {0, 10, 35, 75, 90, 95}
    BY <2>2 DEF Checkpoints
  <2>4. progress' \in [Jobs -> {0, 10, 35, 75, 90, 95}]
    BY <1>5, <2>1, <2>3 DEF Report, TypeOK
  <2>5. point' \in [Workers -> 0..Animating]
    <3>1. point' = [point EXCEPT ![w] = point[w] + 1]
      BY <1>5 DEF Report
    <3>2. point \in [Workers -> 0..5]
      BY DEF TypeOK, Animating
    <3>3. QED
      BY <2>2, <3>1, <3>2 DEF Animating
  <2>6. QED
    BY <1>5, <2>4, <2>5 DEF Report, TypeOK
<1>6. ASSUME NEW w \in Workers, Finish(w) \/ Refuse(w) \/ Raise(w) \/ TimeOut(w)
      PROVE  TypeOK'
  BY <1>6, <1>a, EndRunType DEF Finish, Refuse, Raise, TimeOut, Terminal, Verdicts
<1>7. ASSUME NEW w \in Workers, TimeOutSwallowed(w) PROVE TypeOK'
  BY <1>7 DEF TimeOutSwallowed, TypeOK
<1>8. ASSUME NEW w \in Workers, NEW j \in Jobs, Reap(w, j) PROVE TypeOK'
  BY <1>8, <1>a DEF Reap, TypeOK, Status, Terminal
<1>9. ASSUME NEW w \in Workers, NEW j \in Jobs, ReapLimbo(w, j) PROVE TypeOK'
  <2>1. limbo' \subseteq Jobs
    BY <1>9 DEF ReapLimbo, TypeOK
  <2>2. \/ UNCHANGED <<status, ttl>>
        \/ /\ status' = [status EXCEPT ![j] = "failed"]
           /\ ttl' = [ttl EXCEPT ![j] = FailureTtl]
    BY <1>9 DEF ReapLimbo
  <2>3. status' \in [Jobs -> Status]
    <3>1. "failed" \in Status /\ status \in [Jobs -> Status]
      BY DEF TypeOK, Status, Terminal
    <3>2. QED
      BY <2>2, <3>1
  <2>4. ttl' \in [Jobs -> Nat]
    BY <1>a, <2>2 DEF TypeOK
  <2>5. QED
    BY <1>9, <2>1, <2>3, <2>4 DEF ReapLimbo, TypeOK
<1>10. CASE Crash
  <2>1. \A x \in Workers : phase[x] = "taken" => hand[x] \in Jobs
    BY BusyHolds
  <2>2. limbo' \subseteq Jobs
    BY <1>10, <2>1 DEF Crash, TypeOK
  <2>3. crashes' \in 0..MaxCrashes /\ alive' \in BOOLEAN
    <3>1. crashes < MaxCrashes /\ crashes' = crashes + 1 /\ alive' = FALSE
      BY <1>10 DEF Crash
    <3>2. crashes \in 0..MaxCrashes
      BY DEF TypeOK
    <3>3. crashes' \in 0..MaxCrashes
      BY <3>1, <3>2, <1>a
    <3>4. QED
      BY <3>1, <3>3
  <2>4. /\ hand' \in [Workers -> Jobs \cup {NoJob}]
        /\ phase' \in [Workers -> {"idle", "taken", "running"}]
        /\ point' \in [Workers -> 0..Animating]
        /\ elapsed' \in [Workers -> 0..AgeCap]
        /\ fired' \in [Workers -> BOOLEAN]
    BY <1>10, <1>a DEF Crash, Animating
  <2>5. \A x \in Workers : phase'[x] = "idle" <=> hand'[x] = NoJob
    BY <1>10 DEF Crash
  <2>6. QED
    BY <1>10, <2>2, <2>3, <2>4, <2>5 DEF Crash, TypeOK
<1>11. CASE Restart
  BY <1>11 DEF Restart, TypeOK
<1>12. CASE Tick
  <2>1. startedAge' \in [Jobs -> 0..AgeCap] /\ elapsed' \in [Workers -> 0..AgeCap]
    BY <1>12, OlderType DEF Tick, TypeOK
  <2>2. ttl' \in [Jobs -> Nat]
    BY <1>12 DEF Tick, TypeOK
  <2>3. status' \in [Jobs -> Status] /\ verdict' \in [Jobs -> Verdicts]
    BY <1>12 DEF Tick, TypeOK, Status, Absent, Verdicts
  <2>4. QED
    BY <1>12, <2>1, <2>2, <2>3 DEF Tick, TypeOK
<1>13. CASE UNCHANGED vars
  BY <1>13 DEF vars, TypeOK
<1>14. QED
  BY <1>1, <1>2, <1>3, <1>4, <1>5, <1>6, <1>7, <1>8, <1>9, <1>10, <1>11, <1>12, <1>13
     DEF Next, Work, Maintain

\* Type correctness: in every reachable state the record of a job, the queue
\* and the threads hold values of their types, and a thread is idle exactly
\* when it holds no job.
THEOREM TypeCorrect == Spec => []TypeOK
<1>1. Init => TypeOK
  BY InitType
<1>2. TypeOK /\ [Next]_vars => TypeOK'
  BY NextType
<1>3. QED
  BY <1>1, <1>2, PTL DEF Spec

-----------------------------------------------------------------------------
(* Sequences. *)

\* What a push at the end of the queue list does to it.
LEMMA PushFacts ==
  ASSUME NEW S, NEW q \in Seq(S), NEW e \in S
  PROVE  /\ DOMAIN Append(q, e) = DOMAIN q \cup {Len(q) + 1}
         /\ \A i \in DOMAIN q : Append(q, e)[i] = q[i]
         /\ Append(q, e)[Len(q) + 1] = e
         /\ Len(q) + 1 \notin DOMAIN q
OBVIOUS

\* What a pop of its head does to it.
LEMMA PopFacts ==
  ASSUME NEW S, NEW q \in Seq(S), q # <<>>
  PROVE  /\ \A i \in DOMAIN Tail(q) : /\ i + 1 \in DOMAIN q /\ i + 1 # 1
                                      /\ Tail(q)[i] = q[i + 1]
         /\ \A i \in DOMAIN q \ {1} : i - 1 \in DOMAIN Tail(q) /\ Tail(q)[i - 1] = q[i]
         /\ 1 \in DOMAIN q /\ Head(q) = q[1]
         /\ DOMAIN q \subseteq Nat /\ DOMAIN Tail(q) \subseteq Nat
OBVIOUS

-----------------------------------------------------------------------------
(* No queued job is lost.  NoLostJob is inductive relative to TypeOK.      *)

\* A run that ends makes its own job terminal and lets go of no other.
LEMMA EndRunKeepsQueued ==
  ASSUME TypeOK, NoLostJob, NEW w \in Workers, Running(w),
         NEW s \in Terminal, NEW v, NEW lifetime, EndRun(w, s, v, lifetime)
  PROVE  NoLostJob'
<1> SUFFICES ASSUME NEW j \in Jobs, status'[j] = "queued"
             PROVE  \/ InQueue(j)' \/ j \in limbo'
                    \/ \E x \in Workers : hand'[x] = j /\ phase'[x] = "taken"
  BY DEF NoLostJob
<1>1. hand[w] \in Jobs
  BY BusyHolds
<1>2. status[j] = "queued" /\ j # hand[w]
  BY <1>1 DEF EndRun, TypeOK, Terminal
<1>3. CASE InQueue(j) \/ j \in limbo
  BY <1>3 DEF EndRun, InQueue
<1>4. CASE \E x \in Workers : hand[x] = j /\ phase[x] = "taken"
  <2>1. PICK x \in Workers : hand[x] = j /\ phase[x] = "taken"
    BY <1>4
  <2>2. x # w
    BY <1>2, <2>1
  <2>3. hand'[x] = j /\ phase'[x] = "taken"
    BY <2>1, <2>2 DEF EndRun, TypeOK
  <2>4. QED
    BY <2>3
<1>5. QED
  BY <1>2, <1>3, <1>4 DEF NoLostJob

\* Every step keeps a queued job within reach.
LEMMA NextNoLostJob == TypeOK /\ NoLostJob /\ [Next]_vars => NoLostJob'
<1> SUFFICES ASSUME TypeOK, NoLostJob, [Next]_vars PROVE NoLostJob'
  OBVIOUS
<1> DEFINE Reachable(j) == \/ InQueue(j) \/ j \in limbo
                          \/ \E x \in Workers : hand[x] = j /\ phase[x] = "taken"
<1>a. \A j \in Jobs : status[j] = "queued" => Reachable(j)
  BY DEF NoLostJob
<1>1. ASSUME NEW i \in Jobs, Submit(i) \/ Resend(i) PROVE NoLostJob'
  <2>1. queue' = Append(queue, i) /\ UNCHANGED <<limbo, hand, phase>>
    BY <1>1 DEF Submit, Resend
  <2>2. ASSUME NEW k \in Jobs, InQueue(k) PROVE InQueue(k)'
    <3>1. PICK n \in DOMAIN queue : queue[n] = k
      BY <2>2 DEF InQueue
    <3>2. n \in DOMAIN queue' /\ queue'[n] = k
      <4>1. queue \in Seq(Jobs)
        BY DEF TypeOK
      <4>2. QED
        BY <2>1, <3>1, <4>1, PushFacts
    <3>3. QED
      BY <3>2 DEF InQueue
  <2>3. InQueue(i)'
    <3>1. queue'[Len(queue) + 1] = i /\ Len(queue) + 1 \in DOMAIN queue'
      BY <2>1 DEF TypeOK
    <3>2. QED
      BY <3>1 DEF InQueue
  <2>4. \A k \in Jobs : k # i => status'[k] = status[k]
    BY <1>1 DEF Submit, Resend, TypeOK
  <2>5. QED
    BY <2>1, <2>2, <2>3, <2>4 DEF NoLostJob
<1>2. ASSUME NEW w \in Workers, Take(w) PROVE NoLostJob'
  <2>1. SUFFICES ASSUME NEW j \in Jobs, status'[j] = "queued" PROVE Reachable(j)'
    BY DEF NoLostJob
  <2>2. status[j] = "queued" /\ limbo' = limbo /\ queue' = Tail(queue) /\ queue # <<>>
        /\ phase[w] = "idle"
    BY <1>2, <2>1 DEF Take
  <2>3. CASE InQueue(j) /\ j # Head(queue)
    <3>1. PICK i \in DOMAIN queue : queue[i] = j
      BY <2>3 DEF InQueue
    <3>2. i - 1 \in DOMAIN queue' /\ queue'[i - 1] = j
      <4>1. queue \in Seq(Jobs) /\ Head(queue) # queue[i]
        BY <2>3, <3>1 DEF TypeOK
      <4>2. queue[1] = Head(queue)
        BY <2>2, <4>1, PopFacts
      <4>3. QED
        BY <2>2, <3>1, <4>1, <4>2, PopFacts
    <3>3. QED
      BY <3>2 DEF InQueue
  <2>4. CASE j = Head(queue)
    <3>1. hand'[w] = j /\ phase'[w] = "taken"
      BY <1>2, <2>2, <2>4 DEF Take, TypeOK
    <3>2. QED
      BY <3>1
  <2>5. CASE j \in limbo
    BY <2>2, <2>5
  <2>6. CASE \E x \in Workers : hand[x] = j /\ phase[x] = "taken"
    <3>1. PICK x \in Workers : hand[x] = j /\ phase[x] = "taken"
      BY <2>6
    <3>2. hand'[x] = j /\ phase'[x] = "taken"
      BY <1>2, <2>2, <3>1 DEF Take, TypeOK
    <3>3. QED
      BY <3>2
  <2>7. QED
    BY <1>a, <2>2, <2>3, <2>4, <2>5, <2>6
<1>3. ASSUME NEW w \in Workers, Prepare(w) PROVE NoLostJob'
  <2>1. SUFFICES ASSUME NEW j \in Jobs, status'[j] = "queued" PROVE Reachable(j)'
    BY DEF NoLostJob
  <2>2. hand[w] \in Jobs
    BY <1>3, BusyHolds DEF Prepare
  <2>3. status[j] = "queued" /\ j # hand[w] /\ UNCHANGED <<queue, limbo, hand>>
    BY <1>3, <2>1, <2>2 DEF Prepare, TypeOK
  <2>4. \A x \in Workers : hand[x] = j => phase'[x] = phase[x]
    BY <1>3, <2>3 DEF Prepare, TypeOK
  <2>5. QED
    BY <1>a, <2>3, <2>4 DEF InQueue
<1>4. ASSUME NEW w \in Workers, Report(w) \/ TimeOutSwallowed(w) PROVE NoLostJob'
  BY <1>4 DEF Report, TimeOutSwallowed, NoLostJob, InQueue
<1>5. ASSUME NEW w \in Workers, Finish(w) \/ Refuse(w) \/ Raise(w) \/ TimeOut(w)
      PROVE  NoLostJob'
  BY <1>5, EndRunKeepsQueued DEF Finish, Refuse, Raise, TimeOut, Terminal
<1>6. ASSUME NEW w \in Workers, NEW i \in Jobs, Reap(w, i) PROVE NoLostJob'
  <2>1. \A k \in Jobs : status'[k] = "queued" => status[k] = "queued"
    BY <1>6 DEF Reap, TypeOK
  <2>2. QED
    BY <1>6, <2>1 DEF Reap, NoLostJob, InQueue
<1>7. ASSUME NEW w \in Workers, NEW i \in Jobs, ReapLimbo(w, i) PROVE NoLostJob'
  <2>1. \A k \in Jobs : status'[k] = "queued" => status[k] = "queued" /\ k # i
    BY <1>7 DEF ReapLimbo, TypeOK
  <2>2. limbo' = limbo \ {i} /\ UNCHANGED <<queue, hand, phase>>
    BY <1>7 DEF ReapLimbo
  <2>3. QED
    BY <2>1, <2>2 DEF NoLostJob, InQueue
<1>8. CASE Crash
  <2>1. \A x \in Workers : phase[x] = "taken" => hand[x] \in limbo'
    BY <1>8 DEF Crash
  <2>2. limbo \subseteq limbo' /\ UNCHANGED <<status, queue>>
    BY <1>8 DEF Crash
  <2>3. QED
    BY <2>1, <2>2 DEF NoLostJob, InQueue
<1>9. CASE Restart
  BY <1>9 DEF Restart, NoLostJob, InQueue
<1>10. CASE Tick
  <2>1. \A k \in Jobs : status'[k] = "queued" => status[k] = "queued"
    BY <1>10 DEF Tick, TypeOK
  <2>2. UNCHANGED <<queue, limbo, hand, phase>>
    BY <1>10 DEF Tick
  <2>3. QED
    BY <2>1, <2>2 DEF NoLostJob, InQueue
<1>11. CASE UNCHANGED vars
  BY <1>11 DEF vars, NoLostJob, InQueue
<1>12. QED
  BY <1>1, <1>2, <1>3, <1>4, <1>5, <1>6, <1>7, <1>8, <1>9, <1>10, <1>11
     DEF Next, Work, Maintain

\* No queued job is lost: while a job's record says it is queued, its id is in
\* the queue list, in the hand of a thread about to start it or in the
\* intermediate list, through any number of crashes and resent pipelines.
THEOREM NeverLost == Spec => []NoLostJob
<1>1. Init => NoLostJob
  BY DEF Init, NoLostJob
<1>2. TypeOK /\ NoLostJob /\ [Next]_vars => NoLostJob'
  BY NextNoLostJob
<1>3. QED
  BY <1>1, <1>2, TypeCorrect, PTL DEF Spec

-----------------------------------------------------------------------------
(* What holds when every enqueue pipeline is executed once: a waiting job   *)
(* is in one place, no job is started twice, a record has an expiry exactly *)
(* when its job has ended, and a waiting job only moves up.                 *)

\* What the records of the jobs say of the runs.
Records ==
  /\ RecordLifetime
  /\ OneRunPerJob
  /\ \A j \in Jobs : status[j] \in {"unborn", "queued"} => runs[j] = 0
  /\ \A w \in Workers : Running(w) => status[hand[w]] \notin {"unborn", "queued"}

\* The inductive invariant.
Once == unacked = {} /\ OnePlace /\ Records

-----------------------------------------------------------------------------
(* A waiting job is in one place. *)

\* A step that moves no id and takes no waiting job off its status.
LEMMA PlacesUnmoved ==
  ASSUME TypeOK, OnePlace, UNCHANGED <<queue, limbo, hand, phase>>,
         \A j \in Jobs : status[j] = "queued" => status'[j] = "queued"
  PROVE  OnePlace'
<1>1. \A i \in DOMAIN queue : queue[i] \in Jobs
  BY DEF TypeOK
<1>2. \A w \in Workers : phase[w] = "taken" => hand[w] \in Jobs
  BY BusyHolds
<1>3. \A w \in Workers : InQueue(hand[w])' <=> InQueue(hand[w])
  BY DEF InQueue
<1>4. limbo \subseteq Jobs
  BY DEF TypeOK
<1>5. QED
  BY <1>1, <1>2, <1>3, <1>4 DEF OnePlace

\* A new job takes one place, at the end of the list.
LEMMA SubmitPlaces ==
  ASSUME TypeOK, Once, NEW j \in Jobs, Submit(j)
  PROVE  OnePlace'
<1>1. /\ \A i \in DOMAIN queue : queue[i] \in Jobs /\ queue[i] # j
      /\ j \notin limbo
      /\ \A w \in Workers : phase[w] = "taken" => hand[w] \in Jobs /\ hand[w] # j
  BY BusyHolds DEF TypeOK, Once, OnePlace, Submit
<1>2. /\ queue' = Append(queue, j) /\ UNCHANGED <<limbo, hand, phase>>
      /\ status'[j] = "queued" /\ \A k \in Jobs : k # j => status'[k] = status[k]
  BY DEF Submit, TypeOK
<1>3. /\ DOMAIN queue' = DOMAIN queue \cup {Len(queue) + 1}
      /\ \A i \in DOMAIN queue : queue'[i] = queue[i]
      /\ queue'[Len(queue) + 1] = j
  BY <1>2, PushFacts DEF TypeOK
<1>4. \A i, k \in DOMAIN queue' : queue'[i] = queue'[k] => i = k
  BY <1>1, <1>3 DEF Once, OnePlace
<1>5. \A i \in DOMAIN queue' : status'[queue'[i]] = "queued" /\ queue'[i] \notin limbo'
  BY <1>1, <1>2, <1>3 DEF Once, OnePlace
<1>6. ASSUME NEW w \in Workers, phase'[w] = "taken"
      PROVE  /\ status'[hand'[w]] = "queued" /\ hand'[w] \notin limbo' /\ ~InQueue(hand[w])'
             /\ \A x \in Workers : phase'[x] = "taken" /\ hand'[x] = hand'[w] => x = w
  BY <1>1, <1>2, <1>3, <1>6 DEF Once, OnePlace, InQueue
<1>7. \A k \in limbo' : status'[k] = "queued"
  BY <1>1, <1>2 DEF Once, OnePlace, TypeOK
<1>8. QED
  BY <1>4, <1>5, <1>6, <1>7 DEF OnePlace

\* A job that is popped moves from the list into one hand.
LEMMA TakePlaces ==
  ASSUME TypeOK, Once, NEW w \in Workers, Take(w)
  PROVE  OnePlace'
<1> DEFINE j == Head(queue)
<1>1. queue # <<>> /\ queue \in Seq(Jobs)
  <2>1. queue # <<>>
    BY DEF Take
  <2>2. queue \in Seq(Jobs)
    BY DEF TypeOK
  <2>3. QED
    BY <2>1, <2>2
<1>2. /\ 1 \in DOMAIN queue /\ j = queue[1] /\ j \in Jobs
      /\ \A i \in DOMAIN queue : queue[i] \in Jobs
  BY <1>1
<1>3. status[j] = "queued" /\ j \notin limbo /\ \A x \in Workers : phase[x] = "taken" => hand[x] # j
  BY <1>2 DEF Once, OnePlace, InQueue
<1>4. /\ queue' = Tail(queue) /\ UNCHANGED <<status, limbo>>
      /\ hand' = [hand EXCEPT ![w] = j] /\ phase' = [phase EXCEPT ![w] = "taken"]
  BY <1>3 DEF Take
<1>5. /\ \A i \in DOMAIN queue' : /\ i + 1 \in DOMAIN queue /\ i + 1 # 1
                                  /\ queue'[i] = queue[i + 1]
      /\ DOMAIN queue' \subseteq Nat
  BY <1>1, <1>4, PopFacts
<1>6. \A i, k \in DOMAIN queue' : queue'[i] = queue'[k] => i = k
  <2>1. SUFFICES ASSUME NEW i \in DOMAIN queue', NEW k \in DOMAIN queue', queue'[i] = queue'[k]
                 PROVE  i = k
    OBVIOUS
  <2>2. i + 1 = k + 1
    BY <1>5, <2>1 DEF Once, OnePlace
  <2>3. QED
    BY <1>5, <2>2
<1>7. \A i \in DOMAIN queue' : /\ status'[queue'[i]] = "queued" /\ queue'[i] \notin limbo'
                               /\ queue'[i] # j
  BY <1>2, <1>4, <1>5 DEF Once, OnePlace
<1>8. /\ hand'[w] = j /\ phase'[w] = "taken"
      /\ \A x \in Workers : x # w => hand'[x] = hand[x] /\ phase'[x] = phase[x]
  BY <1>4 DEF TypeOK
<1>9. ASSUME NEW x \in Workers, phase'[x] = "taken"
      PROVE  /\ status'[hand'[x]] = "queued" /\ hand'[x] \notin limbo' /\ ~InQueue(hand[x])'
             /\ \A y \in Workers : phase'[y] = "taken" /\ hand'[y] = hand'[x] => y = x
  <2>1. CASE x = w
    <3>1. ~InQueue(hand[x])'
      BY <1>7, <1>8, <2>1 DEF InQueue
    <3>2. QED
      BY <1>3, <1>4, <1>8, <2>1, <3>1
  <2>2. CASE x # w
    <3>1. phase[x] = "taken" /\ hand'[x] = hand[x]
      BY <1>8, <1>9, <2>2
    <3>2. ~InQueue(hand[x])'
      BY <1>5, <3>1 DEF Once, OnePlace, InQueue
    <3>3. QED
      BY <1>3, <1>4, <1>8, <3>1, <3>2 DEF Once, OnePlace
  <2>3. QED
    BY <2>1, <2>2
<1>10. \A k \in limbo' : status'[k] = "queued"
  BY <1>4 DEF Once, OnePlace
<1>11. QED
  BY <1>6, <1>7, <1>9, <1>10 DEF OnePlace

\* A job that is started leaves the places of those that wait.
LEMMA PreparePlaces ==
  ASSUME TypeOK, Once, NEW w \in Workers, Prepare(w)
  PROVE  OnePlace'
<1> DEFINE j == hand[w]
<1>1. /\ j \in Jobs /\ phase[w] = "taken"
      /\ \A i \in DOMAIN queue : queue[i] \in Jobs
      /\ limbo \subseteq Jobs
  BY BusyHolds DEF Prepare, TypeOK
<1>2. j \notin limbo /\ ~InQueue(j)
  BY <1>1 DEF Once, OnePlace
<1>3. \A x \in Workers : x # w /\ phase[x] = "taken" => hand[x] # j /\ hand[x] \in Jobs
  BY <1>1, BusyHolds DEF Once, OnePlace
<1>4. /\ UNCHANGED <<queue, limbo, hand>>
      /\ phase'[w] = "running"
      /\ \A x \in Workers : x # w => phase'[x] = phase[x]
      /\ \A k \in Jobs : k # j => status'[k] = status[k]
  BY <1>1 DEF Prepare, TypeOK
<1>5. /\ \A i, k \in DOMAIN queue' : queue'[i] = queue'[k] => i = k
      /\ \A i \in DOMAIN queue' : status'[queue'[i]] = "queued" /\ queue'[i] \notin limbo'
  BY <1>1, <1>2, <1>4 DEF Once, OnePlace, InQueue
<1>6. ASSUME NEW x \in Workers, phase'[x] = "taken"
      PROVE  /\ status'[hand'[x]] = "queued" /\ hand'[x] \notin limbo' /\ ~InQueue(hand[x])'
             /\ \A y \in Workers : phase'[y] = "taken" /\ hand'[y] = hand'[x] => y = x
  <2>1. x # w /\ phase[x] = "taken"
    BY <1>4, <1>6
  <2>2. ~InQueue(hand[x])'
    BY <1>4, <2>1 DEF Once, OnePlace, InQueue
  <2>3. \A y \in Workers : phase'[y] = "taken" => y # w /\ phase[y] = "taken"
    BY <1>4
  <2>4. QED
    BY <1>3, <1>4, <2>1, <2>2, <2>3 DEF Once, OnePlace
<1>7. \A k \in limbo' : status'[k] = "queued"
  BY <1>1, <1>2, <1>4 DEF Once, OnePlace
<1>8. QED
  BY <1>5, <1>6, <1>7 DEF OnePlace

\* The end of a run concerns a job that was no longer waiting.
LEMMA EndRunPlaces ==
  ASSUME TypeOK, Once, NEW w \in Workers, Running(w),
         NEW s, NEW v, NEW lifetime, EndRun(w, s, v, lifetime)
  PROVE  OnePlace'
<1> DEFINE j == hand[w]
<1>a. j \in Jobs
  BY BusyHolds
<1>1. /\ j \in Jobs
      /\ \A i \in DOMAIN queue : queue[i] \in Jobs
      /\ limbo \subseteq Jobs
  BY <1>a DEF TypeOK
<1>2. status[j] # "queued"
  BY DEF Once, Records
<1>3. /\ UNCHANGED <<queue, limbo>>
      /\ \A k \in Jobs : k # j => status'[k] = status[k]
      /\ \A x \in Workers : phase'[x] = "taken" => phase[x] = "taken" /\ hand'[x] = hand[x]
  BY <1>1 DEF EndRun, TypeOK
<1>4. /\ \A i, k \in DOMAIN queue' : queue'[i] = queue'[k] => i = k
      /\ \A i \in DOMAIN queue' : status'[queue'[i]] = "queued" /\ queue'[i] \notin limbo'
  BY <1>1, <1>2, <1>3 DEF Once, OnePlace
<1>5. ASSUME NEW x \in Workers, phase'[x] = "taken"
      PROVE  /\ status'[hand'[x]] = "queued" /\ hand'[x] \notin limbo' /\ ~InQueue(hand[x])'
             /\ \A y \in Workers : phase'[y] = "taken" /\ hand'[y] = hand'[x] => y = x
  <2>1. phase[x] = "taken" /\ hand'[x] = hand[x] /\ hand[x] \in Jobs
    BY <1>3, <1>5, BusyHolds
  <2>2. ~InQueue(hand[x])'
    BY <1>3, <2>1 DEF Once, OnePlace, InQueue
  <2>3. QED
    BY <1>2, <1>3, <2>1, <2>2 DEF Once, OnePlace
<1>6. \A k \in limbo' : status'[k] = "queued"
  BY <1>1, <1>2, <1>3 DEF Once, OnePlace
<1>7. QED
  BY <1>4, <1>5, <1>6 DEF OnePlace

\* A job failed out of the intermediate list is in no place afterwards.
LEMMA ReapLimboPlaces ==
  ASSUME TypeOK, Once, NEW w \in Workers, NEW j \in Jobs, ReapLimbo(w, j)
  PROVE  OnePlace'
<1>a. /\ j \in limbo
      /\ \A i \in DOMAIN queue : queue[i] \in Jobs
      /\ \A x \in Workers : phase[x] = "taken" => hand[x] \in Jobs
  BY BusyHolds DEF ReapLimbo, TypeOK
<1>1. /\ j \in limbo
      /\ \A i \in DOMAIN queue : queue[i] \in Jobs /\ queue[i] # j
      /\ \A x \in Workers : phase[x] = "taken" => hand[x] \in Jobs /\ hand[x] # j
  BY <1>a DEF Once, OnePlace
<1>2. /\ UNCHANGED <<queue, hand, phase>> /\ limbo' = limbo \ {j}
      /\ \A k \in Jobs : k # j => status'[k] = status[k]
  BY DEF ReapLimbo, TypeOK
<1>3. \A x \in Workers : InQueue(hand[x])' <=> InQueue(hand[x])
  BY <1>2 DEF InQueue
<1>4. limbo \subseteq Jobs /\ OnePlace
  BY DEF TypeOK, Once
<1>5. /\ \A i, k \in DOMAIN queue' : queue'[i] = queue'[k] => i = k
      /\ \A i \in DOMAIN queue' : status'[queue'[i]] = "queued" /\ queue'[i] \notin limbo'
  BY <1>1, <1>2, <1>4 DEF OnePlace
<1>6. ASSUME NEW x \in Workers, phase'[x] = "taken"
      PROVE  /\ status'[hand'[x]] = "queued" /\ hand'[x] \notin limbo' /\ ~InQueue(hand[x])'
             /\ \A y \in Workers : phase'[y] = "taken" /\ hand'[y] = hand'[x] => y = x
  BY <1>1, <1>2, <1>3, <1>4, <1>6 DEF OnePlace
<1>7. \A k \in limbo' : status'[k] = "queued"
  BY <1>2, <1>4 DEF OnePlace
<1>8. QED
  BY <1>5, <1>6, <1>7 DEF OnePlace

\* A crash moves what the hands held into the intermediate list.
LEMMA CrashPlaces ==
  ASSUME TypeOK, Once, Crash
  PROVE  OnePlace'
<1>1. /\ UNCHANGED <<status, queue>>
      /\ limbo' = limbo \cup {hand[w] : w \in {x \in Workers : phase[x] = "taken"}}
      /\ \A w \in Workers : phase'[w] # "taken"
  BY DEF Crash
<1>2. \A k \in limbo' : k \in limbo \/ \E w \in Workers : phase[w] = "taken" /\ k = hand[w]
  BY <1>1
<1>3. \A k \in limbo' : status'[k] = "queued"
  BY <1>1, <1>2 DEF Once, OnePlace
<1>4. \A i \in DOMAIN queue : queue[i] \notin limbo'
  BY <1>2 DEF Once, OnePlace, InQueue
<1>5. QED
  BY <1>1, <1>3, <1>4 DEF Once, OnePlace

-----------------------------------------------------------------------------
(* What the records say. *)

\* A step that touches no record, starts no job and takes up none.
LEMMA RecordsUnmoved ==
  ASSUME Records, UNCHANGED <<status, ttl, runs>>,
         \A w \in Workers : phase'[w] = "running" => phase[w] = "running" /\ hand'[w] = hand[w]
  PROVE  Records'
BY DEF Records, RecordLifetime, OneRunPerJob

\* A step that writes one record, giving it a terminal status and an expiry.
LEMMA RecordsEnded ==
  ASSUME TypeOK, Records, NEW j \in Jobs, NEW s \in Terminal, NEW lifetime \in Nat \ {0},
         status' = [status EXCEPT ![j] = s], ttl' = [ttl EXCEPT ![j] = lifetime],
         UNCHANGED runs,
         \A w \in Workers : phase'[w] = "running" => phase[w] = "running" /\ hand'[w] = hand[w]
  PROVE  Records'
<1>1. /\ status'[j] \in Terminal /\ ttl'[j] > 0
      /\ \A k \in Jobs : k # j => status'[k] = status[k] /\ ttl'[k] = ttl[k]
  BY DEF TypeOK
<1>2. \A w \in Workers : phase[w] = "running" => hand[w] \in Jobs
  BY BusyHolds
<1>3. RecordLifetime'
  BY <1>1 DEF Records, RecordLifetime
<1>4. \A k \in Jobs : status'[k] \in {"unborn", "queued"} => status[k] \in {"unborn", "queued"}
  BY <1>1 DEF Terminal
<1>5. \A w \in Workers : phase'[w] = "running" => status'[hand'[w]] \notin {"unborn", "queued"}
  BY <1>2, <1>4 DEF Records
<1>6. QED
  BY <1>3, <1>4, <1>5 DEF Records, OneRunPerJob

\* A new record is queued, with no expiry and no run.
LEMMA SubmitRecords ==
  ASSUME TypeOK, Once, NEW j \in Jobs, Submit(j)
  PROVE  Records'
<1>1. /\ status[j] = "unborn" /\ status'[j] = "queued" /\ UNCHANGED <<ttl, runs, hand, phase>>
      /\ \A k \in Jobs : k # j => status'[k] = status[k]
  BY DEF Submit, TypeOK
<1>2. \A w \in Workers : phase[w] = "running" => hand[w] \in Jobs /\ hand[w] # j
  BY <1>1, BusyHolds DEF Once, Records
<1>3. QED
  BY <1>1, <1>2 DEF Once, Records, RecordLifetime, OneRunPerJob, Terminal

\* Only a waiting job is started, and it had not been before.
LEMMA PrepareRecords ==
  ASSUME TypeOK, Once, NEW w \in Workers, Prepare(w)
  PROVE  Records'
<1> DEFINE j == hand[w]
<1>1. /\ j \in Jobs /\ phase[w] = "taken"
  BY BusyHolds DEF Prepare
<1>2. status[j] = "queued" /\ runs[j] = 0
  BY <1>1 DEF Once, OnePlace, Records
<1>3. /\ UNCHANGED <<ttl, hand>> /\ status'[j] = "started" /\ runs'[j] = 1
      /\ \A k \in Jobs : k # j => status'[k] = status[k] /\ runs'[k] = runs[k]
      /\ \A x \in Workers : x # w => phase'[x] = phase[x]
  BY <1>1, <1>2 DEF Prepare, TypeOK
<1>4. \A x \in Workers : phase[x] = "running" => hand[x] \in Jobs
  BY BusyHolds
<1>5. RecordLifetime'
  BY <1>2, <1>3 DEF Once, Records, RecordLifetime, Terminal
<1>6. \A x \in Workers : phase'[x] = "running" => status'[hand'[x]] \notin {"unborn", "queued"}
  BY <1>3, <1>4 DEF Once, Records
<1>7. QED
  BY <1>3, <1>5, <1>6 DEF Once, Records, OneRunPerJob

\* A tick ages expiries, and drops the records whose time has come.
LEMMA TickRecords ==
  ASSUME TypeOK, Records, Tick
  PROVE  Records'
<1>1. UNCHANGED <<runs, hand, phase>>
  BY DEF Tick
<1>2. \A k \in Jobs : status'[k] = IF ttl[k] = 1 THEN "expired" ELSE status[k]
  BY DEF Tick
<1>3. \A k \in Jobs : ttl'[k] = IF ttl[k] > 0 THEN ttl[k] - 1 ELSE 0
  BY DEF Tick
<1>4. \A k \in Jobs : ttl[k] \in Nat
  BY DEF TypeOK
<1>5. RecordLifetime'
  <2>1. SUFFICES ASSUME NEW k \in Jobs PROVE ttl'[k] > 0 <=> status'[k] \in Terminal
    BY DEF RecordLifetime
  <2>2. ttl[k] > 0 <=> status[k] \in Terminal
    BY DEF Records, RecordLifetime
  <2>3. CASE ttl[k] = 1
    BY <1>2, <1>3, <2>3 DEF Terminal
  <2>4. CASE ttl[k] # 1
    BY <1>2, <1>3, <1>4, <2>2, <2>4
  <2>5. QED
    BY <2>3, <2>4
<1>6. \A k \in Jobs : status'[k] \in {"unborn", "queued"} => status[k] = status'[k]
  BY <1>2
<1>7. \A w \in Workers : phase[w] = "running" => hand[w] \in Jobs
  BY BusyHolds
<1>8. \A w \in Workers : phase'[w] = "running" => status'[hand'[w]] \notin {"unborn", "queued"}
  BY <1>1, <1>6, <1>7 DEF Records
<1>9. QED
  BY <1>1, <1>5, <1>6, <1>8 DEF Records, OneRunPerJob

-----------------------------------------------------------------------------
(* Once is inductive. *)

\* Every step preserves Once, provided no reply to an enqueue is lost.
LEMMA NextOnce ==
  ASSUME ~MayResend, TypeOK, Once, [Next]_vars
  PROVE  Once'
<1>a. ResultTtl \in Nat \ {0} /\ FailureTtl \in Nat \ {0}
  BY TimeAssumption
<1>b. OnePlace /\ Records /\ unacked = {}
  BY DEF Once
<1>1. ASSUME NEW j \in Jobs, Submit(j) PROVE Once'
  <2>1. unacked' = {}
    BY <1>1, <1>b DEF Submit
  <2>2. QED
    BY <1>1, <2>1, SubmitPlaces, SubmitRecords DEF Once
<1>2. ASSUME NEW j \in Jobs, Resend(j) PROVE FALSE
  BY <1>2, <1>b DEF Resend
<1>3. ASSUME NEW w \in Workers, Take(w) PROVE Once'
  <2>1. UNCHANGED <<status, ttl, runs, unacked>>
    BY <1>3 DEF Take
  <2>2. \A x \in Workers : phase'[x] = "running" => phase[x] = "running" /\ hand'[x] = hand[x]
    BY <1>3 DEF Take, TypeOK
  <2>3. QED
    BY <1>3, <1>b, <2>1, <2>2, TakePlaces, RecordsUnmoved DEF Once
<1>4. ASSUME NEW w \in Workers, Prepare(w) PROVE Once'
  <2>1. unacked' = {}
    BY <1>4, <1>b DEF Prepare
  <2>2. QED
    BY <1>4, <2>1, PreparePlaces, PrepareRecords DEF Once
<1>5. ASSUME NEW w \in Workers, Report(w) \/ TimeOutSwallowed(w) PROVE Once'
  <2>1. UNCHANGED <<status, ttl, runs, unacked, queue, limbo, hand, phase>>
    BY <1>5 DEF Report, TimeOutSwallowed
  <2>2. QED
    BY <1>b, <2>1, PlacesUnmoved, RecordsUnmoved DEF Once
<1>6. ASSUME NEW w \in Workers, NEW s \in Terminal, NEW v, NEW lifetime \in Nat \ {0},
             Running(w), EndRun(w, s, v, lifetime)
      PROVE  Once'
  <2>1. hand[w] \in Jobs
    BY <1>6, BusyHolds
  <2>2. /\ status' = [status EXCEPT ![hand[w]] = s] /\ ttl' = [ttl EXCEPT ![hand[w]] = lifetime]
        /\ UNCHANGED <<runs, unacked>>
    BY <1>6 DEF EndRun
  <2>3. \A x \in Workers : phase'[x] = "running" => phase[x] = "running" /\ hand'[x] = hand[x]
    BY <1>6 DEF EndRun, TypeOK
  <2>4. Records'
    BY <1>b, <2>1, <2>2, <2>3, RecordsEnded
  <2>5. QED
    BY <1>6, <1>b, <2>2, <2>4, EndRunPlaces DEF Once
<1>7. ASSUME NEW w \in Workers, Finish(w) \/ Refuse(w) \/ Raise(w) \/ TimeOut(w)
      PROVE  Once'
  BY <1>a, <1>6, <1>7 DEF Finish, Refuse, Raise, TimeOut, Terminal
<1>8. ASSUME NEW w \in Workers, NEW j \in Jobs, Reap(w, j) PROVE Once'
  <2>1. /\ status[j] = "started"
        /\ status' = [status EXCEPT ![j] = "failed"] /\ ttl' = [ttl EXCEPT ![j] = FailureTtl]
        /\ UNCHANGED <<runs, unacked, queue, limbo, hand, phase>>
    BY <1>8 DEF Reap
  <2>2. Records'
    BY <1>a, <1>b, <2>1, RecordsEnded DEF Terminal
  <2>3. \A k \in Jobs : status[k] = "queued" => status'[k] = "queued"
    BY <2>1 DEF TypeOK
  <2>4. QED
    BY <1>b, <2>1, <2>2, <2>3, PlacesUnmoved DEF Once
<1>9. ASSUME NEW w \in Workers, NEW j \in Jobs, ReapLimbo(w, j) PROVE Once'
  <2>1. j \in limbo /\ status[j] = "queued"
    BY <1>9, <1>b DEF ReapLimbo, OnePlace
  <2>2. /\ status' = [status EXCEPT ![j] = "failed"] /\ ttl' = [ttl EXCEPT ![j] = FailureTtl]
        /\ UNCHANGED <<runs, unacked, hand, phase>>
    BY <1>9, <2>1 DEF ReapLimbo
  <2>3. Records'
    BY <1>a, <1>b, <2>2, RecordsEnded DEF Terminal
  <2>4. QED
    BY <1>9, <1>b, <2>2, <2>3, ReapLimboPlaces DEF Once
<1>10. CASE Crash
  <2>1. UNCHANGED <<status, ttl, runs, unacked>> /\ \A x \in Workers : phase'[x] # "running"
    BY <1>10 DEF Crash
  <2>2. QED
    BY <1>10, <1>b, <2>1, CrashPlaces, RecordsUnmoved DEF Once
<1>11. CASE Restart \/ UNCHANGED vars
  <2>1. UNCHANGED <<status, ttl, runs, unacked, queue, limbo, hand, phase>>
    BY <1>11 DEF Restart, vars
  <2>2. QED
    BY <1>b, <2>1, PlacesUnmoved, RecordsUnmoved DEF Once
<1>12. CASE Tick
  <2>1. \A k \in Jobs : status[k] = "queued" => status'[k] = "queued"
    BY <1>12, <1>b DEF Tick, Records, RecordLifetime, Terminal
  <2>2. UNCHANGED <<unacked, queue, limbo, hand, phase>>
    BY <1>12 DEF Tick
  <2>3. QED
    BY <1>12, <1>b, <2>1, <2>2, PlacesUnmoved, TickRecords DEF Once
<1>13. QED
  BY <1>1, <1>2, <1>3, <1>4, <1>5, <1>7, <1>8, <1>9, <1>10, <1>11, <1>12
     DEF Next, Work, Maintain

\* Executed once, an enqueue puts its job in one place and one life: Once holds
\* in every reachable state.
LEMMA OnceHolds == ~MayResend => (Spec => []Once)
<1> SUFFICES ASSUME ~MayResend PROVE Spec => []Once
  OBVIOUS
<1>1. Init => Once
  BY DEF Init, Once, OnePlace, Records, RecordLifetime, OneRunPerJob, Terminal
<1>2. TypeOK /\ Once /\ [Next]_vars => Once'
  BY NextOnce
<1>3. QED
  BY <1>1, <1>2, TypeCorrect, PTL DEF Spec

\* A waiting job is in one place only: the queue list, one hand, or the
\* intermediate list a crash fills; and what is in one of them is waiting.
THEOREM InOnePlace == ~MayResend => (Spec => []OnePlace)
<1>1. Once => OnePlace
  BY DEF Once
<1>2. QED
  BY <1>1, OnceHolds, PTL

\* No job is ever started twice, whatever crashes and however many threads
\* there are.
THEOREM StartedAtMostOnce == ~MayResend => (Spec => []OneRunPerJob)
<1>1. Once => OneRunPerJob
  BY DEF Once, Records
<1>2. QED
  BY <1>1, OnceHolds, PTL

\* A record has an expiry exactly when its job has ended: no waiting or running
\* job can lapse, and no ended one stays for good.
THEOREM ExpiryMeansEnded == ~MayResend => (Spec => []RecordLifetime)
<1>1. Once => RecordLifetime
  BY DEF Once, Records
<1>2. QED
  BY <1>1, OnceHolds, PTL

-----------------------------------------------------------------------------
(* A waiting job only moves up. *)

\* In a list without repetitions, LPOS finds the only place an id has.
LEMMA OnlyPlace ==
  ASSUME NEW S, NEW q \in Seq(S), \A m, k \in DOMAIN q : q[m] = q[k] => m = k,
         NEW i \in DOMAIN q
  PROVE  (CHOOSE m \in DOMAIN q : q[m] = q[i] /\ \A k \in 1..(m - 1) : q[k] # q[i]) = i
<1>1. \A k \in 1..(i - 1) : k \in DOMAIN q /\ k # i
  OBVIOUS
<1>2. q[i] = q[i] /\ \A k \in 1..(i - 1) : q[k] # q[i]
  BY <1>1
<1>3. QED
  BY <1>2

\* The next-state relation changes the queue list only by a push at its end or
\* a pop of its head.
LEMMA QueueMoves ==
  ASSUME TypeOK, [Next]_vars
  PROVE  \/ queue' = queue
         \/ \E j \in Jobs : queue' = Append(queue, j)
         \/ queue # <<>> /\ queue' = Tail(queue)
<1>1. ASSUME NEW j \in Jobs, Submit(j) \/ Resend(j) PROVE queue' = Append(queue, j)
  BY <1>1 DEF Submit, Resend
<1>2. ASSUME NEW w \in Workers, Take(w) PROVE queue # <<>> /\ queue' = Tail(queue)
  BY <1>2 DEF Take
<1>3. ASSUME NEW w \in Workers, Prepare(w) \/ Report(w) \/ TimeOutSwallowed(w)
      PROVE  queue' = queue
  BY <1>3 DEF Prepare, Report, TimeOutSwallowed
<1>4. ASSUME NEW w \in Workers, Finish(w) \/ Refuse(w) \/ Raise(w) \/ TimeOut(w)
      PROVE  queue' = queue
  BY <1>4 DEF Finish, Refuse, Raise, TimeOut, EndRun
<1>5. ASSUME NEW w \in Workers, NEW j \in Jobs, Reap(w, j) \/ ReapLimbo(w, j)
      PROVE  queue' = queue
  BY <1>5 DEF Reap, ReapLimbo
<1>6. CASE Crash \/ Restart \/ Tick \/ UNCHANGED vars
  BY <1>6 DEF Crash, Restart, Tick, vars
<1>7. QED
  BY <1>1, <1>2, <1>3, <1>4, <1>5, <1>6 DEF Next, Work, Maintain

\* A push adds nothing in front of a job, and a pop takes one id away.
LEMMA AheadStep ==
  ASSUME TypeOK, OnePlace, OnePlace', TypeOK', [Next]_vars, NEW j \in Jobs,
         InQueue(j), InQueue(j)'
  PROVE  Ahead(j)' <= Ahead(j)
<1>1. PICK i \in DOMAIN queue : queue[i] = j
  BY DEF InQueue
<1>2. PICK n \in DOMAIN queue' : queue'[n] = j
  BY DEF InQueue
<1>3. queue \in Seq(Jobs) /\ queue' \in Seq(Jobs)
  BY DEF TypeOK
<1>4. Ahead(j) = i - 1
  BY <1>1, <1>3, OnlyPlace DEF Ahead, OnePlace
<1>5. Ahead(j)' = n - 1
  BY <1>2, <1>3, OnlyPlace DEF Ahead, OnePlace
<1>6. n \in Nat /\ i \in Nat
  BY <1>3
<1>7. CASE queue' = queue
  <2>1. n = i
    BY <1>1, <1>2, <1>7 DEF OnePlace
  <2>2. QED
    BY <1>4, <1>5, <1>6, <2>1
<1>8. ASSUME NEW k \in Jobs, queue' = Append(queue, k) PROVE Ahead(j)' <= Ahead(j)
  <2>1. i \in DOMAIN queue' /\ queue'[i] = j
    BY <1>1, <1>3, <1>8, PushFacts
  <2>2. n = i
    BY <1>2, <2>1 DEF OnePlace
  <2>3. QED
    BY <1>4, <1>5, <1>6, <2>2
<1>9. CASE queue # <<>> /\ queue' = Tail(queue)
  <2>1. n + 1 \in DOMAIN queue /\ queue[n + 1] = j
    BY <1>2, <1>3, <1>9, PopFacts
  <2>2. i = n + 1
    BY <1>1, <2>1 DEF OnePlace
  <2>3. QED
    BY <1>4, <1>5, <1>6, <2>2
<1>10. QED
  BY <1>7, <1>8, <1>9, QueueMoves

\* The number of jobs ahead that a card shows never grows while it waits.
THEOREM OnlyMovesUp == ~MayResend => (Spec => AheadNeverGrows)
<1> SUFFICES ASSUME ~MayResend PROVE Spec => AheadNeverGrows
  OBVIOUS
<1> DEFINE Fewer == \A j \in Jobs : InQueue(j) /\ InQueue(j)' => Ahead(j)' <= Ahead(j)
<1>1. TypeOK /\ TypeOK' /\ Once /\ Once' /\ [Next]_vars => [Fewer]_vars
  BY AheadStep DEF Once
<1>2. QED
  BY <1>1, TypeCorrect, OnceHolds, PTL DEF Spec, AheadNeverGrows

-----------------------------------------------------------------------------
(* An abandoned job is in nobody's hands. *)

\* A thread outlives the death penalty of its job by nothing, and has had the
\* job for at least as long as the record says it has been started.
Prompt ==
  \A w \in Workers : /\ elapsed[w] <= JobTimeout
                     /\ Running(w) => startedAge[hand[w]] <= elapsed[w]

\* A tick ages the run and its record alike, and comes only before the timeout.
LEMMA TickPrompt ==
  ASSUME ~MayStick, TypeOK, Prompt, Tick
  PROVE  Prompt'
<1> SUFFICES ASSUME NEW w \in Workers
             PROVE  /\ elapsed'[w] <= JobTimeout
                    /\ phase'[w] = "running" => startedAge'[hand'[w]] <= elapsed'[w]
  BY DEF Prompt
<1>1. UNCHANGED <<hand, phase>>
  BY DEF Tick
<1>2. elapsed[w] \in 0..AgeCap /\ elapsed[w] <= JobTimeout
  BY DEF TypeOK, Prompt
<1>3. JobTimeout \in Nat /\ AgeCap \in Nat /\ JobTimeout < AgeCap
  BY TimeAssumption DEF AgeCap
<1>4. CASE phase[w] # "running"
  <2>1. elapsed'[w] = elapsed[w]
    BY <1>4 DEF Tick
  <2>2. QED
    BY <1>1, <1>2, <1>4, <2>1
<1>5. CASE phase[w] = "running"
  <2>1. elapsed[w] < JobTimeout /\ elapsed'[w] = Older(elapsed[w])
    BY <1>5 DEF Tick
  <2>2. elapsed'[w] = elapsed[w] + 1
    BY <1>2, <1>3, <2>1 DEF Older
  <2>3. hand[w] \in Jobs
    BY <1>5, BusyHolds
  <2>4. startedAge[hand[w]] \in 0..AgeCap /\ startedAge[hand[w]] <= elapsed[w]
    BY <1>5, <2>3 DEF TypeOK, Prompt
  <2>5. startedAge'[hand[w]] \in {startedAge[hand[w]], Older(startedAge[hand[w]])}
    BY <2>3 DEF Tick
  <2>6. Older(startedAge[hand[w]]) <= elapsed[w] + 1
    BY <1>2, <1>3, <2>1, <2>4 DEF Older
  <2>7. QED
    BY <1>1, <1>2, <1>3, <2>1, <2>2, <2>4, <2>5, <2>6
<1>6. QED
  BY <1>4, <1>5

\* Every step preserves Prompt, provided no native call sticks.
LEMMA NextPrompt ==
  ASSUME ~MayStick, TypeOK, Prompt, [Next]_vars
  PROVE  Prompt'
<1>a. \A x \in Workers : phase[x] = "running" => hand[x] \in Jobs
  BY BusyHolds
<1>b. \A x \in Workers : elapsed[x] \in Nat
  BY TimeAssumption DEF TypeOK, AgeCap
<1>c. JobTimeout \in Nat
  BY TimeAssumption
<1>1. ASSUME NEW j \in Jobs, Resend(j) PROVE Prompt'
  <2>1. /\ UNCHANGED <<hand, phase, elapsed>> /\ startedAge'[j] = 0
        /\ \A k \in Jobs : k # j => startedAge'[k] = startedAge[k]
    BY <1>1 DEF Resend, TypeOK
  <2>2. QED
    BY <1>a, <1>b, <2>1 DEF Prompt
<1>2. ASSUME NEW w \in Workers, Prepare(w) PROVE Prompt'
  <2>1. hand[w] \in Jobs
    BY <1>2, BusyHolds DEF Prepare
  <2>2. /\ UNCHANGED <<hand, elapsed>> /\ startedAge'[hand[w]] = 0
        /\ \A k \in Jobs : k # hand[w] => startedAge'[k] = startedAge[k]
        /\ \A x \in Workers : x # w => phase'[x] = phase[x]
    BY <1>2, <2>1 DEF Prepare, TypeOK
  <2>3. QED
    BY <1>a, <1>b, <2>2 DEF Prompt
<1>3. ASSUME NEW w \in Workers, Finish(w) \/ Refuse(w) \/ Raise(w) \/ TimeOut(w)
      PROVE  Prompt'
  <2>1. PICK s, v, lifetime : EndRun(w, s, v, lifetime)
    BY <1>3 DEF Finish, Refuse, Raise, TimeOut
  <2>2. /\ elapsed'[w] = 0 /\ phase'[w] = "idle" /\ UNCHANGED startedAge
        /\ \A x \in Workers : x # w => /\ phase'[x] = phase[x] /\ hand'[x] = hand[x]
                                        /\ elapsed'[x] = elapsed[x]
    BY <2>1 DEF EndRun, TypeOK
  <2>3. QED
    BY <1>c, <2>2 DEF Prompt
<1>4. ASSUME NEW w \in Workers, Take(w) PROVE Prompt'
  <2>1. UNCHANGED <<startedAge, elapsed>>
    BY <1>4 DEF Take
  <2>2. \A x \in Workers : phase'[x] = "running" => phase[x] = "running" /\ hand'[x] = hand[x]
    BY <1>4 DEF Take, TypeOK
  <2>3. QED
    BY <2>1, <2>2 DEF Prompt
<1>5. CASE Crash
  <2>1. \A x \in Workers : elapsed'[x] = 0 /\ phase'[x] = "idle"
    BY <1>5 DEF Crash
  <2>2. QED
    BY <1>c, <2>1 DEF Prompt
<1>6. CASE UNCHANGED <<startedAge, hand, phase, elapsed>>
  BY <1>6 DEF Prompt
<1>7. ASSUME NEW w \in Workers, Report(w) \/ TimeOutSwallowed(w)
      PROVE  UNCHANGED <<startedAge, hand, phase, elapsed>>
  BY <1>7 DEF Report, TimeOutSwallowed
<1>8. ASSUME NEW w \in Workers, Maintain(w)
      PROVE  UNCHANGED <<startedAge, hand, phase, elapsed>>
  BY <1>8 DEF Maintain, Reap, ReapLimbo
<1>9. ASSUME NEW j \in Jobs, Submit(j)
      PROVE  UNCHANGED <<startedAge, hand, phase, elapsed>>
  BY <1>9 DEF Submit
<1>10. CASE Restart \/ UNCHANGED vars
  BY <1>6, <1>10 DEF Restart, vars
<1>11. QED
  BY <1>1, <1>2, <1>3, <1>4, <1>5, <1>6, <1>7, <1>8, <1>9, <1>10, TickPrompt
     DEF Next, Work

\* Where the death penalty always strikes in time, a job that a reader calls
\* abandoned is held by no thread: "the worker that had it is gone".
THEOREM AbandonedIsGone == ~MayResend /\ ~MayStick => (Spec => []AbandonedMeansGone)
<1> SUFFICES ASSUME ~MayResend, ~MayStick PROVE Spec => []AbandonedMeansGone
  OBVIOUS
<1>1. Init => Prompt
  BY TimeAssumption DEF Init, Prompt
<1>2. TypeOK /\ Prompt /\ [Next]_vars => Prompt'
  BY NextPrompt
<1>3. TypeOK /\ Once /\ Prompt => AbandonedMeansGone
  <2> SUFFICES ASSUME TypeOK, Once, Prompt, NEW j \in Jobs, Abandoned(j), NEW w \in Workers,
                      hand[w] = j
               PROVE  FALSE
    BY DEF AbandonedMeansGone
  <2>1. status[j] = "started" /\ startedAge[j] > JobTimeout + Grace
    BY DEF Abandoned
  <2>2. phase[w] \in {"taken", "running"}
    BY WorkAssumption DEF TypeOK
  <2>3. phase[w] # "taken"
    BY <2>1 DEF Once, OnePlace
  <2>4. startedAge[j] <= elapsed[w] /\ elapsed[w] <= JobTimeout
    BY <2>2, <2>3 DEF Prompt
  <2>5. startedAge[j] \in Nat /\ elapsed[w] \in Nat
    BY TimeAssumption DEF TypeOK, AgeCap
  <2>6. QED
    BY <2>1, <2>4, <2>5, TimeAssumption
<1>4. QED
  BY <1>1, <1>2, <1>3, TypeCorrect, OnceHolds, PTL DEF Spec
=============================================================================
