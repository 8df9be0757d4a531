------------------------------ MODULE ReaderProofs ------------------------------
(***************************************************************************)
(* Proofs about JobReader and Page, for any number of jobs, threads, polls *)
(* and crashes: what a client is told is what the contract allows, and a   *)
(* card on a page asks again exactly while its job is pending.  Both read  *)
(* a broker that makes no step of its own beyond those of JobQueue, whose  *)
(* invariants carry over.                                                  *)
(***************************************************************************)
EXTENDS Page, JobQueueProofs

USE DEF Idle, Running, Overdue

Ends == Terminal \cup {"expired"}

-----------------------------------------------------------------------------
(* The record of a job, where enqueues are executed once and the death      *)
(* penalty strikes in time.                                                 *)

\* A job that runs says so, and one thread has it.
Held ==
  \A w \in Workers : Running(w) =>
    /\ status[hand[w]] = "started"
    /\ \A x \in Workers : Running(x) /\ hand[x] = hand[w] => x = w

\* A finished job has a return value until its record goes, with it.
Valued ==
  \A j \in Jobs : /\ status[j] = "finished" => verdict[j] \in {"pictures", "refused"}
                  /\ status[j] = "expired" => verdict[j] = "none"

\* The ways a step moves a job's record.
Moves(j) ==
  \/ status'[j] = status[j] /\ verdict'[j] = verdict[j] /\ startedAge[j] <= startedAge'[j]
  \/ status[j] = "unborn" /\ status'[j] = "queued"
  \/ status[j] = "queued" /\ status'[j] = "started" /\ startedAge'[j] = 0
  \/ status[j] \in Pending /\ status'[j] = "failed"
  \/ /\ status[j] = "started" /\ ~Abandoned(j)
     /\ status'[j] = "finished" /\ verdict'[j] \in {"pictures", "refused"}
  \/ status[j] \in Terminal /\ status'[j] = "expired" /\ verdict'[j] = "none"

Steady == TypeOK /\ Once /\ Prompt /\ Held

\* A running job has not been started for longer than its timeout.
LEMMA RunningIsYoung ==
  ASSUME Steady, NEW w \in Workers, Running(w)
  PROVE  /\ hand[w] \in Jobs /\ startedAge[hand[w]] \in Nat
         /\ startedAge[hand[w]] <= JobTimeout /\ ~Abandoned(hand[w])
<1>1. hand[w] \in Jobs
  BY BusyHolds DEF Steady
<1>2. startedAge[hand[w]] <= elapsed[w] /\ elapsed[w] <= JobTimeout
  BY DEF Steady, Prompt
<1>3. startedAge[hand[w]] \in Nat /\ elapsed[w] \in Nat
  BY <1>1, TimeAssumption DEF Steady, TypeOK, AgeCap
<1>4. JobTimeout \in Nat /\ Grace \in Nat
  BY TimeAssumption
<1>5. ~(startedAge[hand[w]] > JobTimeout + Grace)
  BY <1>2, <1>3, <1>4
<1>6. QED
  BY <1>1, <1>2, <1>3, <1>4, <1>5 DEF Abandoned

\* A step that leaves a record alone is one of its moves.
LEMMA StaysPut ==
  ASSUME TypeOK, NEW j \in Jobs, status'[j] = status[j], verdict'[j] = verdict[j],
         startedAge'[j] = startedAge[j]
  PROVE  Moves(j)
<1>1. startedAge[j] \in Int
  BY TimeAssumption DEF TypeOK, AgeCap
<1>2. QED
  BY <1>1 DEF Moves

\* Every step moves every record in one of these ways.
LEMMA RecordMoves ==
  ASSUME ~MayResend, Steady, [Next]_vars, NEW j \in Jobs
  PROVE  Moves(j)
<1>a. TypeOK /\ unacked = {} /\ OnePlace /\ Records
  BY DEF Steady, Once
<1>b. startedAge[j] \in 0..AgeCap /\ AgeCap \in Nat
  BY <1>a, TimeAssumption DEF TypeOK, AgeCap
<1>1. ASSUME NEW i \in Jobs, Submit(i) PROVE Moves(j)
  <2>1. UNCHANGED <<startedAge, verdict>> /\ status[i] = "unborn" /\ status'[i] = "queued"
    BY <1>1, <1>a DEF Submit, TypeOK
  <2>2. i # j => status'[j] = status[j]
    BY <1>1, <1>a DEF Submit, TypeOK
  <2>3. QED
    BY <1>a, <2>1, <2>2, StaysPut DEF Moves
<1>2. ASSUME NEW i \in Jobs, Resend(i) PROVE FALSE
  BY <1>2, <1>a DEF Resend
<1>3. ASSUME NEW w \in Workers, Prepare(w) PROVE Moves(j)
  <2>1. hand[w] \in Jobs /\ status[hand[w]] = "queued"
    BY <1>3, <1>a, BusyHolds DEF Prepare, OnePlace
  <2>2. /\ verdict' = verdict /\ status'[hand[w]] = "started" /\ startedAge'[hand[w]] = 0
        /\ j # hand[w] => status'[j] = status[j] /\ startedAge'[j] = startedAge[j]
    BY <1>3, <1>a, <2>1 DEF Prepare, TypeOK
  <2>3. QED
    BY <1>a, <2>1, <2>2, StaysPut DEF Moves
<1>4. ASSUME NEW w \in Workers, Take(w) \/ Report(w) \/ TimeOutSwallowed(w) PROVE Moves(j)
  BY <1>4, <1>a, StaysPut DEF Take, Report, TimeOutSwallowed
<1>5. ASSUME NEW w \in Workers, Running(w), NEW s, NEW v, NEW lifetime,
             EndRun(w, s, v, lifetime),
             s = "failed" \/ (s = "finished" /\ v \in {"pictures", "refused"})
      PROVE  Moves(j)
  <2>1. hand[w] \in Jobs /\ ~Abandoned(hand[w]) /\ status[hand[w]] = "started"
    BY <1>5, RunningIsYoung DEF Steady, Held
  <2>2. /\ UNCHANGED startedAge /\ status'[hand[w]] = s /\ verdict'[hand[w]] = v
        /\ j # hand[w] => status'[j] = status[j] /\ verdict'[j] = verdict[j]
    BY <1>5, <1>a, <2>1 DEF EndRun, TypeOK
  <2>3. QED
    BY <1>a, <1>5, <2>1, <2>2, StaysPut DEF Moves, Pending
<1>6. ASSUME NEW w \in Workers, Finish(w) \/ Refuse(w) \/ Raise(w) \/ TimeOut(w)
      PROVE  Moves(j)
  BY <1>5, <1>6 DEF Finish, Refuse, Raise, TimeOut
<1>7. ASSUME NEW w \in Workers, NEW i \in Jobs, Reap(w, i) PROVE Moves(j)
  <2>1. /\ UNCHANGED <<startedAge, verdict>> /\ status[i] = "started" /\ status'[i] = "failed"
        /\ j # i => status'[j] = status[j]
    BY <1>7, <1>a DEF Reap, TypeOK
  <2>2. QED
    BY <1>a, <2>1, StaysPut DEF Moves, Pending
<1>8. ASSUME NEW w \in Workers, NEW i \in Jobs, ReapLimbo(w, i) PROVE Moves(j)
  <2>1. status[i] = "queued"
    BY <1>8, <1>a DEF ReapLimbo, OnePlace
  <2>2. /\ UNCHANGED <<startedAge, verdict>> /\ status'[i] = "failed"
        /\ j # i => status'[j] = status[j]
    BY <1>8, <1>a, <2>1 DEF ReapLimbo, TypeOK
  <2>3. QED
    BY <1>a, <2>1, <2>2, StaysPut DEF Moves, Pending
<1>9. CASE Crash \/ Restart \/ UNCHANGED vars
  BY <1>9, <1>a, StaysPut DEF Crash, Restart, vars
<1>10. CASE Tick
  <2>1. /\ status'[j] = IF ttl[j] = 1 THEN "expired" ELSE status[j]
        /\ verdict'[j] = IF ttl[j] = 1 THEN "none" ELSE verdict[j]
        /\ startedAge'[j] \in {startedAge[j], Older(startedAge[j])}
    BY <1>10 DEF Tick
  <2>2. ttl[j] = 1 => status[j] \in Terminal
    BY <1>a DEF Records, RecordLifetime
  <2>3. startedAge[j] <= startedAge'[j]
    BY <1>b, <2>1 DEF Older
  <2>4. QED
    BY <2>1, <2>2, <2>3 DEF Moves
<1>11. QED
  BY <1>1, <1>2, <1>3, <1>4, <1>6, <1>7, <1>8, <1>9, <1>10 DEF Next, Work, Maintain

\* A step that puts no thread to work, and leaves the jobs that run alone.
LEMMA HeldUnmoved ==
  ASSUME Held,
         \A w \in Workers : phase'[w] = "running" =>
           phase[w] = "running" /\ hand'[w] = hand[w] /\ status'[hand[w]] = status[hand[w]]
  PROVE  Held'
BY DEF Held

\* Every step keeps a running job started, and in one thread.
LEMMA NextHeld ==
  ASSUME ~MayResend, Steady, [Next]_vars
  PROVE  Held'
<1>a. TypeOK /\ unacked = {} /\ OnePlace /\ Records /\ Held
  BY DEF Steady, Once
<1>b. \A x \in Workers : phase[x] = "running" =>
        /\ hand[x] \in Jobs /\ status[hand[x]] = "started"
        /\ startedAge[hand[x]] \in Nat /\ startedAge[hand[x]] <= JobTimeout
  BY <1>a, RunningIsYoung DEF Held
<1>1. ASSUME NEW i \in Jobs, Submit(i) PROVE Held'
  <2>1. /\ UNCHANGED <<hand, phase>> /\ status[i] = "unborn"
        /\ \A k \in Jobs : k # i => status'[k] = status[k]
    BY <1>1, <1>a DEF Submit, TypeOK
  <2>2. QED
    BY <1>a, <1>b, <2>1, HeldUnmoved
<1>2. ASSUME NEW i \in Jobs, Resend(i) PROVE FALSE
  BY <1>2, <1>a DEF Resend
<1>3. ASSUME NEW w \in Workers, Prepare(w) PROVE Held'
  <2>1. hand[w] \in Jobs /\ status[hand[w]] = "queued"
    BY <1>3, <1>a, BusyHolds DEF Prepare, OnePlace
  <2>2. /\ hand' = hand /\ status'[hand[w]] = "started"
        /\ \A k \in Jobs : k # hand[w] => status'[k] = status[k]
        /\ \A x \in Workers : x # w => phase'[x] = phase[x]
    BY <1>3, <1>a, <2>1 DEF Prepare, TypeOK
  <2>3. QED
    BY <1>a, <1>b, <2>1, <2>2 DEF Held
<1>4. ASSUME NEW w \in Workers, Take(w) PROVE Held'
  <2>1. \A x \in Workers : phase'[x] = "running" => phase[x] = "running" /\ hand'[x] = hand[x]
    BY <1>4, <1>a DEF Take, TypeOK
  <2>2. status' = status
    BY <1>4 DEF Take
  <2>3. QED
    BY <1>a, <2>1, <2>2, HeldUnmoved
<1>5. ASSUME NEW w \in Workers, Running(w), NEW s, NEW v, NEW lifetime, EndRun(w, s, v, lifetime)
      PROVE  Held'
  <2>1. hand[w] \in Jobs
    BY <1>5, <1>b
  <2>2. /\ phase'[w] = "idle"
        /\ \A k \in Jobs : k # hand[w] => status'[k] = status[k]
        /\ \A x \in Workers : x # w => phase'[x] = phase[x] /\ hand'[x] = hand[x]
    BY <1>5, <1>a, <2>1 DEF EndRun, TypeOK
  <2>3. \A x \in Workers : x # w /\ phase[x] = "running" => hand[x] # hand[w]
    BY <1>5, <1>a DEF Held
  <2>4. QED
    BY <1>a, <1>b, <2>2, <2>3, HeldUnmoved
<1>6. ASSUME NEW w \in Workers, Finish(w) \/ Refuse(w) \/ Raise(w) \/ TimeOut(w)
      PROVE  Held'
  BY <1>5, <1>6 DEF Finish, Refuse, Raise, TimeOut
<1>7. ASSUME NEW w \in Workers, NEW i \in Jobs, Reap(w, i) PROVE Held'
  <2>1. /\ UNCHANGED <<hand, phase>> /\ startedAge[i] > JobTimeout + Slack
        /\ \A k \in Jobs : k # i => status'[k] = status[k]
    BY <1>7, <1>a DEF Reap, TypeOK
  <2>2. \A x \in Workers : phase[x] = "running" => hand[x] # i
    BY <1>b, <2>1, TimeAssumption
  <2>3. QED
    BY <1>a, <1>b, <2>1, <2>2, HeldUnmoved
<1>8. ASSUME NEW w \in Workers, NEW i \in Jobs, ReapLimbo(w, i) PROVE Held'
  <2>1. status[i] = "queued"
    BY <1>8, <1>a DEF ReapLimbo, OnePlace
  <2>2. /\ UNCHANGED <<hand, phase>>
        /\ \A k \in Jobs : k # i => status'[k] = status[k]
    BY <1>8, <1>a DEF ReapLimbo, TypeOK
  <2>3. QED
    BY <1>a, <1>b, <2>1, <2>2, HeldUnmoved
<1>9. CASE Crash
  <2>1. \A x \in Workers : phase'[x] = "idle"
    BY <1>9 DEF Crash
  <2>2. QED
    BY <2>1 DEF Held
<1>10. CASE Tick
  <2>1. \A k \in Jobs : status[k] = "started" => status'[k] = status[k]
    BY <1>10, <1>a DEF Tick, Records, RecordLifetime, Terminal
  <2>2. UNCHANGED <<hand, phase>>
    BY <1>10 DEF Tick
  <2>3. QED
    BY <1>a, <1>b, <2>1, <2>2, HeldUnmoved
<1>11. CASE UNCHANGED <<hand, phase, status>>
  BY <1>a, <1>11, HeldUnmoved
<1>12. ASSUME NEW w \in Workers, Report(w) \/ TimeOutSwallowed(w) PROVE UNCHANGED <<hand, phase, status>>
  BY <1>12 DEF Report, TimeOutSwallowed
<1>13. CASE Restart \/ UNCHANGED vars
  BY <1>11, <1>13 DEF Restart, vars
<1>14. QED
  BY <1>1, <1>2, <1>3, <1>4, <1>6, <1>7, <1>8, <1>9, <1>10, <1>11, <1>12, <1>13
     DEF Next, Work, Maintain

\* Every step keeps the return values beside the records they belong to.
LEMMA NextValued ==
  ASSUME Valued, \A j \in Jobs : Moves(j)
  PROVE  Valued'
BY DEF Valued, Moves

-----------------------------------------------------------------------------
(* The life of a job only moves forward. *)

\* What the life of a job is, by its record.
LEMMA LifeFacts ==
  ASSUME NEW j \in Jobs
  PROVE  /\ status[j] = "unborn" => Life(j) = "unborn"
         /\ status[j] = "expired" => Life(j) = "forgotten"
         /\ status[j] = "queued" => Life(j) = "waiting"
         /\ status[j] = "started" /\ Abandoned(j) => Life(j) = "broken"
         /\ status[j] = "started" /\ ~Abandoned(j) => Life(j) = "working"
         /\ status[j] = "failed" => Life(j) = "broken"
         /\ status[j] = "finished" /\ verdict[j] = "pictures" => Life(j) = "delivered"
         /\ status[j] = "finished" /\ verdict[j] # "pictures" => Life(j) = "refused"
BY DEF Life

\* The same of the state a step leads to.
LEMMA LifeFactsNext ==
  ASSUME NEW j \in Jobs
  PROVE  /\ status'[j] = "unborn" => Life(j)' = "unborn"
         /\ status'[j] = "expired" => Life(j)' = "forgotten"
         /\ status'[j] = "queued" => Life(j)' = "waiting"
         /\ status'[j] = "started" /\ Abandoned(j)' => Life(j)' = "broken"
         /\ status'[j] = "started" /\ ~Abandoned(j)' => Life(j)' = "working"
         /\ status'[j] = "failed" => Life(j)' = "broken"
         /\ status'[j] = "finished" /\ verdict'[j] = "pictures" => Life(j)' = "delivered"
         /\ status'[j] = "finished" /\ verdict'[j] # "pictures" => Life(j)' = "refused"
BY DEF Life

\* A record that moves takes its job's life one step forward, or leaves it.
LEMMA LifeForward ==
  ASSUME TypeOK, TypeOK', NEW j \in Jobs, Moves(j)
  PROVE  Life(j)' \in Contract!After(Life(j)) \cup {Life(j)} /\ Life(j)' \in Contract!Lives
<1>a. startedAge[j] \in Nat /\ startedAge'[j] \in Nat /\ JobTimeout + Grace \in Nat
  BY TimeAssumption DEF TypeOK, AgeCap
<1>b. status[j] \in Status /\ status'[j] \in Status
  BY DEF TypeOK
<1>1. CASE status'[j] = status[j] /\ verdict'[j] = verdict[j] /\ startedAge[j] <= startedAge'[j]
  <2>1. status[j] # "started" => Life(j)' = Life(j)
    BY <1>1, <1>b, LifeFacts, LifeFactsNext DEF Status, Terminal, Absent
  <2>2. Abandoned(j) => Abandoned(j)'
    BY <1>a, <1>1 DEF Abandoned
  <2>3. QED
    BY <1>1, <1>b, <2>1, <2>2, LifeFacts, LifeFactsNext
       DEF Contract!After, Contract!Lives, Status, Terminal, Absent
<1>2. CASE status[j] = "unborn" /\ status'[j] = "queued"
  BY <1>2, LifeFacts, LifeFactsNext DEF Contract!After, Contract!Lives
<1>3. CASE status[j] = "queued" /\ status'[j] = "started" /\ startedAge'[j] = 0
  <2>1. ~Abandoned(j)'
    BY <1>a, <1>3 DEF Abandoned
  <2>2. QED
    BY <1>3, <2>1, LifeFacts, LifeFactsNext DEF Contract!After, Contract!Lives
<1>4. CASE status[j] \in Pending /\ status'[j] = "failed"
  BY <1>4, LifeFacts, LifeFactsNext DEF Contract!After, Contract!Lives, Pending
<1>5. CASE /\ status[j] = "started" /\ ~Abandoned(j)
           /\ status'[j] = "finished" /\ verdict'[j] \in {"pictures", "refused"}
  BY <1>5, LifeFacts, LifeFactsNext DEF Contract!After, Contract!Lives
<1>6. CASE status[j] \in Terminal /\ status'[j] = "expired" /\ verdict'[j] = "none"
  BY <1>6, LifeFacts, LifeFactsNext DEF Contract!After, Contract!Lives, Terminal
<1>7. QED
  BY <1>1, <1>2, <1>3, <1>4, <1>5, <1>6 DEF Moves

-----------------------------------------------------------------------------
(* The reader makes no step of the broker's, and the broker none of his.    *)

\* A behaviour of the reader is one of the broker, with polls beside it.
LEMMA ReaderIsQueue == SpecReader => Spec
<1>1. InitReader => Init
  BY DEF InitReader
<1>2. [NextReader]_allVars => [Next]_vars
  BY DEF NextReader, Poll, Peek, Fetch, ReadStatus, ReadValue, allVars
<1>3. QED
  BY <1>1, <1>2, PTL DEF SpecReader, Spec

\* What a poll has seen of a job is still so when it goes on.
Seen ==
  \A j \in Jobs : /\ polling[j] # "idle" => status[j] \in Ends
                  /\ polling[j] = "value" => status[j] \in {"finished", "expired"}

\* A client told that the worker is gone was told of a job that has ended.
ToldGone == \A j \in Jobs : reply[j] = "abandoned" => Life(j) \in {"broken", "forgotten"}

ReaderInv ==
  /\ Steady /\ Valued /\ Seen /\ ToldGone
  /\ polling \in [Jobs -> {"idle", "fetch", "status", "value"}]
  /\ reply \in [Jobs -> Replies]

\* One poll's step, by what it does to the poll and to what the client was told.
LEMMA PollStep ==
  ASSUME ReaderInv, NEW j \in Jobs, Poll(j)
  PROVE  /\ UNCHANGED vars /\ status[j] # "unborn"
         /\ \/ \E step \in {"fetch", "status", "value"} :
                 /\ Continue(j, step) /\ status[j] \in Terminal
                 /\ step = "value" => status[j] = "finished"
            \/ \E r \in Replies :
                 /\ Tell(j, r)
                 /\ \/ r \in {"error", "failed"} /\ Life(j) = "forgotten" /\ polling[j] # "idle"
                    \/ r = "queued" /\ Life(j) = "waiting"
                    \/ r = "started" /\ Life(j) = "working"
                    \/ r = "finished" /\ Life(j) = "delivered"
                    \/ r = "refused" /\ Life(j) = "refused"
                    \/ r \in {"failed", "abandoned"} /\ Life(j) = "broken"
                    \/ r = "missing" /\ Life(j) = "forgotten"
<1>a. status[j] \in Status /\ Valued /\ Seen
  BY DEF ReaderInv, Steady, TypeOK
<1>1. CASE Peek(j)
  <2>1. CASE status[j] \in Terminal /\ Continue(j, "fetch")
    BY <1>1, <2>1 DEF Peek, Terminal, Ends
  <2>2. CASE status[j] = "expired" /\ Tell(j, "missing")
    BY <1>1, <2>2, LifeFacts DEF Peek, Replies, Settled
  <2>3. CASE Abandoned(j) /\ Tell(j, "abandoned")
    BY <1>1, <2>3, LifeFacts DEF Peek, Abandoned, Replies, Settled, Failures
  <2>4. CASE status[j] \in Pending /\ ~Abandoned(j) /\ Tell(j, status[j])
    BY <1>1, <2>4, LifeFacts DEF Peek, Pending, Replies
  <2>5. QED
    BY <1>1, <2>1, <2>2, <2>3, <2>4 DEF Peek
<1>2. CASE Fetch(j)
  <2>1. status[j] \in Ends
    BY <1>a, <1>2 DEF Fetch, Seen
  <2>2. CASE status[j] = "expired"
    BY <1>2, <2>2, LifeFacts DEF Fetch, Replies, Settled
  <2>3. CASE status[j] # "expired"
    BY <1>2, <2>1, <2>3 DEF Fetch, Ends, Terminal
  <2>4. QED
    BY <2>2, <2>3
<1>3. CASE ReadStatus(j)
  <2>1. status[j] \in Ends
    BY <1>a, <1>3 DEF ReadStatus, Seen
  <2>2. CASE status[j] = "expired" /\ Tell(j, "error")
    BY <1>3, <2>2, LifeFacts DEF ReadStatus, Replies
  <2>3. CASE status[j] = "failed" /\ Tell(j, "failed")
    BY <1>3, <2>3, LifeFacts DEF ReadStatus, Replies, Settled, Failures
  <2>4. CASE status[j] = "finished" /\ Continue(j, "value")
    BY <1>3, <2>4 DEF ReadStatus, Terminal
  <2>5. QED
    BY <1>3, <2>1, <2>2, <2>3, <2>4 DEF ReadStatus, Ends, Terminal, Pending
<1>4. CASE ReadValue(j)
  <2>1. status[j] \in {"finished", "expired"}
    BY <1>a, <1>4 DEF ReadValue, Seen
  <2>2. CASE verdict[j] = "pictures" /\ Tell(j, "finished")
    BY <1>a, <1>4, <2>1, <2>2, LifeFacts DEF ReadValue, Valued, Replies, Settled
  <2>3. CASE verdict[j] = "refused" /\ Tell(j, "refused")
    BY <1>a, <1>4, <2>1, <2>3, LifeFacts DEF ReadValue, Valued, Replies, Settled, Failures
  <2>4. CASE verdict[j] = "none" /\ Tell(j, "failed")
    BY <1>a, <1>4, <2>1, <2>4, LifeFacts DEF ReadValue, Valued, Replies, Settled, Failures
  <2>5. QED
    BY <1>4, <2>2, <2>3, <2>4 DEF ReadValue
<1>5. QED
  BY <1>1, <1>2, <1>3, <1>4 DEF Poll

\* Nothing the broker does brings an ended job back, or a broken one.
LEMMA BrokerKeepsSeen ==
  ASSUME ReaderInv, TypeOK', \A j \in Jobs : Moves(j), UNCHANGED readerVars
  PROVE  Seen' /\ ToldGone'
<1>1. Seen'
  BY DEF ReaderInv, Seen, Moves, Ends, Terminal, Pending, readerVars
<1>2. ASSUME NEW j \in Jobs, reply'[j] = "abandoned" PROVE Life(j)' \in {"broken", "forgotten"}
  <2>1. Life(j) \in {"broken", "forgotten"}
    BY <1>2 DEF ReaderInv, ToldGone, readerVars
  <2>2. Life(j)' \in Contract!After(Life(j)) \cup {Life(j)}
    BY LifeForward DEF ReaderInv, Steady
  <2>3. QED
    BY <2>1, <2>2 DEF Contract!After
<1>3. QED
  BY <1>1, <1>2 DEF ToldGone

\* A poll's step leaves the lives as they are, and keeps what is seen and told.
LEMMA PollKeepsSeen ==
  ASSUME ReaderInv, NEW j \in Jobs, Poll(j)
  PROVE  /\ Seen' /\ ToldGone'
         /\ polling' \in [Jobs -> {"idle", "fetch", "status", "value"}]
         /\ reply' \in [Jobs -> Replies]
<1>1. \A k \in Jobs : Life(k)' = Life(k)
  BY PollStep DEF Life, Abandoned, vars
<1>2. UNCHANGED status
  BY PollStep DEF vars
<1>3. ASSUME NEW step \in {"fetch", "status", "value"}, Continue(j, step), status[j] \in Terminal,
             step = "value" => status[j] = "finished"
      PROVE  /\ Seen' /\ ToldGone'
             /\ polling' \in [Jobs -> {"idle", "fetch", "status", "value"}]
             /\ reply' \in [Jobs -> Replies]
  <2>1. /\ reply' = reply /\ polling'[j] = step
        /\ \A k \in Jobs : k # j => polling'[k] = polling[k]
    BY <1>3 DEF Continue, ReaderInv
  <2>2. polling' \in [Jobs -> {"idle", "fetch", "status", "value"}]
    BY <1>3 DEF Continue, ReaderInv
  <2>3. Seen'
    BY <1>2, <1>3, <2>1 DEF ReaderInv, Seen, Ends
  <2>4. QED
    BY <1>1, <2>1, <2>2, <2>3 DEF ReaderInv, ToldGone
<1>4. ASSUME NEW r \in Replies, Tell(j, r), r = "abandoned" => Life(j) = "broken"
      PROVE  /\ Seen' /\ ToldGone'
             /\ polling' \in [Jobs -> {"idle", "fetch", "status", "value"}]
             /\ reply' \in [Jobs -> Replies]
  <2>1. /\ reply'[j] = r /\ polling'[j] = "idle"
        /\ \A k \in Jobs : k # j => polling'[k] = polling[k] /\ reply'[k] = reply[k]
    BY <1>4 DEF Tell, ReaderInv
  <2>2. /\ polling' \in [Jobs -> {"idle", "fetch", "status", "value"}]
        /\ reply' \in [Jobs -> Replies]
    BY <1>4 DEF Tell, ReaderInv
  <2>3. Seen'
    BY <1>2, <2>1 DEF ReaderInv, Seen
  <2>4. QED
    BY <1>1, <1>4, <2>1, <2>2, <2>3 DEF ReaderInv, ToldGone
<1>5. QED
  BY <1>3, <1>4, PollStep

\* What the reader relies on holds in every reachable state, where enqueues are
\* executed once and the death penalty strikes in time.
LEMMA ReaderHolds == ~MayResend /\ ~MayStick => (SpecReader => []ReaderInv)
<1> SUFFICES ASSUME ~MayResend, ~MayStick PROVE SpecReader => []ReaderInv
  OBVIOUS
<1>1. InitReader => ReaderInv
  <2> SUFFICES ASSUME InitReader PROVE ReaderInv
    OBVIOUS
  <2>1. TypeOK
    BY InitType DEF InitReader
  <2>2. Once
    BY DEF InitReader, Init, Once, OnePlace, Records, RecordLifetime, OneRunPerJob, Terminal
  <2>3. Prompt
    BY TimeAssumption DEF InitReader, Init, Prompt
  <2>4. Held /\ Valued
    BY DEF InitReader, Init, Held, Valued
  <2>5. /\ Seen /\ ToldGone
        /\ polling \in [Jobs -> {"idle", "fetch", "status", "value"}]
        /\ reply \in [Jobs -> Replies]
    BY DEF InitReader, Seen, ToldGone, Replies
  <2>6. QED
    BY <2>1, <2>2, <2>3, <2>4, <2>5 DEF ReaderInv, Steady
<1>2. ReaderInv /\ [NextReader]_allVars => ReaderInv'
  <2> SUFFICES ASSUME ReaderInv, [NextReader]_allVars PROVE ReaderInv'
    OBVIOUS
  <2>1. [Next]_vars
    BY DEF NextReader, Poll, Peek, Fetch, ReadStatus, ReadValue, allVars
  <2>2. Steady
    BY DEF ReaderInv
  <2>3. TypeOK'
    BY <2>1, <2>2, NextType DEF Steady
  <2>4. Once' /\ Prompt' /\ Held'
    BY <2>1, <2>2, NextOnce, NextPrompt, NextHeld DEF Steady
  <2>5. \A j \in Jobs : Moves(j)
    BY <2>1, <2>2, RecordMoves
  <2>6. Valued'
    BY <2>5, NextValued DEF ReaderInv
  <2>7. CASE UNCHANGED readerVars
    BY <2>3, <2>4, <2>5, <2>6, <2>7, BrokerKeepsSeen DEF ReaderInv, Steady, readerVars
  <2>8. ASSUME NEW j \in Jobs, Poll(j) PROVE ReaderInv'
    BY <2>3, <2>4, <2>6, <2>8, PollKeepsSeen DEF ReaderInv, Steady
  <2>9. QED
    BY <2>7, <2>8 DEF NextReader, allVars, readerVars
<1>3. QED
  BY <1>1, <1>2, PTL DEF SpecReader

-----------------------------------------------------------------------------
(* The contract. *)

\* No job has a life yet, and no client has been told anything.
LEMMA RefinesInit == InitReader => Contract!Init
<1> SUFFICES ASSUME InitReader PROVE Contract!Init
  OBVIOUS
<1>1. \A j \in Jobs : Life(j) = "unborn"
  BY LifeFacts DEF InitReader, Init
<1>2. \A j \in Jobs : Told(j) = "none"
  BY DEF InitReader, Told
<1>3. QED
  BY <1>1, <1>2 DEF InitReader, Contract!Init

\* A step of the broker moves some lives, or none; a step of a poll that ends
\* it answers with the life of the moment, or outlives the record; any other
\* has found the job ended and reads on.
LEMMA RefinesNext ==
  ASSUME ~MayResend, ReaderInv, ReaderInv', [NextReader]_allVars
  PROVE  [Contract!Next]_<<[j \in Jobs |-> Life(j)], [j \in Jobs |-> Told(j)],
                           {j \in Jobs : polling[j] # "idle"}>>
<1> DEFINE lives == [j \in Jobs |-> Life(j)]
           tolds == [j \in Jobs |-> Told(j)]
           asks == {j \in Jobs : polling[j] # "idle"}
<1>1. CASE UNCHANGED readerVars
  <2>1. [Next]_vars
    BY DEF NextReader, Poll, Peek, Fetch, ReadStatus, ReadValue, allVars
  <2>2. \A j \in Jobs : /\ Life(j)' \in Contract!After(Life(j)) \cup {Life(j)}
                        /\ Life(j)' \in Contract!Lives
    BY <2>1, RecordMoves, LifeForward DEF ReaderInv, Steady
  <2>3. tolds' = tolds /\ asks' = asks
    BY <1>1 DEF Told, readerVars
  <2>4. /\ lives' \in [Jobs -> Contract!Lives]
        /\ \A j \in Jobs : lives'[j] \in Contract!After(lives[j]) \cup {lives[j]}
    BY <2>2
  <2>5. Contract!Move
    BY <2>3, <2>4 DEF Contract!Move
  <2>6. QED
    BY <2>5 DEF Contract!Next
<1>2. ASSUME NEW j \in Jobs, Poll(j) PROVE [Contract!Next]_<<lives, tolds, asks>>
  <2>0. polling \in [Jobs -> {"idle", "fetch", "status", "value"}]
    BY DEF ReaderInv
  <2>1. lives' = lives
    <3>1. UNCHANGED vars
      BY <1>2, PollStep
    <3>2. \A k \in Jobs : Life(k)' = Life(k)
      BY <3>1 DEF Life, Abandoned, vars
    <3>3. QED
      BY <3>2
  <2>2. ASSUME NEW step \in {"fetch", "status", "value"}, Continue(j, step),
               status[j] \in Terminal
        PROVE  [Contract!Next]_<<lives, tolds, asks>>
    <3>1. tolds' = tolds
      BY <2>2 DEF Continue, Told
    <3>2. asks' = asks \cup {j}
      BY <2>0, <2>2 DEF Continue
    <3>3. lives[j] \in {"delivered", "refused", "broken"}
      BY <2>2, LifeFacts DEF Terminal
    <3>4. Contract!Find(j)
      BY <2>1, <3>1, <3>2, <3>3 DEF Contract!Find
    <3>5. QED
      BY <3>4 DEF Contract!Next
  <2>3. ASSUME NEW r \in Replies, Tell(j, r),
               \/ r \in {"error", "failed"} /\ Life(j) = "forgotten" /\ polling[j] # "idle"
               \/ r = "queued" /\ Life(j) = "waiting"
               \/ r = "started" /\ Life(j) = "working"
               \/ r = "finished" /\ Life(j) = "delivered"
               \/ r = "refused" /\ Life(j) = "refused"
               \/ r \in {"failed", "abandoned"} /\ Life(j) = "broken"
               \/ r = "missing" /\ Life(j) = "forgotten"
        PROVE  [Contract!Next]_<<lives, tolds, asks>>
    <3>1. reply'[j] = r /\ \A k \in Jobs : k # j => reply'[k] = reply[k]
      BY <2>3 DEF Tell, ReaderInv
    <3>2. \A k \in Jobs : k # j => Told(k)' = Told(k)
      BY <3>1 DEF Told
    <3>3. tolds' = [tolds EXCEPT ![j] = Told(j)']
      BY <3>2
    <3>4. asks' = asks \ {j}
      BY <2>0, <2>3 DEF Tell
    <3>5. CASE Told(j)' = lives[j]
      <4>1. lives[j] # "unborn"
        BY <2>3
      <4>2. Contract!Answer(j)
        BY <2>1, <3>3, <3>4, <3>5, <4>1 DEF Contract!Answer
      <4>3. QED
        BY <4>2 DEF Contract!Next
    <3>6. CASE r \in {"error", "failed"} /\ Life(j) = "forgotten" /\ polling[j] # "idle"
      <4>1. Told(j)' \in {"error", "broken"} /\ j \in asks
        BY <3>1, <3>6 DEF Told
      <4>2. Contract!Outlive(j)
        BY <2>1, <3>3, <3>4, <3>6, <4>1 DEF Contract!Outlive
      <4>3. QED
        BY <4>2 DEF Contract!Next
    <3>7. QED
      BY <2>3, <3>1, <3>5, <3>6 DEF Told
  <2>4. QED
    BY <1>2, <2>2, <2>3, PollStep
<1>3. QED
  BY <1>1, <1>2 DEF NextReader, allVars, readerVars

\* However many round trips a poll takes and whatever moves in between, what a
\* client is told is the job's life at one instant of the poll, and that life
\* only moves forward; only a poll that outlives the record it was reading may
\* be told a failure.  The API keeps this contract wherever enqueues are
\* executed once and the death penalty strikes in time.
THEOREM KeepsContract == ~MayResend /\ ~MayStick => (SpecReader => ImplementsContract)
<1> SUFFICES ASSUME ~MayResend, ~MayStick PROVE SpecReader => ImplementsContract
  OBVIOUS
<1>1. InitReader => Contract!Init
  BY RefinesInit
<1>2. ReaderInv /\ ReaderInv' /\ [NextReader]_allVars
        => [Contract!Next]_<<[j \in Jobs |-> Life(j)], [j \in Jobs |-> Told(j)],
                             {j \in Jobs : polling[j] # "idle"}>>
  BY RefinesNext
<1>3. QED
  BY <1>1, <1>2, ReaderHolds, PTL DEF SpecReader, ImplementsContract, Contract!Spec

\* A client told that the worker went away never gets pictures, or a refusal,
\* in its next answer, where the death penalty strikes in time.
THEOREM AbandonedForGood == ~MayResend /\ ~MayStick => (SpecReader => AbandonedIsFinal)
<1> SUFFICES ASSUME ~MayResend, ~MayStick PROVE SpecReader => AbandonedIsFinal
  OBVIOUS
<1> DEFINE Final == \A j \in Jobs : reply[j] = "abandoned" => reply'[j] \notin {"finished", "refused"}
<1>1. ReaderInv /\ [NextReader]_allVars => [Final]_allVars
  <2> SUFFICES ASSUME ReaderInv, [NextReader]_allVars, NEW j \in Jobs, reply[j] = "abandoned"
               PROVE  reply'[j] \notin {"finished", "refused"}
    OBVIOUS
  <2>1. Life(j) \in {"broken", "forgotten"}
    BY DEF ReaderInv, ToldGone
  <2>2. CASE UNCHANGED readerVars
    BY <2>2 DEF readerVars
  <2>3. ASSUME NEW k \in Jobs, Poll(k) PROVE reply'[j] \notin {"finished", "refused"}
    <3>1. CASE k # j
      <4>1. reply'[j] = reply[j]
        BY <2>3, <3>1, PollStep DEF Continue, Tell, ReaderInv
      <4>2. QED
        BY <4>1
    <3>2. CASE \E step \in {"fetch", "status", "value"} : Continue(k, step)
      BY <3>2 DEF Continue
    <3>3. CASE k = j /\ \E r \in Replies : Tell(k, r) /\ r \notin {"finished", "refused"}
      BY <3>3 DEF Tell, ReaderInv
    <3>4. QED
      BY <2>1, <2>3, <3>1, <3>2, <3>3, PollStep
  <2>4. QED
    BY <2>2, <2>3 DEF NextReader, allVars, readerVars
<1>2. QED
  BY <1>1, ReaderHolds, PTL DEF SpecReader, AbandonedIsFinal

-----------------------------------------------------------------------------
(* The cards. *)

\* An ended job stays ended, however long a stuck thread takes to end it again.
LEMMA EndsStay ==
  ASSUME ~MayResend, TypeOK, Once, [Next]_vars, NEW j \in Jobs, status[j] \in Ends
  PROVE  status'[j] \in Ends
<1>a. unacked = {} /\ OnePlace /\ Records
  BY DEF Once
<1>1. ASSUME NEW i \in Jobs, Submit(i) \/ Resend(i) PROVE status'[j] \in Ends
  BY <1>1, <1>a DEF Submit, Resend, TypeOK, Ends, Terminal
<1>2. ASSUME NEW w \in Workers, Prepare(w) PROVE status'[j] \in Ends
  <2>1. hand[w] \in Jobs /\ status[hand[w]] = "queued"
    BY <1>2, <1>a, BusyHolds DEF Prepare, OnePlace
  <2>2. QED
    BY <1>2, <2>1 DEF Prepare, TypeOK, Ends, Terminal
<1>3. ASSUME NEW w \in Workers, Running(w), NEW s \in Terminal, NEW v, NEW lifetime,
             EndRun(w, s, v, lifetime)
      PROVE  status'[j] \in Ends
  <2>1. hand[w] \in Jobs
    BY <1>3, BusyHolds
  <2>2. QED
    BY <1>3, <2>1 DEF EndRun, TypeOK, Ends
<1>4. ASSUME NEW w \in Workers, Finish(w) \/ Refuse(w) \/ Raise(w) \/ TimeOut(w)
      PROVE  status'[j] \in Ends
  BY <1>3, <1>4 DEF Finish, Refuse, Raise, TimeOut, Terminal
<1>5. ASSUME NEW w \in Workers, NEW i \in Jobs, Reap(w, i) \/ ReapLimbo(w, i)
      PROVE  status'[j] \in Ends
  BY <1>5 DEF Reap, ReapLimbo, TypeOK, Ends, Terminal
<1>6. CASE Tick
  BY <1>6 DEF Tick, Ends
<1>7. CASE UNCHANGED status
  BY <1>7
<1>8. ASSUME NEW w \in Workers, Take(w) \/ Report(w) \/ TimeOutSwallowed(w)
      PROVE  UNCHANGED status
  BY <1>8 DEF Take, Report, TimeOutSwallowed
<1>9. CASE Crash \/ Restart \/ UNCHANGED vars
  BY <1>7, <1>9 DEF Crash, Restart, vars
<1>10. QED
  BY <1>1, <1>2, <1>4, <1>5, <1>6, <1>7, <1>8, <1>9 DEF Next, Work, Maintain

\* A behaviour of the page is one of the broker, with polls and cards beside it.
LEMMA PageIsQueue == SpecPage => Spec
<1>1. InitPage => Init
  BY DEF InitPage, InitReader
<1>2. [NextPage]_pageVars => [Next]_vars
  <2> SUFFICES ASSUME [NextPage]_pageVars PROVE [Next]_vars
    OBVIOUS
  <2>1. ASSUME NEW j \in Jobs, SubmitForm(j) PROVE [Next]_vars
    BY <2>1 DEF SubmitForm, Next
  <2>2. ASSUME NEW j \in Jobs, Request(j) PROVE [Next]_vars
    BY <2>2 DEF Request, Ask, Read, Deliver, Admit, Scold, ResubmitNothing, Resubmit, Replace,
                Poll, Peek, Fetch, ReadStatus, ReadValue
  <2>3. ASSUME NEW j \in Jobs, Retry(j) \/ Remove(j) \/ Removed(j) \/ Lose(j) PROVE [Next]_vars
    BY <2>3 DEF Retry, Remove, Removed, Lose
  <2>4. CASE Elsewhere
    BY <2>4 DEF Elsewhere, Next
  <2>5. CASE UNCHANGED pageVars
    BY <2>5 DEF pageVars
  <2>6. QED
    BY <2>1, <2>2, <2>3, <2>4, <2>5 DEF NextPage
<1>3. QED
  BY <1>1, <1>2, PTL DEF SpecPage, Spec

PollSteps == {"idle", "fetch", "status", "value"}
Places == {"absent", "asked", "answered", "retry", "accepted", "denied", "scolded",
           "resubmitted", "gone"} \cup Resting

\* What a card, its request and the poll made for it say of one another.
Card(j) ==
  /\ shows[j] \in Shown \cup {"none", "removed"} /\ at[j] \in Places
  /\ polling[j] \in PollSteps /\ reply[j] \in Replies
  /\ j \in doomed => OnPage(j)
  /\ at[j] \in {"due", "stuck"} => shows[j] \in Pending
  /\ at[j] = "settled" => shows[j] \in Shown \ Pending
  /\ polling[j] # "idle" => at[j] \in {"asked", "denied"} /\ status[j] \in Ends
  /\ at[j] = "answered" => reply[j] # "none"

Cards ==
  /\ shows = [j \in Jobs |-> shows[j]] /\ at = [j \in Jobs |-> at[j]]
  /\ polling = [j \in Jobs |-> polling[j]] /\ reply = [j \in Jobs |-> reply[j]]
  /\ doomed \subseteq Jobs /\ faults \in 0..MaxFaults
  /\ \A j \in Jobs : Card(j)

\* A step that writes one card, its request or its poll.
OnlyCard(j) ==
  /\ shows' = shows \/ \E s : shows' = [shows EXCEPT ![j] = s]
  /\ at' = at \/ \E a : at' = [at EXCEPT ![j] = a]
  /\ polling' = polling \/ \E p : polling' = [polling EXCEPT ![j] = p]
  /\ reply' = reply \/ \E r : reply' = [reply EXCEPT ![j] = r]
  /\ doomed' \in {doomed, doomed \cup {j}, doomed \ {j}}

\* A step that writes one card well leaves all of them well.
LEMMA OneCard ==
  ASSUME Cards, NEW j \in Jobs, OnlyCard(j), UNCHANGED status, faults' \in 0..MaxFaults, Card(j)'
  PROVE  Cards'
<1>1. /\ \A k \in Jobs : k # j => /\ shows'[k] = shows[k] /\ at'[k] = at[k]
                                  /\ polling'[k] = polling[k] /\ reply'[k] = reply[k]
                                  /\ k \in doomed' <=> k \in doomed
      /\ shows' = [k \in Jobs |-> shows'[k]] /\ at' = [k \in Jobs |-> at'[k]]
      /\ polling' = [k \in Jobs |-> polling'[k]] /\ reply' = [k \in Jobs |-> reply'[k]]
      /\ doomed' \subseteq Jobs
  BY DEF Cards, OnlyCard
<1>2. \A k \in Jobs : Card(k)'
  <2> SUFFICES ASSUME NEW k \in Jobs, k # j PROVE Card(k)'
    OBVIOUS
  <2>1. Card(k)
    BY DEF Cards
  <2>2. QED
    BY <1>1, <2>1 DEF Card, OnPage
<1>3. QED
  BY <1>1, <1>2 DEF Cards

\* A card whose request has been answered has no poll under way.
LEMMA CardPoll ==
  ASSUME Cards, NEW j \in Jobs
  PROVE  /\ Card(j) /\ faults \in 0..MaxFaults
         /\ at[j] \notin {"asked", "denied"} => polling[j] = "idle"
         /\ at \in [Jobs -> Places] /\ polling \in [Jobs -> PollSteps]
         /\ shows \in [Jobs -> Shown \cup {"none", "removed"}]
         /\ reply \in [Jobs -> Replies]
<1>1. \A k \in Jobs : Card(k)
  BY DEF Cards
<1>2. QED
  BY <1>1 DEF Cards, Card

\* A poll's step goes on only for a job that has ended, and answers something.
LEMMA PollShape ==
  ASSUME NEW j \in Jobs, status[j] \in Status, verdict[j] \in Verdicts,
         polling[j] # "idle" => status[j] \in Ends, Poll(j)
  PROVE  /\ UNCHANGED vars
         /\ \/ status[j] \in Ends /\ \E p \in PollSteps \ {"idle"} : Continue(j, p)
            \/ \E r \in Replies \ {"none"} : Tell(j, r)
<1>1. UNCHANGED vars
  BY DEF Poll, Peek, Fetch, ReadStatus, ReadValue
<1>2. CASE Peek(j)
  BY <1>1, <1>2 DEF Peek, Ends, PollSteps, Replies, Settled, Failures, Pending
<1>3. CASE Fetch(j)
  BY <1>1, <1>3 DEF Fetch, Ends, PollSteps, Replies, Settled, Failures, Pending
<1>4. CASE ReadStatus(j)
  BY <1>1, <1>4 DEF ReadStatus, Ends, PollSteps, Replies, Settled, Failures, Pending
<1>5. CASE ReadValue(j)
  BY <1>1, <1>5 DEF ReadValue, Ends, PollSteps, Replies, Settled, Failures, Pending
<1>6. QED
  BY <1>2, <1>3, <1>4, <1>5 DEF Poll

\* An article that takes the place of a card, or is dropped with it.
LEMMA SwapCard ==
  ASSUME Cards, NEW j \in Jobs, polling[j] = "idle", UNCHANGED <<status, polling, reply, faults>>,
         NEW r \in Shown \cup {"removed"}, NEW to \in Places,
         \/ r \in Pending /\ to = "due"
         \/ r \in Shown \ Pending /\ to = "settled"
         \/ r = "removed" /\ to = "gone",
         Swap(j, r, to)
  PROVE  Cards'
<1>1. OnlyCard(j)
  BY DEF Swap, Proceed, OnlyCard
<1>2. Card(j)'
  <2>1. /\ shows'[j] = IF shows[j] = "removed" THEN shows[j] ELSE r
        /\ at'[j] = IF shows[j] = "removed" THEN "gone" ELSE to
        /\ j \notin doomed'
    BY CardPoll DEF Swap, Proceed
  <2>2. QED
    BY <2>1, CardPoll DEF Card, Places
<1>3. QED
  BY <1>1, <1>2, OneCard, CardPoll

\* A card left as it was, with no request out for it any more.
LEMMA BreakCard ==
  ASSUME Cards, NEW j \in Jobs, UNCHANGED <<status, reply>>, faults' \in 0..MaxFaults,
         polling'[j] = "idle", polling' = polling \/ \E p : polling' = [polling EXCEPT ![j] = p],
         Break(j)
  PROVE  Cards'
<1>1. OnlyCard(j)
  BY DEF Break, Proceed, OnlyCard
<1>2. Card(j)'
  <2>1. at'[j] = Rest(j) /\ UNCHANGED <<shows, doomed>>
    BY CardPoll DEF Break, Proceed
  <2>2. Rest(j) \in {"gone", "stuck", "settled"}
    BY DEF Rest
  <2>3. /\ Rest(j) = "stuck" => shows[j] \in Pending
        /\ Rest(j) = "settled" => shows[j] \in Shown \ Pending
    BY DEF Rest, OnPage
  <2>4. QED
    BY <2>1, <2>2, <2>3, CardPoll DEF Card, OnPage, Places, Resting, PollSteps
<1>3. QED
  BY <1>1, <1>2, OneCard

\* A request that moves on, with the card and the poll as they were.
LEMMA ProceedCard ==
  ASSUME Cards, NEW j \in Jobs, UNCHANGED <<status, polling, reply, shows, doomed, faults>>,
         polling[j] = "idle", NEW to \in Places \ (Resting \cup {"answered"}), Proceed(j, to)
  PROVE  Cards'
<1>1. OnlyCard(j)
  BY DEF Proceed, OnlyCard
<1>2. at'[j] = to
  BY CardPoll DEF Proceed
<1>3. Card(j)'
  BY <1>2, CardPoll DEF Card, OnPage, Resting
<1>4. QED
  BY <1>1, <1>3, OneCard, CardPoll

\* A step of the poll, and what it makes of the request.
LEMMA ReadCard ==
  ASSUME TypeOK, Cards, NEW j \in Jobs, Read(j)
  PROVE  Cards'
<1>1. at[j] \in {"asked", "denied"} /\ Poll(j) /\ UNCHANGED <<shows, doomed, faults>>
  BY DEF Read
<1>2. status[j] \in Status /\ verdict[j] \in Verdicts /\ Card(j)
  BY CardPoll DEF TypeOK
<1>3. UNCHANGED vars /\ UNCHANGED status
  BY <1>1, <1>2, PollShape DEF Card, vars
<1>4. CASE status[j] \in Ends /\ \E p \in PollSteps \ {"idle"} : Continue(j, p)
  <2>1. PICK p \in PollSteps \ {"idle"} : Continue(j, p)
    BY <1>4
  <2>2. polling'[j] = p /\ reply' = reply /\ polling' = [polling EXCEPT ![j] = p]
    BY <2>1, CardPoll DEF Continue
  <2>3. at'[j] = at[j] /\ \E a : at' = [at EXCEPT ![j] = a]
    BY <2>2, CardPoll DEF Read, Proceed
  <2>4. Card(j)'
    BY <1>1, <1>2, <1>3, <1>4, <2>2, <2>3 DEF Card, OnPage
  <2>5. OnlyCard(j)
    BY <1>1, <2>2, <2>3 DEF OnlyCard
  <2>6. QED
    BY <1>1, <1>3, <2>4, <2>5, OneCard, CardPoll
<1>5. CASE \E r \in Replies \ {"none"} : Tell(j, r)
  <2>1. PICK r \in Replies \ {"none"} : Tell(j, r)
    BY <1>5
  <2>2. /\ polling'[j] = "idle" /\ reply'[j] = r
        /\ polling' = [polling EXCEPT ![j] = "idle"] /\ reply' = [reply EXCEPT ![j] = r]
    BY <2>1, CardPoll DEF Tell
  <2>3. at'[j] \in {"answered", "scolded"} /\ \E a : at' = [at EXCEPT ![j] = a]
    BY <2>2, CardPoll DEF Read, Proceed
  <2>4. Card(j)'
    BY <1>1, <1>2, <1>3, <2>2, <2>3 DEF Card, OnPage, Places, PollSteps
  <2>5. OnlyCard(j)
    BY <1>1, <2>2, <2>3 DEF OnlyCard
  <2>6. QED
    BY <1>1, <1>3, <2>4, <2>5, OneCard, CardPoll
<1>6. QED
  BY <1>1, <1>2, <1>4, <1>5, PollShape DEF Card

\* A step of the broker's, which no card sees at once.
LEMMA BrokerCards ==
  ASSUME ~MayResend, TypeOK, Once, [Next]_vars, Cards,
         UNCHANGED <<polling, reply, shows, at, doomed, faults>>
  PROVE  Cards'
<1>1. \A j \in Jobs : Card(j)'
  BY EndsStay DEF Cards, Card, OnPage
<1>2. QED
  BY <1>1 DEF Cards

\* Every step keeps the cards, provided no reply to an enqueue is lost.
LEMMA NextCards ==
  ASSUME ~MayResend, TypeOK, Once, Cards, [NextPage]_pageVars
  PROVE  Cards'
<1>1. ASSUME NEW j \in Jobs, SubmitForm(j) PROVE Cards'
  <2>1. /\ UNCHANGED <<polling, reply, shows, doomed, faults>>
        /\ status[j] = "unborn" /\ Proceed(j, "asked") /\ Submit(j)
    BY <1>1 DEF SubmitForm, Submit
  <2>2. polling[j] = "idle"
    BY <2>1, CardPoll DEF Card, Ends, Terminal
  <2>3. at'[j] = "asked" /\ \A k \in Jobs : k # j => at'[k] = at[k]
    BY <2>1, CardPoll DEF Proceed
  <2>4. \A k \in Jobs : k # j => status'[k] = status[k]
    BY <2>1 DEF Submit, TypeOK
  <2>5. \A k \in Jobs : Card(k)'
    BY <2>1, <2>2, <2>3, <2>4, CardPoll DEF Card, OnPage, Places
  <2>6. at' = [k \in Jobs |-> at'[k]]
    BY <2>1, CardPoll DEF Proceed
  <2>7. QED
    BY <2>1, <2>5, <2>6 DEF Cards
<1>2. ASSUME NEW j \in Jobs, Ask(j) \/ Retry(j) \/ Admit(j) \/ Resubmit(j) PROVE Cards'
  <2>1. /\ UNCHANGED <<status, polling, reply, shows, doomed, faults>>
        /\ \E to \in Places \ (Resting \cup {"answered"}) : Proceed(j, to)
    BY <1>2 DEF Ask, Retry, Admit, Resubmit, Places, Resting, vars
  <2>2. polling[j] = "idle"
    BY <1>2, CardPoll DEF Ask, Retry, Admit, Resubmit
  <2>3. QED
    BY <2>1, <2>2, ProceedCard
<1>3. ASSUME NEW j \in Jobs, Read(j) PROVE Cards'
  BY <1>3, ReadCard
<1>4. ASSUME NEW j \in Jobs, Deliver(j) PROVE Cards'
  <2>1. /\ at[j] = "answered" /\ UNCHANGED <<status, polling, reply, faults>>
        /\ polling[j] = "idle" /\ reply[j] \in Replies \ {"none"}
    BY <1>4, CardPoll DEF Deliver, Card, vars
  <2>2. CASE reply[j] = "error"
    BY <1>4, <2>1, <2>2, BreakCard, CardPoll DEF Deliver
  <2>3. CASE reply[j] \in Pending
    BY <1>4, <2>1, <2>3, SwapCard DEF Deliver, Pending, Shown, Places, Resting
  <2>4. CASE reply[j] \in Settled
    BY <1>4, <2>1, <2>4, SwapCard DEF Deliver, Pending, Settled, Failures, Shown, Places, Resting
  <2>5. QED
    BY <2>1, <2>2, <2>3, <2>4 DEF Replies
<1>5. ASSUME NEW j \in Jobs, Scold(j) PROVE Cards'
  <2>1. /\ UNCHANGED <<status, polling, reply, faults>> /\ polling[j] = "idle"
        /\ faults \in 0..MaxFaults
    BY <1>5, CardPoll DEF Scold, vars
  <2>2. CASE Swap(j, "missing", "settled") \/ Swap(j, "throttled", "settled")
    BY <2>1, <2>2, SwapCard DEF Pending, Settled, Shown, Places, Resting
  <2>3. CASE Break(j)
    BY <2>1, <2>3, BreakCard
  <2>4. QED
    BY <1>5, <2>2, <2>3 DEF Scold
<1>6. ASSUME NEW j \in Jobs, ResubmitNothing(j) PROVE Cards'
  <2>1. /\ UNCHANGED <<status, shows, doomed, faults>> /\ polling[j] = "idle"
        /\ Tell(j, "missing") /\ Proceed(j, "answered")
    BY <1>6, CardPoll DEF ResubmitNothing, vars
  <2>2. OnlyCard(j)
    BY <2>1 DEF OnlyCard, Tell, Proceed
  <2>3. at'[j] = "answered" /\ polling'[j] = "idle" /\ reply'[j] = "missing"
    BY <2>1, CardPoll DEF Tell, Proceed
  <2>4. Card(j)'
    BY <2>1, <2>3, CardPoll DEF Card, OnPage, Places, PollSteps, Replies, Settled
  <2>5. QED
    BY <2>1, <2>2, <2>4, OneCard, CardPoll
<1>7. ASSUME NEW j \in Jobs, Replace(j) PROVE Cards'
  <2>1. /\ UNCHANGED <<status, polling, reply, faults>> /\ polling[j] = "idle"
        /\ Swap(j, "removed", "gone")
    BY <1>7, CardPoll DEF Replace, vars
  <2>2. QED
    BY <2>1, SwapCard DEF Places
<1>8. ASSUME NEW j \in Jobs, Remove(j) PROVE Cards'
  <2>1. OnlyCard(j) /\ UNCHANGED <<status, polling, reply, shows, at, faults>> /\ OnPage(j)
    BY <1>8 DEF Remove, OnlyCard, vars
  <2>2. Card(j)'
    BY <2>1, CardPoll DEF Card, OnPage
  <2>3. QED
    BY <2>1, <2>2, OneCard, CardPoll
<1>9. ASSUME NEW j \in Jobs, Removed(j) PROVE Cards'
  <2>1. OnlyCard(j) /\ UNCHANGED <<status, polling, reply, faults>> /\ j \notin doomed'
    BY <1>9 DEF Removed, OnlyCard, Proceed, vars
  <2>2. /\ shows'[j] = "removed"
        /\ at'[j] = IF at[j] \in Resting THEN "gone" ELSE at[j]
    BY <1>9, CardPoll DEF Removed, Proceed
  <2>3. Card(j)'
    BY <2>1, <2>2, CardPoll DEF Card, Places, Resting
  <2>4. QED
    BY <2>1, <2>3, OneCard, CardPoll
<1>10. ASSUME NEW j \in Jobs, Lose(j) PROVE Cards'
  <2>1. faults' \in 0..MaxFaults
    BY <1>10, CardPoll, PageAssumption DEF Lose
  <2>2. UNCHANGED <<status, reply>> /\ polling' = [polling EXCEPT ![j] = "idle"] /\ Break(j)
    BY <1>10 DEF Lose, vars
  <2>3. QED
    BY <2>1, <2>2, BreakCard, CardPoll
<1>11. CASE Elsewhere
  <2>1. Next /\ UNCHANGED <<polling, reply, shows, at, doomed, faults>>
    BY <1>11 DEF Elsewhere, Next, readerVars, cardVars
  <2>2. QED
    BY <2>1, BrokerCards
<1>12. CASE UNCHANGED pageVars
  BY <1>12, BrokerCards DEF pageVars
<1>13. QED
  BY <1>1, <1>2, <1>3, <1>4, <1>5, <1>6, <1>7, <1>8, <1>9, <1>10, <1>11, <1>12
     DEF NextPage, Request

\* Type correctness of the page: a card asks again exactly while it shows a job
\* that is pending, the server reads a job only when it is asked to, and a poll
\* gets past its peek only for a job that has ended, sticking calls included.
THEOREM PageTypeCorrect == ~MayResend => (SpecPage => []TypeOKPage)
<1> SUFFICES ASSUME ~MayResend PROVE SpecPage => []TypeOKPage
  OBVIOUS
<1>1. InitPage => Cards
  <2> SUFFICES ASSUME InitPage PROVE Cards
    OBVIOUS
  <2>1. \A j \in Jobs : Card(j)
    BY DEF InitPage, InitReader, Card, Places, PollSteps, Replies, OnPage
  <2>2. QED
    BY <2>1, PageAssumption DEF InitPage, InitReader, Cards
<1>2. TypeOK /\ Once /\ Cards /\ [NextPage]_pageVars => Cards'
  BY NextCards
<1>3. TypeOK /\ Cards => TypeOKPage
  <2> SUFFICES ASSUME TypeOK, Cards PROVE TypeOKPage
    OBVIOUS
  <2>1. \A j \in Jobs : Card(j)
    BY DEF Cards
  <2>2. TypeOKReader
    BY <2>1, CardPoll DEF TypeOKReader, Card, Cards, Ends, PollSteps
  <2>3. QED
    BY <2>1, <2>2, CardPoll DEF TypeOKPage, Card, Cards, Places
<1>4. QED
  BY <1>1, <1>2, <1>3, PageIsQueue, TypeCorrect, OnceHolds, PTL DEF SpecPage
=============================================================================
