--------------------------------- MODULE Page ---------------------------------
(***************************************************************************)
(* The cards of src/ui.py on a visitor's page, against the broker of       *)
(* JobQueue, read through the polls of JobReader.  A card of a pending job *)
(* carries the hx-get that fetches the next one a second later; a settled  *)
(* card carries none, and may carry a Retry button; any card may be        *)
(* removed.  htmx is not in the repository: an answer replaces the article *)
(* its request was sent from, does nothing if that has gone, and an error  *)
(* answer is not swapped in, so the chain of polls ends where it stands.   *)
(***************************************************************************)
EXTENDS JobReader

CONSTANT
  MaxFaults \* bound: requests that fail on the way in one behaviour

ASSUME PageAssumption == MaxFaults \in Nat

VARIABLES
  shows,  \* what the card of each job says; "none": not on the page yet
  at,     \* how far the request made for it has got
  doomed, \* cards whose × was clicked and not answered yet
  faults  \* requests that failed (history, bounded by MaxFaults)

cardVars == <<shows, at, doomed, faults>>
pageVars == <<vars, polling, reply, shows, at, doomed, faults>>

\* "throttled": a retry the limits refused, which may be tried again.
Retryable == Failures \cup {"throttled"}
Shown == Pending \cup Settled \cup {"throttled"}
OnPage(j) == shows[j] \in Shown
\* No request is out for such a card.
Resting == {"due", "settled", "stuck"}

InitPage ==
  /\ InitReader
  /\ shows = [j \in Jobs |-> "none"]
  /\ at = [j \in Jobs |-> "absent"]
  /\ doomed = {} /\ faults = 0

Proceed(j, to) == at' = [at EXCEPT ![j] = to]

-----------------------------------------------------------------------------
(* The form and the poll. *)

\* The answer to a submission is the card of whatever state the job is in.
SubmitForm(j) ==
  /\ Submit(j) /\ Proceed(j, "asked")
  /\ UNCHANGED <<polling, reply, shows, doomed, faults>>

\* `load delay:1s`.
Ask(j) ==
  /\ at[j] = "due" /\ Proceed(j, "asked")
  /\ UNCHANGED <<vars, polling, reply, shows, doomed, faults>>

\* card_for, and the describe of a retry that was refused.
Read(j) ==
  /\ at[j] \in {"asked", "denied"}
  /\ Poll(j)
  /\ Proceed(j, IF polling'[j] # "idle" THEN at[j]
                ELSE IF at[j] = "asked" THEN "answered" ELSE "scolded")
  /\ UNCHANGED <<shows, doomed, faults>>

\* A new article in the place of the old one, which takes a pending Remove
\* with it.  One that has been removed is not replaced.
Swap(j, r, to) ==
  /\ IF shows[j] = "removed"
       THEN Proceed(j, "gone") /\ UNCHANGED shows
       ELSE Proceed(j, to) /\ shows' = [shows EXCEPT ![j] = r]
  /\ doomed' = doomed \ {j}

\* A card left as it was.
Rest(j) ==
  IF ~OnPage(j) THEN "gone" ELSE IF shows[j] \in Pending THEN "stuck" ELSE "settled"

\* An error is not swapped in: a card that polled does not ask again, one
\* that was retried keeps its button, and a submission never has a card.
Break(j) == Proceed(j, Rest(j)) /\ UNCHANGED <<shows, doomed>>

\* Mutant of Deliver: only a queued card carries the hx-get.
DeliverOnce(j) ==
  /\ at[j] = "answered"
  /\ IF reply[j] = "error" THEN Break(j)
     ELSE Swap(j, reply[j], IF reply[j] = "queued" THEN "due" ELSE "stuck")
  /\ UNCHANGED <<vars, polling, reply, faults>>

\* Mutant of Deliver: every card but that of a finished job carries the hx-get.
DeliverUnlessFinished(j) ==
  /\ at[j] = "answered"
  /\ IF reply[j] = "error" THEN Break(j)
     ELSE Swap(j, reply[j], IF reply[j] = "finished" THEN "settled" ELSE "due")
  /\ UNCHANGED <<vars, polling, reply, faults>>

\* card: it polls unless its state is terminal.
Deliver(j) ==
  /\ at[j] = "answered"
  /\ IF reply[j] = "error" THEN Break(j)
     ELSE Swap(j, reply[j], IF reply[j] \in Pending THEN "due" ELSE "settled")
  /\ UNCHANGED <<vars, polling, reply, faults>>

-----------------------------------------------------------------------------
(* The Retry button. *)

Retry(i) ==
  /\ at[i] = "settled" /\ shows[i] \in Retryable
  /\ Proceed(i, "retry")
  /\ UNCHANGED <<vars, polling, reply, shows, doomed, faults>>

\* throttle.admit comes first, whatever has become of the job.
Admit(i) ==
  /\ at[i] = "retry"
  /\ Proceed(i, "accepted") \/ Proceed(i, "denied")
  /\ UNCHANGED <<vars, polling, reply, shows, doomed, faults>>

\* What a refused retry is answered: the job's card, failed for another reason.
Scold(i) ==
  /\ at[i] = "scolded"
  /\ \/ reply[i] = "missing" /\ Swap(i, "missing", "settled")
     \/ reply[i] = "error" /\ Break(i)
     \/ reply[i] \notin {"missing", "error"} /\ Swap(i, "throttled", "settled")
  /\ UNCHANGED <<vars, polling, reply, faults>>

\* resubmit, with its record or its picture gone.
ResubmitNothing(i) ==
  /\ at[i] = "accepted"
  /\ Tell(i, "missing") /\ Proceed(i, "answered")
  /\ UNCHANGED <<vars, shows, doomed, faults>>

\* resubmit: a job of its own, whatever state the old one is in, whose card
\* takes the place of this one.  Its life is that of any other job.
Resubmit(i) ==
  /\ at[i] = "accepted" /\ status[i] # "expired"
  /\ Proceed(i, "resubmitted")
  /\ UNCHANGED <<vars, polling, reply, shows, doomed, faults>>

Replace(i) ==
  /\ at[i] = "resubmitted"
  /\ Swap(i, "removed", "gone")
  /\ UNCHANGED <<vars, polling, reply, faults>>

-----------------------------------------------------------------------------
(* Removing, and what may fail. *)

Remove(j) ==
  /\ OnPage(j) /\ j \notin doomed
  /\ doomed' = doomed \cup {j}
  /\ UNCHANGED <<vars, polling, reply, shows, at, faults>>

\* What the server was asked for meanwhile goes on.
Removed(j) ==
  /\ j \in doomed
  /\ doomed' = doomed \ {j}
  /\ shows' = [shows EXCEPT ![j] = "removed"]
  /\ Proceed(j, IF at[j] \in Resting THEN "gone" ELSE at[j])
  /\ UNCHANGED <<vars, polling, reply, faults>>

\* The broker raises and the handler answers 500, or the network drops it.
Lose(j) ==
  /\ faults < MaxFaults /\ faults' = faults + 1
  /\ at[j] \in {"asked", "answered", "retry", "accepted", "resubmitted", "denied", "scolded"}
  /\ Break(j)
  /\ polling' = [polling EXCEPT ![j] = "idle"]
  /\ UNCHANGED <<vars, reply>>

Request(j) ==
  \/ Ask(j) \/ Read(j) \/ Deliver(j)
  \/ Admit(j) \/ Scold(j) \/ ResubmitNothing(j) \/ Resubmit(j) \/ Replace(j)

\* The broker without the web tier.
Elsewhere ==
  /\ \/ \E j \in Jobs : Resend(j)
     \/ \E w \in Workers : Work(w) \/ Maintain(w)
     \/ Crash \/ Restart \/ Tick
  /\ UNCHANGED <<readerVars, cardVars>>

NextPage ==
  \/ \E j \in Jobs : \/ SubmitForm(j) \/ Request(j) \/ Retry(j)
                     \/ Remove(j) \/ Removed(j) \/ Lose(j)
  \/ Elsewhere

\* A card asks every second, requests are answered, and time passes; nothing
\* is asked of the visitor or of the worker.
PageFairness ==
  /\ \A j \in Jobs : /\ WF_pageVars(Request(j))
                     /\ WF_pageVars(Resend(j) /\ UNCHANGED <<readerVars, cardVars>>)
  /\ WF_pageVars(Tick /\ UNCHANGED <<readerVars, cardVars>>)

\* Threads run, maintenance is due, and a restart policy restarts the process.
WorkerFairness ==
  /\ \A w \in Workers : /\ WF_pageVars(Work(w) /\ UNCHANGED <<readerVars, cardVars>>)
                        /\ WF_pageVars(Maintain(w) /\ UNCHANGED <<readerVars, cardVars>>)
  /\ WF_pageVars(Restart /\ UNCHANGED <<readerVars, cardVars>>)

SpecPage == InitPage /\ [][NextPage]_pageVars
FairSpecPage == SpecPage /\ PageFairness

-----------------------------------------------------------------------------
(* Properties. *)

\* The type invariant; a card asks again exactly while it shows a job that is
\* pending, and the server reads a job only when it is asked to.
TypeOKPage ==
  /\ TypeOKReader
  /\ shows \in [Jobs -> Shown \cup {"none", "removed"}]
  /\ at \in [Jobs -> {"absent", "asked", "answered", "retry", "accepted", "denied",
                      "scolded", "resubmitted", "gone"} \cup Resting]
  /\ doomed \subseteq {j \in Jobs : OnPage(j)} /\ faults \in 0..MaxFaults
  /\ \A j \in Jobs :
       /\ at[j] \in {"due", "stuck"} => shows[j] \in Pending
       /\ at[j] = "settled" => shows[j] \in Shown \ Pending
       /\ polling[j] # "idle" => at[j] \in {"asked", "denied"}

\* The poll chain was cut: by a request that failed, or by a record that went
\* while it was being read (a 500).
CutOff(j) == at[j] = "stuck" /\ (faults > 0 \/ reply[j] = "error")

\* "the page is honest with no worker running": the card of a started job
\* settles on the clock alone, though every thread may stop for good.
StartedSettlesUnattended ==
  \A j \in Jobs : (at[j] = "due" /\ status[j] = "started")
                    ~> (at[j] \in {"settled", "gone"} \/ CutOff(j))

\* "the card polls itself ... and turns into the result": with workers running
\* and restarted, every card that polls settles, unless its chain was cut.
EveryCardSettles ==
  WorkerFairness =>
    \A j \in Jobs : (at[j] = "due") ~> (at[j] \in {"settled", "gone"} \/ CutOff(j))
=============================================================================
