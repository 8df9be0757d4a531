------------------------------- MODULE Admission -------------------------------
(***************************************************************************)
(* Admission of a submission, src/throttle.py, as every web handler of     *)
(* src/api.py and src/ui.py runs it: read the queue depth, count the       *)
(* request in its client's window, enqueue.  Each is a round trip to the   *)
(* broker of its own, and handlers run side by side in a thread pool.  The *)
(* depth that is read counts the sweeps the cron enqueues as well.         *)
(*                                                                         *)
(* The counter's key names the window, and is kept for a window after the  *)
(* last INCR: it never expires within its own.  Reading the clock and the  *)
(* INCR are one step here, milliseconds apart in the code.                 *)
(* Any round trip may fail.  Both checks then let the request through:     *)
(* "A broken broker fails the enqueue right after this anyway".  One whose *)
(* reply times out is made again by the client (retry_on_timeout), so what *)
(* it does may be done more than once.                                     *)
(***************************************************************************)
EXTENDS Integers, FiniteSets

CONSTANTS
  Clients,    \* addresses submissions come from
  Handlers,   \* handler threads of the web tier
  Nobody,     \* whom an idle handler serves
  MaxDepth,   \* settings.max_queue_depth
  RateLimit,  \* settings.rate_limit
  MaxRequests,\* bound: requests of one client in one window
  MaxWaiting, \* bound: image jobs in the queue
  MaxSweeps,  \* bound: sweep jobs in the queue
  MaxErrors   \* bound: round trips that fail or time out in one behaviour

ASSUME AdmissionAssumption ==
  /\ Nobody \notin Clients /\ IsFiniteSet(Handlers) /\ Handlers # {}
  /\ MaxDepth \in Nat \ {0} /\ RateLimit \in Nat \ {0}
  /\ {MaxRequests, MaxWaiting, MaxSweeps, MaxErrors} \subseteq Nat

VARIABLES
  count,    \* the counter of each client's current window
  waiting,  \* image jobs in the queue
  sweeps,   \* sweep jobs in the queue
  handler,  \* what each handler is doing
  requests, \* requests of each client in this window (history, bounded)
  admitted, \* those of them past check_rate (history)
  errors    \* round trips that failed or timed out (history, bounded by MaxErrors)

vars == <<count, waiting, sweeps, handler, requests, admitted, errors>>

Idle == [at |-> "idle", client |-> Nobody]
None == [c \in Clients |-> 0]

Init ==
  /\ waiting = 0 /\ sweeps = 0 /\ errors = 0
  /\ count = None /\ requests = None /\ admitted = None
  /\ handler = [h \in Handlers |-> Idle]

Proceed(h, at) == handler' = [handler EXCEPT ![h].at = at]

Answer(h) == handler' = [handler EXCEPT ![h] = Idle]

-----------------------------------------------------------------------------
(* A request. *)

Arrive(h, c) ==
  /\ handler[h] = Idle /\ requests[c] < MaxRequests
  /\ handler' = [handler EXCEPT ![h] = [at |-> "depth", client |-> c]]
  /\ requests' = [requests EXCEPT ![c] = @ + 1]
  /\ UNCHANGED <<count, waiting, sweeps, admitted, errors>>

\* Mutant of CheckDepth: the limit itself is let through.
CheckDepthOver(h) ==
  /\ handler[h].at = "depth"
  /\ IF waiting + sweeps > MaxDepth THEN Answer(h) ELSE Proceed(h, "rate")
  /\ UNCHANGED <<count, waiting, sweeps, requests, admitted, errors>>

\* check_queue_depth.  The depth is stale as soon as it is read.
CheckDepth(h) ==
  /\ handler[h].at = "depth"
  /\ IF waiting + sweeps >= MaxDepth THEN Answer(h) ELSE Proceed(h, "rate")
  /\ UNCHANGED <<count, waiting, sweeps, requests, admitted, errors>>

\* Mutant of CheckRate: a counter read before it is incremented.
CheckRateBefore(h) ==
  LET c == handler[h].client IN
  /\ handler[h].at = "rate"
  /\ count' = [count EXCEPT ![c] = @ + 1]
  /\ IF count[c] > RateLimit
       THEN Answer(h) /\ UNCHANGED admitted
       ELSE Proceed(h, "enqueue") /\ admitted' = [admitted EXCEPT ![c] = @ + 1]
  /\ UNCHANGED <<waiting, sweeps, requests, errors>>

\* check_rate: INCR and EXPIRE in one transaction, then the comparison with
\* what INCR returned.  A request that is refused has been counted.
CheckRate(h) ==
  LET c == handler[h].client IN
  /\ handler[h].at = "rate"
  /\ count' = [count EXCEPT ![c] = @ + 1]
  /\ IF count[c] + 1 > RateLimit
       THEN Answer(h) /\ UNCHANGED admitted
       ELSE Proceed(h, "enqueue") /\ admitted' = [admitted EXCEPT ![c] = @ + 1]
  /\ UNCHANGED <<waiting, sweeps, requests, errors>>

Enqueue(h) ==
  /\ handler[h].at = "enqueue"
  /\ waiting < MaxWaiting
  /\ waiting' = waiting + 1
  /\ Answer(h)
  /\ UNCHANGED <<count, sweeps, requests, admitted, errors>>

Fail == errors < MaxErrors /\ errors' = errors + 1

FailDepth(h) ==
  /\ handler[h].at = "depth" /\ Fail
  /\ Proceed(h, "rate")
  /\ UNCHANGED <<count, waiting, sweeps, requests, admitted>>

\* A transaction that fails may have been executed.
FailRate(h) ==
  LET c == handler[h].client IN
  /\ handler[h].at = "rate" /\ Fail
  /\ \/ UNCHANGED count
     \/ count' = [count EXCEPT ![c] = @ + 1]
  /\ admitted' = [admitted EXCEPT ![c] = @ + 1]
  /\ Proceed(h, "enqueue")
  /\ UNCHANGED <<waiting, sweeps, requests>>

\* The reply to a transaction times out, so the client executes the whole of it
\* again, whether or not the first one was executed: a request is counted, or
\* a job pushed, once more.  Reading the depth again changes nothing.
RepeatRate(h) ==
  LET c == handler[h].client IN
  /\ handler[h].at = "rate" /\ Fail
  /\ \/ UNCHANGED count
     \/ count' = [count EXCEPT ![c] = @ + 1]
  /\ UNCHANGED <<waiting, sweeps, handler, requests, admitted>>

RepeatEnqueue(h) ==
  /\ handler[h].at = "enqueue" /\ Fail
  /\ waiting < MaxWaiting /\ waiting' \in {waiting, waiting + 1}
  /\ UNCHANGED <<count, sweeps, handler, requests, admitted>>

\* The visitor gets an error, whether or not the job was pushed.
FailEnqueue(h) ==
  /\ handler[h].at = "enqueue" /\ Fail
  /\ waiting < MaxWaiting /\ waiting' \in {waiting, waiting + 1}
  /\ Answer(h)
  /\ UNCHANGED <<count, sweeps, requests, admitted>>

\* A request past both checks that never becomes a job: its picture cannot be
\* decoded or stored, or there is nothing left to retry.
GiveUp(h) ==
  /\ handler[h].at = "enqueue"
  /\ Answer(h)
  /\ UNCHANGED <<count, waiting, sweeps, requests, admitted, errors>>

Handle(h) ==
  \/ CheckDepth(h) \/ CheckRate(h) \/ Enqueue(h) \/ GiveUp(h)
  \/ FailDepth(h) \/ FailRate(h) \/ FailEnqueue(h)
  \/ RepeatRate(h) \/ RepeatEnqueue(h)

-----------------------------------------------------------------------------
(* Everybody else. *)

\* The scheduler enqueues a sweep every interval and asks nobody.
EnqueueSweep ==
  /\ sweeps < MaxSweeps
  /\ sweeps' = sweeps + 1
  /\ UNCHANGED <<count, waiting, handler, requests, admitted, errors>>

\* A worker thread takes a job off the queue.
TakeJob ==
  /\ \/ waiting > 0 /\ waiting' = waiting - 1 /\ UNCHANGED sweeps
     \/ sweeps > 0 /\ sweeps' = sweeps - 1 /\ UNCHANGED waiting
  /\ UNCHANGED <<count, handler, requests, admitted, errors>>

\* The clock enters the next window: other keys from here on.
TurnWindow ==
  /\ count' = None /\ requests' = None /\ admitted' = None
  /\ UNCHANGED <<waiting, sweeps, handler, errors>>

Next ==
  \/ \E h \in Handlers, c \in Clients : Arrive(h, c)
  \/ \E h \in Handlers : Handle(h)
  \/ EnqueueSweep \/ TakeJob \/ TurnWindow

Spec == Init /\ [][Next]_vars

-----------------------------------------------------------------------------
(* Properties. *)

\* The type invariant; only a busy handler has a client.
TypeOK ==
  /\ count \in [Clients -> Nat] /\ requests \in [Clients -> Nat]
  /\ admitted \in [Clients -> Nat]
  /\ waiting \in Nat /\ sweeps \in Nat /\ errors \in 0..MaxErrors
  /\ handler \in [Handlers -> [at : {"idle", "depth", "rate", "enqueue"},
                               client : Clients \cup {Nobody}]]
  /\ \A h \in Handlers : handler[h].client = Nobody => handler[h].at = "idle"

\* However its requests are spread over the handlers, a client gets no more
\* than RateLimit submissions past check_rate in one window, and one for each
\* round trip that failed: a check that fails open lets one request through,
\* and a request that is counted twice lets none.
RateHolds == \A c \in Clients : admitted[c] <= RateLimit + errors

\* docs/LOAD.md: that many payloads "must fit inside maxmemory".  The depth is
\* read before it is acted on, so every other handler may have got in between:
\* the queue never holds more images than that overshoot allows, and one for
\* each round trip that failed or timed out: a 202 may have pushed its job twice.
DepthBounded == waiting <= MaxDepth + Cardinality(Handlers) - 1 + errors
=============================================================================
