------------------------------ MODULE StoreClient ------------------------------
(***************************************************************************)
(* The blob store as a service: src/h3.py as the client, one QUIC          *)
(* connection shared by every calling thread and kept by one event loop,   *)
(* and the routes of src/store.py over the disk functions of src/blobs.py. *)
(*                                                                         *)
(* A step is what the loop does between two awaits.  When a connection     *)
(* ends, every request waiting on it is failed in one callback, and all of *)
(* them resume before the loop looks at the network again: that is one     *)
(* step.  Frames may be lost and the store may stop at any point, so a     *)
(* request that failed here may have been executed, or still be.           *)
(***************************************************************************)
EXTENDS Integers, FiniteSets

CONSTANTS
  Callers,  \* threads of the web tier or of the worker
  Refs,     \* references, '<job_id>/<name>'
  Requests, \* what src.blobs asks of the store
  Nobody,   \* who holds a free lock
  MaxFaults \* bound: connections dropped, store stops, slow answers and
            \* handshakes that are cancelled

\* A link makes `ref` another name of `from`; the other calls have one reference.
ASSUME ClientAssumption ==
  /\ Nobody \notin Callers /\ MaxFaults \in Nat
  /\ Requests \subseteq [kind : {"get", "exists", "put", "link"}, ref : Refs, from : Refs]

VARIABLES
  conn,     \* self._protocol: the number of a connection, 0 for None
  open,     \* connections the client does not know to be terminated
  made,     \* how many have been made
  strays,   \* handshakes whose caller is gone, still under way
  orphans,  \* the open connections that came of such
  lock,     \* who holds _connect_lock
  call,     \* what each caller is waiting for
  raised,   \* callers whose last call raised H3Error
  wire,     \* requests sent whose stream has not ended
  up,       \* whether the store is up
  accepted, \* connections the store knows
  files,    \* references on its disk
  faults    \* faults so far (history, bounded by MaxFaults)

vars == <<conn, open, made, strays, orphans, lock, call, raised, wire, up, accepted, files, faults>>
loopVars == <<conn, open, made, strays, orphans, lock>>
storeVars == <<up, accepted, files>>

NoCall == [at |-> "idle", attempt |-> 0, did |-> FALSE]

Init ==
  /\ conn = 0 /\ open = {} /\ made = 0 /\ lock = Nobody
  /\ strays = 0 /\ orphans = {}
  /\ call = [c \in Callers |-> NoCall]
  /\ raised = {} /\ wire = {}
  /\ up = TRUE /\ accepted = {} /\ files = {}
  /\ faults = 0

\* The stream a caller's request is on: protocol._pending.
Awaiting(c) == {e \in wire : e.by = c /\ e.awaited}

Fault == faults < MaxFaults /\ faults' = faults + 1

\* What becomes of callers whose request raised H3Error: `exists` has no way
\* to tell it from a reference that is not there, and says False.
Raised(cs) == (raised \ cs) \cup {c \in cs : call[c].q.kind # "exists"}

-----------------------------------------------------------------------------
(* The client's loop. *)

\* run_coroutine_threadsafe, and the caller blocks.
Begin(c, q) ==
  /\ call[c].at = "idle"
  /\ call' = [call EXCEPT ![c] = [at |-> "lock", attempt |-> 1, did |-> FALSE, q |-> q]]
  /\ UNCHANGED <<loopVars, raised, wire, storeVars, faults>>

Send(c, k) ==
  /\ call' = [call EXCEPT ![c].at = "sent"]
  /\ wire' = wire \cup {[by |-> c, q |-> call[c].q, on |-> k, answer |-> "none", awaited |-> TRUE]}

\* Mutant of Connected: no look at `terminated`.
ConnectedBlindly(c) ==
  /\ call[c].at = "lock" /\ lock = Nobody
  /\ IF conn # 0
       THEN Send(c, conn) /\ UNCHANGED lock
       ELSE /\ lock' = c
            /\ call' = [call EXCEPT ![c].at = "connecting"]
            /\ UNCHANGED wire
  /\ UNCHANGED <<conn, open, made, strays, orphans, raised, storeVars, faults>>

\* _connected: join the live connection, or hold the lock and make one.
Connected(c) ==
  /\ call[c].at = "lock" /\ lock = Nobody
  /\ IF conn \in open
       THEN Send(c, conn) /\ UNCHANGED lock
       ELSE /\ lock' = c
            /\ call' = [call EXCEPT ![c].at = "connecting"]
            /\ UNCHANGED wire
  /\ UNCHANGED <<conn, open, made, strays, orphans, raised, storeVars, faults>>

\* _connect returns and the request goes out on the new connection.
Connect(c) ==
  /\ call[c].at = "connecting" /\ up
  /\ made' = made + 1 /\ conn' = made' /\ open' = open \cup {made'}
  /\ accepted' = accepted \cup {made'}
  /\ lock' = Nobody
  /\ Send(c, made')
  /\ UNCHANGED <<strays, orphans, raised, up, files, faults>>

\* A handshake that was left behind succeeds: nothing in the client knows of
\* the connection but its datagram endpoint.
StrayConnect ==
  /\ strays > 0 /\ up
  /\ strays' = strays - 1
  /\ made' = made + 1 /\ open' = open \cup {made'}
  /\ orphans' = orphans \cup {made'} /\ accepted' = accepted \cup {made'}
  /\ UNCHANGED <<conn, lock, call, raised, wire, up, files, faults>>

\* It is not answered and goes idle.
StrayEnd ==
  /\ strays > 0
  /\ strays' = strays - 1
  /\ UNCHANGED <<conn, open, made, orphans, lock, call, raised, wire, storeVars, faults>>

\* The stream ends and its future is resolved.
Answer(e) ==
  /\ e.awaited /\ e.answer # "none" /\ e.on \in open \cap accepted
  /\ call' = [call EXCEPT ![e.by] = NoCall]
  /\ raised' = raised \ {e.by}
  /\ wire' = wire \ {e}
  /\ UNCHANGED <<loopVars, storeVars, faults>>

\* A request nobody waits for any more may still reach a store that knows its
\* connection.
Forsaken(es) ==
  { [e EXCEPT !.awaited = FALSE] : e \in {x \in es : x.answer = "none" /\ x.on \in accepted} }

\* _request: what a request does that was failed by its connection.
TryAgain(cs) ==
  call' = [c \in Callers |->
    IF c \notin cs THEN call[c]
    ELSE IF call[c].attempt = 1 THEN [call[c] EXCEPT !.at = "lock", !.attempt = 2]
    ELSE NoCall]

\* ConnectionTerminated or connection_lost: an idle timeout, or a close from
\* the store.  Every request waiting on it fails; each clears the shared
\* connection, and tries once more or raises.
Terminated(k) ==
  LET lost == {e \in wire : e.awaited /\ e.on = k}
      losers == {e.by : e \in lost} IN
  /\ k \in open
  /\ IF k \in accepted \ orphans THEN Fault ELSE UNCHANGED faults
  /\ open' = open \ {k} /\ orphans' = orphans \ {k}
  /\ conn' = IF losers = {} THEN conn ELSE 0
  /\ wire' = (wire \ lost) \cup Forsaken(lost)
  /\ TryAgain(losers)
  /\ raised' = Raised({c \in losers : call[c].attempt = 2})
  /\ UNCHANGED <<made, strays, lock, storeVars>>

\* Whether what a caller waits for can no longer come, or not while the store
\* is down.  Anything else that takes too long is a fault.
Hopeless(c) ==
  \/ call[c].at = "sent" /\ \E e \in Awaiting(c) : e.on \notin open \cap accepted
  \/ call[c].at \in {"lock", "connecting"} /\ ~up

\* What the connection attempt of a call leaves behind when it is given up.  A
\* handshake that times out is closed; a caller that cancels the coroutine
\* interrupts the wait for it with CancelledError, which closes nothing.
Abandon(c) ==
  \/ UNCHANGED strays /\ IF Hopeless(c) THEN UNCHANGED faults ELSE Fault
  \/ call[c].at = "connecting" /\ Fault /\ strays' = strays + 1

\* Mutants of GiveUp: the lock stays held; the connection is dropped as well.
GiveUpHolding(c) ==
  /\ call[c].at # "idle"
  /\ wire' = (wire \ Awaiting(c)) \cup Forsaken(Awaiting(c))
  /\ Abandon(c)
  /\ call' = [call EXCEPT ![c] = NoCall]
  /\ raised' = Raised({c})
  /\ UNCHANGED <<conn, open, made, orphans, lock, storeVars>>

GiveUpForgetting(c) ==
  /\ call[c].at # "idle"
  /\ wire' = (wire \ Awaiting(c)) \cup Forsaken(Awaiting(c))
  /\ lock' = IF lock = c THEN Nobody ELSE lock
  /\ conn' = 0
  /\ Abandon(c)
  /\ call' = [call EXCEPT ![c] = NoCall]
  /\ raised' = Raised({c})
  /\ UNCHANGED <<open, made, orphans, storeVars>>

\* No handshake or no answer within the timeout, or the caller's own patience
\* runs out and it cancels the coroutine.  None of these is retried, and none
\* says anything about the shared connection.
GiveUp(c) ==
  /\ call[c].at # "idle"
  /\ wire' = (wire \ Awaiting(c)) \cup Forsaken(Awaiting(c))
  /\ lock' = IF lock = c THEN Nobody ELSE lock
  /\ Abandon(c)
  /\ call' = [call EXCEPT ![c] = NoCall]
  /\ raised' = Raised({c})
  /\ UNCHANGED <<conn, open, made, orphans, storeVars>>

-----------------------------------------------------------------------------
(* The store. *)

\* Mutant of Reply: a link onto a name that is there already fails.
ReplyExclusive(q) ==
  CASE q.kind = "put" -> "ok"
    [] q.kind = "link" -> IF q.from \notin files THEN "missing"
                          ELSE IF q.ref \in files THEN "refused" ELSE "ok"
    [] OTHER -> IF q.ref \in files THEN "ok" ELSE "missing"

\* The routes.  A link onto a name that exists is fine; a source that is gone
\* is noticed first.
Reply(q) ==
  CASE q.kind = "put" -> "ok"
    [] q.kind = "link" -> IF q.from \in files THEN "ok" ELSE "missing"
    [] OTHER -> IF q.ref \in files THEN "ok" ELSE "missing"

\* What they leave on the disk.
Effect(q) ==
  CASE q.kind = "put" -> files \cup {q.ref}
    [] q.kind = "link" -> IF q.from \in files THEN files \cup {q.ref} ELSE files
    [] OTHER -> files

\* A handler runs once its request is complete, whoever still waits for it.
Execute(e) ==
  LET again == /\ call[e.by].at # "idle" /\ call[e.by].q = e.q
               /\ \A x \in Awaiting(e.by) : x.answer = "none" IN
  /\ up /\ e.on \in accepted /\ e.answer = "none"
  /\ files' = Effect(e.q)
  /\ call' = IF again /\ Reply(e.q) = "ok" THEN [call EXCEPT ![e.by].did = TRUE] ELSE call
  /\ wire' = (wire \ {e}) \cup (IF e.awaited THEN {[e EXCEPT !.answer = Reply(e.q)]} ELSE {})
  /\ UNCHANGED <<loopVars, raised, up, accepted, faults>>

\* A sweep, asked for by a worker process over a connection of its own.  Which
\* directories it takes is BlobStore's concern.
Sweep ==
  /\ up /\ files' \in SUBSET files /\ files' # files
  /\ call' = [c \in Callers |->
       IF call[c].did /\ ~({call[c].q.ref, call[c].q.from} \subseteq files')
         THEN [call[c] EXCEPT !.did = FALSE] ELSE call[c]]
  /\ UNCHANGED <<loopVars, raised, wire, up, accepted, faults>>

\* It stops, with or without closing its connections; the disk stays.
StoreStop ==
  /\ up /\ Fault
  /\ up' = FALSE /\ accepted' = {}
  /\ wire' = {e \in wire : e.awaited}
  /\ UNCHANGED <<loopVars, call, raised, files>>

StoreStart ==
  /\ ~up /\ up' = TRUE
  /\ UNCHANGED <<loopVars, call, raised, wire, accepted, files, faults>>

-----------------------------------------------------------------------------
Next ==
  \/ \E c \in Callers, q \in Requests : Begin(c, q)
  \/ \E c \in Callers : Connected(c) \/ Connect(c) \/ GiveUp(c)
  \/ \E e \in wire : Execute(e) \/ Answer(e)
  \/ \E k \in open : Terminated(k)
  \/ StrayConnect \/ StrayEnd
  \/ Sweep \/ StoreStop \/ StoreStart

Spec == Init /\ [][Next]_vars

\* What a caller that is at work waits for: the lock, the handshake, its answer,
\* or the timer that ends a wait for none of them.
Moves(c) ==
  \/ Connected(c) \/ Connect(c)
  \/ \E e \in Awaiting(c) : Execute(e) \/ Answer(e)
  \/ Hopeless(c) /\ GiveUp(c)

\* The loop runs, what is sent on a live connection arrives, timers fire (a
\* connection the store forgot goes idle), and the store is restarted.
Fairness ==
  /\ \A c \in Callers : WF_vars(Moves(c))
  /\ WF_vars(\E k \in open \ accepted : Terminated(k))
  /\ WF_vars(StoreStart)

FairSpec == Spec /\ Fairness

-----------------------------------------------------------------------------
(* Properties. *)

\* The type invariant; the lock is held by the one caller that is connecting,
\* and a caller waits for one stream, when it has sent its request.
TypeOK ==
  /\ made \in Nat /\ conn \in 0..made /\ faults \in 0..MaxFaults
  /\ {open, accepted, orphans} \subseteq SUBSET (1..made) /\ strays \in 0..MaxFaults
  /\ up \in BOOLEAN /\ raised \subseteq Callers /\ files \subseteq Refs
  /\ lock \in Callers \cup {Nobody}
  /\ call \in [Callers -> {NoCall} \cup [at : {"lock", "connecting", "sent"},
                                        attempt : {1, 2}, did : BOOLEAN, q : Requests]]
  /\ wire \subseteq [by : Callers, q : Requests, on : 1..made,
                     answer : {"none", "ok", "missing", "refused"}, awaited : BOOLEAN]
  /\ \A c \in Callers :
       /\ call[c].at = "connecting" <=> lock = c
       /\ call[c].at = "sent" <=> Awaiting(c) # {}
       /\ \A e, x \in Awaiting(c) : e = x

\* Requests fail at any point of one another's retries, yet nobody forgets a
\* connection that is alive: requests join the one there is.  What may be open
\* besides it is what cancelled handshakes left, and no request is on those.
OneConnection ==
  /\ open \ orphans \subseteq {conn}
  /\ conn \notin orphans /\ \A e \in wire : e.on \notin orphans

\* A put or a link that was executed and not heard of is executed again: the
\* repetition is answered as the first was, unless a sweep came between.
RepeatSucceeds ==
  \A c \in Callers : \A e \in Awaiting(c) :
    e.answer \in {"missing", "refused"} => ~call[c].did

\* However the connection is lost, the client finds its way back: while calls
\* keep coming, they do not fail for ever.
NeverWedged ==
  (\A c \in Callers : []<>(call[c].at # "idle"))
    => \A c \in Callers : []<>(c \notin raised)
=============================================================================
