--------------------------- MODULE StoreClientProofs ---------------------------
(***************************************************************************)
(* Proofs about StoreClient, for any threads, requests and faults.  What   *)
(* they rest on: a stream that is awaited is the only one its caller waits *)
(* for, whoever connects holds the lock, and files only come until a sweep.*)
(***************************************************************************)
EXTENDS StoreClient, TLAPS

Busy == [at : {"lock", "connecting", "sent"}, attempt : {1, 2}, did : BOOLEAN, q : Requests]

Streams == [by : Callers, q : Requests, on : Int,
            answer : {"none", "ok", "missing", "refused"}, awaited : BOOLEAN]

\* What the loop keeps is well shaped, and a stream that is awaited is the one
\* its caller has sent its request on.
Shaped ==
  /\ call \in [Callers -> {NoCall} \cup Busy] /\ wire \subseteq Streams
  /\ conn \in Int /\ made \in Int /\ open \subseteq Int
  /\ \A e \in wire : e.awaited => call[e.by].at = "sent" /\ call[e.by].q = e.q
  /\ \A e, x \in wire : e.awaited /\ x.awaited /\ e.by = x.by => e = x

\* Whoever connects holds the lock, and found no connection alive but what
\* cancelled handshakes left.
Locked ==
  \A c \in Callers : call[c].at = "connecting" => lock = c /\ open \ orphans = {}

\* What was executed would be answered the same again.
Lasting == \A c \in Callers : call[c].did => Reply(call[c].q) = "ok"

-----------------------------------------------------------------------------
(* Calls and streams. *)

LEMMA BusyFields ==
  ASSUME NEW x \in Busy
  PROVE  x.at \in {"lock", "connecting", "sent"} /\ x.q \in Requests /\ x.did \in BOOLEAN
BY DEF Busy

\* What a caller at work keeps when its call moves on, or is marked as executed.
LEMMA Moved ==
  ASSUME NEW x \in Busy, NEW v \in {"lock", "connecting", "sent"}, NEW y,
         y = [x EXCEPT !.at = v]
  PROVE  y \in Busy /\ y.at = v /\ y.q = x.q /\ y.did = x.did
BY DEF Busy

LEMMA Marked ==
  ASSUME NEW x \in Busy, NEW b \in BOOLEAN, NEW y, y = [x EXCEPT !.did = b]
  PROVE  y \in Busy /\ y.at = x.at /\ y.q = x.q /\ y.did = b
BY DEF Busy

\* A call that is at something is a call of a request.
LEMMA IdleOrBusy ==
  ASSUME Shaped, NEW c \in Callers
  PROVE  /\ NoCall.at = "idle" /\ NoCall.did = FALSE
         /\ call[c] = NoCall \/ call[c] \in Busy
         /\ call[c].at # "idle" <=> call[c] \in Busy
         /\ call[c].did => call[c] \in Busy
<1>1. NoCall.at = "idle" /\ NoCall.did = FALSE
  BY DEF NoCall
<1>2. call[c] = NoCall \/ call[c] \in Busy
  BY DEF Shaped
<1>3. QED
  BY <1>1, <1>2, BusyFields

\* What becomes of a stream when it is given up.
LEMMA StreamFields ==
  ASSUME NEW e \in Streams
  PROVE  /\ e.by \in Callers /\ e.q \in Requests /\ e.awaited \in BOOLEAN
         /\ LET y == [e EXCEPT !.awaited = FALSE] IN y \in Streams /\ ~y.awaited
BY DEF Streams

\* Giving streams up adds none that anybody waits for.
LEMMA ForsakenNotAwaited ==
  ASSUME NEW es, es \subseteq Streams
  PROVE  Forsaken(es) \subseteq Streams /\ \A e \in Forsaken(es) : ~e.awaited
<1>1. ASSUME NEW y \in Forsaken(es) PROVE y \in Streams /\ ~y.awaited
  <2>1. PICK x \in es : y = [x EXCEPT !.awaited = FALSE]
    BY <1>1 DEF Forsaken
  <2>2. QED
    BY <2>1, StreamFields
<1>2. QED
  BY <1>1

LEMMA RepliesAreAnswers ==
  ASSUME NEW q \in Requests
  PROVE  Reply(q) \in {"ok", "missing"}
BY DEF Reply

-----------------------------------------------------------------------------
(* The shape of calls and streams. *)

\* Sending needs a caller that waits for nothing yet.
LEMMA SendKeepsShape ==
  ASSUME Shaped, NEW c \in Callers, NEW k \in Int,
         call[c].at \in {"lock", "connecting"}, Send(c, k),
         conn' \in Int, made' \in Int, open' \subseteq Int
  PROVE  Shaped'
<1>1. call[c] \in Busy
  BY IdleOrBusy
<1>2. call' = [call EXCEPT ![c] = [call[c] EXCEPT !.at = "sent"]]
  BY DEF Send
<1>3. call' \in [Callers -> {NoCall} \cup Busy]
  BY <1>1, <1>2, Moved DEF Shaped
<1>4. call'[c].at = "sent" /\ call'[c].q = call[c].q
  <2>1. call'[c] = [call[c] EXCEPT !.at = "sent"]
    BY <1>2 DEF Shaped
  <2>2. QED
    BY <1>1, <2>1, Moved
<1>5. \A d \in Callers \ {c} : call'[d] = call[d]
  BY <1>2 DEF Shaped
<1> DEFINE new == [by |-> c, q |-> call[c].q, on |-> k, answer |-> "none", awaited |-> TRUE]
<1>6. wire' = wire \cup {new} /\ new \in Streams /\ new.by = c /\ new.q = call[c].q
  BY <1>1, BusyFields DEF Send, Streams
<1>7. \A e \in wire : e.awaited => e.by \in Callers \ {c}
  BY StreamFields DEF Shaped
<1> HIDE DEF new
<1>8. QED
  BY <1>3, <1>4, <1>5, <1>6, <1>7 DEF Shaped

\* A caller that is told the end of its call waits for nothing.
LEMMA EndKeepsShape ==
  ASSUME Shaped, NEW c \in Callers, call' = [call EXCEPT ![c] = NoCall],
         wire' \subseteq Streams,
         \A e \in wire' : e.awaited => e \in wire /\ e.by # c,
         UNCHANGED <<conn, made, open>>
  PROVE  Shaped'
<1>1. call' \in [Callers -> {NoCall} \cup Busy]
  BY DEF Shaped
<1>2. \A d \in Callers \ {c} : call'[d] = call[d]
  BY DEF Shaped
<1>3. \A e \in wire' : e.awaited => e.by \in Callers
  BY StreamFields DEF Shaped
<1>4. QED
  BY <1>1, <1>2, <1>3 DEF Shaped

LEMMA LoopKeepsShape ==
  ASSUME Shaped, NEW c \in Callers,
         (\E q \in Requests : Begin(c, q)) \/ Connected(c) \/ Connect(c) \/ GiveUp(c)
  PROVE  Shaped'
<1>1. ASSUME NEW q \in Requests, Begin(c, q) PROVE Shaped'
  <2> DEFINE new == [at |-> "lock", attempt |-> 1, did |-> FALSE, q |-> q]
  <2>1. call' = [call EXCEPT ![c] = new] /\ new \in Busy /\ call[c].at = "idle"
    BY <1>1 DEF Begin, Busy
  <2> HIDE DEF new
  <2>2. call' \in [Callers -> {NoCall} \cup Busy] /\ \A d \in Callers \ {c} : call'[d] = call[d]
    BY <2>1 DEF Shaped
  <2>3. \A e \in wire : e.awaited => e.by \in Callers \ {c}
    BY <2>1, StreamFields DEF Shaped
  <2>4. UNCHANGED <<wire, conn, made, open>>
    BY <1>1 DEF Begin, loopVars
  <2>5. QED
    BY <2>2, <2>3, <2>4 DEF Shaped
<1>2. CASE Connected(c)
  <2>1. UNCHANGED <<conn, made, open>> /\ call[c].at = "lock"
    BY <1>2 DEF Connected
  <2>2. CASE conn \in open
    BY <1>2, <2>1, <2>2, SendKeepsShape DEF Connected, Shaped
  <2>3. CASE conn \notin open
    <3>1. call' = [call EXCEPT ![c] = [call[c] EXCEPT !.at = "connecting"]] /\ wire' = wire
      BY <1>2, <2>3 DEF Connected
    <3>2. [call[c] EXCEPT !.at = "connecting"] \in Busy
      BY <2>1, IdleOrBusy, Moved
    <3>3. call' \in [Callers -> {NoCall} \cup Busy] /\ \A d \in Callers \ {c} : call'[d] = call[d]
      BY <3>1, <3>2 DEF Shaped
    <3>4. \A e \in wire : e.awaited => e.by \in Callers \ {c}
      BY <2>1, StreamFields DEF Shaped
    <3>5. QED
      BY <2>1, <3>1, <3>3, <3>4 DEF Shaped
  <2>4. QED
    BY <2>2, <2>3
<1>3. CASE Connect(c)
  <2>1. made' = made + 1 /\ conn' = made' /\ open' = open \cup {made'} /\ Send(c, made')
    BY <1>3 DEF Connect
  <2>a. made' \in Int /\ open' \subseteq Int
    <3>1. made \in Int /\ open \subseteq Int
      BY DEF Shaped
    <3>2. made' \in Int
      BY <2>1, <3>1
    <3>3. QED
      BY <2>1, <3>1, <3>2
  <2>2. QED
    BY <1>3, <2>1, <2>a, SendKeepsShape DEF Connect
<1>4. CASE GiveUp(c)
  <2>1. wire' = (wire \ Awaiting(c)) \cup Forsaken(Awaiting(c)) /\ Awaiting(c) \subseteq Streams
    BY <1>4 DEF GiveUp, Awaiting, Shaped
  <2>2. \A e \in wire \ Awaiting(c) : e.awaited => e.by # c
    BY DEF Awaiting
  <2>3. call' = [call EXCEPT ![c] = NoCall] /\ UNCHANGED <<conn, made, open>>
    BY <1>4 DEF GiveUp
  <2>4. wire' \subseteq Streams /\ \A e \in wire' : e.awaited => e \in wire /\ e.by # c
    BY <2>1, <2>2, ForsakenNotAwaited DEF Shaped
  <2>5. QED
    BY <2>3, <2>4, EndKeepsShape
<1>5. QED
  BY <1>1, <1>2, <1>3, <1>4

\* A connection that ends frees its callers, to start over or to raise.
LEMMA LosersStartOver ==
  ASSUME Shaped, NEW cs \in SUBSET Callers, TryAgain(cs), \A c \in cs : call[c].at = "sent"
  PROVE  /\ call' \in [Callers -> {NoCall} \cup Busy]
         /\ \A c \in Callers \ cs : call'[c] = call[c]
         /\ \A c \in cs : \/ call'[c] = NoCall
                         \/ /\ call'[c] \in Busy /\ call'[c].at = "lock"
                            /\ call'[c].q = call[c].q /\ call'[c].did = call[c].did
<1>1. \A c \in cs : call[c] \in Busy
  BY IdleOrBusy
<1>2. \A c \in Callers \ cs : call'[c] = call[c]
  BY DEF TryAgain
<1>3. ASSUME NEW c \in cs
      PROVE  \/ call'[c] = NoCall
             \/ /\ call'[c] \in Busy /\ call'[c].at = "lock"
                /\ call'[c].q = call[c].q /\ call'[c].did = call[c].did
  <2>1. \/ call'[c] = NoCall
        \/ call'[c] = [call[c] EXCEPT !.at = "lock", !.attempt = 2]
    BY DEF TryAgain
  <2>2. ASSUME call'[c] = [call[c] EXCEPT !.at = "lock", !.attempt = 2]
        PROVE  /\ call'[c] \in Busy /\ call'[c].at = "lock"
               /\ call'[c].q = call[c].q /\ call'[c].did = call[c].did
    BY <1>1, <2>2 DEF Busy
  <2>3. QED
    BY <2>1, <2>2
<1>4. \A c \in Callers : call'[c] \in {NoCall} \cup Busy
  BY <1>2, <1>3 DEF Shaped
<1>5. QED
  BY <1>2, <1>3, <1>4 DEF TryAgain

LEMMA TerminatedKeepsShape ==
  ASSUME Shaped, NEW k \in open, Terminated(k)
  PROVE  Shaped'
<1> DEFINE lost == {e \in wire : e.awaited /\ e.on = k}
           losers == {e.by : e \in lost}
<1>0. \A e \in wire : e \in Streams /\ e.by \in Callers
  BY StreamFields DEF Shaped
<1>1. losers \subseteq Callers /\ lost \subseteq Streams /\ \A c \in losers : call[c].at = "sent"
  <2>1. \A e \in lost : e \in Streams /\ e.by \in Callers /\ call[e.by].at = "sent"
    BY <1>0 DEF Shaped
  <2>2. QED
    BY <2>1
<1>2. /\ TryAgain(losers) /\ wire' = (wire \ lost) \cup Forsaken(lost)
      /\ open' = open \ {k} /\ conn' \in {0, conn} /\ made' = made
  BY DEF Terminated
<1>3. ASSUME NEW e \in wire \ lost, e.awaited PROVE e.by \in Callers \ losers
  <2>1. \A x \in lost : x.by # e.by
    BY <1>3 DEF Shaped
  <2>2. QED
    BY <1>0, <2>1
<1> HIDE DEF losers
<1>4. /\ call' \in [Callers -> {NoCall} \cup Busy]
      /\ \A c \in Callers \ losers : call'[c] = call[c]
  BY <1>1, <1>2, LosersStartOver
<1>5. wire' \subseteq Streams /\ \A e \in wire' : e.awaited => e \in wire \ lost
  BY <1>1, <1>2, ForsakenNotAwaited DEF Shaped
<1>6. conn' \in Int /\ made' \in Int /\ open' \subseteq Int
  BY <1>2 DEF Shaped
<1> HIDE DEF lost
<1>7. QED
  BY <1>3, <1>4, <1>5, <1>6 DEF Shaped

\* A stream that is answered belongs to one caller, and to no other call.
LEMMA AnswerKeepsShape ==
  ASSUME Shaped, NEW e \in wire, Answer(e)
  PROVE  Shaped'
<1>1. /\ e.awaited /\ e.by \in Callers /\ wire' = wire \ {e}
      /\ call' = [call EXCEPT ![e.by] = NoCall] /\ UNCHANGED <<conn, made, open>>
  BY StreamFields DEF Answer, loopVars, Shaped
<1>2. wire' \subseteq Streams /\ \A x \in wire' : x.awaited => x \in wire /\ x.by # e.by
  BY <1>1 DEF Shaped
<1>3. QED
  BY <1>1, <1>2, EndKeepsShape

\* The store marks a call as executed, and that is all it does to callers.
LEMMA MarkedKeepsShape ==
  ASSUME Shaped, call' \in [Callers -> {NoCall} \cup Busy], wire' \subseteq Streams,
         \A c \in Callers : call'[c].at = call[c].at /\ call'[c].q = call[c].q,
         \A e \in wire' : e.awaited =>
            \E x \in wire : x.awaited /\ x.by = e.by /\ x.q = e.q,
         \A e, d \in wire' : e.awaited /\ d.awaited /\ e.by = d.by => e = d,
         UNCHANGED loopVars
  PROVE  Shaped'
<1>1. \A e \in wire' : e.awaited => e.by \in Callers
  BY StreamFields DEF Shaped
<1>2. \A e \in wire' : e.awaited => call[e.by].at = "sent" /\ call[e.by].q = e.q
  BY DEF Shaped
<1>3. UNCHANGED <<conn, made, open>>
  BY DEF loopVars
<1>4. QED
  BY <1>1, <1>2, <1>3 DEF Shaped

\* How the store's steps mark calls.
Marks(cs, b) ==
  /\ DOMAIN call' = Callers /\ \A c \in cs : call[c] \in Busy
  /\ \A c \in Callers : call'[c] = IF c \in cs THEN [call[c] EXCEPT !.did = b] ELSE call[c]

LEMMA Marking ==
  ASSUME Shaped, NEW b \in BOOLEAN, NEW cs, Marks(cs, b), NEW c \in Callers
  PROVE  /\ call'[c] \in {NoCall} \cup Busy
         /\ call'[c].at = call[c].at /\ call'[c].q = call[c].q
         /\ call'[c].did => IF c \in cs THEN b ELSE call[c].did
<1>1. CASE c \in cs
  BY <1>1, Marked DEF Marks
<1>2. CASE c \notin cs
  BY <1>2 DEF Shaped, Marks
<1>3. QED
  BY <1>1, <1>2

\* An execution marks the call of a caller that is at it with that request, if
\* it would be answered ok.
Executed(e) ==
  IF call[e.by].at # "idle" /\ call[e.by].q = e.q /\ Reply(e.q) = "ok"
     /\ (\A x \in Awaiting(e.by) : x.answer = "none")
  THEN {e.by} ELSE {}

LEMMA ExecuteMarks ==
  ASSUME Shaped, NEW e \in wire, Execute(e)
  PROVE  Marks(Executed(e), TRUE)
<1>1. e.by \in Callers /\ (call[e.by].at # "idle" => call[e.by] \in Busy)
  BY StreamFields, IdleOrBusy DEF Shaped
<1>2. call' = IF Executed(e) # {} THEN [call EXCEPT ![e.by] = [call[e.by] EXCEPT !.did = TRUE]]
              ELSE call
  BY DEF Execute, Executed
<1>3. QED
  BY <1>1, <1>2 DEF Marks, Executed, Shaped

\* A sweep takes the mark from the calls whose files it took.
Swept == {c \in Callers : call[c].did /\ ~({call[c].q.ref, call[c].q.from} \subseteq files')}

LEMMA SweepMarks ==
  ASSUME Shaped, Sweep
  PROVE  Marks(Swept, FALSE)
<1>1. \A c \in Swept : call[c] \in Busy
  BY IdleOrBusy DEF Swept
<1>2. QED
  BY <1>1 DEF Marks, Swept, Sweep

\* What Execute leaves on the wire: the rest, and the stream with its answer if
\* anybody waits for it.
LEMMA ExecutedStream ==
  ASSUME Shaped, NEW e \in wire, Execute(e), NEW y \in wire'
  PROVE  /\ y \in Streams
         /\ \/ y \in wire \ {e}
            \/ e.awaited /\ y.awaited /\ y.by = e.by /\ y.q = e.q /\ y.answer = Reply(e.q)
<1>1. e \in Streams /\ e.q \in Requests
  BY StreamFields DEF Shaped
<1>2. Reply(e.q) \in {"ok", "missing"}
  BY <1>1, RepliesAreAnswers
<1>3. y \in wire \ {e} \/ (e.awaited /\ y = [e EXCEPT !.answer = Reply(e.q)])
  BY DEF Execute
<1>4. CASE y \in wire \ {e}
  BY <1>4 DEF Shaped
<1>5. CASE e.awaited /\ y = [e EXCEPT !.answer = Reply(e.q)]
  <2>1. /\ y \in Streams /\ y.by = e.by /\ y.q = e.q
        /\ y.answer = Reply(e.q) /\ y.awaited = e.awaited
    BY <1>1, <1>2, <1>5 DEF Streams
  <2>2. QED
    BY <1>5, <2>1
<1>6. QED
  BY <1>3, <1>4, <1>5

LEMMA StoreKeepsShape ==
  ASSUME Shaped, (\E e \in wire : Execute(e)) \/ Sweep \/ StoreStop \/ StoreStart
  PROVE  Shaped'
<1>1. ASSUME NEW e \in wire, Execute(e) PROVE Shaped'
  <2>1. DOMAIN call' = Callers /\ UNCHANGED loopVars
    BY <1>1, ExecuteMarks DEF Marks, Execute
  <2>2. call' \in [Callers -> {NoCall} \cup Busy]
    <3>1. \A c \in Callers : call'[c] \in {NoCall} \cup Busy
      BY <1>1, ExecuteMarks, Marking
    <3>2. call' = [c \in Callers |-> call'[c]]
      BY <1>1 DEF Execute, Shaped
    <3>3. QED
      BY <3>1, <3>2
  <2>3. \A c \in Callers : call'[c].at = call[c].at /\ call'[c].q = call[c].q
    BY <1>1, ExecuteMarks, Marking
  <2>4. wire' \subseteq Streams
    BY <1>1, ExecutedStream
  <2>5. \A y \in wire' : y.awaited => \E x \in wire : x.awaited /\ x.by = y.by /\ x.q = y.q
    BY <1>1, ExecutedStream
  <2>6. ASSUME NEW y \in wire', NEW z \in wire', y.awaited, z.awaited, y.by = z.by PROVE y = z
    <3>1. \A x \in wire' \ wire : x = [e EXCEPT !.answer = Reply(e.q)] /\ e.awaited /\ x.by = e.by
      BY <1>1, ExecutedStream DEF Execute
    <3>2. \A x \in wire' \cap wire : x # e \/ x = [e EXCEPT !.answer = Reply(e.q)]
      BY <1>1 DEF Execute
    <3>3. QED
      BY <2>6, <3>1, <3>2 DEF Shaped
  <2>7. QED
    BY <2>1, <2>2, <2>3, <2>4, <2>5, <2>6, MarkedKeepsShape
<1>2. CASE Sweep
  <2>1. call' \in [Callers -> {NoCall} \cup Busy]
    <3>1. \A c \in Callers : call'[c] \in {NoCall} \cup Busy
      BY <1>2, SweepMarks, Marking
    <3>2. call' = [c \in Callers |-> call'[c]]
      BY <1>2 DEF Sweep
    <3>3. QED
      BY <3>1, <3>2
  <2>2. \A c \in Callers : call'[c].at = call[c].at /\ call'[c].q = call[c].q
    BY <1>2, SweepMarks, Marking
  <2>3. wire' = wire /\ UNCHANGED loopVars
    BY <1>2 DEF Sweep
  <2>4. QED
    BY <2>1, <2>2, <2>3, MarkedKeepsShape DEF Shaped
<1>3. CASE StoreStop
  BY <1>3 DEF StoreStop, loopVars, Shaped
<1>4. CASE StoreStart
  BY <1>4 DEF StoreStart, loopVars, Shaped
<1>5. QED
  BY <1>1, <1>2, <1>3, <1>4

\* A handshake nobody waits for is no business of any caller.
LEMMA StrayKeepsShape ==
  ASSUME Shaped, StrayConnect \/ StrayEnd
  PROVE  Shaped'
<1>1. call' = call /\ wire' = wire /\ conn' = conn
  BY DEF StrayConnect, StrayEnd
<1>2. made' \in Int /\ open' \subseteq Int
  <2>1. CASE StrayConnect
    <3>1. made' = made + 1 /\ open' = open \cup {made'}
      BY <2>1 DEF StrayConnect
    <3>2. QED
      BY <3>1 DEF Shaped
  <2>2. CASE StrayEnd
    BY <2>2 DEF StrayEnd, Shaped
  <2>3. QED
    BY <2>1, <2>2
<1>3. QED
  BY <1>1, <1>2 DEF Shaped

LEMMA NextKeepsShape == Shaped /\ [Next]_vars => Shaped'
<1> SUFFICES ASSUME Shaped, [Next]_vars PROVE Shaped'
  OBVIOUS
<1>1. CASE UNCHANGED vars
  BY <1>1 DEF vars, Shaped
<1>2. QED
  BY <1>1, LoopKeepsShape, TerminatedKeepsShape, AnswerKeepsShape, StoreKeepsShape,
     StrayKeepsShape DEF Next

-----------------------------------------------------------------------------
(* The numbers of connections. *)

\* Connections are numbered in the order they are made.
Numbered ==
  /\ made \in Nat /\ conn \in 0..made /\ open \subseteq 1..made /\ accepted \subseteq 1..made
  /\ orphans \subseteq 1..made
  /\ \A e \in wire : e.on \in 1..made

\* Where the streams that are left on the wire come from.
LEMMA WireStreams ==
  ASSUME Shaped, [Next]_vars, NEW y \in wire'
  PROVE  \/ \E x \in wire : y.on = x.on
         \/ y.on = conn /\ conn \in open
         \/ y.on = made' /\ \E c \in Callers : Connect(c)
<1>1. ASSUME NEW es \in SUBSET wire, wire' \subseteq wire \cup Forsaken(es)
      PROVE  \E x \in wire : y.on = x.on
  <2>1. CASE y \in wire
    BY <2>1
  <2>2. CASE y \in Forsaken(es)
    <3>1. PICK x \in es : y = [x EXCEPT !.awaited = FALSE]
      BY <2>2 DEF Forsaken
    <3>2. x \in Streams /\ x \in wire
      BY <1>1 DEF Shaped
    <3>3. y.on = x.on
      BY <3>1, <3>2 DEF Streams
    <3>4. QED
      BY <3>2, <3>3
  <2>3. QED
    BY <1>1, <2>1, <2>2
<1>2. ASSUME NEW c \in Callers, NEW k, Send(c, k)
      PROVE  y \in wire \/ y.on = k
  BY <1>2 DEF Send
<1>3. ASSUME NEW c \in Callers, Connected(c) \/ Connect(c)
      PROVE  \/ y \in wire
             \/ y.on = conn /\ conn \in open
             \/ y.on = made' /\ Connect(c)
  <2>1. CASE Connected(c)
    BY <1>2, <2>1 DEF Connected
  <2>2. CASE Connect(c)
    BY <1>2, <2>2 DEF Connect
  <2>3. QED
    BY <1>3, <2>1, <2>2
<1>4. ASSUME NEW c \in Callers, GiveUp(c) PROVE \E x \in wire : y.on = x.on
  BY <1>1, <1>4 DEF GiveUp, Awaiting
<1>5. ASSUME NEW k \in open, Terminated(k) PROVE \E x \in wire : y.on = x.on
  BY <1>1, <1>5 DEF Terminated
<1>6. ASSUME NEW e \in wire, Execute(e) PROVE \E x \in wire : y.on = x.on
  <2>1. y \in wire \/ y = [e EXCEPT !.answer = Reply(e.q)]
    BY <1>6 DEF Execute
  <2>2. e \in Streams
    BY DEF Shaped
  <2>3. [e EXCEPT !.answer = Reply(e.q)].on = e.on
    BY <2>2 DEF Streams
  <2>4. QED
    BY <2>1, <2>3
<1>7. ASSUME NEW c \in Callers, NEW q \in Requests, Begin(c, q) PROVE y \in wire
  BY <1>7 DEF Begin
<1>8. ASSUME NEW e \in wire, Answer(e) PROVE y \in wire
  BY <1>8 DEF Answer
<1>9. CASE StrayConnect \/ StrayEnd \/ Sweep \/ StoreStop \/ StoreStart \/ UNCHANGED vars
  BY <1>9 DEF StrayConnect, StrayEnd, Sweep, StoreStop, StoreStart, vars
<1>10. QED
  BY <1>3, <1>4, <1>5, <1>6, <1>7, <1>8, <1>9 DEF Next

LEMMA NextKeepsNumbers == Shaped /\ Numbered /\ [Next]_vars => Numbered'
<1> SUFFICES ASSUME Shaped, Numbered, [Next]_vars PROVE Numbered'
  OBVIOUS
<1>1. /\ made' \in {made, made + 1} /\ conn' \in {conn, 0, made'}
      /\ open' \subseteq open \cup {made'} /\ accepted' \subseteq accepted \cup {made'}
      /\ orphans' \subseteq orphans \cup {made'}
      /\ made' = made => /\ conn' \in {conn, 0} /\ open' \subseteq open
                         /\ accepted' \subseteq accepted /\ orphans' \subseteq orphans
      /\ \A y \in wire' : \/ \E x \in wire : y.on = x.on
                          \/ y.on = conn /\ conn \in open
                          \/ y.on = made' /\ made' # made
  <2>1. CASE \E c \in Callers : Connect(c)
    <3>1. /\ made' = made + 1 /\ made' # made /\ conn' = made' /\ open' = open \cup {made'}
          /\ accepted' = accepted \cup {made'} /\ orphans' = orphans
      BY <2>1 DEF Connect, Numbered
    <3>2. QED
      BY <3>1, WireStreams
  <2>a. CASE StrayConnect
    <3>1. /\ made' = made + 1 /\ made' # made /\ conn' = conn /\ open' = open \cup {made'}
          /\ accepted' = accepted \cup {made'} /\ orphans' = orphans \cup {made'} /\ wire' = wire
      BY <2>a DEF StrayConnect, Numbered
    <3>2. QED
      BY <3>1
  <2>2. CASE ~StrayConnect /\ ~\E c \in Callers : Connect(c)
    <3>1. /\ made' = made /\ conn' \in {conn, 0} /\ open' \subseteq open
          /\ accepted' \subseteq accepted /\ orphans' \subseteq orphans
      BY <2>2 DEF Next, Begin, Connected, GiveUp, Execute, Answer, Terminated, StrayEnd, Sweep,
                  StoreStop, StoreStart, loopVars, storeVars, vars
    <3>2. ASSUME NEW y \in wire'
          PROVE  (\E x \in wire : y.on = x.on) \/ (y.on = conn /\ conn \in open)
      BY <2>2, WireStreams
    <3>3. QED
      BY <3>1, <3>2
  <2>3. QED
    BY <2>1, <2>a, <2>2
<1>2. QED
  BY <1>1 DEF Numbered

-----------------------------------------------------------------------------
(* One connection. *)

\* Requests go out on the connection that is shared, and on no other.
LEMMA OneKept ==
  ASSUME Shaped, OneConnection, [Next]_vars, UNCHANGED <<conn, open, orphans>>,
         ~\E c \in Callers : Connect(c)
  PROVE  OneConnection'
<1>1. ASSUME NEW y \in wire' PROVE y.on \notin orphans
  <2>1. (\E x \in wire : y.on = x.on) \/ y.on = conn
    BY WireStreams
  <2>2. QED
    BY <2>1 DEF OneConnection
<1>2. QED
  BY <1>1 DEF OneConnection

\* Whoever connects replaces what is dead, under a number of its own.
LEMMA ConnectKeepsOne ==
  ASSUME Shaped, Numbered, Locked, OneConnection, NEW c \in Callers, Connect(c)
  PROVE  OneConnection'
<1>1. open \ orphans = {} /\ made \in Nat /\ orphans \subseteq 1..made
  BY DEF Connect, Locked, Numbered
<1>2. made' = made + 1 /\ conn' = made' /\ open' = open \cup {made'} /\ orphans' = orphans
  BY DEF Connect
<1>3. made' \notin orphans
  BY <1>1, <1>2
<1>4. ASSUME NEW y \in wire' PROVE y.on \notin orphans
  <2>1. y \in wire \/ y.on = made'
    BY DEF Connect, Send
  <2>2. QED
    BY <1>3, <2>1 DEF OneConnection
<1>5. QED
  BY <1>1, <1>2, <1>3, <1>4 DEF OneConnection

\* What cancelled handshakes come to has a number nobody knows.
LEMMA StrayKeepsOne ==
  ASSUME Numbered, OneConnection, StrayConnect \/ StrayEnd
  PROVE  OneConnection'
<1>1. CASE StrayConnect
  <2>1. made' = made + 1 /\ made \in Nat /\ conn \in 0..made /\ \A e \in wire : e.on \in 1..made
    BY <1>1 DEF StrayConnect, Numbered
  <2>2. open' = open \cup {made'} /\ orphans' = orphans \cup {made'} /\ conn' = conn /\ wire' = wire
    BY <1>1 DEF StrayConnect
  <2>3. made' # conn /\ \A e \in wire : e.on # made'
    BY <2>1
  <2>4. QED
    BY <2>2, <2>3 DEF OneConnection
<1>2. CASE StrayEnd
  BY <1>2 DEF StrayEnd, OneConnection
<1>3. QED
  BY <1>1, <1>2

\* A connection that requests are failed by is no orphan, so it was the shared one.
LEMMA TerminatedKeepsOne ==
  ASSUME Shaped, Numbered, OneConnection, NEW k \in open, Terminated(k)
  PROVE  OneConnection' /\ open' \ orphans' \subseteq open \ orphans
<1> DEFINE lost == {e \in wire : e.awaited /\ e.on = k}
           losers == {e.by : e \in lost}
<1>1. /\ open' = open \ {k} /\ orphans' = orphans \ {k}
      /\ conn' = IF losers = {} THEN conn ELSE 0
      /\ wire' = (wire \ lost) \cup Forsaken(lost)
  BY DEF Terminated
<1>2. ASSUME losers # {} PROVE k = conn
  <2>1. PICK e \in wire : e.on = k
    BY <1>2
  <2>2. k \notin orphans
    BY <2>1 DEF OneConnection
  <2>3. QED
    BY <2>2 DEF OneConnection
<1>3. 0 \notin orphans
  BY DEF Numbered
<1>4. ASSUME NEW y \in wire' PROVE y.on \notin orphans
  <2>1. CASE y \in wire
    BY <2>1 DEF OneConnection
  <2>2. CASE y \in Forsaken(lost)
    <3>1. PICK x \in lost : y = [x EXCEPT !.awaited = FALSE]
      BY <2>2 DEF Forsaken
    <3>2. x \in Streams /\ x \in wire
      BY DEF Shaped
    <3>3. y.on = x.on
      BY <3>1, <3>2 DEF Streams
    <3>4. QED
      BY <3>2, <3>3 DEF OneConnection
  <2>3. QED
    BY <1>1, <2>1, <2>2
<1> HIDE DEF losers, lost
<1>5. QED
  BY <1>1, <1>2, <1>3, <1>4 DEF OneConnection

LEMMA NextKeepsLocked ==
  ASSUME ClientAssumption, Shaped, Numbered, Locked, OneConnection, [Next]_vars
  PROVE  Locked'
<1> USE DEF Locked
<1>1. ASSUME NEW c \in Callers, NEW q \in Requests, Begin(c, q) PROVE Locked'
  BY <1>1 DEF Begin, loopVars, Shaped
<1>2. ASSUME NEW c \in Callers, Connected(c) PROVE Locked'
  <2>1. \A d \in Callers : call[d].at # "connecting"
    BY <1>2, ClientAssumption DEF Connected
  <2>2. UNCHANGED <<conn, open, orphans>>
    BY <1>2 DEF Connected
  <2>3. CASE conn \in open
    <3>1. \A d \in Callers : call'[d].at # "connecting"
      <4>1. call' = [call EXCEPT ![c] = [call[c] EXCEPT !.at = "sent"]]
        BY <1>2, <2>3 DEF Connected, Send
      <4>2. [call[c] EXCEPT !.at = "sent"].at = "sent"
        BY <1>2, IdleOrBusy, Moved DEF Connected
      <4>3. QED
        BY <2>1, <4>1, <4>2 DEF Shaped
    <3>2. QED
      BY <2>2, <3>1
  <2>4. CASE conn \notin open
    <3>1. open \ orphans = {}
      BY <2>4 DEF OneConnection
    <3>2. QED
      BY <1>2, <2>1, <2>2, <2>4, <3>1 DEF Connected, Shaped
  <2>5. QED
    BY <2>3, <2>4
<1>3. ASSUME NEW c \in Callers, Connect(c) PROVE Locked'
  <2>1. \A d \in Callers \ {c} : call[d].at # "connecting"
    BY <1>3 DEF Connect
  <2>2. call' = [call EXCEPT ![c] = [call[c] EXCEPT !.at = "sent"]]
    BY <1>3 DEF Connect, Send
  <2>3. [call[c] EXCEPT !.at = "sent"].at = "sent"
    BY <1>3, IdleOrBusy, Moved DEF Connect
  <2>4. \A d \in Callers : call'[d].at # "connecting"
    BY <2>1, <2>2, <2>3 DEF Shaped
  <2>5. QED
    BY <2>4
<1>4. ASSUME NEW c \in Callers, GiveUp(c) PROVE Locked'
  <2>1. call' = [call EXCEPT ![c] = NoCall] /\ UNCHANGED <<conn, open, orphans>>
        /\ lock' = IF lock = c THEN Nobody ELSE lock
    BY <1>4 DEF GiveUp
  <2>2. QED
    BY <2>1, IdleOrBusy DEF Shaped
<1>5. ASSUME NEW e \in wire, Execute(e) PROVE Locked'
  <2>1. \A c \in Callers : call'[c].at = call[c].at
    BY <1>5, ExecuteMarks, Marking
  <2>2. lock' = lock /\ open' = open /\ orphans' = orphans
    BY <1>5 DEF Execute, loopVars
  <2>3. QED
    BY <2>1, <2>2
<1>6. ASSUME NEW e \in wire, Answer(e) PROVE Locked'
  BY <1>6, IdleOrBusy, StreamFields DEF Answer, loopVars, Shaped
<1>7. ASSUME NEW k \in open, Terminated(k) PROVE Locked'
  <2> DEFINE losers == {e.by : e \in {x \in wire : x.awaited /\ x.on = k}}
  <2>1. /\ losers \subseteq Callers /\ TryAgain(losers) /\ lock' = lock
        /\ \A c \in losers : call[c].at = "sent"
    <3>1. \A e \in wire : e.by \in Callers
      BY StreamFields DEF Shaped
    <3>2. QED
      BY <1>7, <3>1 DEF Terminated, Shaped
  <2>2. open' \ orphans' \subseteq open \ orphans
    BY <1>7, TerminatedKeepsOne
  <2> HIDE DEF losers
  <2>3. ASSUME NEW c \in Callers, call'[c].at = "connecting" PROVE call[c].at = "connecting"
    <3>1. CASE c \in losers
      BY <2>1, <2>3, <3>1, LosersStartOver, IdleOrBusy
    <3>2. CASE c \notin losers
      BY <2>1, <2>3, <3>2, LosersStartOver
    <3>3. QED
      BY <3>1, <3>2
  <2>4. QED
    BY <2>1, <2>2, <2>3
<1>8. CASE Sweep
  <2>1. \A c \in Callers : call'[c].at = call[c].at
    BY <1>8, SweepMarks, Marking
  <2>2. QED
    BY <1>8, <2>1 DEF Sweep, loopVars
<1>9. CASE StoreStop \/ StoreStart \/ UNCHANGED vars
  BY <1>9 DEF StoreStop, StoreStart, vars, loopVars
<1>10. CASE StrayConnect \/ StrayEnd
  <2>1. lock' = lock /\ call' = call /\ open' \ orphans' \subseteq open \ orphans
    BY <1>10 DEF StrayConnect, StrayEnd
  <2>2. QED
    BY <2>1
<1>11. QED
  BY <1>1, <1>2, <1>3, <1>4, <1>5, <1>6, <1>7, <1>8, <1>9, <1>10 DEF Next

LEMMA NextKeepsOne ==
  ASSUME ClientAssumption, Shaped, Numbered, Locked, OneConnection, [Next]_vars
  PROVE  Locked' /\ OneConnection'
<1>1. (\E c \in Callers : Connect(c)) => OneConnection'
  BY ConnectKeepsOne
<1>2. StrayConnect \/ StrayEnd => OneConnection'
  BY StrayKeepsOne
<1>3. (\E k \in open : Terminated(k)) => OneConnection'
  BY TerminatedKeepsOne
<1>4. ASSUME UNCHANGED <<conn, open, orphans>>, ~\E c \in Callers : Connect(c) PROVE OneConnection'
  BY <1>4, OneKept
<1>5. \/ (\E c \in Callers : Connect(c)) \/ StrayConnect \/ StrayEnd
      \/ (\E k \in open : Terminated(k))
      \/ UNCHANGED <<conn, open, orphans>>
  BY DEF Next, Begin, Connected, GiveUp, Execute, Answer, Sweep, StoreStop, StoreStart,
         loopVars, vars
<1>6. QED
  BY <1>1, <1>2, <1>3, <1>4, <1>5, NextKeepsLocked

\* Nobody forgets a connection that is alive, whoever fails, retries, gives up
\* or cancels meanwhile: at most one is open besides what cancelled handshakes
\* left, it is the one requests join, and no request is on the others.
THEOREM OneConnectionHolds == Spec => []OneConnection
<1>1. Init => Shaped /\ Numbered /\ Locked /\ OneConnection
  BY DEF Init, Shaped, Numbered, Locked, OneConnection, NoCall
<1>2. QED
  BY <1>1, NextKeepsShape, NextKeepsNumbers, NextKeepsOne, ClientAssumption, PTL DEF Spec

-----------------------------------------------------------------------------
(* Repetitions. *)

\* Files that come take no answer away.
LEMMA MoreFiles ==
  ASSUME files \subseteq files', NEW q \in Requests, Reply(q) = "ok"
  PROVE  Reply(q)' = "ok"
BY DEF Reply

\* The loop marks nothing as executed, and awaits no answer it was not given.
LEMMA LoopKeepsRepeat ==
  ASSUME Shaped, Lasting, RepeatSucceeds, files' = files,
         \A c \in Callers : call'[c].did => call[c].did /\ call'[c].q = call[c].q,
         \A e \in wire' : e.awaited => e \in wire \/ e.answer = "none"
  PROVE  Lasting' /\ RepeatSucceeds'
<1>1. Lasting'
  <2>1. \A c \in Callers : call[c].did => call[c].q \in Requests
    BY IdleOrBusy, BusyFields
  <2>2. QED
    BY <2>1, MoreFiles DEF Lasting
<1>2. RepeatSucceeds'
  BY DEF RepeatSucceeds, Awaiting
<1>3. QED
  BY <1>1, <1>2

\* A step of one caller that leaves its mark, or drops it with its call.
LEMMA CallerKeepsMarks ==
  ASSUME Shaped, NEW c \in Callers, NEW y, call' = [call EXCEPT ![c] = y],
         y.did => call[c].did /\ y.q = call[c].q
  PROVE  \A d \in Callers : call'[d].did => call[d].did /\ call'[d].q = call[d].q
BY DEF Shaped

LEMMA SendKeepsMarks ==
  ASSUME Shaped, NEW c \in Callers, NEW k, call[c] \in Busy, Send(c, k)
  PROVE  /\ \A d \in Callers : call'[d].did => call[d].did /\ call'[d].q = call[d].q
         /\ \A e \in wire' : e.awaited => e \in wire \/ e.answer = "none"
<1> DEFINE y == [call[c] EXCEPT !.at = "sent"]
<1>1. y.q = call[c].q /\ y.did = call[c].did /\ call' = [call EXCEPT ![c] = y]
  BY Moved DEF Send
<1> HIDE DEF y
<1>2. \A d \in Callers : call'[d].did => call[d].did /\ call'[d].q = call[d].q
  BY <1>1, CallerKeepsMarks
<1>3. QED
  BY <1>2 DEF Send

LEMMA NextKeepsRepeat ==
  ASSUME Shaped, Lasting, RepeatSucceeds, [Next]_vars
  PROVE  Lasting' /\ RepeatSucceeds'
<1>1. ASSUME NEW c \in Callers, NEW q \in Requests, Begin(c, q)
      PROVE  Lasting' /\ RepeatSucceeds'
  <2> DEFINE y == [at |-> "lock", attempt |-> 1, did |-> FALSE, q |-> q]
  <2>1. call' = [call EXCEPT ![c] = y] /\ ~y.did /\ UNCHANGED <<wire, files>>
    BY <1>1 DEF Begin, storeVars
  <2> HIDE DEF y
  <2>2. QED
    BY <2>1, CallerKeepsMarks, LoopKeepsRepeat
<1>2. ASSUME NEW c \in Callers, Connected(c) PROVE Lasting' /\ RepeatSucceeds'
  <2>1. call[c] \in Busy /\ files' = files
    BY <1>2, IdleOrBusy DEF Connected, storeVars
  <2>2. CASE conn \in open
    BY <1>2, <2>1, <2>2, SendKeepsMarks, LoopKeepsRepeat DEF Connected
  <2>3. CASE conn \notin open
    <3> DEFINE y == [call[c] EXCEPT !.at = "connecting"]
    <3>1. y.q = call[c].q /\ y.did = call[c].did
      BY <2>1, Moved
    <3>2. call' = [call EXCEPT ![c] = y] /\ wire' = wire
      BY <1>2, <2>3 DEF Connected
    <3> HIDE DEF y
    <3>3. QED
      BY <2>1, <3>1, <3>2, CallerKeepsMarks, LoopKeepsRepeat
  <2>4. QED
    BY <2>2, <2>3
<1>3. ASSUME NEW c \in Callers, Connect(c) PROVE Lasting' /\ RepeatSucceeds'
  <2>1. call[c] \in Busy /\ files' = files /\ Send(c, made')
    BY <1>3, IdleOrBusy DEF Connect
  <2>2. QED
    BY <2>1, SendKeepsMarks, LoopKeepsRepeat
<1>4. ASSUME NEW c \in Callers, GiveUp(c) PROVE Lasting' /\ RepeatSucceeds'
  <2>1. /\ call' = [call EXCEPT ![c] = NoCall] /\ files' = files /\ ~NoCall.did
        /\ wire' = (wire \ Awaiting(c)) \cup Forsaken(Awaiting(c)) /\ Awaiting(c) \subseteq Streams
    BY <1>4, IdleOrBusy DEF GiveUp, storeVars, Awaiting, Shaped
  <2>2. \A e \in wire' : e.awaited => e \in wire
    BY <2>1, ForsakenNotAwaited
  <2>3. QED
    BY <2>1, <2>2, CallerKeepsMarks, LoopKeepsRepeat
<1>5. ASSUME NEW e \in wire, Answer(e) PROVE Lasting' /\ RepeatSucceeds'
  <2>1. /\ call' = [call EXCEPT ![e.by] = NoCall] /\ files' = files /\ wire' \subseteq wire
        /\ e.by \in Callers /\ ~NoCall.did
    BY <1>5, IdleOrBusy, StreamFields DEF Answer, storeVars, Shaped
  <2>2. QED
    BY <2>1, CallerKeepsMarks, LoopKeepsRepeat
<1>6. ASSUME NEW k \in open, Terminated(k) PROVE Lasting' /\ RepeatSucceeds'
  <2> DEFINE lost == {e \in wire : e.awaited /\ e.on = k}
             losers == {e.by : e \in lost}
  <2>1. /\ TryAgain(losers) /\ wire' = (wire \ lost) \cup Forsaken(lost)
        /\ files' = files /\ lost \subseteq Streams
    BY <1>6 DEF Terminated, storeVars, Shaped
  <2>2. losers \subseteq Callers /\ \A c \in losers : call[c].at = "sent"
    <3>1. \A e \in wire : e.by \in Callers
      BY StreamFields DEF Shaped
    <3>2. QED
      BY <3>1 DEF Shaped
  <2>3. \A e \in wire' : e.awaited => e \in wire
    BY <2>1, ForsakenNotAwaited
  <2> HIDE DEF losers
  <2>4. ASSUME NEW c \in Callers PROVE call'[c].did => call[c].did /\ call'[c].q = call[c].q
    <3>1. CASE c \in losers
      BY <2>1, <2>2, <3>1, LosersStartOver, IdleOrBusy
    <3>2. CASE c \notin losers
      BY <2>1, <2>2, <3>2, LosersStartOver
    <3>3. QED
      BY <3>1, <3>2
  <2>5. QED
    BY <2>1, <2>3, <2>4, LoopKeepsRepeat
<1>7. ASSUME NEW e \in wire, Execute(e) PROVE Lasting' /\ RepeatSucceeds'
  <2>1. files \subseteq files'
    BY <1>7 DEF Execute, Effect
  <2>2. \A q \in Requests : Reply(q) = "ok" => Reply(q)' = "ok"
    BY <2>1, MoreFiles
  <2>3. \A c \in Callers : call[c].did => call[c].q \in Requests /\ Reply(call[c].q) = "ok"
    BY IdleOrBusy, BusyFields DEF Lasting
  <2>4. ASSUME NEW c \in Callers
        PROVE  /\ call'[c].q = call[c].q
               /\ ~call[c].did /\ c \notin Executed(e) => ~call'[c].did
    BY <1>7, ExecuteMarks, Marking
  <2>5. Lasting'
    <3> SUFFICES ASSUME NEW c \in Callers, call'[c].did PROVE Reply(call[c].q)' = "ok"
      BY DEF Lasting
    <3>1. CASE c \in Executed(e)
      <4>1. call[c].q = e.q /\ Reply(e.q) = "ok" /\ e.q \in Requests
        BY <3>1, StreamFields DEF Executed, Shaped
      <4>2. Reply(e.q)' = "ok" /\ call'[c].q = e.q
        BY <2>2, <2>4, <4>1
      <4>3. QED
        BY <4>2 DEF Reply
    <3>2. CASE c \notin Executed(e)
      <4>1. call[c].did
        BY <2>4, <3>2
      <4>2. PICK q \in Requests : q = call[c].q /\ Reply(q) = "ok"
        BY <2>3, <4>1
      <4>3. Reply(q)' = "ok" /\ call'[c].q = q
        BY <2>2, <2>4, <4>2
      <4>4. QED
        BY <4>3 DEF Reply
    <3>3. QED
      BY <3>1, <3>2
  <2>6. ASSUME NEW c \in Callers, NEW y \in wire', y.awaited, y.by = c,
               y.answer \in {"missing", "refused"}
        PROVE  ~call'[c].did
    <3>1. CASE y \in wire \ {e}
      <4>1. ~call[c].did /\ c \notin Executed(e)
        BY <2>6, <3>1 DEF RepeatSucceeds, Awaiting, Executed
      <4>2. QED
        BY <2>4, <4>1
    <3>2. CASE e.awaited /\ y.by = e.by /\ y.answer = Reply(e.q)
      <4>1. call[c].q = e.q /\ Reply(e.q) # "ok"
        BY <2>6, <3>2 DEF Shaped
      <4>2. ~call[c].did /\ c \notin Executed(e)
        BY <4>1 DEF Lasting, Executed
      <4>3. QED
        BY <2>4, <4>2
    <3>3. QED
      BY <1>7, <3>1, <3>2, ExecutedStream
  <2>7. QED
    BY <2>5, <2>6 DEF RepeatSucceeds, Awaiting
<1>8. CASE Sweep
  <2>1. wire' = wire /\ \A c \in Callers :
          /\ call'[c].q = call[c].q
          /\ call'[c].did => call[c].did /\ {call[c].q.ref, call[c].q.from} \subseteq files'
    <3>1. wire' = wire
      BY <1>8 DEF Sweep
    <3>2. ASSUME NEW c \in Callers
          PROVE  /\ call'[c].q = call[c].q
                 /\ c \in Swept \/ ~call[c].did => ~call'[c].did
      BY <1>8, SweepMarks, Marking
    <3>3. QED
      BY <3>1, <3>2 DEF Swept
  <2>2. \A q \in Requests : {q.ref, q.from} \subseteq files' => Reply(q)' = "ok"
    BY DEF Reply
  <2>3. \A c \in Callers : call[c].did => call[c].q \in Requests
    BY IdleOrBusy, BusyFields
  <2>4. QED
    BY <2>1, <2>2, <2>3 DEF Lasting, RepeatSucceeds, Awaiting
<1>9. CASE StrayConnect \/ StrayEnd \/ StoreStop \/ StoreStart \/ UNCHANGED vars
  <2>1. files' = files /\ call' = call /\ wire' \subseteq wire
    BY <1>9 DEF StrayConnect, StrayEnd, StoreStop, StoreStart, storeVars, vars
  <2>2. QED
    BY <2>1, LoopKeepsRepeat
<1>10. QED
  BY <1>1, <1>2, <1>3, <1>4, <1>5, <1>6, <1>7, <1>8, <1>9 DEF Next

\* A put or a link that was executed and not heard of is answered the same when
\* it is executed again, unless a sweep came between; so the one silent retry
\* of _request is harmless.
THEOREM RepetitionsSucceed == Spec => []RepeatSucceeds
<1>1. Init => Shaped /\ Lasting /\ RepeatSucceeds
  BY DEF Init, Shaped, Lasting, RepeatSucceeds, Awaiting, NoCall
<1>2. QED
  BY <1>1, NextKeepsShape, NextKeepsRepeat, PTL DEF Spec

-----------------------------------------------------------------------------
(* Types. *)

\* A lock that is held is held for a connection that is being made, and a request
\* that was sent has a stream; with Shaped and Locked, exactly those.
Occupied == \A c \in Callers : /\ lock = c => call[c].at = "connecting"
                               /\ call[c].at = "sent" => \E e \in wire : e.awaited /\ e.by = c

Simple == /\ faults \in 0..MaxFaults /\ strays \in 0..faults /\ raised \subseteq Callers /\ files \subseteq Refs
          /\ lock \in Callers \cup {Nobody}

LEMMA NextKeepsSimple ==
  ASSUME ClientAssumption, Shaped, Simple, [Next]_vars
  PROVE  Simple'
<1> USE DEF Simple
<1>1. faults' \in 0..MaxFaults /\ strays' \in 0..faults'
  <2>1. CASE \E c \in Callers : GiveUp(c)
    <3>1. \/ UNCHANGED <<strays, faults>>
          \/ Fault /\ UNCHANGED strays
          \/ Fault /\ strays' = strays + 1
      BY <2>1 DEF GiveUp, Abandon
    <3>2. QED
      BY <3>1, ClientAssumption DEF Fault
  <2>2. CASE StrayConnect \/ StrayEnd
    BY <2>2 DEF StrayConnect, StrayEnd
  <2>3. CASE UNCHANGED strays /\ (Fault \/ UNCHANGED faults)
    BY <2>3, ClientAssumption DEF Fault
  <2>4. \/ (\E c \in Callers : GiveUp(c)) \/ StrayConnect \/ StrayEnd
        \/ UNCHANGED strays /\ (Fault \/ UNCHANGED faults)
    BY DEF Next, Begin, Connected, Connect, Execute, Answer, Terminated, Sweep,
           StoreStop, StoreStart, loopVars, vars
  <2>5. QED
    BY <2>1, <2>2, <2>3, <2>4
<1>2. raised' \subseteq Callers
  <2>1. \A cs \in SUBSET Callers : Raised(cs) \subseteq Callers
    BY DEF Raised
  <2>2. ASSUME NEW k \in open, Terminated(k) PROVE raised' \subseteq Callers
    <3> DEFINE losers == {e.by : e \in {x \in wire : x.awaited /\ x.on = k}}
    <3>1. \A e \in wire : e.by \in Callers
      BY StreamFields DEF Shaped
    <3>2. losers \subseteq Callers
      BY <3>1
    <3>3. raised' = Raised({c \in losers : call[c].attempt = 2})
      BY <2>2 DEF Terminated
    <3> HIDE DEF losers
    <3>4. QED
      BY <2>1, <3>2, <3>3
  <2>3. ASSUME NEW c \in Callers, GiveUp(c) PROVE raised' \subseteq Callers
    BY <2>1, <2>3 DEF GiveUp
  <2>4. CASE raised' \subseteq raised
    BY <2>4
  <2>5. QED
    BY <2>2, <2>3, <2>4 DEF Next, Begin, Connected, Connect, Execute, Answer, StrayConnect,
                            StrayEnd, Sweep, StoreStop, StoreStart, vars
<1>3. files' \subseteq Refs
  <2>1. ASSUME NEW e \in wire, Execute(e) PROVE files' \subseteq Refs
    <3>1. e.q \in Requests /\ e.q.ref \in Refs
      BY StreamFields, ClientAssumption DEF Shaped
    <3>2. QED
      BY <2>1, <3>1 DEF Execute, Effect
  <2>2. CASE files' \subseteq files
    BY <2>2
  <2>3. QED
    BY <2>1, <2>2 DEF Next, Begin, Connected, Connect, GiveUp, Answer, Terminated, StrayConnect,
                      StrayEnd, Sweep, StoreStop, StoreStart, storeVars, vars
<1>4. lock' \in Callers \cup {Nobody}
  BY DEF Next, Begin, Connected, Connect, GiveUp, Execute, Answer, Terminated, StrayConnect,
         StrayEnd, Sweep, StoreStop, StoreStart, loopVars, vars
<1>5. QED
  BY <1>1, <1>2, <1>3, <1>4

\* A step of one caller, which leaves the streams of the others alone.
LEMMA OneOccupied ==
  ASSUME Shaped, Occupied, NEW c \in Callers, NEW y, call' = [call EXCEPT ![c] = y],
         lock' = c => y.at = "connecting",
         lock' \in {lock, c, Nobody}, Nobody \notin Callers,
         y.at = "sent" => \E e \in wire' : e.awaited /\ e.by = c,
         \A e \in wire : e.awaited /\ e.by # c => e \in wire'
  PROVE  Occupied'
<1>1. call'[c] = y /\ \A d \in Callers \ {c} : call'[d] = call[d]
  BY DEF Shaped
<1>2. QED
  BY <1>1 DEF Occupied

\* A step that leaves every caller where it is, and the streams waited for.
LEMMA AllOccupied ==
  ASSUME Occupied, lock' = lock, \A c \in Callers : call'[c].at = call[c].at,
         \A e \in wire : e.awaited => \E y \in wire' : y.awaited /\ y.by = e.by
  PROVE  Occupied'
BY DEF Occupied

LEMMA NextKeepsOccupied ==
  ASSUME ClientAssumption, Shaped, Locked, Occupied, [Next]_vars
  PROVE  Occupied'
<1>a. Nobody \notin Callers
  BY ClientAssumption
<1>1. ASSUME NEW c \in Callers, NEW q \in Requests, Begin(c, q) PROVE Occupied'
  <2> DEFINE y == [at |-> "lock", attempt |-> 1, did |-> FALSE, q |-> q]
  <2>1. /\ call' = [call EXCEPT ![c] = y] /\ y.at = "lock" /\ call[c].at = "idle"
        /\ wire' = wire /\ lock' = lock
    BY <1>1 DEF Begin, loopVars
  <2>2. lock # c
    BY <2>1 DEF Occupied
  <2> HIDE DEF y
  <2>3. QED
    BY <1>a, <2>1, <2>2, OneOccupied
<1>2. ASSUME NEW c \in Callers, NEW k, call[c] \in Busy, Send(c, k), lock' = Nobody,
             lock \in {Nobody, c}
      PROVE  Occupied'
  <2> DEFINE y == [call[c] EXCEPT !.at = "sent"]
  <2>1. call' = [call EXCEPT ![c] = y] /\ y.at = "sent"
    BY <1>2, Moved DEF Send
  <2>2. wire \subseteq wire' /\ \E e \in wire' : e.awaited /\ e.by = c
    <3> DEFINE e == [by |-> c, q |-> call[c].q, on |-> k, answer |-> "none", awaited |-> TRUE]
    <3>1. wire' = wire \cup {e}
      BY <1>2 DEF Send
    <3>2. e.awaited /\ e.by = c
      OBVIOUS
    <3> HIDE DEF e
    <3>3. QED
      BY <3>1, <3>2
  <2> HIDE DEF y
  <2>3. QED
    BY <1>a, <1>2, <2>1, <2>2, OneOccupied
<1>3. ASSUME NEW c \in Callers, Connected(c) PROVE Occupied'
  <2>1. call[c] \in Busy /\ lock = Nobody
    BY <1>3, IdleOrBusy DEF Connected
  <2>2. CASE conn \in open
    BY <1>2, <1>3, <2>1, <2>2 DEF Connected
  <2>3. CASE conn \notin open
    <3> DEFINE y == [call[c] EXCEPT !.at = "connecting"]
    <3>1. call' = [call EXCEPT ![c] = y] /\ y.at = "connecting" /\ wire' = wire /\ lock' = c
      BY <1>3, <2>1, <2>3, Moved DEF Connected
    <3> HIDE DEF y
    <3>2. QED
      BY <1>a, <3>1, OneOccupied
  <2>4. QED
    BY <2>2, <2>3
<1>4. ASSUME NEW c \in Callers, Connect(c) PROVE Occupied'
  <2>1. call[c] \in Busy /\ lock = c /\ lock' = Nobody /\ Send(c, made')
    BY <1>4, IdleOrBusy DEF Connect, Locked
  <2>2. QED
    BY <1>2, <2>1
<1>5. ASSUME NEW c \in Callers, GiveUp(c) PROVE Occupied'
  <2>1. /\ call' = [call EXCEPT ![c] = NoCall] /\ NoCall.at = "idle"
        /\ lock' = IF lock = c THEN Nobody ELSE lock
        /\ \A e \in wire : e.awaited /\ e.by # c => e \in wire'
    BY <1>5, IdleOrBusy DEF GiveUp, Awaiting
  <2>2. QED
    BY <1>a, <2>1, OneOccupied
<1>6. ASSUME NEW e \in wire, Answer(e) PROVE Occupied'
  <2>1. /\ call' = [call EXCEPT ![e.by] = NoCall] /\ NoCall.at = "idle" /\ lock' = lock
        /\ e.by \in Callers /\ call[e.by].at = "sent" /\ wire' = wire \ {e}
    BY <1>6, IdleOrBusy, StreamFields DEF Answer, loopVars, Shaped
  <2>2. lock # e.by
    BY <2>1 DEF Occupied
  <2>3. QED
    BY <1>a, <2>1, <2>2, OneOccupied
<1>7. ASSUME NEW k \in open, Terminated(k) PROVE Occupied'
  <2> DEFINE lost == {e \in wire : e.awaited /\ e.on = k}
             losers == {e.by : e \in lost}
  <2>1. /\ TryAgain(losers) /\ wire \ lost \subseteq wire' /\ lock' = lock
        /\ \A e \in lost : e.by \in losers
    BY <1>7 DEF Terminated
  <2>2. losers \subseteq Callers /\ \A c \in losers : call[c].at = "sent"
    <3>1. \A e \in wire : e.by \in Callers
      BY StreamFields DEF Shaped
    <3>2. QED
      BY <3>1 DEF Shaped
  <2>3. lost \subseteq wire
    OBVIOUS
  <2> HIDE DEF lost, losers
  <2>4. ASSUME NEW c \in Callers
        PROVE  /\ lock' = c => call'[c].at = "connecting"
               /\ call'[c].at = "sent" => \E e \in wire' : e.awaited /\ e.by = c
    <3>1. CASE c \in losers
      <4>1. call'[c].at \in {"idle", "lock"}
        BY <2>1, <2>2, <3>1, LosersStartOver, IdleOrBusy
      <4>2. lock # c
        BY <2>2, <3>1 DEF Occupied
      <4>3. QED
        BY <2>1, <4>1, <4>2
    <3>2. CASE c \notin losers
      <4>1. call'[c] = call[c]
        BY <2>1, <2>2, <3>2, LosersStartOver
      <4>2. \A e \in wire : e.awaited /\ e.by = c => e \in wire'
        BY <2>1, <3>2
      <4>3. QED
        BY <2>1, <4>1, <4>2 DEF Occupied
    <3>3. QED
      BY <3>1, <3>2
  <2>5. QED
    BY <2>4 DEF Occupied
<1>8. ASSUME NEW e \in wire, Execute(e) PROVE Occupied'
  <2>1. lock' = lock /\ \A c \in Callers : call'[c].at = call[c].at
    BY <1>8, ExecuteMarks, Marking DEF Execute, loopVars
  <2>2. ASSUME NEW x \in wire, x.awaited PROVE \E y \in wire' : y.awaited /\ y.by = x.by
    <3>1. CASE x = e
      <4> DEFINE y == [e EXCEPT !.answer = Reply(e.q)]
      <4>1. e \in Streams
        BY DEF Shaped
      <4>2. y.awaited /\ y.by = x.by
        BY <2>2, <3>1, <4>1 DEF Streams
      <4>3. y \in wire'
        BY <1>8, <2>2, <3>1 DEF Execute
      <4>4. QED
        BY <4>2, <4>3
    <3>2. CASE x # e
      BY <1>8, <2>2, <3>2 DEF Execute
    <3>3. QED
      BY <3>1, <3>2
  <2>3. QED
    BY <2>1, <2>2, AllOccupied
<1>9. CASE Sweep
  <2>1. lock' = lock /\ wire' = wire /\ \A c \in Callers : call'[c].at = call[c].at
    BY <1>9, SweepMarks, Marking DEF Sweep, loopVars
  <2>2. QED
    BY <2>1, AllOccupied
<1>10. CASE StrayConnect \/ StrayEnd \/ StoreStop \/ StoreStart \/ UNCHANGED vars
  <2>1. /\ lock' = lock /\ call' = call
        /\ \A e \in wire : e.awaited => e \in wire'
    BY <1>10 DEF StrayConnect, StrayEnd, StoreStop, StoreStart, loopVars, vars
  <2>2. QED
    BY <2>1, AllOccupied
<1>11. QED
  BY <1>1, <1>3, <1>4, <1>5, <1>6, <1>7, <1>8, <1>9, <1>10 DEF Next

Typed == Shaped /\ Locked /\ OneConnection /\ Numbered /\ Occupied /\ Simple /\ up \in BOOLEAN

LEMMA TypedIsTypeOK == Typed => TypeOK
<1> SUFFICES ASSUME Typed PROVE TypeOK
  OBVIOUS
<1>1. wire \subseteq [by : Callers, q : Requests, on : 1..made,
                     answer : {"none", "ok", "missing", "refused"}, awaited : BOOLEAN]
  <2>1. ASSUME NEW e \in wire
        PROVE  e \in [by : Callers, q : Requests, on : 1..made,
                      answer : {"none", "ok", "missing", "refused"}, awaited : BOOLEAN]
    <3>1. e \in Streams /\ e.on \in 1..made
      BY DEF Typed, Shaped, Numbered
    <3>2. QED
      BY <3>1 DEF Streams
  <2>2. QED
    BY <2>1
<1>2. ASSUME NEW c \in Callers
      PROVE  /\ call[c].at = "connecting" <=> lock = c
             /\ call[c].at = "sent" <=> Awaiting(c) # {}
             /\ \A e, x \in Awaiting(c) : e = x
  BY DEF Typed, Shaped, Locked, Occupied, Awaiting
<1>3. call \in [Callers -> {NoCall} \cup Busy]
  BY DEF Typed, Shaped
<1>4. {open, accepted, orphans} \subseteq SUBSET (1..made) /\ strays \in 0..MaxFaults
  BY ClientAssumption DEF Typed, Numbered, Simple
<1>5. QED
  BY <1>1, <1>2, <1>3, <1>4 DEF Typed, TypeOK, Numbered, Simple, Busy

\* Type correctness: the lock and the streams are those of the callers that are
\* connecting and waiting.
THEOREM TypeCorrect == Spec => []TypeOK
<1>1. Init => Typed
  BY ClientAssumption DEF Init, Typed, Shaped, Locked, OneConnection, Numbered, Occupied, Simple, NoCall
<1>2. Typed /\ [Next]_vars => Typed'
  <2> SUFFICES ASSUME Typed, [Next]_vars PROVE Typed'
    OBVIOUS
  <2>1. up' \in BOOLEAN
    BY DEF Typed, Next, Begin, Connected, Connect, GiveUp, Execute, Answer, Terminated,
           StrayConnect, StrayEnd, Sweep, StoreStop, StoreStart, storeVars, vars
  <2>2. Shaped' /\ Numbered' /\ Locked' /\ OneConnection' /\ Occupied' /\ Simple'
    BY NextKeepsShape, NextKeepsNumbers, NextKeepsOne, NextKeepsOccupied, NextKeepsSimple,
       ClientAssumption DEF Typed
  <2>3. QED
    BY <2>1, <2>2 DEF Typed
<1>3. QED
  BY <1>1, <1>2, TypedIsTypeOK, PTL DEF Spec
=============================================================================
