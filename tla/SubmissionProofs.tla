---------------------------- MODULE SubmissionProofs ----------------------------
(***************************************************************************)
(* Proofs about Admission, for any number of clients and handlers and any  *)
(* limits, and about Submission, for any routes as well.  What a handler   *)
(* is at is an invariant of its own task, with no look at the broker; that *)
(* what is proved of Admission holds of the handlers follows from it.      *)
(***************************************************************************)
EXTENDS Submission, FiniteSetTheorems, TLAPS

\* The counter of a window has counted every request that got past it, but for
\* those that a failed round trip let through.
Counted == \A c \in Clients : admitted[c] <= count[c] + errors

\* The handlers that found room in the queue and have not used it yet.
InFlight == {h \in Handlers : handler[h].at \in {"rate", "enqueue"}}

\* Whoever is in flight read a depth below the limit, the last one with all the
\* others in flight already, or failed to read it.
Room == waiting + Cardinality(InFlight) <= MaxDepth + Cardinality(Handlers) - 1 + errors

-----------------------------------------------------------------------------
(* Types. *)

\* The initial state is well typed.
LEMMA InitType == Init => TypeOK
BY AdmissionAssumption DEF Init, TypeOK, None, Idle

\* Every step keeps the state well typed.
LEMMA NextType == TypeOK /\ [Next]_vars => TypeOK'
<1> SUFFICES ASSUME TypeOK, [Next]_vars PROVE TypeOK'
  OBVIOUS
<1>1. ASSUME NEW h \in Handlers, NEW c \in Clients, Arrive(h, c) PROVE TypeOK'
  BY <1>1, AdmissionAssumption DEF Arrive, TypeOK
<1>2. ASSUME NEW h \in Handlers, CheckDepth(h) PROVE TypeOK'
  <2>1. /\ handler' \in [Handlers -> [at : {"idle", "depth", "rate", "enqueue"},
                                      client : Clients \cup {Nobody}]]
        /\ \A g \in Handlers : handler'[g].client = Nobody => handler'[g].at = "idle"
    <3>1. CASE Answer(h)
      BY <3>1 DEF Answer, Idle, TypeOK
    <3>2. CASE Proceed(h, "rate")
      BY <1>2, <3>2 DEF Proceed, CheckDepth, TypeOK
    <3>3. QED
      BY <1>2, <3>1, <3>2 DEF CheckDepth
  <2>2. QED
    BY <1>2, <2>1 DEF CheckDepth, TypeOK
<1>3. ASSUME NEW h \in Handlers, CheckRate(h) PROVE TypeOK'
  <2>1. handler[h].client \in Clients
    BY <1>3 DEF CheckRate, TypeOK
  <2>2. count' \in [Clients -> Nat] /\ admitted' \in [Clients -> Nat]
    BY <1>3, <2>1 DEF CheckRate, TypeOK
  <2>3. /\ handler' \in [Handlers -> [at : {"idle", "depth", "rate", "enqueue"},
                                      client : Clients \cup {Nobody}]]
        /\ \A g \in Handlers : handler'[g].client = Nobody => handler'[g].at = "idle"
    <3>1. CASE Answer(h)
      BY <3>1 DEF Answer, Idle, TypeOK
    <3>2. CASE Proceed(h, "enqueue")
      BY <1>3, <3>2 DEF Proceed, CheckRate, TypeOK
    <3>3. QED
      BY <1>3, <3>1, <3>2 DEF CheckRate
  <2>4. QED
    BY <1>3, <2>2, <2>3 DEF CheckRate, TypeOK
<1>4. ASSUME NEW h \in Handlers, Enqueue(h) PROVE TypeOK'
  BY <1>4 DEF Enqueue, Answer, Idle, TypeOK
<1>e. ASSUME NEW h \in Handlers, GiveUp(h) PROVE TypeOK'
  BY <1>e DEF GiveUp, Answer, Idle, TypeOK
<1>a. ASSUME Fail PROVE errors' \in 0..MaxErrors
  BY <1>a, AdmissionAssumption DEF Fail, TypeOK
<1>b. ASSUME NEW h \in Handlers, FailDepth(h) PROVE TypeOK'
  BY <1>b, <1>a DEF FailDepth, Proceed, TypeOK
<1>c. ASSUME NEW h \in Handlers, FailRate(h) PROVE TypeOK'
  <2>1. handler[h].client \in Clients
    BY <1>c DEF FailRate, TypeOK
  <2>2. count' \in [Clients -> Nat] /\ admitted' \in [Clients -> Nat]
    BY <1>c, <2>1 DEF FailRate, TypeOK
  <2>3. /\ handler' \in [Handlers -> [at : {"idle", "depth", "rate", "enqueue"},
                                      client : Clients \cup {Nobody}]]
        /\ \A g \in Handlers : handler'[g].client = Nobody => handler'[g].at = "idle"
    BY <1>c DEF FailRate, Proceed, TypeOK
  <2>4. QED
    BY <1>c, <1>a, <2>2, <2>3 DEF FailRate, TypeOK
<1>d. ASSUME NEW h \in Handlers, FailEnqueue(h) PROVE TypeOK'
  BY <1>d, <1>a DEF FailEnqueue, Answer, Idle, TypeOK
<1>f. ASSUME NEW h \in Handlers, RepeatRate(h) PROVE TypeOK'
  <2>1. handler[h].client \in Clients
    BY <1>f DEF RepeatRate, TypeOK
  <2>2. count' \in [Clients -> Nat]
    BY <1>f, <2>1 DEF RepeatRate, TypeOK
  <2>3. QED
    BY <1>f, <1>a, <2>2 DEF RepeatRate, TypeOK
<1>g. ASSUME NEW h \in Handlers, RepeatEnqueue(h) PROVE TypeOK'
  BY <1>g, <1>a DEF RepeatEnqueue, TypeOK
<1>5. CASE EnqueueSweep
  BY <1>5 DEF EnqueueSweep, TypeOK
<1>6. CASE TakeJob
  BY <1>6 DEF TakeJob, TypeOK
<1>7. CASE TurnWindow
  BY <1>7 DEF TurnWindow, None, TypeOK
<1>8. CASE UNCHANGED vars
  BY <1>8 DEF vars, TypeOK
<1>9. QED
  BY <1>1, <1>2, <1>3, <1>4, <1>5, <1>6, <1>7, <1>8, <1>b, <1>c, <1>d, <1>e,
     <1>f, <1>g DEF Next, Handle

\* Type correctness: counters count, and only a busy handler has a client.
THEOREM TypeCorrect == Spec => []TypeOK
<1>1. QED
  BY InitType, NextType, PTL DEF Spec

-----------------------------------------------------------------------------
(* The rate. *)

\* However its requests interleave, a client gets no more than RateLimit of
\* them past check_rate in one window, and one for each failed round trip.
THEOREM RateLimited == Spec => []RateHolds
<1> DEFINE Inv == Counted /\ RateHolds
<1>1. Init => Inv
  BY AdmissionAssumption DEF Init, None, Counted, RateHolds
<1>2. TypeOK /\ Inv /\ [Next]_vars => Inv'
  <2> SUFFICES ASSUME TypeOK, Inv, [Next]_vars PROVE Inv'
    OBVIOUS
  <2>a. errors \in Nat /\ RateLimit \in Nat
    BY AdmissionAssumption DEF TypeOK
  <2>1. ASSUME NEW h \in Handlers, CheckRate(h) PROVE Inv'
    <3> DEFINE c == handler[h].client
    <3>1. c \in Clients
      BY <2>1 DEF CheckRate, TypeOK
    <3>2. count' = [count EXCEPT ![c] = count[c] + 1]
      BY <2>1 DEF CheckRate
    <3>3. \/ admitted' = admitted
          \/ ~(count[c] + 1 > RateLimit) /\ admitted' = [admitted EXCEPT ![c] = admitted[c] + 1]
      BY <2>1 DEF CheckRate
    <3>4. admitted[c] \in Nat /\ count[c] \in Nat
      BY <3>1 DEF TypeOK
    <3>5. errors' = errors
      BY <2>1 DEF CheckRate
    <3>6. QED
      BY <2>a, <3>1, <3>2, <3>3, <3>4, <3>5 DEF Counted, RateHolds, TypeOK
  <2>2. ASSUME NEW h \in Handlers, FailRate(h) PROVE Inv'
    <3> DEFINE c == handler[h].client
    <3>1. c \in Clients /\ errors' = errors + 1
      BY <2>2 DEF FailRate, Fail, TypeOK
    <3>2. \A d \in Clients : count[d] \in Nat /\ count'[d] \in Nat /\ count'[d] >= count[d]
      BY <2>2, <3>1 DEF FailRate, TypeOK
    <3>3. \A d \in Clients : admitted[d] \in Nat /\ admitted'[d] \in Nat
                               /\ admitted'[d] <= admitted[d] + 1
      BY <2>2, <3>1 DEF FailRate, TypeOK
    <3>4. QED
      BY <2>a, <3>1, <3>2, <3>3 DEF Counted, RateHolds
  <2>b. ASSUME NEW h \in Handlers, RepeatRate(h) PROVE Inv'
    <3> DEFINE c == handler[h].client
    <3>1. c \in Clients /\ errors' = errors + 1 /\ admitted' = admitted
      BY <2>b DEF RepeatRate, Fail, TypeOK
    <3>2. \A d \in Clients : count[d] \in Nat /\ count'[d] \in Nat /\ count'[d] >= count[d]
      BY <2>b, <3>1 DEF RepeatRate, TypeOK
    <3>3. \A d \in Clients : admitted[d] \in Nat
      BY DEF TypeOK
    <3>4. QED
      BY <2>a, <3>1, <3>2, <3>3 DEF Counted, RateHolds
  <2>3. CASE TurnWindow
    BY <2>a, <2>3 DEF TurnWindow, None, Counted, RateHolds
  <2>4. CASE /\ UNCHANGED <<count, admitted>>
             /\ errors' = errors \/ errors' = errors + 1
    BY <2>a, <2>4 DEF Counted, RateHolds, TypeOK
  <2>5. ASSUME NEW h \in Handlers,
               \/ CheckDepth(h) \/ Enqueue(h) \/ GiveUp(h)
               \/ FailDepth(h) \/ FailEnqueue(h) \/ RepeatEnqueue(h)
        PROVE  Inv'
    BY <2>4, <2>5 DEF CheckDepth, Enqueue, GiveUp, FailDepth, FailEnqueue, RepeatEnqueue, Fail
  <2>6. ASSUME NEW h \in Handlers, NEW c \in Clients, Arrive(h, c)
        PROVE  Inv'
    BY <2>4, <2>6 DEF Arrive
  <2>7. CASE EnqueueSweep \/ TakeJob \/ UNCHANGED vars
    BY <2>4, <2>7 DEF EnqueueSweep, TakeJob, vars
  <2>8. QED
    BY <2>1, <2>2, <2>3, <2>5, <2>6, <2>7, <2>b DEF Next, Handle
<1>3. QED
  BY <1>1, <1>2, TypeCorrect, PTL DEF Spec

-----------------------------------------------------------------------------
(* The depth. *)

\* No more handlers are in flight than there are.
LEMMA FlightFinite == IsFiniteSet(InFlight) /\ Cardinality(InFlight) \in Nat
                      /\ Cardinality(InFlight) <= Cardinality(Handlers)
BY AdmissionAssumption, FS_Subset, FS_CardinalityType DEF InFlight

\* There is at least one handler, and finitely many.
LEMMA HandlersCount == Cardinality(Handlers) \in Nat /\ Cardinality(Handlers) >= 1
BY AdmissionAssumption, FS_CardinalityType, FS_EmptySet

\* The arithmetic of the step below, with the sums named.
LEMMA Balance ==
  ASSUME NEW w \in Nat, NEW w1 \in Nat, NEW f \in Nat, NEW f1 \in Nat,
         NEW e \in Nat, NEW e1 \in Nat, NEW m \in Nat, NEW k \in Nat,
         w + f <= m + k - 1 + e, f1 <= f,
         (w1 <= w /\ e1 = e) \/ (w1 <= w + 1 /\ e1 = e + 1)
  PROVE  w1 + f1 <= m + k - 1 + e1
OBVIOUS

\* A step that takes nobody into flight and adds no more to the queue than the
\* round trips that failed in it.
LEMMA RoomKept ==
  ASSUME TypeOK, TypeOK', Room, InFlight' \subseteq InFlight,
         \/ (waiting' <= waiting /\ errors' = errors)
         \/ (waiting' <= waiting + 1 /\ errors' = errors + 1)
  PROVE  Room'
<1>1. /\ Cardinality(InFlight') \in Nat /\ Cardinality(InFlight) \in Nat
      /\ Cardinality(InFlight') <= Cardinality(InFlight)
  BY FlightFinite, FS_Subset, FS_CardinalityType
<1>2. errors \in Nat /\ errors' \in Nat /\ waiting \in Nat /\ waiting' \in Nat /\ MaxDepth \in Nat
  BY AdmissionAssumption DEF TypeOK
<1>3. waiting' + Cardinality(InFlight') <= MaxDepth + Cardinality(Handlers) - 1 + errors'
  <2>1. waiting + Cardinality(InFlight) <= MaxDepth + Cardinality(Handlers) - 1 + errors
    BY DEF Room
  <2>2. QED
    BY <1>1, <1>2, <2>1, HandlersCount, Balance
<1>4. QED
  BY <1>3 DEF Room

\* Every step preserves Room.
LEMMA NextRoom ==
  ASSUME TypeOK, TypeOK', Room, [Next]_vars
  PROVE  Room'
<1>a. /\ waiting \in Nat /\ waiting' \in Nat
      /\ errors \in Nat /\ errors' \in Nat /\ MaxDepth \in Nat
      /\ Cardinality(Handlers) \in Nat
  BY HandlersCount, AdmissionAssumption DEF TypeOK
<1>1. ASSUME NEW h \in Handlers, CheckDepth(h) PROVE Room'
  <2>1. CASE waiting + sweeps >= MaxDepth
    <3>1. InFlight' \subseteq InFlight /\ waiting' = waiting /\ errors' = errors
      BY <1>1, <2>1 DEF CheckDepth, Answer, Idle, InFlight, TypeOK
    <3>2. QED
      BY <1>a, <3>1, RoomKept
  <2>2. CASE ~(waiting + sweeps >= MaxDepth)
    <3>1. waiting' = waiting /\ errors' = errors /\ waiting + 1 <= MaxDepth
      BY <1>1, <1>a, <2>2 DEF CheckDepth, TypeOK
    <3>2. InFlight' \subseteq Handlers
      BY DEF InFlight
    <3>3. Cardinality(InFlight') <= Cardinality(Handlers) /\ Cardinality(InFlight') \in Nat
      BY <3>2, AdmissionAssumption, FS_Subset, FS_CardinalityType
    <3>4. QED
      BY <1>a, <3>1, <3>3 DEF Room
  <2>3. QED
    BY <2>1, <2>2
<1>2. ASSUME NEW h \in Handlers, CheckRate(h) PROVE Room'
  <2>1. InFlight' \subseteq InFlight /\ waiting' = waiting /\ errors' = errors
    BY <1>2 DEF CheckRate, Answer, Proceed, Idle, InFlight, TypeOK
  <2>2. QED
    BY <1>a, <2>1, RoomKept
<1>3. ASSUME NEW h \in Handlers, Enqueue(h) PROVE Room'
  <2>1. h \in InFlight /\ InFlight' = InFlight \ {h} /\ waiting' = waiting + 1
        /\ errors' = errors
    BY <1>3 DEF Enqueue, Answer, Idle, InFlight, TypeOK
  <2>2. Cardinality(InFlight') = Cardinality(InFlight) - 1
    BY <2>1, FlightFinite, FS_RemoveElement
  <2>3. QED
    BY <1>a, <2>1, <2>2, FlightFinite DEF Room
<1>4. ASSUME NEW h \in Handlers, NEW c \in Clients, Arrive(h, c) PROVE Room'
  <2>1. InFlight' \subseteq InFlight /\ waiting' = waiting /\ errors' = errors
    BY <1>4 DEF Arrive, InFlight, TypeOK
  <2>2. QED
    BY <1>a, <2>1, RoomKept
<1>5. CASE EnqueueSweep \/ TakeJob \/ TurnWindow \/ UNCHANGED vars
  <2>1. handler' = handler /\ waiting' <= waiting /\ errors' = errors
    BY <1>5, <1>a DEF EnqueueSweep, TakeJob, TurnWindow, vars
  <2>2. InFlight' = InFlight
    BY <2>1 DEF InFlight
  <2>3. QED
    BY <2>1, <2>2, RoomKept
<1>6. ASSUME NEW h \in Handlers, FailDepth(h) PROVE Room'
  <2>1. InFlight' = InFlight \cup {h} /\ h \notin InFlight
    BY <1>6 DEF FailDepth, Proceed, InFlight, TypeOK
  <2>2. Cardinality(InFlight') = Cardinality(InFlight) + 1
    BY <2>1, FlightFinite, FS_AddElement
  <2>3. waiting' = waiting /\ errors' = errors + 1
    BY <1>6 DEF FailDepth, Fail
  <2>4. QED
    BY <1>a, <2>2, <2>3, FlightFinite DEF Room
<1>7. ASSUME NEW h \in Handlers, FailRate(h) PROVE Room'
  <2>1. InFlight' \subseteq InFlight
    BY <1>7 DEF FailRate, Proceed, InFlight, TypeOK
  <2>2. waiting' = waiting /\ errors' = errors + 1
    BY <1>7 DEF FailRate, Fail
  <2>3. QED
    BY <1>a, <2>1, <2>2, RoomKept
<1>8. ASSUME NEW h \in Handlers, FailEnqueue(h) PROVE Room'
  <2>1. InFlight' \subseteq InFlight
    BY <1>8 DEF FailEnqueue, Answer, Idle, InFlight, TypeOK
  <2>2. waiting' <= waiting + 1 /\ errors' = errors + 1
    BY <1>8, <1>a DEF FailEnqueue, Fail
  <2>3. QED
    BY <1>a, <2>1, <2>2, RoomKept
<1>9. ASSUME NEW h \in Handlers, GiveUp(h) PROVE Room'
  <2>1. InFlight' \subseteq InFlight /\ waiting' = waiting /\ errors' = errors
    BY <1>9 DEF GiveUp, Answer, Idle, InFlight, TypeOK
  <2>2. QED
    BY <1>a, <2>1, RoomKept
<1>10. ASSUME NEW h \in Handlers, RepeatRate(h) \/ RepeatEnqueue(h) PROVE Room'
  <2>1. InFlight' \subseteq InFlight
    BY <1>10 DEF RepeatRate, RepeatEnqueue, InFlight
  <2>2. waiting' <= waiting + 1 /\ errors' = errors + 1
    BY <1>10, <1>a DEF RepeatRate, RepeatEnqueue, Fail
  <2>3. QED
    BY <1>a, <2>1, <2>2, RoomKept
<1>11. QED
  BY <1>1, <1>2, <1>3, <1>4, <1>5, <1>6, <1>7, <1>8, <1>9, <1>10 DEF Next, Handle

\* The queue never holds more image jobs than the limit, the other handlers and
\* one for each round trip that failed or timed out, whose pipeline may have been
\* executed twice: the depth a handler read was stale by at most those in flight.
THEOREM DepthIsBounded == Spec => []DepthBounded
<1>1. Init => Room
  <2> SUFFICES ASSUME Init PROVE Room
    OBVIOUS
  <2>1. waiting = 0 /\ errors = 0 /\ InFlight = {}
    BY DEF Init, Idle, InFlight
  <2>2. Cardinality(InFlight) = 0
    BY <2>1, FS_EmptySet
  <2>3. QED
    BY <2>1, <2>2, HandlersCount, AdmissionAssumption DEF Room
<1>2. TypeOK /\ TypeOK' /\ Room /\ [Next]_vars => Room'
  BY NextRoom
<1>3. TypeOK /\ Room => DepthBounded
  BY FlightFinite, HandlersCount, AdmissionAssumption DEF TypeOK, Room, DepthBounded
<1>4. QED
  BY <1>1, <1>2, <1>3, TypeCorrect, PTL DEF Spec

-----------------------------------------------------------------------------
(* Submission: what the handlers do with the pictures and the broker.       *)

Tasks ==
  [route : Routes \cup {"none"}, client : Clients \cup {Nobody},
   flaw : {"none", "shape", "bytes"},
   stage : {"check", "store", "admit", "admitting", "source", "push", "done"},
   stored : BOOLEAN, pushed : BOOLEAN,
   answer : {"none", "refused", "throttled", "accepted", "error"}]

\* A request that is being handled has a client, and what was wrong with its
\* shape has shown.
Served(t) ==
  /\ t.stage # "done" => t.client \in Clients
  /\ t.stage \notin {"check", "done"} => t.flaw # "shape"
  /\ t.flaw = "bytes" => t.route \in {"picture", "retry", "again"}

\* Only the last steps of a request push a job, and they say so or raise.
Truthful(t) ==
  /\ t.pushed => t.stage \in {"push", "done"}
  /\ t.pushed /\ t.stage = "done" => t.answer \in {"accepted", "error"}
  /\ t.stage = "done" /\ t.answer = "accepted" => t.pushed

\* What is in the store before the push is an upload's; by then the picture is.
Tidied(t) ==
  /\ t.stage = "check" => ~t.stored
  /\ t.stage = "store" => t.route = "upload"
  /\ t.stored => t.stage \in {"push", "done"} \/ t.route = "upload"
  /\ t.stage = "push" /\ t.route \in Pictured => t.stored
  /\ t.pushed /\ t.route \in Pictured => t.stored
  /\ t.stage \in {"admit", "admitting", "source"} /\ t.route = "upload" => t.stored
  /\ t.stage = "done" /\ t.stored /\ ~t.pushed =>
       t.answer = "error" \/ (t.route = "upload" /\ t.answer = "throttled")

Fit(t) == t \in Tasks /\ Served(t) /\ Truthful(t) /\ Tidied(t)

\* Every handler's task is in order.
Orderly == task \in [Handlers -> Tasks] /\ \A h \in Handlers : Fit(task[h])

\* What a handler is at and what the limits have of it belong together.
Link(h) ==
  /\ handler[h].at \in {"depth", "rate"} <=> task[h].stage = "admitting"
  /\ handler[h].at = "enqueue" <=> task[h].stage \in {"source", "push"}
  /\ handler[h].at # "idle" => handler[h].client = task[h].client
Linked == \A h \in Handlers : Link(h)

-----------------------------------------------------------------------------
(* The task of a handler. *)

\* A handler that leaves the others alone and its own task in order keeps
\* everything in order.
LEMMA OneHandler ==
  ASSUME Orderly, NEW h \in Handlers, NEW t, Fit(t), task' = [task EXCEPT ![h] = t]
  PROVE  Orderly'
BY DEF Orderly, Fit

\* Nobody has anything to do at first.
LEMMA InitOrderly == InitSubmission => Orderly
BY DEF InitSubmission, Orderly, Fit, Tasks, Served, Truthful, Tidied, NoTask

\* A request that is answered.
LEMMA AnsweredIs ==
  ASSUME Orderly, NEW h \in Handlers, NEW a, Done(h, a)
  PROVE  task' = [task EXCEPT ![h] = [task[h] EXCEPT !.stage = "done", !.client = Nobody, !.answer = a]]
BY DEF Done, Orderly, Fit, Tasks

\* A request that goes on.
LEMMA GoesOnIs ==
  ASSUME Orderly, NEW h \in Handlers, NEW s, GoTo(h, s)
  PROVE  task' = [task EXCEPT ![h] = [task[h] EXCEPT !.stage = s]]
BY DEF GoTo, Orderly, Fit, Tasks

\* What keeps a task in order when its request is answered, ...
LEMMA AnswerKeeps ==
  ASSUME Orderly, NEW h \in Handlers, ~task[h].pushed,
         NEW a \in {"refused", "throttled", "error"}, Done(h, a),
         ~task[h].stored \/ a = "error" \/ (task[h].route = "upload" /\ a = "throttled")
  PROVE  Orderly'
<1> DEFINE t == [task[h] EXCEPT !.stage = "done", !.client = Nobody, !.answer = a]
<1>1. task' = [task EXCEPT ![h] = t]
  BY AnsweredIs
<1>2. Fit(task[h])
  BY DEF Orderly
<1>3. Fit(t)
  BY <1>2 DEF Fit, Tasks, Served, Truthful, Tidied
<1> HIDE DEF t
<1>4. QED
  BY <1>1, <1>3, OneHandler

\* ... and when it goes on.
LEMMA GoingOnKeeps ==
  ASSUME Orderly, NEW h \in Handlers, task[h].stage \notin {"push", "done"}, task[h].flaw # "shape",
         NEW s \in {"store", "admit", "admitting", "source", "push"}, GoTo(h, s),
         s = "store" => task[h].route = "upload",
         s \in {"admit", "admitting", "source"} /\ task[h].route = "upload" => task[h].stored,
         s = "push" /\ task[h].route \in Pictured => task[h].stored
  PROVE  Orderly'
<1> DEFINE t == [task[h] EXCEPT !.stage = s]
<1>1. task' = [task EXCEPT ![h] = t]
  BY GoesOnIs
<1>2. Fit(task[h])
  BY DEF Orderly
<1>3. Fit(t)
  BY <1>2 DEF Fit, Tasks, Served, Truthful, Tidied
<1> HIDE DEF t
<1>4. QED
  BY <1>1, <1>3, OneHandler

\* One step of a handler.
Step(h) ==
  \/ \E c \in Clients, r \in Routes : \E f \in Flaws(r) : Receive(h, c, r, f)
  \/ CheckShape(h) \/ StoreFirst(h) \/ Admit(h) \/ Check(h)
  \/ Source(h) \/ Push(h) \/ PushAgain(h) \/ FailPush(h)

\* Every step of a handler keeps its task in order.
LEMMA StepOrderly ==
  ASSUME Orderly, NEW h \in Handlers, Step(h)
  PROVE  Orderly'
<1>1. Fit(task[h])
  BY DEF Orderly
<1>2. ASSUME NEW c \in Clients, NEW r \in Routes, NEW f \in Flaws(r), Receive(h, c, r, f)
      PROVE  Orderly'
  <2> DEFINE t == [NoTask EXCEPT !.route = r, !.client = c, !.flaw = f, !.stage = "check"]
  <2>1. task' = [task EXCEPT ![h] = t]
    BY <1>2 DEF Receive
  <2>2. Fit(t)
    BY <1>2 DEF Fit, Tasks, Served, Truthful, Tidied, NoTask, Flaws
  <2> HIDE DEF t
  <2>3. QED
    BY <2>1, <2>2, OneHandler
<1>3. CASE CheckShape(h)
  <2>1. task[h].stage = "check" /\ ~task[h].stored /\ ~task[h].pushed
    BY <1>1, <1>3 DEF CheckShape, Fit, Truthful, Tidied
  <2>2. CASE task[h].flaw = "shape"
    BY <1>3, <2>1, <2>2, AnswerKeeps DEF CheckShape
  <2>3. CASE task[h].flaw # "shape"
    BY <1>3, <2>1, <2>3, GoingOnKeeps DEF CheckShape, StoresFirst
  <2>4. QED
    BY <2>2, <2>3
<1>4. CASE StoreFirst(h)
  <2>1. task[h].stage = "store" /\ ~task[h].pushed
    BY <1>1, <1>4 DEF StoreFirst, Fit, Truthful
  <2>2. CASE Done(h, "error")
    BY <2>1, <2>2, AnswerKeeps
  <2>3. CASE task' = [task EXCEPT ![h].stage = "admit", ![h].stored = TRUE]
    <3> DEFINE t == [task[h] EXCEPT !.stage = "admit", !.stored = TRUE]
    <3>1. task' = [task EXCEPT ![h] = t]
      BY <2>3, <1>1 DEF Orderly, Fit, Tasks
    <3>2. Fit(t)
      BY <1>1, <2>1 DEF Fit, Tasks, Served, Truthful, Tidied
    <3> HIDE DEF t
    <3>3. QED
      BY <3>1, <3>2, OneHandler
  <2>4. QED
    BY <1>4, <2>2, <2>3 DEF StoreFirst
<1>5. CASE Admit(h)
  BY <1>1, <1>5, GoingOnKeeps DEF Admit, Fit, Served, Tidied
<1>6. CASE Check(h)
  <2>1. task[h].stage = "admitting" /\ ~task[h].pushed /\ task[h].flaw # "shape"
        /\ (task[h].stored <=> task[h].route = "upload")
    BY <1>1, <1>6 DEF Check, Fit, Served, Truthful, Tidied
  <2>2. CASE Done(h, "throttled")
    BY <2>1, <2>2, AnswerKeeps
  <2>3. CASE GoTo(h, "source")
    BY <2>1, <2>3, GoingOnKeeps
  <2>4. CASE UNCHANGED task
    BY <2>4 DEF Orderly
  <2>5. QED
    BY <1>6, <2>2, <2>3, <2>4 DEF Check
<1>7. CASE Source(h)
  <2>1. task[h].stage = "source" /\ ~task[h].pushed /\ task[h].flaw # "shape"
        /\ (task[h].stored => task[h].route = "upload")
        /\ (task[h].route = "upload" => task[h].stored)
    BY <1>1, <1>7 DEF Source, Fit, Tasks, Served, Truthful, Tidied
  <2>2. CASE task[h].flaw # "none" /\ Done(h, "refused")
    <3>1. ~task[h].stored
      BY <1>1, <2>1, <2>2 DEF Fit, Tasks, Served
    <3>2. QED
      BY <2>1, <2>2, <3>1, AnswerKeeps
  <2>3. CASE Done(h, "error")
    BY <2>1, <2>3, AnswerKeeps
  <2>4. CASE task' = [task EXCEPT ![h].stage = "push", ![h].stored = TRUE]
    <3> DEFINE t == [task[h] EXCEPT !.stage = "push", !.stored = TRUE]
    <3>1. task' = [task EXCEPT ![h] = t]
      BY <2>4, <1>1 DEF Orderly, Fit, Tasks
    <3>2. Fit(t)
      BY <1>1, <2>1 DEF Fit, Tasks, Served, Truthful, Tidied
    <3> HIDE DEF t
    <3>3. QED
      BY <3>1, <3>2, OneHandler
  <2>5. CASE GoTo(h, "push") /\ task[h].route \notin {"picture", "retry"}
    BY <2>1, <2>5, GoingOnKeeps DEF Pictured
  <2>6. QED
    BY <1>7, <2>2, <2>3, <2>4, <2>5 DEF Source
<1>8. ASSUME Push(h) \/ FailPush(h) PROVE Orderly'
  <2>1. task[h].stage = "push"
    BY <1>8 DEF Push, FailPush
  <2>2. PICK p \in BOOLEAN, a \in {"accepted", "error"} :
          /\ a = "accepted" => p
          /\ task' = [task EXCEPT ![h].stage = "done", ![h].client = Nobody, ![h].pushed = p,
                                  ![h].answer = a]
    <3>1. CASE Push(h)
      BY <3>1 DEF Push
    <3>2. CASE FailPush(h)
      <4> DEFINE q == task[h].pushed \/ waiting' # waiting
      <4>1. task' = [task EXCEPT ![h].stage = "done", ![h].client = Nobody, ![h].pushed = q,
                                 ![h].answer = "error"] /\ q \in BOOLEAN
        BY <1>1, <3>2 DEF FailPush, Orderly, Fit, Tasks
      <4> HIDE DEF q
      <4>2. QED
        BY <4>1
    <3>3. QED
      BY <1>8, <3>1, <3>2
  <2> DEFINE t == [task[h] EXCEPT !.stage = "done", !.client = Nobody, !.pushed = p, !.answer = a]
  <2>3. task' = [task EXCEPT ![h] = t]
    BY <2>2, <1>1 DEF Orderly, Fit, Tasks
  <2>4. Fit(t)
    BY <1>1, <2>1, <2>2 DEF Fit, Tasks, Served, Truthful, Tidied
  <2> HIDE DEF t
  <2>5. QED
    BY <2>3, <2>4, OneHandler
<1>9. CASE PushAgain(h)
  <2> DEFINE t == [task[h] EXCEPT !.pushed = @ \/ waiting' # waiting]
  <2>1. task' = [task EXCEPT ![h] = t] /\ task[h].stage = "push"
    BY <1>1, <1>9 DEF PushAgain, Orderly, Fit, Tasks
  <2>2. Fit(t)
    BY <1>1, <2>1 DEF Fit, Tasks, Served, Truthful, Tidied
  <2> HIDE DEF t
  <2>3. QED
    BY <2>1, <2>2, OneHandler
<1>10. QED
  BY <1>2, <1>3, <1>4, <1>5, <1>6, <1>7, <1>8, <1>9 DEF Step

\* So does every step at all.
LEMMA NextOrderly == Orderly /\ [NextSubmission]_submissionVars => Orderly'
<1> SUFFICES ASSUME Orderly, [NextSubmission]_submissionVars PROVE Orderly'
  OBVIOUS
<1>1. CASE UNCHANGED task
  BY <1>1 DEF Orderly
<1>2. QED
  BY <1>1, StepOrderly DEF NextSubmission, Step, submissionVars

-----------------------------------------------------------------------------
(* The limits, as the handlers meet them. *)

\* A step of a handler is a step of Admission, or none of its business.
LEMMA StepSimulates ==
  ASSUME Orderly, NEW h \in Handlers, Step(h)
  PROVE  [Next]_vars
<1>1. ASSUME \E c \in Clients, r \in Routes : \E f \in Flaws(r) : Receive(h, c, r, f)
      PROVE  UNCHANGED vars
  BY <1>1 DEF Receive
<1>2. CheckShape(h) \/ StoreFirst(h) => UNCHANGED vars
  BY DEF CheckShape, StoreFirst
<1>3. CASE Admit(h)
  <2>1. task[h].client \in Clients
    BY <1>3 DEF Admit, Orderly, Fit, Served
  <2>2. QED
    BY <1>3, <2>1 DEF Admit, Next
<1>4. Check(h) => Handle(h)
  BY DEF Check, Handle
<1>5. Source(h) => Handle(h) \/ UNCHANGED vars
  BY DEF Source, Handle
<1>6. Push(h) \/ PushAgain(h) \/ FailPush(h) => Handle(h)
  BY DEF Push, PushAgain, FailPush, Handle
<1>7. QED
  BY <1>1, <1>2, <1>3, <1>4, <1>5, <1>6 DEF Step, Next

\* So is every step.
LEMMA NextSimulates == Orderly /\ [NextSubmission]_submissionVars => [Next]_vars
<1> SUFFICES ASSUME Orderly, [NextSubmission]_submissionVars PROVE [Next]_vars
  OBVIOUS
<1>1. CASE \E h \in Handlers : Step(h)
  BY <1>1, StepSimulates
<1>2. CASE EnqueueSweep \/ TakeJob \/ TurnWindow
  BY <1>2 DEF Next
<1>3. CASE UNCHANGED submissionVars
  BY <1>3 DEF submissionVars, vars
<1>4. QED
  BY <1>1, <1>2, <1>3 DEF NextSubmission, Step

\* Whatever the handlers check and store, and in which order, what is proved of
\* Admission holds of them.
LEMMA Simulates == SpecSubmission => Spec
<1>1. InitSubmission => Init
  BY DEF InitSubmission
<1>2. QED
  BY <1>1, InitOrderly, NextOrderly, NextSimulates, PTL DEF SpecSubmission, Spec

\* The limits hold of the API's and the interface's handlers, pipelines that are
\* executed twice included.
THEOREM LimitsHold == SpecSubmission => [](RateHolds /\ DepthBounded)
<1>1. QED
  BY Simulates, RateLimited, DepthIsBounded, PTL

\* A step of a handler keeps its links: it moves in step with the limits.
LEMMA StepLinks ==
  ASSUME Orderly, TypeOK, Linked, NEW h \in Handlers, Step(h)
  PROVE  Link(h)'
<1> USE DEF Link, Linked, Orderly, Fit, Tasks, TypeOK
<1>1. ASSUME NEW c \in Clients, NEW r \in Routes, NEW f \in Flaws(r), Receive(h, c, r, f)
      PROVE  Link(h)'
  BY <1>1 DEF Receive, NoTask, vars
<1>2. CASE CheckShape(h)
  BY <1>2 DEF CheckShape, Done, GoTo, vars
<1>3. CASE StoreFirst(h)
  BY <1>3 DEF StoreFirst, Done, vars
<1>4. CASE Admit(h)
  BY <1>4 DEF Admit, Arrive, GoTo
<1>5. CASE Check(h)
  <2>1. handler[h].client = task[h].client /\ task[h].stage = "admitting"
    BY <1>5 DEF Check
  <2>2. handler'[h] = Idle \/ (handler'[h].at \in {"rate", "enqueue"} /\ handler'[h].client = handler[h].client)
    BY <1>5 DEF Check, CheckDepth, CheckRate, FailDepth, FailRate, RepeatRate, Answer, Proceed
  <2>3. CASE handler'[h].at = "idle"
    BY <1>5, <2>3 DEF Check, Done
  <2>4. CASE handler'[h].at = "enqueue"
    <3>1. GoTo(h, "source")
      BY <1>5, <2>4 DEF Check
    <3>2. task'[h].stage = "source" /\ task'[h].client = task[h].client
      BY <3>1 DEF GoTo
    <3>3. QED
      BY <2>1, <2>2, <2>4, <3>2 DEF Idle
  <2>5. CASE handler'[h].at = "rate"
    <3>1. UNCHANGED task
      BY <1>5, <2>5 DEF Check
    <3>2. QED
      BY <2>1, <2>2, <2>5, <3>1 DEF Idle
  <2>6. QED
    BY <2>2, <2>3, <2>4, <2>5 DEF Idle
<1>6. CASE Source(h)
  <2>1. CASE GiveUp(h) /\ (Done(h, "refused") \/ Done(h, "error"))
    BY <2>1 DEF GiveUp, Answer, Idle, Done
  <2>2. CASE UNCHANGED vars /\ task[h].stage = "source"
             /\ (GoTo(h, "push") \/ task' = [task EXCEPT ![h].stage = "push", ![h].stored = TRUE])
    BY <2>2 DEF GoTo, vars
  <2>3. QED
    BY <1>6, <2>1, <2>2 DEF Source
<1>7. CASE Push(h)
  BY <1>7 DEF Push, Enqueue, Answer, Idle
<1>8. CASE FailPush(h)
  BY <1>8 DEF FailPush, FailEnqueue, Answer, Idle
<1>9. CASE PushAgain(h)
  BY <1>9 DEF PushAgain, RepeatEnqueue
<1>10. QED
  BY <1>1, <1>2, <1>3, <1>4, <1>5, <1>6, <1>7, <1>8, <1>9 DEF Step

\* A step of one handler leaves the others where they are.
LEMMA StepIsLocal ==
  ASSUME Orderly, TypeOK, NEW h \in Handlers, Step(h), NEW g \in Handlers \ {h}
  PROVE  handler'[g] = handler[g] /\ task'[g] = task[g]
<1> USE DEF Orderly, Fit, Tasks, TypeOK
<1>1. task'[g] = task[g]
  BY DEF Step, Receive, CheckShape, StoreFirst, Admit, Check, Source, Push, PushAgain,
         FailPush, Done, GoTo
<1>2. handler'[g] = handler[g]
  BY DEF Step, Receive, CheckShape, StoreFirst, Admit, Check, Source, Push, PushAgain,
         FailPush, vars, Arrive, CheckDepth, CheckRate, FailDepth, FailRate, RepeatRate, GiveUp,
         Enqueue, FailEnqueue, RepeatEnqueue, Answer, Proceed
<1>3. QED
  BY <1>1, <1>2

\* Every step keeps every handler's links.
LEMMA NextLinks ==
  ASSUME Orderly, TypeOK, Linked, [NextSubmission]_submissionVars
  PROVE  Linked'
<1>1. CASE \E h \in Handlers : Step(h)
  <2>1. PICK h \in Handlers : Step(h)
    BY <1>1
  <2>2. Link(h)'
    BY <2>1, StepLinks
  <2>3. ASSUME NEW g \in Handlers \ {h} PROVE Link(g)'
    BY <2>1, <2>3, StepIsLocal DEF Linked, Link
  <2>4. QED
    BY <2>2, <2>3 DEF Linked
<1>2. CASE UNCHANGED <<handler, task>>
  BY <1>2 DEF Linked, Link
<1>3. UNCHANGED <<handler, task>> \/ \E h \in Handlers : Step(h)
  BY DEF NextSubmission, Step, submissionVars, vars, EnqueueSweep, TakeJob, TurnWindow
<1>4. QED
  BY <1>1, <1>2, <1>3

\* Type correctness; a handler is in the hands of the limits between asking
\* for admission and its answer, for the client it serves, and only then.
THEOREM SubmissionTypeCorrect == SpecSubmission => []TypeOKSubmission
<1> DEFINE Inv == TypeOK /\ Orderly /\ Linked
<1>1. InitSubmission => Inv
  <2>1. InitSubmission => Linked
    BY DEF InitSubmission, Init, Linked, Link, Idle, NoTask
  <2>2. QED
    BY <2>1, InitType, InitOrderly DEF InitSubmission
<1>2. Inv /\ [NextSubmission]_submissionVars => Inv'
  BY NextType, NextOrderly, NextSimulates, NextLinks
<1>3. Inv => TypeOKSubmission
  BY DEF Orderly, Tasks, Linked, Link, TypeOKSubmission
<1> HIDE DEF Inv
<1>4. QED
  BY <1>1, <1>2, <1>3, PTL DEF SpecSubmission

\* Whoever is told 202 has a job, and whoever is refused or throttled has none.
THEOREM AnswersAreTrue == SpecSubmission => []AnswerIsTrue
<1>1. Orderly => AnswerIsTrue
  BY DEF Orderly, Fit, Truthful, AnswerIsTrue
<1>2. QED
  BY <1>1, InitOrderly, NextOrderly, PTL DEF SpecSubmission

\* No job is in the queue before its picture is stored, whichever comes first of
\* storing and asking for admission.
THEOREM PicturesComeFirst == SpecSubmission => []PictureBeforeJob
<1>1. Orderly => PictureBeforeJob
  BY DEF Orderly, Fit, Tidied, PictureBeforeJob
<1>2. QED
  BY <1>1, InitOrderly, NextOrderly, PTL DEF SpecSubmission

\* A picture is left without a job only by an upload that was turned away, or
\* by a request that ended in an error.
THEOREM OnlyUploadsAreLeft == SpecSubmission => []LeftoversAreUploads
<1>1. Orderly => LeftoversAreUploads
  BY DEF Orderly, Fit, Tidied, LeftoversAreUploads
<1>2. QED
  BY <1>1, InitOrderly, NextOrderly, PTL DEF SpecSubmission
=============================================================================
