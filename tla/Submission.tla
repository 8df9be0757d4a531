------------------------------- MODULE Submission -------------------------------
(***************************************************************************)
(* The handlers that queue a job, around the limits of Admission: POST     *)
(* /api/jobs of src/api.py with a URL or a picture; the form's URL, upload *)
(* and sample, and the Retry button, of src/ui.py.  They differ in what    *)
(* comes first: the interface stores an upload and then asks for           *)
(* admission, the API asks and then stores.  What is wrong with a request  *)
(* shows before anything is done ("shape": the body limit of src/app.py,   *)
(* the validators of src/models.py, the checks of an upload), or once it   *)
(* has been admitted ("bytes": base64 that does not decode, a job or a     *)
(* picture that is no longer there to retry).                              *)
(***************************************************************************)
EXTENDS Admission

CONSTANT Routes \* those of AllRoutes that an instance has

\* "url" stands for the API's and the form's, "upload" for a sample tile too;
\* a "retry" is that of a job with a picture, "again" that of one with a URL.
Pictured == {"picture", "upload", "retry"}
AllRoutes == Pictured \cup {"url", "again"}

ASSUME RouteAssumption == Routes \subseteq AllRoutes

VARIABLE task \* what each handler is at, and the history of its request

submissionVars == <<vars, task>>

Flaws(r) == {"none", "shape"} \cup (IF r \in {"picture", "retry", "again"} THEN {"bytes"} ELSE {})

NoTask == [route |-> "none", client |-> Nobody, flaw |-> "none", stage |-> "done",
           stored |-> FALSE, pushed |-> FALSE, answer |-> "none"]

InitSubmission == Init /\ task = [h \in Handlers |-> NoTask]

GoTo(h, stage) == task' = [task EXCEPT ![h].stage = stage]

\* The request is answered, and the handler is free for the next.
Done(h, a) ==
  task' = [task EXCEPT ![h].stage = "done", ![h].client = Nobody, ![h].answer = a]

-----------------------------------------------------------------------------
(* Before admission. *)

Receive(h, c, r, f) ==
  /\ task[h].stage = "done" /\ requests[c] < MaxRequests
  /\ task' = [task EXCEPT ![h] = [NoTask EXCEPT !.route = r, !.client = c, !.flaw = f,
                                                !.stage = "check"]]
  /\ UNCHANGED vars

\* Mutant of StoresFirst: the API as well.
StoresFirstAll(r) == r \in {"upload", "picture"}

StoresFirst(r) == r = "upload"

\* 413, 422, a hint or a rejected card; a retry's id is not looked at yet.
CheckShape(h) ==
  /\ task[h].stage = "check"
  /\ IF task[h].flaw = "shape" THEN Done(h, "refused")
     ELSE GoTo(h, IF StoresFirst(task[h].route) THEN "store" ELSE "admit")
  /\ UNCHANGED vars

\* An upload that cannot be stored is a rejected card, a sample a 500.
StoreFirst(h) ==
  /\ task[h].stage = "store"
  /\ \/ task' = [task EXCEPT ![h].stage = "admit", ![h].stored = TRUE]
     \/ Done(h, "error")
  /\ UNCHANGED vars

-----------------------------------------------------------------------------
(* throttle.admit. *)

Admit(h) ==
  /\ task[h].stage = "admit"
  /\ Arrive(h, task[h].client)
  /\ GoTo(h, "admitting")

\* Both checks, one after the other: Throttled is a 429 or a 503, a hint, a
\* rejected card, or the card of the job that was to be retried.
Check(h) ==
  /\ task[h].stage = "admitting"
  /\ CheckDepth(h) \/ CheckRate(h) \/ FailDepth(h) \/ FailRate(h) \/ RepeatRate(h)
  /\ CASE handler'[h].at = "idle"    -> Done(h, "throttled")
       [] handler'[h].at = "enqueue" -> GoTo(h, "source")
       [] OTHER                      -> UNCHANGED task

-----------------------------------------------------------------------------
(* After admission. *)

\* Mutant of Source: what cannot be a job keeps its place.
SourceUnanswered(h) ==
  /\ task[h].stage = "source"
  /\ IF task[h].flaw # "none" THEN Done(h, "refused") ELSE GoTo(h, "push")
  /\ UNCHANGED vars

\* Mutant of Source: a picture that cannot be stored does not stop the job.
SourceUnstored(h) ==
  /\ task[h].stage = "source"
  /\ \/ /\ task[h].flaw # "none"
        /\ GiveUp(h) /\ Done(h, "refused")
     \/ /\ task[h].flaw = "none" /\ task[h].route \in {"picture", "retry"}
        /\ task' = [task EXCEPT ![h].stage = "push", ![h].stored = TRUE]
        /\ UNCHANGED vars
     \/ /\ task[h].flaw = "none"
        /\ GoTo(h, "push") /\ UNCHANGED vars

\* The API decodes a picture and puts it; a retry reads the old job's record
\* and links its picture; whatever else there is is ready to go.
Source(h) ==
  /\ task[h].stage = "source"
  /\ \/ /\ task[h].flaw # "none"
        /\ GiveUp(h) /\ Done(h, "refused")
     \/ /\ task[h].flaw = "none" /\ task[h].route \notin {"url", "upload"}
        /\ GiveUp(h) /\ Done(h, "error")
     \/ /\ task[h].flaw = "none" /\ task[h].route \in {"picture", "retry"}
        /\ task' = [task EXCEPT ![h].stage = "push", ![h].stored = TRUE]
        /\ UNCHANGED vars
     \/ /\ task[h].flaw = "none" /\ task[h].route \notin {"picture", "retry"}
        /\ GoTo(h, "push") /\ UNCHANGED vars

Push(h) ==
  /\ task[h].stage = "push" /\ Enqueue(h)
  /\ task' = [task EXCEPT ![h].stage = "done", ![h].client = Nobody, ![h].pushed = TRUE, ![h].answer = "accepted"]

\* The pipeline is executed again; the id it pushes is the same.
PushAgain(h) ==
  /\ task[h].stage = "push" /\ RepeatEnqueue(h)
  /\ task' = [task EXCEPT ![h].pushed = @ \/ waiting' # waiting]

\* Mutant of FailPush: the failure goes unnoticed.
FailPushQuietly(h) ==
  /\ task[h].stage = "push" /\ FailEnqueue(h)
  /\ task' = [task EXCEPT ![h].stage = "done", ![h].client = Nobody, ![h].pushed = @ \/ waiting' # waiting,
                          ![h].answer = "accepted"]

\* Nobody catches a RedisError here: a 500, whether the job is in or not.
FailPush(h) ==
  /\ task[h].stage = "push" /\ FailEnqueue(h)
  /\ task' = [task EXCEPT ![h].stage = "done", ![h].client = Nobody, ![h].pushed = @ \/ waiting' # waiting,
                          ![h].answer = "error"]

NextSubmission ==
  \/ \E h \in Handlers :
       \/ \E c \in Clients, r \in Routes : \E f \in Flaws(r) : Receive(h, c, r, f)
       \/ CheckShape(h) \/ StoreFirst(h) \/ Admit(h) \/ Check(h)
       \/ Source(h) \/ Push(h) \/ PushAgain(h) \/ FailPush(h)
  \/ (EnqueueSweep \/ TakeJob \/ TurnWindow) /\ UNCHANGED task

SpecSubmission == InitSubmission /\ [][NextSubmission]_submissionVars

-----------------------------------------------------------------------------
(* Properties. *)

\* The type invariant, with that of Admission; a handler is in the hands of the
\* limits between asking for admission and its answer, for the client it
\* serves, and only then.
TypeOKSubmission ==
  /\ TypeOK
  /\ task \in [Handlers ->
       [route : Routes \cup {"none"}, client : Clients \cup {Nobody},
        flaw : {"none", "shape", "bytes"},
        stage : {"check", "store", "admit", "admitting", "source", "push", "done"},
        stored : BOOLEAN, pushed : BOOLEAN,
        answer : {"none", "refused", "throttled", "accepted", "error"}]]
  /\ \A h \in Handlers :
       /\ handler[h].at \in {"depth", "rate"} <=> task[h].stage = "admitting"
       /\ handler[h].at = "enqueue" <=> task[h].stage \in {"source", "push"}
       /\ handler[h].at # "idle" => handler[h].client = task[h].client

\* Whoever is told 202 or shown a card has a job, and whoever is refused or
\* throttled has none; only an error leaves it open.
AnswerIsTrue ==
  \A h \in Handlers : task[h].stage = "done" =>
    /\ task[h].answer = "accepted" => task[h].pushed
    /\ task[h].pushed => task[h].answer \in {"accepted", "error"}

\* A worker may take a job the moment it is pushed, so its picture is stored by
\* then, whichever comes first of storing and asking for admission.
PictureBeforeJob ==
  \A h \in Handlers : task[h].pushed /\ task[h].route \in Pictured => task[h].stored

\* A picture is left in the store without a job only by an upload that was
\* turned away, or by a request that ended in an error: the API stores nothing
\* for a client that is over its limit.
LeftoversAreUploads ==
  \A h \in Handlers : task[h].stage = "done" /\ task[h].stored /\ ~task[h].pushed =>
    \/ task[h].answer = "error"
    \/ task[h].route = "upload" /\ task[h].answer = "throttled"
=============================================================================
