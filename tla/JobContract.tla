------------------------------ MODULE JobContract ------------------------------
(***************************************************************************)
(* What the API promises about a job, with no broker, threads or round     *)
(* trips: a job has one life, it only moves forward, and every answer is   *)
(* the job's life at the moment it is given.  There is one exception: a    *)
(* poll that found an ended job has more to read of it, and if the record  *)
(* is forgotten before it is done, its answer may be the 500 or the        *)
(* generic failure that half a record reads as.  Of a job forgotten before *)
(* the poll began, or not yet ended, nothing but its life is ever told.    *)
(***************************************************************************)
CONSTANT Jobs

VARIABLES
  life,  \* what has become of each job
  told,  \* what its client was last told
  asking \* jobs whose poll found them ended and is still reading

Lives == {"unborn", "waiting", "working", "delivered", "refused", "broken", "forgotten"}

\* A waiting job can break (maintenance fails what a dead thread had popped);
\* an ended one can only be forgotten, at the TTL.
After(l) ==
  CASE l = "unborn"  -> {"waiting"}
    [] l = "waiting" -> {"working", "broken"}
    [] l = "working" -> {"delivered", "refused", "broken"}
    [] l \in {"delivered", "refused", "broken"} -> {"forgotten"}
    [] l = "forgotten" -> {}

Init == /\ life = [j \in Jobs |-> "unborn"]
        /\ told = [j \in Jobs |-> "none"]
        /\ asking = {}

\* Several jobs may move at once: they age together.
Move ==
  /\ life' \in [Jobs -> Lives]
  /\ \A j \in Jobs : life'[j] \in After(life[j]) \cup {life[j]}
  /\ UNCHANGED <<told, asking>>

\* A poll finds the job ended, and reads on.
Find(j) ==
  /\ life[j] \in {"delivered", "refused", "broken"}
  /\ asking' = asking \cup {j}
  /\ UNCHANGED <<life, told>>

Answer(j) ==
  /\ life[j] # "unborn"
  /\ told' = [told EXCEPT ![j] = life[j]]
  /\ asking' = asking \ {j}
  /\ UNCHANGED life

\* The poll outlived the record it was reading.
Outlive(j) ==
  /\ j \in asking /\ life[j] = "forgotten"
  /\ \E r \in {"error", "broken"} : told' = [told EXCEPT ![j] = r]
  /\ asking' = asking \ {j}
  /\ UNCHANGED life

Next == Move \/ \E j \in Jobs : Find(j) \/ Answer(j) \/ Outlive(j)

Spec == Init /\ [][Next]_<<life, told, asking>>
=============================================================================
