--------------------------- MODULE MCWorkerProcess ---------------------------
(* Instances of WorkerProcess for TLC.  The job may be pushed twice, so one   *)
(* job keeps two threads busy.                                                *)
EXTENDS WorkerProcess
=============================================================================
