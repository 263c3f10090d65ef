-------------------------------- MODULE MCSched --------------------------------
(* The scheduler with one or more background tasks and a short time slice. *)
EXTENDS Sched
================================================================================
