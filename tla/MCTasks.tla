-------------------------------- MODULE MCTasks --------------------------------
(* The scheduler, and the two tasks that wait for the network, for TLC.  One   *)
(* behaviour runs one of them; fairness is asked of that one.                  *)
EXTENDS MCSched, MCNetWait

VARIABLE part   \* "sched" or "wait"

taskvars == <<part, vars, nwvars>>

TasksInit == /\ part \in {"sched", "wait"} /\ Init /\ WaitInit
             /\ part = "sched" => task["net"].loop = "idle"
             /\ part = "wait" => free = 0

SchedPart == part = "sched" /\ UNCHANGED <<part, nwvars>>
WaitPart == part = "wait" /\ UNCHANGED <<part, vars>>

TasksNext == (SchedPart /\ Next) \/ (WaitPart /\ WaitNext)

TasksSpec ==
  /\ TasksInit /\ [][TasksNext]_taskvars
  /\ WF_taskvars(SchedPart /\ KernelStep)
  /\ SF_taskvars(SchedPart /\ Timer)
  /\ SF_taskvars(SchedPart /\ SysReturn)
  /\ SF_taskvars(SchedPart /\ TaskYield)
  /\ WF_taskvars(WaitPart /\ ShellStep)
  /\ SF_taskvars(WaitPart /\ NetStep)
  /\ SF_taskvars(WaitPart /\ WaitTimer)
  /\ WF_taskvars(WaitPart /\ (Deliver \/ Lose))
================================================================================
