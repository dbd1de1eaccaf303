---------------------------- MODULE MCSupervisor ----------------------------
(* Two commands and two processes.  Of behaviours that differ in their names  *)
(* only, one is checked: the first command to begin is a, and a process that  *)
(* is told apart from the other one by nothing yet is p.                      *)
EXTENDS Supervisor

CONSTANTS p, q, a, b

NoneApart ==
    /\ proc = [x \in Procs |-> "ended"] /\ {socket, pidfile} = {NoProc}
    /\ target = [c \in Clients |-> NoProc]

MCInit == Init /\ proc[q] = "ended"

MCNext ==
    /\ Next
    /\ client'[b] # "idle" => client'[a] # "idle"
    /\ NoneApart => proc'[q] = "ended"

\* Fairness as in FairSpec.
MCSpec == MCInit /\ [][MCNext]_vars /\ WF_vars(WorkStep) /\ WF_vars(RetryStep) /\ WF_vars(ResumeStep)
=============================================================================
