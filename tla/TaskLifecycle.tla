---------------------------- MODULE TaskLifecycle ----------------------------
(***************************************************************************)
(* What the runner and the control plane promise each other about the      *)
(* attempts of a task, without saying how: one attempt at a time is        *)
(* running, it is reported at most once, and only when its process is over *)
(* for good, and its status then is that report, unless the control plane  *)
(* had ended the attempt by itself.                                        *)
(***************************************************************************)
CONSTANTS
  Claims, \* the attempts
  TaskOf  \* the task of each

VARIABLES
  status,  \* what the control plane says of each attempt
  process, \* a process of the attempt is running
  report   \* what the runner reports of it, or none yet

vars == <<status, process, report>>

Verdicts == {"completed", "failed", "canceled", "callback_timeout"}

Init ==
  /\ status = [c \in Claims |-> "queued"]
  /\ process = [c \in Claims |-> FALSE]
  /\ report = [c \in Claims |-> "none"]

Offer(c) ==
  /\ status[c] = "queued"
  /\ \A d \in Claims : TaskOf[d] = TaskOf[c] => status[d] # "running"
  /\ status' = [status EXCEPT ![c] = "running"]
  /\ UNCHANGED <<process, report>>

Begin(c) ==
  /\ status[c] # "queued" /\ report[c] = "none" /\ ~process[c]
  /\ process' = [process EXCEPT ![c] = TRUE]
  /\ UNCHANGED <<status, report>>

End(c) ==
  /\ process[c]
  /\ process' = [process EXCEPT ![c] = FALSE]
  /\ UNCHANGED <<status, report>>

Report(c, verdict) ==
  /\ status[c] # "queued" /\ report[c] = "none" /\ ~process[c]
  /\ report' = [report EXCEPT ![c] = verdict]
  /\ UNCHANGED <<status, process>>

Deliver(c) ==
  /\ status[c] = "running" /\ report[c] # "none"
  /\ status' = [status EXCEPT ![c] = report[c]]
  /\ UNCHANGED <<process, report>>

\* The control plane ends the attempt: it is canceled, or its callback is overdue.
Stop(c, verdict) ==
  /\ status[c] = "running"
  /\ status' = [status EXCEPT ![c] = verdict]
  /\ UNCHANGED <<process, report>>

Next ==
  \E c \in Claims :
    \/ Offer(c) \/ Begin(c) \/ End(c) \/ Deliver(c)
    \/ \E verdict \in Verdicts : Report(c, verdict)
    \/ \E verdict \in {"canceled", "callback_timeout"} : Stop(c, verdict)

Spec == Init /\ [][Next]_vars

=============================================================================
