---------------------------- MODULE SupervisedTask ----------------------------
(***************************************************************************)
(* executeHelmTask, executeManifestTask and executeSSHCommand: tasks whose *)
(* effect is outside the runner, in a cluster or on another host.          *)
(*                                                                         *)
(* The goroutine of the task announces the start, hands the work to an     *)
(* executor that runs under the context "run", and reports a verdict.      *)
(* Worker goroutines ask the control plane whether the work is still       *)
(* wanted, and cancel "run" when it is not.  A remote SSH command has no   *)
(* worker: its own loop checks the authorization of its session.           *)
(*                                                                         *)
(* The retries of a callback (RemoteWork) are reduced to what comes of     *)
(* them: it is answered, it was received and the answer is lost, or it is  *)
(* not received.                                                           *)
(***************************************************************************)
EXTENDS Naturals, FiniteSets

CONSTANT Kinds   \* the kinds of task that are offered

None == "none"
Verdicts == {"completed", "failed", "callback_timeout", "canceled"}
Workers == {"heartbeat", "watcher"}
Stages == {"authorize", "redeem", "dial", "session", "reauthorize"}

VARIABLES
  kind,      \* of the one task
  cp,        \* its status in the control plane
  mine,      \* its callback token is still the one that the runner was given
  asked,     \* history: someone asked to stop it, there or here
  missed,    \* history: a Helm heartbeat found no answer, or the task gone
  pc,        \* where the goroutine of the task is
  ctx, run,  \* the context of the task, and the one below it that the work runs under
  worker,    \* the heartbeat and the watcher: off, waiting, asking, gone
  work,      \* the mutation in the cluster, or the process on the other host
  err,       \* what the executor returned
  stopped,   \* the field of a Helm or SSH report: what was started is over
  effect,    \* the field of the report on an SSH command
  verdict    \* the status that is reported

remote == <<cp, mine, asked>>
context == <<ctx, run>>
report == <<err, stopped, effect, verdict>>
vars == <<kind, remote, missed, pc, context, worker, work, report>>

\* shouldStopLocalExecution.
Stops(status) == status \in Verdicts

Init ==
  /\ kind \in Kinds
  /\ cp = "running" /\ mine = TRUE
  /\ asked = FALSE /\ missed = FALSE
  /\ pc = "claimed"
  /\ ctx = "live" /\ run = "live"
  /\ worker = [w \in Workers |-> "off"]
  /\ work = None
  /\ err = None /\ stopped = TRUE /\ effect = "not_started" /\ verdict = None

-----------------------------------------------------------------------------
(* The control plane, and what ends the contexts.                          *)

Cancel ==
  /\ cp = "running"
  /\ cp' \in {"canceling", "canceled"}
  /\ asked' = TRUE
  /\ UNCHANGED <<kind, mine, missed, pc, context, worker, work, report>>

Expire ==
  /\ cp \in {"running", "canceling"}
  /\ cp' = "callback_timeout"
  /\ UNCHANGED <<kind, mine, asked, missed, pc, context, worker, work, report>>

\* The task is given to another runner, under a new token.
Reassign ==
  /\ cp = "running" /\ mine
  /\ mine' = FALSE
  /\ UNCHANGED <<kind, cp, asked, missed, pc, context, worker, work, report>>

\* What it records of a verdict: the first one, if the token is right.
Records(status) ==
  cp' = IF Stops(cp) \/ ~mine THEN cp ELSE status

EndContext(why) ==
  /\ ctx = "live" /\ pc # "over"
  /\ ctx' = why
  /\ run' = IF run = "live" THEN why ELSE run

Deadline ==
  /\ kind = "ssh" => pc \in Stages \cup {"start", "exec"}
  /\ EndContext("deadline")
  /\ UNCHANGED <<kind, remote, missed, pc, worker, work, report>>

\* CancelActiveTask of the local API, or the runner stops.
CancelActiveTask ==
  /\ EndContext("canceled")
  /\ asked' = TRUE
  /\ UNCHANGED <<kind, cp, mine, missed, pc, worker, work, report>>

-----------------------------------------------------------------------------
(* Helm and manifest tasks.                                                *)

\* The payload does not decode, names another cluster, or is not allowed.
Refuse ==
  /\ pc = "claimed"
  /\ pc' = IF kind = "helm" THEN "judge" ELSE "final"
  /\ err' = "error"
  /\ verdict' = IF kind = "helm" THEN None ELSE "failed"
  /\ UNCHANGED <<kind, remote, missed, context, worker, work, stopped, effect>>

Announce ==
  /\ pc = "claimed"
  /\ pc' = IF kind = "ssh" THEN "authorize" ELSE "start"
  /\ UNCHANGED <<kind, remote, missed, context, worker, work, report>>

\* The executor is called, and the workers start: a Helm task has no watcher.
Execute ==
  /\ pc' = "exec" /\ work' = "running"
  /\ worker' = [w \in Workers |->
                  IF w = "watcher" /\ kind = "helm" THEN "off" ELSE "waiting"]

\* The start was answered.  Helm looks at the token, and takes "canceling" for a
\* cancellation; a manifest task goes on unless the task is over.
StartAnswered ==
  /\ pc = "start" /\ kind # "ssh" /\ ctx = "live"
  /\ \/ /\ IF kind = "helm" THEN mine /\ cp = "running" ELSE ~Stops(cp)
        /\ Execute /\ UNCHANGED err
     \/ /\ kind = "helm" /\ mine /\ cp = "canceling"
        /\ pc' = "judge" /\ err' = "canceled"
        /\ UNCHANGED <<worker, work>>
     \/ /\ IF kind = "helm" THEN ~mine \/ cp \notin {"running", "canceling"} ELSE Stops(cp)
        /\ pc' = "over"
        /\ UNCHANGED <<worker, work, err>>
  /\ UNCHANGED <<kind, remote, missed, context, stopped, effect, verdict>>

\* No attempt was answered; some may have been received.
StartUnanswered ==
  /\ pc = "start" /\ kind # "ssh"
  /\ pc' = IF kind = "helm" THEN "judge" ELSE "final"
  /\ err' = "error"
  /\ verdict' = IF kind = "helm" THEN None ELSE "failed"
  /\ UNCHANGED <<kind, remote, missed, context, worker, work, stopped, effect>>

\* What becomes of the executor's error when the context of the work is done.  An
\* unconfirmed stop is never hidden by the context that asked for it.
\* Mutant: the context's error replaces every other.
ContextErrorFirst(outcome) == IF run # "live" THEN run ELSE outcome

ExecError(outcome) ==
  IF run # "live" /\ (kind = "manifest" => outcome # "unstopped") THEN run ELSE outcome

\* The executor returns.  It may give up waiting for a mutation that it was told to
\* stop.  An observation that is not ready is repeated, which changes nothing here.
ExecReturns(outcome) ==
  /\ pc = "exec" /\ kind # "ssh"
  /\ outcome = "unstopped" => run # "live"
  /\ err' = ExecError(outcome) /\ stopped' = (outcome # "unstopped")
  /\ work' = IF outcome = "unstopped" THEN work ELSE "over"
  /\ pc' = "join"
  /\ run' = IF run = "live" THEN "canceled" ELSE run
  /\ UNCHANGED <<kind, remote, missed, ctx, worker, effect, verdict>>

\* The workers are waited for.  A Helm result that was returned as not stopped is not
\* reported, also when the mutation has ended since: the control plane has to give the task
\* up by itself.
\* Mutant: it is reported like any other.
ReportsUnstopped == TRUE

ReportsResult == kind = "helm" => stopped

Join ==
  /\ pc = "join"
  /\ \A w \in Workers : worker[w] \in {"off", "gone"}
  /\ pc' = IF ReportsResult THEN "judge" ELSE "over"
  /\ UNCHANGED <<kind, remote, missed, context, worker, work, report>>

\* Mutant: a context that is done counts as canceled.
AnyEndIsCanceled ==
  IF err = "unstopped" THEN "failed"
  ELSE IF err = "canceled" \/ ctx # "live" THEN "canceled"
  ELSE IF err = "deadline" THEN "callback_timeout"
  ELSE IF err = "ok" THEN "completed" ELSE "failed"

Status ==
  IF err = "unstopped" THEN "failed"
  ELSE IF "canceled" \in {err, ctx} THEN "canceled"
  ELSE IF "deadline" \in {err, ctx} THEN "callback_timeout"
  ELSE IF err = "ok" THEN "completed" ELSE "failed"

Judge ==
  /\ pc = "judge"
  /\ pc' = "final" /\ verdict' = Status
  /\ UNCHANGED <<kind, remote, missed, context, worker, work, err, stopped, effect>>

\* The final report, which no context of the task can stop; it may be lost.
Final(received) ==
  /\ pc = "final"
  /\ IF received THEN Records(verdict) ELSE UNCHANGED cp
  /\ pc' = "over"
  /\ UNCHANGED <<kind, mine, asked, missed, context, worker, work, report>>

-----------------------------------------------------------------------------
(* The workers: streamHeartbeats, watchRunnerStatus and Helm's own heartbeat. *)

WorkerAsks(w) ==
  /\ worker[w] = "waiting"
  /\ run = "live"
  /\ worker' = [worker EXCEPT ![w] = "asking"]
  /\ UNCHANGED <<kind, remote, missed, pc, context, work, report>>

\* The answer ends the work: for Helm, any but "running" under the same token.
Unwanted == IF kind = "helm" THEN ~mine \/ cp # "running" ELSE Stops(cp)

WorkerCancels(w) ==
  /\ worker' = [worker EXCEPT ![w] = "gone"]
  /\ run' = IF run = "live" THEN "canceled" ELSE run

WorkerAnswered(w) ==
  /\ worker[w] = "asking"
  /\ IF Unwanted THEN WorkerCancels(w)
     ELSE worker' = [worker EXCEPT ![w] = "waiting"] /\ UNCHANGED run
  /\ missed' = (missed \/ (Unwanted /\ kind = "helm"))
  /\ UNCHANGED <<kind, remote, pc, ctx, work, report>>

\* Mutant: a Helm heartbeat that is not answered ends the heartbeats, not the work.
HeartbeatGivesUp(w) ==
  /\ worker[w] = "asking"
  /\ worker' = [worker EXCEPT ![w] = IF kind = "helm" THEN "gone" ELSE "waiting"]
  /\ UNCHANGED <<kind, remote, missed, pc, context, work, report>>

\* It is not answered: Helm stops work that it cannot vouch for, the others ask again.
WorkerUnanswered(w) ==
  /\ worker[w] = "asking"
  /\ IF kind = "helm" THEN WorkerCancels(w) /\ missed' = TRUE
     ELSE worker' = [worker EXCEPT ![w] = "waiting"] /\ UNCHANGED <<run, missed>>
  /\ UNCHANGED <<kind, remote, pc, ctx, work, report>>

\* The context or "done" ends it.
WorkerStops(w) ==
  /\ worker[w] = "waiting"
  /\ run # "live"
  /\ worker' = [worker EXCEPT ![w] = "gone"]
  /\ UNCHANGED <<kind, remote, missed, pc, context, work, report>>

-----------------------------------------------------------------------------
(* SSH commands.                                                           *)

\* The execution status of the session, as the control plane answers it.
Authorized == cp = "running" /\ mine

Following ==
  [authorize |-> "redeem", redeem |-> "dial", dial |-> "session",
   session |-> "reauthorize", reauthorize |-> "start"]

\* The stages before the command starts.  Each may fail, and fails when the time is over.
Prepare ==
  /\ pc \in Stages
  /\ ctx = "live"
  /\ pc \in {"authorize", "reauthorize"} => Authorized
  /\ pc' = Following[pc]
  /\ UNCHANGED <<kind, remote, missed, context, worker, work, report>>

PrepareFails ==
  /\ pc \in Stages
  /\ pc' = "final" /\ verdict' = "failed"
  /\ UNCHANGED <<kind, remote, missed, context, worker, work, err, stopped, effect>>

\* Mutant: the effect is unknown only once the start was acknowledged.
UnknownOnceAcknowledged ==
  /\ pc = "start" /\ kind = "ssh"
  /\ \/ /\ work' = "running" /\ pc' = "exec" /\ effect' = "unknown"
        /\ stopped' = FALSE /\ UNCHANGED verdict
     \/ /\ work' \in {None, "running"}
        /\ pc' = "final" /\ verdict' = "failed" /\ UNCHANGED <<stopped, effect>>
  /\ UNCHANGED <<kind, remote, missed, context, worker, err>>

\* session.Start: its acknowledgement may be lost after the process has started.  What
\* the control plane answers to the "running" that follows is not looked at.
Start ==
  /\ pc = "start" /\ kind = "ssh"
  /\ effect' = "unknown"
  /\ \/ work' = "running" /\ pc' = "exec" /\ stopped' = FALSE /\ UNCHANGED verdict
     \/ work' \in {None, "running"} /\ pc' = "final" /\ verdict' = "failed" /\ UNCHANGED stopped
  /\ UNCHANGED <<kind, remote, missed, context, worker, err>>

\* The exit status is taken only while the context is live.
ExitKnown == work = "over" /\ ctx = "live"

\* session.Wait returns: with the exit status, or because the connection is gone.
Waited ==
  /\ pc = "exec" /\ kind = "ssh"
  /\ \/ /\ ExitKnown
        /\ effect' = "exited"
        /\ verdict' \in {"completed", "failed"}
     \/ effect' = effect /\ verdict' = "callback_timeout"
  /\ pc' = "kill"
  /\ UNCHANGED <<kind, remote, missed, context, worker, work, err, stopped>>

\* The context is done.
Interrupted ==
  /\ pc = "exec" /\ kind = "ssh" /\ ctx # "live"
  /\ pc' = "kill" /\ verdict' = "callback_timeout"
  /\ UNCHANGED <<kind, remote, missed, context, worker, work, err, stopped, effect>>

\* Every two seconds: an authorization that is gone, or not answered, ends the context.
CheckAuthorization ==
  /\ pc = "exec" /\ kind = "ssh" /\ ctx = "live"
  /\ ctx' = "canceled" /\ run' = "canceled"
  /\ UNCHANGED <<kind, remote, missed, pc, worker, work, report>>

\* stopCommand: the signal reaches the process only if the context asked for it, and
\* the other side may ignore it.  The report says "stopped" either way: only the effect tells
\* whether the process is known to be over.
Kill ==
  /\ pc = "kill"
  /\ pc' = "final" /\ stopped' = TRUE
  /\ work' \in IF ctx # "live" THEN {work, "over"} ELSE {work}
  /\ UNCHANGED <<kind, remote, missed, context, worker, err, effect, verdict>>

\* The mutation or the process ends by itself.
WorkEnds ==
  /\ work = "running"
  /\ kind = "ssh" \/ pc # "exec"
  /\ work' = "over"
  /\ UNCHANGED <<kind, remote, missed, pc, context, worker, report>>

-----------------------------------------------------------------------------
WorkerStep ==
  \E w \in Workers : WorkerAsks(w) \/ WorkerUnanswered(w) \/ WorkerStops(w)

TaskStep ==
  \/ Announce \/ StartAnswered \/ StartUnanswered
  \/ Join \/ Judge \/ (\E received \in BOOLEAN : Final(received))
  \/ Prepare \/ PrepareFails \/ Start \/ Interrupted \/ Kill

ExecutorReturns == \E outcome \in {"ok", "error", "unstopped"} : ExecReturns(outcome)

Next ==
  \/ TaskStep \/ Refuse \/ ExecutorReturns \/ WorkerStep
  \/ \E w \in Workers : WorkerAnswered(w)
  \/ Waited \/ CheckAuthorization \/ WorkEnds
  \/ Cancel \/ Expire \/ Reassign \/ Deadline \/ CancelActiveTask

\* The goroutines go on; an executor returns once its context is done; the control plane
\* does not leave a worker's question unanswered for ever; and the ticker of an SSH
\* command notices that its session is over.
Fairness ==
  /\ WF_vars(TaskStep) /\ WF_vars(run # "live" /\ ExecutorReturns)
  /\ \A w \in Workers :
       /\ WF_vars(WorkerAsks(w)) /\ WF_vars(WorkerUnanswered(w)) /\ WF_vars(WorkerStops(w))
       /\ SF_vars(WorkerAnswered(w))
  /\ WF_vars(~Authorized /\ CheckAuthorization)

Spec == Init /\ [][Next]_vars /\ Fairness

-----------------------------------------------------------------------------
\* The types.
TypeOK ==
  /\ kind \in Kinds
  /\ cp \in {"running", "canceling"} \cup Verdicts
  /\ mine \in BOOLEAN /\ asked \in BOOLEAN /\ missed \in BOOLEAN
  /\ pc \in Stages \cup {"claimed", "start", "exec", "join", "judge", "kill", "final", "over"}
  /\ ctx \in {"live", "deadline", "canceled"} /\ run \in {"live", "deadline", "canceled"}
  /\ worker \in [Workers -> {"off", "waiting", "asking", "gone"}]
  /\ work \in {None, "running", "over"}
  /\ err \in {None, "ok", "error", "unstopped", "canceled", "deadline"} /\ stopped \in BOOLEAN
  /\ effect \in {"not_started", "unknown", "exited"}
  /\ verdict \in {None} \cup Verdicts

Reported == pc = "final" \/ (pc = "over" /\ verdict # None)

\* A Helm or manifest task that is reported as completed, canceled or timed out has
\* stopped changing the cluster; when the stop is unconfirmed Helm reports nothing and
\* a manifest task says that it failed ("cancel acknowledged while native operation
\* was still running" is what the tests look for).
StopConfirmed ==
  Reported /\ kind # "ssh" /\ work = "running" => kind = "manifest" /\ verdict = "failed"

\* What is said of an SSH command's effect is true: "not_started" only if the process
\* never existed, and "exited" only if it is over, however Start and the connection end.
EffectIsTrue ==
  Reported /\ kind = "ssh" =>
    /\ effect = "not_started" => work = None
    /\ effect = "exited" => work = "over" /\ verdict \in {"completed", "failed"}
    /\ verdict = "completed" => effect = "exited"

\* Canceled is not said of a task that timed out or failed: somebody asked for it, in
\* the control plane or here, the control plane had given it up, or a Helm heartbeat
\* could not vouch for it.
CanceledOnlyIfAsked == verdict = "canceled" => asked \/ missed \/ cp = "callback_timeout"

\* Work that the control plane no longer wants does not run on: the executor is told,
\* whichever of the heartbeat, the watcher and the authorization finds out.
Dropped == IF kind = "ssh" THEN ~Authorized ELSE Unwanted
DroppedWorkStops == (Dropped /\ pc = "exec") ~> pc # "exec"

=============================================================================
