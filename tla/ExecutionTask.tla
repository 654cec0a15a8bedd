--------------------------- MODULE ExecutionTask ---------------------------
(***************************************************************************)
(* One execution task in the hands of the runner: what the goroutine of    *)
(* Runner.execute does from a claim to its last callback, together with    *)
(* the goroutines that share the task with it.                             *)
(*                                                                         *)
(*   - the main goroutine: secret lease, workspace, one shell command      *)
(*     after another, the final callback (execute, executeTaskCommand);    *)
(*   - two monitors per running command, which nobody waits for:           *)
(*     streamHeartbeats and watchRunnerStatus.  They report a stop through *)
(*     a channel of capacity one and then cancel the command;              *)
(*   - the runtime API, which cancels by task id (CancelActiveTask);       *)
(*   - the control plane, an external actor: it hands out claims, answers  *)
(*     callbacks, may stop a claim on its own, and may hand the same task  *)
(*     out again once the previous attempt is over;                        *)
(*   - the task deadline and the shutdown of the process.                  *)
(*                                                                         *)
(* The map of active tasks is keyed by task id, while everything else      *)
(* belongs to a claim: two attempts of one task share one entry.           *)
(***************************************************************************)
EXTENDS Naturals

CONSTANTS
  Claims,         \* attempts the control plane may hand to this runner
  Tasks,          \* task identifiers
  TaskOf,         \* the task of each claim
  CommandCount,   \* how many shell commands the payload of each claim holds
  MaxAttempts,    \* callback_retry.max_attempts, for the final callback
  NoClaim         \* not a claim

ASSUME ClaimsAssumption ==
  /\ NoClaim \notin Claims
  /\ TaskOf \in [Claims -> Tasks]
  /\ CommandCount \in [Claims -> Nat]
  /\ MaxAttempts \in Nat \ {0}

VARIABLES
  cp,         \* the control plane's status of each claim
  attempt,    \* the claim the control plane holds as current for each task
  pc,         \* where the main goroutine of a claim is
  command,    \* index of the command in hand, 0 before the first
  ctx,        \* the claim's taskCtx
  alive,      \* a process of the claim is running
  monitor,    \* where the monitors of the running command are
  stopReason, \* whether the command's stopReason channel holds a status
  cut,        \* whether a monitor has cancelled the command's context
  remote,     \* what drainStopReason returned after the last command
  failed,     \* whether the last command, or the workspace, failed
  lateWatch,  \* a watcher of an earlier command is about to mark the entry
  owner,      \* active[task]: the claim that registered the entry
  stopSource, \* active[task].snapshot.StopSource
  asked,      \* whether CancelActiveTask was accepted for a claim, and whether
              \* a command was running under a live context at that time
  verdict,    \* the status of the claim's final callback
  tries,      \* attempts made to deliver the final callback
  heard,      \* final statuses the control plane has received from a claim
  outcome,    \* the outcome counted in the metrics for a claim
  shutdown    \* the runner's context is done

agentVars   == <<pc, command, verdict, tries, outcome, failed, remote>>
commandVars == <<alive, monitor, stopReason, cut, lateWatch>>
activeVars  == <<owner, stopSource>>
cpVars      == <<cp, attempt, heard>>
vars == <<agentVars, commandVars, activeVars, cpVars, ctx, asked, shutdown>>

-----------------------------------------------------------------------------
(* Statuses *)

\* What shouldStopLocalExecution calls a reason to stop; isFinalStatus agrees.
Final == {"canceled", "callback_timeout", "failed", "completed"}

CpStatus == {"queued", "running"} \cup Final
Contexts == {"none", "live", "canceled", "deadline"}
Sources  == {"none", "local_api", "control_plane"}
Monitors == {"heartbeat", "status"}

\* idle: between two ticks; stop: an answer that asks to stop has arrived;
\* marked: the watcher has updated the active entry; sent: the reason has been
\* offered to the channel and the command is about to be cancelled.
MonitorStates == {"off", "idle", "stop", "marked", "sent"}

Locations ==
  {"queued", "redeem", "prepare", "workspaceCallback", "workspaceDone",
   "commandCallback", "start", "run", "logCallback", "decide", "final",
   "mark", "done"}

\* The claim holds an entry of the active map, unless another claim of the
\* same task has replaced or deleted it.
Registered ==
  {"prepare", "workspaceCallback", "workspaceDone", "commandCallback", "start",
   "run", "logCallback", "decide", "final", "mark"}

Current(c) == attempt[TaskOf[c]] = c

\* Mutant: the process is started under a context of its own, which the task's
\* deadline and cancellation do not reach.
CommandContextDetached(c) == cut[c]

CommandContextDone(c) == cut[c] \/ ctx[c] # "live"

\* The control plane accepts a callback of the current attempt only: the
\* callback token of an older attempt is no longer valid.
AnswersStop(c) == Current(c) /\ cp[c] \in Final

\* GetExecutionTaskRunnerStatus asks by task id: the current attempt answers.
TaskStopped(t) == attempt[t] # NoClaim /\ cp[attempt[t]] \in Final

-----------------------------------------------------------------------------
Init ==
  /\ cp = [c \in Claims |-> "queued"]
  /\ attempt = [t \in Tasks |-> NoClaim]
  /\ pc = [c \in Claims |-> "queued"]
  /\ command = [c \in Claims |-> 0]
  /\ ctx = [c \in Claims |-> "none"]
  /\ alive = [c \in Claims |-> FALSE]
  /\ monitor = [c \in Claims |-> [m \in Monitors |-> "off"]]
  /\ stopReason = [c \in Claims |-> FALSE]
  /\ cut = [c \in Claims |-> FALSE]
  /\ remote = [c \in Claims |-> FALSE]
  /\ failed = [c \in Claims |-> FALSE]
  /\ lateWatch = [c \in Claims |-> FALSE]
  /\ owner = [t \in Tasks |-> NoClaim]
  /\ stopSource = [t \in Tasks |-> "none"]
  /\ verdict = [c \in Claims |-> "none"]
  /\ tries = [c \in Claims |-> 0]
  /\ heard = [c \in Claims |-> {}]
  /\ outcome = [c \in Claims |-> "none"]
  /\ asked = [c \in Claims |-> "no"]
  /\ shutdown = FALSE

Goto(c, l) == pc' = [pc EXCEPT ![c] = l]

\* Mutant: without the deferred unregisterActiveTask.
ReturnKeepsEntry(c) ==
  /\ Goto(c, "done")
  /\ UNCHANGED activeVars
  /\ ctx' = [ctx EXCEPT ![c] = "none"]
  /\ command' = [command EXCEPT ![c] = 0]
  /\ failed' = [failed EXCEPT ![c] = FALSE]
  /\ remote' = [remote EXCEPT ![c] = FALSE]
  /\ cut' = [cut EXCEPT ![c] = FALSE]
  /\ tries' = [tries EXCEPT ![c] = 0]

\* What execute leaves behind when it returns: unregisterActiveTask deletes by
\* task id, whoever put the entry there; the task context and the locals of
\* the command are gone.  A claim without a context had not registered.
Return(c) ==
  /\ Goto(c, "done")
  /\ IF ctx[c] = "none" THEN UNCHANGED activeVars
     ELSE /\ owner' = [owner EXCEPT ![TaskOf[c]] = NoClaim]
          /\ stopSource' = [stopSource EXCEPT ![TaskOf[c]] = "none"]
  /\ ctx' = [ctx EXCEPT ![c] = "none"]
  /\ command' = [command EXCEPT ![c] = 0]
  /\ failed' = [failed EXCEPT ![c] = FALSE]
  /\ remote' = [remote EXCEPT ![c] = FALSE]
  /\ cut' = [cut EXCEPT ![c] = FALSE]
  /\ tries' = [tries EXCEPT ![c] = 0]

\* The status that the final callback will carry.
Conclude(c, status) ==
  /\ Goto(c, "final")
  /\ verdict' = [verdict EXCEPT ![c] = status]
  /\ UNCHANGED <<command, tries, outcome, failed, remote>>

-----------------------------------------------------------------------------
(* The control plane *)

\* loop: one claim request, one task.  An attempt is handed out only when the
\* control plane regards the previous attempt of the task as over.
Claim(c) ==
  /\ ~shutdown
  /\ cp[c] = "queued"
  /\ attempt[TaskOf[c]] # NoClaim => TaskStopped(TaskOf[c])
  /\ cp' = [cp EXCEPT ![c] = "running"]
  /\ attempt' = [attempt EXCEPT ![TaskOf[c]] = c]
  /\ Goto(c, "redeem")
  /\ UNCHANGED <<command, verdict, tries, outcome, failed, remote>>
  /\ UNCHANGED <<commandVars, activeVars, heard, asked, ctx, shutdown>>

\* The control plane ends a claim by itself: an operator cancels it, or its
\* own lease on the callback expires.
ControlPlaneStops(c, status) ==
  /\ cp[c] = "running"
  /\ cp' = [cp EXCEPT ![c] = status]
  /\ UNCHANGED <<agentVars, commandVars, activeVars, attempt, heard, asked, ctx, shutdown>>

-----------------------------------------------------------------------------
(* The main goroutine up to the first command *)

\* redeemSecretLease, executionTaskContext and registerActiveTask.  A payload
\* without commands, like a lease that cannot be redeemed, fails the task
\* before it is registered.
Redeem(c) ==
  /\ pc[c] = "redeem"
  /\ \/ /\ Conclude(c, "failed")
        /\ UNCHANGED <<activeVars, ctx>>
     \/ /\ CommandCount[c] > 0
        /\ Goto(c, "prepare")
        /\ ctx' = [ctx EXCEPT ![c] = IF shutdown THEN "canceled" ELSE "live"]
        /\ owner' = [owner EXCEPT ![TaskOf[c]] = c]
        /\ stopSource' = [stopSource EXCEPT ![TaskOf[c]] = "none"]
        /\ UNCHANGED <<command, verdict, tries, outcome, failed, remote>>
  /\ UNCHANGED <<commandVars, cpVars, asked, shutdown>>

\* prepareWorkspace.  Without logs (the path is refused) no callback is sent.
PrepareWorkspace(c) ==
  /\ pc[c] = "prepare"
  /\ \E err \in BOOLEAN, logs \in BOOLEAN :
       /\ ~err => logs
       /\ failed' = [failed EXCEPT ![c] = err]
       /\ Goto(c, IF logs THEN "workspaceCallback" ELSE "workspaceDone")
  /\ UNCHANGED <<command, verdict, tries, outcome, remote>>
  /\ UNCHANGED <<commandVars, activeVars, cpVars, asked, ctx, shutdown>>

\* After the workspace: report its failure, or turn to the first command.  A
\* cancellation by the runtime API is reported as a failure here.
WorkspaceDone(c) ==
  /\ pc[c] = "workspaceDone"
  /\ \/ /\ failed[c]
        /\ Conclude(c, IF ctx[c] = "deadline" THEN "callback_timeout" ELSE "failed")
     \/ /\ ~failed[c]
        /\ Goto(c, "commandCallback")
        /\ command' = [command EXCEPT ![c] = 1]
        /\ UNCHANGED <<verdict, tries, outcome, failed, remote>>
  /\ UNCHANGED <<commandVars, activeVars, cpVars, asked, ctx, shutdown>>

-----------------------------------------------------------------------------
(* Running callbacks of the main goroutine *)

AfterCallback ==
  [workspaceCallback |-> "workspaceDone", commandCallback |-> "start",
   logCallback |-> "decide"]

\* A "running" callback changes nothing at the control plane; the agent stops
\* when the answer carries a final status.  The answer only arrives while
\* taskCtx is live.
CallbackStops(c) ==
  /\ pc[c] \in DOMAIN AfterCallback
  /\ ctx[c] = "live"
  /\ AnswersStop(c)
  /\ Return(c)
  /\ UNCHANGED <<verdict, outcome, alive, monitor, stopReason, lateWatch>>
  /\ UNCHANGED <<cpVars, asked, shutdown>>

\* Any other answer, a lost one and one refused for its token let it go on.
CallbackGoesOn(c) ==
  /\ pc[c] \in DOMAIN AfterCallback
  /\ Goto(c, AfterCallback[pc[c]])
  /\ UNCHANGED <<command, verdict, tries, outcome, failed, remote>>
  /\ UNCHANGED <<commandVars, activeVars, cpVars, asked, ctx, shutdown>>

-----------------------------------------------------------------------------
(* One command *)

\* A fresh command context, channel and pair of monitors.  exec refuses to
\* start a process under a context that is already done.
StartCommand(c) ==
  /\ pc[c] = "start"
  /\ Goto(c, "run")
  /\ alive' = [alive EXCEPT ![c] = (ctx[c] = "live")]
  /\ monitor' = [monitor EXCEPT ![c] = [m \in Monitors |-> "idle"]]
  /\ stopReason' = [stopReason EXCEPT ![c] = FALSE]
  /\ cut' = [cut EXCEPT ![c] = FALSE]
  /\ UNCHANGED <<command, verdict, tries, outcome, failed, remote, lateWatch>>
  /\ UNCHANGED <<activeVars, cpVars, asked, ctx, shutdown>>

\* cmd.Run returns, by itself or because its context was cancelled; then
\* close(done), cancelCommand and drainStopReason.  The monitors are not
\* waited for: a reason offered later is lost, an answer that has already
\* arrived at the watcher will still be written into the active entry.
CommandReturns(c, err) ==
  /\ pc[c] = "run"
  /\ alive[c] \/ err
  /\ Goto(c, "logCallback")
  /\ alive' = [alive EXCEPT ![c] = FALSE]
  /\ failed' = [failed EXCEPT ![c] = err]
  /\ remote' = [remote EXCEPT ![c] = stopReason[c]]
  /\ stopReason' = [stopReason EXCEPT ![c] = FALSE]
  /\ lateWatch' = [lateWatch EXCEPT ![c] = @ \/ monitor[c]["status"] = "stop"]
  /\ monitor' = [monitor EXCEPT ![c] = [m \in Monitors |-> "off"]]
  /\ UNCHANGED <<command, verdict, tries, outcome, cut>>
  /\ UNCHANGED <<activeVars, cpVars, asked, ctx, shutdown>>

\* Mutant: any stop counts as a cancellation by the runtime API.
CanceledAnyhow(c) == stopSource[TaskOf[c]] # "none"

\* After the callback that carries the command's logs.
CanceledLocally(c) == stopSource[TaskOf[c]] = "local_api"

\* Mutant: a remote stop of a command that ended well goes on to the next one.
StopIsOverlooked(c) ==
  /\ pc[c] = "decide"
  /\ remote[c] /\ ~CanceledLocally(c) /\ command[c] < CommandCount[c]
  /\ Goto(c, "commandCallback")
  /\ command' = [command EXCEPT ![c] = @ + 1]
  /\ UNCHANGED <<verdict, tries, outcome, failed, remote>>
  /\ UNCHANGED <<commandVars, activeVars, cpVars, asked, ctx, shutdown>>

\* A stop that the control plane asked for ends the claim without a report.
StopWithoutReport(c) ==
  /\ pc[c] = "decide"
  /\ remote[c] /\ ~CanceledLocally(c)
  /\ Return(c)
  /\ UNCHANGED <<verdict, outcome, alive, monitor, stopReason, lateWatch>>
  /\ UNCHANGED <<cpVars, asked, shutdown>>

Decide(c) ==
  /\ pc[c] = "decide"
  /\ \/ /\ remote[c] \/ ctx[c] = "canceled"
        /\ CanceledLocally(c)
        /\ Conclude(c, "canceled")
     \/ /\ ~remote[c] /\ ctx[c] = "deadline"
        /\ Conclude(c, "callback_timeout")
     \/ /\ ~remote[c] /\ ctx[c] # "deadline"
        /\ ~(ctx[c] = "canceled" /\ CanceledLocally(c))
        /\ IF failed[c] THEN Conclude(c, "failed")
           ELSE IF command[c] = CommandCount[c] THEN Conclude(c, "completed")
           ELSE /\ Goto(c, "commandCallback")
                /\ command' = [command EXCEPT ![c] = @ + 1]
                /\ UNCHANGED <<verdict, tries, outcome, failed, remote>>
  /\ UNCHANGED <<commandVars, activeVars, cpVars, asked, ctx, shutdown>>

-----------------------------------------------------------------------------
(* The monitors of the running command *)

SetMonitor(c, m, s) == monitor' = [monitor EXCEPT ![c][m] = s]

\* A tick, a request and the answer that asks to stop: the heartbeat is a
\* callback with the claim's token, the watcher asks for the task's status.
MonitorAnswered(c, m) ==
  /\ monitor[c][m] = "idle"
  /\ ~CommandContextDone(c)
  /\ IF m = "heartbeat" THEN AnswersStop(c) ELSE TaskStopped(TaskOf[c])
  /\ SetMonitor(c, m, "stop")
  /\ UNCHANGED <<agentVars, alive, stopReason, cut, lateWatch>>
  /\ UNCHANGED <<activeVars, cpVars, asked, ctx, shutdown>>

MarkEntry(t) ==
  stopSource' = [stopSource EXCEPT ![t] = IF owner[t] = NoClaim THEN @ ELSE "control_plane"]

\* watchRunnerStatus writes the stop into the active entry of the task.
WatcherMarks(c) ==
  /\ monitor[c]["status"] = "stop"
  /\ SetMonitor(c, "status", "marked")
  /\ MarkEntry(TaskOf[c])
  /\ UNCHANGED <<agentVars, alive, stopReason, cut, lateWatch, owner>>
  /\ UNCHANGED <<cpVars, asked, ctx, shutdown>>

\* The same step of a watcher whose command has been reaped meanwhile.
LateWatcherMarks(c) ==
  /\ lateWatch[c]
  /\ lateWatch' = [lateWatch EXCEPT ![c] = FALSE]
  /\ MarkEntry(TaskOf[c])
  /\ UNCHANGED <<agentVars, alive, monitor, stopReason, cut, owner>>
  /\ UNCHANGED <<cpVars, asked, ctx, shutdown>>

\* Mutant: a channel without a buffer, from which nobody receives yet.
MonitorSendIsDropped(c, m) ==
  /\ monitor[c][m] = IF m = "heartbeat" THEN "stop" ELSE "marked"
  /\ SetMonitor(c, m, "sent")
  /\ UNCHANGED <<agentVars, alive, stopReason, cut, lateWatch>>
  /\ UNCHANGED <<activeVars, cpVars, asked, ctx, shutdown>>

\* The non-blocking send on a channel of capacity one.
MonitorSends(c, m) ==
  /\ monitor[c][m] = IF m = "heartbeat" THEN "stop" ELSE "marked"
  /\ SetMonitor(c, m, "sent")
  /\ stopReason' = [stopReason EXCEPT ![c] = TRUE]
  /\ UNCHANGED <<agentVars, alive, cut, lateWatch>>
  /\ UNCHANGED <<activeVars, cpVars, asked, ctx, shutdown>>

MonitorCancels(c, m) ==
  /\ monitor[c][m] = "sent"
  /\ SetMonitor(c, m, "off")
  /\ cut' = [cut EXCEPT ![c] = TRUE]
  /\ UNCHANGED <<agentVars, alive, stopReason, lateWatch>>
  /\ UNCHANGED <<activeVars, cpVars, asked, ctx, shutdown>>

-----------------------------------------------------------------------------
(* Cancellation from outside *)

\* Mutant: the context is cancelled, and the entry says nothing of it.
CancelIsNotNoted(t) ==
  /\ owner[t] # NoClaim
  /\ ctx' = [ctx EXCEPT ![owner[t]] = IF @ = "live" THEN "canceled" ELSE @]
  /\ asked' = [asked EXCEPT ![owner[t]] =
                 IF @ = "running" \/ (pc[owner[t]] = "run" /\ ctx[owner[t]] = "live")
                 THEN "running" ELSE "other"]
  /\ UNCHANGED <<agentVars, commandVars, activeVars, cpVars, shutdown>>

\* CancelActiveTask returns true: the entry is marked and the context of the
\* claim that registered it is cancelled, under one lock.
CancelActiveTask(t) ==
  /\ owner[t] # NoClaim
  /\ stopSource' = [stopSource EXCEPT ![t] = "local_api"]
  /\ ctx' = [ctx EXCEPT ![owner[t]] = IF @ = "live" THEN "canceled" ELSE @]
  /\ asked' = [asked EXCEPT ![owner[t]] =
                 IF @ = "running" \/ (pc[owner[t]] = "run" /\ ctx[owner[t]] = "live")
                 THEN "running" ELSE "other"]
  /\ UNCHANGED <<agentVars, commandVars, owner, cpVars, shutdown>>

Deadline(c) ==
  /\ ctx[c] = "live"
  /\ ctx' = [ctx EXCEPT ![c] = "deadline"]
  /\ UNCHANGED <<agentVars, commandVars, activeVars, cpVars, asked, shutdown>>

\* The context the process gave to the runner is done, and with it every task
\* context.  The process then exits: any behaviour may be cut short here.
Shutdown ==
  /\ ~shutdown
  /\ shutdown' = TRUE
  /\ ctx' = [c \in Claims |-> IF ctx[c] = "live" THEN "canceled" ELSE ctx[c]]
  /\ UNCHANGED <<agentVars, commandVars, activeVars, cpVars, asked>>

-----------------------------------------------------------------------------
(* The final callback, under a context that no cancellation reaches *)

\* Mutant: the last attempt is not the last.
TryOnceMore(c) ==
  /\ pc[c] = "final"
  /\ tries[c] <= MaxAttempts
  /\ tries' = [tries EXCEPT ![c] = @ + 1]

Try(c) ==
  /\ pc[c] = "final"
  /\ tries[c] < MaxAttempts
  /\ tries' = [tries EXCEPT ![c] = @ + 1]

\* A try that is lost before it reaches the control plane.
FinalLost(c) ==
  /\ Try(c)
  /\ UNCHANGED <<pc, command, verdict, outcome, failed, remote>>
  /\ UNCHANGED <<commandVars, activeVars, cpVars, asked, ctx, shutdown>>

\* A try that reaches it.  A claim that is over keeps its status and a stale
\* token is refused; the answer may be lost on its way back, and then the
\* runner sends the same callback again.
FinalReceived(c, answered) ==
  /\ Try(c)
  /\ heard' = [heard EXCEPT ![c] = @ \cup {verdict[c]}]
  /\ cp' = [cp EXCEPT ![c] = IF Current(c) /\ @ \notin Final THEN verdict[c] ELSE @]
  /\ Goto(c, IF answered /\ Current(c) THEN "mark" ELSE "final")
  /\ UNCHANGED <<command, verdict, outcome, failed, remote, attempt>>
  /\ UNCHANGED <<commandVars, activeVars, asked, ctx, shutdown>>

\* No attempt is left, or the deadline of finalCallbackContext has passed.
FinalGivenUp(c) ==
  /\ pc[c] = "final"
  /\ tries[c] > 0
  /\ Goto(c, "mark")
  /\ UNCHANGED <<command, verdict, tries, outcome, failed, remote>>
  /\ UNCHANGED <<commandVars, activeVars, cpVars, asked, ctx, shutdown>>

\* Mutant: a report of "canceled" falls through to the report of the command's
\* error, for want of a return.
CanceledFallsThrough(c) ==
  /\ pc[c] = "mark"
  /\ outcome' = [outcome EXCEPT ![c] = verdict[c]]
  /\ IF verdict[c] = "canceled"
     THEN /\ Goto(c, "final")
          /\ verdict' = [verdict EXCEPT ![c] = "failed"]
          /\ tries' = [tries EXCEPT ![c] = 0]
          /\ UNCHANGED <<command, failed, remote, cut, ctx, activeVars>>
     ELSE Return(c) /\ UNCHANGED verdict
  /\ UNCHANGED <<alive, monitor, stopReason, lateWatch, cpVars, asked, shutdown>>

\* markOutcome, then execute returns.
MarkOutcome(c) ==
  /\ pc[c] = "mark"
  /\ outcome' = [outcome EXCEPT ![c] = verdict[c]]
  /\ Return(c)
  /\ UNCHANGED <<verdict, alive, monitor, stopReason, lateWatch>>
  /\ UNCHANGED <<cpVars, asked, shutdown>>

-----------------------------------------------------------------------------
\* What the main goroutine does without waiting for the command to end.
MainStep(c) ==
  \/ Redeem(c) \/ PrepareWorkspace(c) \/ WorkspaceDone(c)
  \/ CallbackStops(c) \/ CallbackGoesOn(c)
  \/ StartCommand(c) \/ StopWithoutReport(c) \/ Decide(c)
  \/ FinalLost(c) \/ (\E answered \in BOOLEAN : FinalReceived(c, answered))
  \/ FinalGivenUp(c) \/ MarkOutcome(c)

MonitorStep(c) ==
  \/ \E m \in Monitors :
       MonitorAnswered(c, m) \/ MonitorSends(c, m) \/ MonitorCancels(c, m)
  \/ WatcherMarks(c) \/ LateWatcherMarks(c)

Next ==
  \/ \E c \in Claims :
       \/ Claim(c)
       \/ \E status \in {"canceled", "callback_timeout"} : ControlPlaneStops(c, status)
       \/ MainStep(c)
       \/ \E err \in BOOLEAN : CommandReturns(c, err)
       \/ MonitorStep(c)
       \/ Deadline(c)
  \/ \E t \in Tasks : CancelActiveTask(t)
  \/ Shutdown

\* Requests and git commands are bounded by timeouts, every task context has a
\* deadline, and a killed process group lets cmd.Run return.  A command that
\* nobody cancels may run for ever.
Fairness ==
  \A c \in Claims :
    /\ WF_vars(MainStep(c))
    /\ WF_vars(CommandContextDone(c) /\ \E err \in BOOLEAN : CommandReturns(c, err))
    /\ WF_vars(Deadline(c))

Spec == Init /\ [][Next]_vars /\ Fairness

-----------------------------------------------------------------------------
(* Properties *)

TypeOK ==
  /\ cp \in [Claims -> CpStatus]
  /\ attempt \in [Tasks -> Claims \cup {NoClaim}]
  /\ pc \in [Claims -> Locations]
  /\ command \in [Claims -> Nat]
  /\ ctx \in [Claims -> Contexts]
  /\ alive \in [Claims -> BOOLEAN]
  /\ monitor \in [Claims -> [Monitors -> MonitorStates]]
  /\ stopReason \in [Claims -> BOOLEAN]
  /\ cut \in [Claims -> BOOLEAN]
  /\ remote \in [Claims -> BOOLEAN]
  /\ failed \in [Claims -> BOOLEAN]
  /\ lateWatch \in [Claims -> BOOLEAN]
  /\ owner \in [Tasks -> Claims \cup {NoClaim}]
  /\ stopSource \in [Tasks -> Sources]
  /\ verdict \in [Claims -> Final \cup {"none"}]
  /\ tries \in [Claims -> 0..MaxAttempts]
  /\ heard \in [Claims -> SUBSET Final]
  /\ outcome \in [Claims -> Final \cup {"none"}]
  /\ asked \in [Claims -> {"no", "other", "running"}]
  /\ shutdown \in BOOLEAN

\* What the control plane hears from a claim, however often a callback is sent
\* again, is one final status, and the metrics count that same status.
OneVerdict ==
  \A c \in Claims :
    /\ heard[c] \subseteq {verdict[c]}
    /\ outcome[c] \in {"none", verdict[c]}

\* A command that the agent itself killed because the control plane asked to
\* stop is never reported as the task's failure, timeout or success: the
\* reason is in the channel before the command's context is cancelled, so
\* executeTaskCommand finds it whenever it sees the effect.
StopIsNotAFailure ==
  \A c \in Claims : cut[c] => verdict[c] \in {"none", "canceled"}

\* Only the runtime API makes the runner report "canceled".
CanceledOnlyIfAsked ==
  \A c \in Claims :
    verdict[c] = "canceled" => \E d \in Claims : TaskOf[d] = TaskOf[c] /\ asked[d] # "no"

\* No other attempt of the task has been handed out.
SoleAttempt(c) ==
  \A d \in Claims \ {c} : TaskOf[d] = TaskOf[c] => cp[d] = "queued"

\* A cancellation that the runtime API accepted while a command was running is
\* what the claim reports, unless the control plane has ended the claim too or
\* another attempt shares the entry.
CancelIsReported ==
  \A c \in Claims :
    asked[c] = "running" /\ pc[c] \in {"final", "mark", "done"} /\ SoleAttempt(c) =>
      verdict[c] = "canceled" \/ cp[c] \in {"canceled", "callback_timeout"}

\* The active map shows no claim that is over, and it shows every claim in
\* hand unless another attempt of the same task has been claimed too.
ActiveViewExact ==
  /\ \A t \in Tasks :
       owner[t] # NoClaim => TaskOf[owner[t]] = t /\ pc[owner[t]] \in Registered
  /\ \A c \in Claims :
       pc[c] \in Registered /\ ctx[c] # "none" /\ SoleAttempt(c) =>
         owner[TaskOf[c]] = c

\* No process of a claim starts once a monitor has cut one of its commands, or
\* once a cancellation has reached it while a command was running.
NothingStartsAfterStop ==
  [][\A c \in Claims :
       cut[c] \/ asked[c] = "running" => ~(alive'[c] /\ ~alive[c])]_vars

\* Every claim comes to its end and leaves the active map.
EveryClaimEnds ==
  \A c \in Claims : pc[c] = "redeem" ~> pc[c] = "done"

Lifecycle == INSTANCE TaskLifecycle WITH status <- cp, process <- alive, report <- verdict

\* The runner keeps what TaskLifecycle promises: one verdict for an attempt, decided when its
\* process is over for good, and the status of an attempt comes from nowhere else.
KeepsLifecycle == Lifecycle!Spec

=============================================================================
