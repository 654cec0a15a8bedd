----------------------------- MODULE Buildpacks -----------------------------
(***************************************************************************)
(* The Buildpacks runner: one loop with one slot, a build task at a time,  *)
(* and a container daemon (or a Podman store) that belongs to this runner  *)
(* alone.  executeBuildpacksTask cleans up after each build; a cleanup     *)
(* that is not confirmed sets buildpacksBlocked, and the loop claims       *)
(* nothing more until the process is restarted.                            *)
(*                                                                         *)
(* Outside: the control plane, the daemon and the file system, whose       *)
(* operations may fail at any time; a crash of the process; the operator   *)
(* who cleans up and restarts.                                             *)
(***************************************************************************)
EXTENDS Naturals

CONSTANTS
  Tasks,       \* build tasks the control plane may hand out
  MaxCrashes   \* bound: how often the process may crash

VARIABLES
  loop,        \* idle, slot (before the gate), open (before the request)
  slot,        \* the only execution slot is taken
  blocked,     \* buildpacksBlocked
  containers,  \* the tasks whose containers are in the daemon
  pc,          \* where executeBuildpacksTask is
  ctx,         \* taskCtx: the deadline and the cancellations
  run,         \* runCtx, a child of taskCtx that the monitors cancel
  err,         \* runErr
  unconfirmed, \* result["stopUnconfirmed"]
  left,        \* credentials and source of the task are in the workspace
  reported,    \* the status of the task's last callback
  stopAsked,   \* the control plane wants the task stopped
  crashes

loopVars   == <<loop, slot>>
daemonVars == <<blocked, containers>>
taskVars   == <<ctx, run, err, unconfirmed, left, reported>>
vars == <<loopVars, daemonVars, pc, taskVars, stopAsked, crashes>>

Final == {"completed", "failed", "canceled", "callback_timeout"}
Contexts == {"none", "live", "canceled", "deadline"}

\* Between the two ends of runBuildpacksWithHeartbeat the monitors are at work.
Monitored == {"check", "checkout", "build", "containers", "cache", "workspace", "snapshot"}
InHand == {"redeem", "report", "release"} \cup Monitored
Locations == {"queued", "done", "lost"} \cup InHand

-----------------------------------------------------------------------------
Init ==
  /\ loop = "idle" /\ slot = FALSE
  /\ blocked = FALSE /\ containers = {}
  /\ pc = [t \in Tasks |-> "queued"]
  /\ ctx = [t \in Tasks |-> "none"]
  /\ run = [t \in Tasks |-> "none"]
  /\ err = [t \in Tasks |-> "none"]
  /\ unconfirmed = [t \in Tasks |-> FALSE]
  /\ left = [t \in Tasks |-> FALSE]
  /\ reported = [t \in Tasks |-> "none"]
  /\ stopAsked = [t \in Tasks |-> FALSE]
  /\ crashes = 0

Goto(t, l) == pc' = [pc EXCEPT ![t] = l]

-----------------------------------------------------------------------------
(* The loop *)

\* Mutant: the slots of two runners.
TakeAnySlot ==
  /\ loop = "idle"
  /\ loop' = "slot" /\ slot' = TRUE
  /\ UNCHANGED <<daemonVars, pc, taskVars, stopAsked, crashes>>

TakeSlot ==
  /\ loop = "idle" /\ ~slot
  /\ loop' = "slot" /\ slot' = TRUE
  /\ UNCHANGED <<daemonVars, pc, taskVars, stopAsked, crashes>>

\* claim looks at buildpacksBlocked before it sends the request.
Gate ==
  /\ loop = "slot"
  /\ IF blocked THEN loop' = "idle" /\ slot' = FALSE
     ELSE loop' = "open" /\ UNCHANGED slot
  /\ UNCHANGED <<daemonVars, pc, taskVars, stopAsked, crashes>>

ClaimMissed ==
  /\ loop = "open"
  /\ loop' = "idle" /\ slot' = FALSE
  /\ UNCHANGED <<daemonVars, pc, taskVars, stopAsked, crashes>>

\* The slot passes to the goroutine of the task.
Claim(t) ==
  /\ loop = "open"
  /\ pc[t] = "queued"
  /\ loop' = "idle"
  /\ Goto(t, "redeem")
  /\ UNCHANGED <<slot, daemonVars, taskVars, stopAsked, crashes>>

-----------------------------------------------------------------------------
(* One build *)

\* redeemSecretLease; without the secrets the task fails before it is registered.
Redeem(t) ==
  /\ pc[t] = "redeem"
  /\ \/ /\ Goto(t, "release")
        /\ reported' = [reported EXCEPT ![t] = "failed"]
        /\ UNCHANGED <<ctx, run>>
     \/ /\ Goto(t, "check")
        /\ ctx' = [ctx EXCEPT ![t] = "live"]
        /\ run' = [run EXCEPT ![t] = "live"]
        /\ UNCHANGED reported
  /\ UNCHANGED <<loopVars, daemonVars, err, unconfirmed, left, stopAsked, crashes>>

\* Mutant: the containers in the daemon are not looked at before the build.
CheckDaemonUnseen(t) ==
  /\ pc[t] = "check"
  /\ ~blocked /\ run[t] = "live"
  /\ Goto(t, "checkout")
  /\ left' = [left EXCEPT ![t] = TRUE]
  /\ UNCHANGED <<loopVars, daemonVars, ctx, run, err, unconfirmed, reported, stopAsked, crashes>>

\* The capability is ready, the daemon is empty, the cache is within its limit
\* and the task's workspace has been made.
CheckDaemon(t) ==
  /\ pc[t] = "check"
  /\ ~blocked /\ containers = {} /\ run[t] = "live"
  /\ Goto(t, "checkout")
  /\ left' = [left EXCEPT ![t] = TRUE]
  /\ UNCHANGED <<loopVars, daemonVars, ctx, run, err, unconfirmed, reported, stopAsked, crashes>>

\* Any of these steps may fail.  There is nothing to clean up yet.
CheckFails(t) ==
  /\ pc[t] = "check"
  /\ Goto(t, "snapshot")
  /\ err' = [err EXCEPT ![t] = "failed"]
  /\ UNCHANGED <<loopVars, daemonVars, ctx, run, unconfirmed, left, reported, stopAsked, crashes>>

\* Environment, sources, build path, and a callback that the control plane has
\* to confirm.
Checkout(t) ==
  /\ pc[t] = "checkout"
  /\ run[t] = "live" /\ ~stopAsked[t]
  /\ Goto(t, "build")
  /\ UNCHANGED <<loopVars, daemonVars, taskVars, stopAsked, crashes>>

CheckoutFails(t) ==
  /\ pc[t] = "checkout"
  /\ \E e \in {"failed", "canceled"} :
       /\ e = "canceled" => stopAsked[t] /\ run[t] = "live"
       /\ err' = [err EXCEPT ![t] = e]
  /\ Goto(t, "workspace")
  /\ UNCHANGED <<loopVars, daemonVars, ctx, run, unconfirmed, left, reported, stopAsked, crashes>>

\* pack, or the lifecycle under Podman, has the daemon run a container.
ContainerStarts(t) ==
  /\ pc[t] = "build"
  /\ containers' = containers \cup {t}
  /\ UNCHANGED <<loopVars, blocked, pc, taskVars, stopAsked, crashes>>

\* The command has exited, by itself or killed with its process group; the
\* result of a good build has been read.
BuildReturns(t, e) ==
  /\ pc[t] = "build"
  /\ Goto(t, "containers")
  /\ err' = [err EXCEPT ![t] = e]
  /\ UNCHANGED <<loopVars, daemonVars, ctx, run, unconfirmed, left, reported, stopAsked, crashes>>

-----------------------------------------------------------------------------
(* The deferred cleanup, in the order in which the deferred calls run *)

\* cleanupBuildpacksContainers removes what the daemon lists, whoever made it,
\* and lists again, under a context that no cancellation reaches.
CleanContainers(t) ==
  /\ pc[t] = "containers"
  /\ containers' = {}
  /\ Goto(t, "cache")
  /\ UNCHANGED <<loopVars, blocked, taskVars, stopAsked, crashes>>

\* Mutant: the runner stays open after a cleanup that was not confirmed.
CleanupForgotten(t) ==
  /\ pc[t] = "containers"
  /\ containers' \in SUBSET containers
  /\ Goto(t, "workspace")
  /\ unconfirmed' = [unconfirmed EXCEPT ![t] = TRUE]
  /\ err' = [err EXCEPT ![t] = "failed"]
  /\ UNCHANGED <<loopVars, blocked, ctx, run, left, reported, stopAsked, crashes>>

\* An error on the way: some containers may be gone.
CleanupUnconfirmed(t) ==
  /\ pc[t] = "containers"
  /\ blocked' = TRUE
  /\ containers' \in SUBSET containers
  /\ Goto(t, "workspace")
  /\ unconfirmed' = [unconfirmed EXCEPT ![t] = TRUE]
  /\ err' = [err EXCEPT ![t] = "failed"]
  /\ UNCHANGED <<loopVars, ctx, run, left, reported, stopAsked, crashes>>

\* errors.Join keeps a cancellation recognisable.
Joined(t) == err' = [err EXCEPT ![t] = IF @ = "none" THEN "failed" ELSE @]

TrimCache(t) ==
  /\ pc[t] = "cache"
  /\ Goto(t, "workspace")
  /\ \/ UNCHANGED <<blocked, err>>
     \/ blocked' = TRUE /\ Joined(t)
  /\ UNCHANGED <<loopVars, containers, ctx, run, unconfirmed, left, reported, stopAsked, crashes>>

\* cleanupBuildpacksWorkspace.
CleanWorkspace(t) ==
  /\ pc[t] = "workspace"
  /\ Goto(t, "snapshot")
  /\ \/ left' = [left EXCEPT ![t] = FALSE] /\ UNCHANGED <<blocked, err>>
     \/ blocked' = TRUE /\ Joined(t) /\ UNCHANGED left
  /\ UNCHANGED <<loopVars, containers, ctx, run, unconfirmed, reported, stopAsked, crashes>>

-----------------------------------------------------------------------------
(* The report *)

\* runBuildpacksWithHeartbeat returns: what ended runCtx goes before the error
\* of the build.  The monitors have been waited for.
Snapshot(t) ==
  /\ pc[t] = "snapshot"
  /\ Goto(t, "report")
  /\ err' = [err EXCEPT ![t] = IF run[t] # "live" THEN run[t] ELSE @]
  /\ UNCHANGED <<loopVars, daemonVars, ctx, run, unconfirmed, left, reported, stopAsked, crashes>>

\* Mutant: the error is reported as it is.
StatusOfError(t) == IF err[t] = "none" THEN "completed" ELSE err[t]

Status(t) ==
  IF "deadline" \in {err[t], ctx[t]} THEN "callback_timeout"
  ELSE IF "canceled" \in {err[t], ctx[t]} THEN "canceled"
  ELSE IF err[t] = "failed" THEN "failed" ELSE "completed"

\* Mutant: stopUnconfirmed is not looked at.
ReportAnyway(t) ==
  /\ pc[t] = "report"
  /\ Goto(t, "release")
  /\ reported' = [reported EXCEPT ![t] = Status(t)]
  /\ UNCHANGED <<loopVars, daemonVars, ctx, run, err, unconfirmed, left, stopAsked, crashes>>

\* A task whose containers may still run stays nonterminal.
Report(t) ==
  /\ pc[t] = "report"
  /\ Goto(t, "release")
  /\ reported' = [reported EXCEPT ![t] = IF unconfirmed[t] THEN "canceling" ELSE Status(t)]
  /\ UNCHANGED <<loopVars, daemonVars, ctx, run, err, unconfirmed, left, stopAsked, crashes>>

\* The task leaves the active map, its context is cancelled, and the goroutine
\* gives the slot back.
ReleaseSlot(t) ==
  /\ pc[t] = "release"
  /\ Goto(t, "done")
  /\ slot' = FALSE
  /\ ctx' = [ctx EXCEPT ![t] = "none"]
  /\ run' = [run EXCEPT ![t] = "none"]
  /\ UNCHANGED <<loop, daemonVars, err, unconfirmed, left, reported, stopAsked, crashes>>

-----------------------------------------------------------------------------
(* What may stop a build *)

EndRun(t, why) == run' = [run EXCEPT ![t] = IF @ = "live" THEN why ELSE @]

\* The control plane's status turns to "canceling" or to a final one.
StopAsked(t) ==
  /\ pc[t] \in InHand /\ ~stopAsked[t]
  /\ stopAsked' = [stopAsked EXCEPT ![t] = TRUE]
  /\ UNCHANGED <<loopVars, daemonVars, pc, taskVars, crashes>>

\* streamHeartbeats or watchRunnerStatus has heard of it.
MonitorCancels(t) ==
  /\ pc[t] \in Monitored /\ stopAsked[t] /\ run[t] = "live"
  /\ EndRun(t, "canceled")
  /\ UNCHANGED <<loopVars, daemonVars, pc, ctx, err, unconfirmed, left, reported, stopAsked, crashes>>

\* CancelActiveTask, the end of the runner's context, or the task's deadline.
\* After the snapshot runCtx is no longer looked at.
EndTask(t, why) ==
  /\ pc[t] \in Monitored \cup {"report"} /\ ctx[t] = "live"
  /\ ctx' = [ctx EXCEPT ![t] = why]
  /\ EndRun(t, why)
  /\ UNCHANGED <<loopVars, daemonVars, pc, err, unconfirmed, left, reported, stopAsked, crashes>>

\* Mutant: a build is stopped by its deadline only between two commands.
DeadlineBetweenCommands(t) == pc[t] # "build" /\ EndTask(t, "deadline")

Deadline(t) == EndTask(t, "deadline")

\* The process ends with what it has in hand; buildpacksBlocked is forgotten.
\* Nothing of a build runs on: the processes of the runner's container end
\* with it, or the operator stops the daemon's workloads before the restart.
Crash ==
  /\ crashes < MaxCrashes
  /\ crashes' = crashes + 1
  /\ pc' = [t \in Tasks |-> IF pc[t] \in InHand THEN "lost" ELSE pc[t]]
  /\ ctx' = [t \in Tasks |-> "none"]
  /\ run' = [t \in Tasks |-> "none"]
  /\ loop' = "idle" /\ slot' = FALSE
  /\ blocked' = FALSE
  /\ UNCHANGED <<containers, err, unconfirmed, left, reported, stopAsked>>

\* The operator clears the daemon and the workspaces and restarts the process.
Recover ==
  /\ \A t \in Tasks : pc[t] \notin InHand
  /\ blocked \/ containers # {} \/ \E t \in Tasks : left[t]
  /\ blocked' = FALSE /\ containers' = {}
  /\ left' = [t \in Tasks |-> FALSE]
  /\ loop' = "idle" /\ slot' = FALSE
  /\ UNCHANGED <<pc, ctx, run, err, unconfirmed, reported, stopAsked, crashes>>

-----------------------------------------------------------------------------
\* The steps of the goroutine; a command that nothing stops may run for ever.
TaskStep(t) ==
  \/ Redeem(t) \/ CheckDaemon(t) \/ CheckFails(t) \/ Checkout(t) \/ CheckoutFails(t)
  \/ run[t] # "live" /\ \E e \in {"none", "failed"} : BuildReturns(t, e)
  \/ CleanContainers(t) \/ CleanupUnconfirmed(t) \/ TrimCache(t) \/ CleanWorkspace(t)
  \/ Snapshot(t) \/ Report(t) \/ ReleaseSlot(t)

Next ==
  \/ TakeSlot \/ Gate \/ ClaimMissed \/ Crash \/ Recover
  \/ \E t \in Tasks :
       \/ Claim(t) \/ TaskStep(t) \/ ContainerStarts(t)
       \/ \E e \in {"none", "failed"} : BuildReturns(t, e)
       \/ StopAsked(t) \/ MonitorCancels(t) \/ EndTask(t, "canceled") \/ Deadline(t)

\* Requests, git and the cleanup commands have timeouts, every task context has
\* a deadline, and a killed process group lets cmd.Run return.
Fairness == \A t \in Tasks : WF_vars(TaskStep(t)) /\ WF_vars(Deadline(t))

Spec == Init /\ [][Next]_vars /\ Fairness

-----------------------------------------------------------------------------
(* Properties *)

TypeOK ==
  /\ loop \in {"idle", "slot", "open"} /\ slot \in BOOLEAN
  /\ blocked \in BOOLEAN /\ containers \subseteq Tasks
  /\ pc \in [Tasks -> Locations]
  /\ ctx \in [Tasks -> Contexts] /\ run \in [Tasks -> Contexts]
  /\ err \in [Tasks -> {"none", "failed", "canceled", "deadline"}]
  /\ unconfirmed \in [Tasks -> BOOLEAN]
  /\ left \in [Tasks -> BOOLEAN]
  /\ reported \in [Tasks -> {"none", "canceling"} \cup Final]
  /\ stopAsked \in [Tasks -> BOOLEAN]
  /\ crashes \in 0..MaxCrashes

\* buildpacks.go: "Only containers created after the empty daemon check belong
\* to this build": what the forced removal removes is the build's own.
BuildOwnsDaemon ==
  \A t \in Tasks : pc[t] \in {"build", "containers"} => containers \subseteq {t}

\* A task that has been reported as over, canceled ones included, has no
\* container left; one reported as completed has no credentials left either.
OverMeansStopped ==
  \A t \in Tasks :
    /\ reported[t] \in Final => t \notin containers
    /\ reported[t] = "completed" => ~left[t]

\* What a build leaves behind keeps the runner from claiming another one.
LeftoversBlock ==
  /\ crashes = 0
  /\ \A t \in Tasks : pc[t] \notin InHand
  /\ containers # {} \/ \E t \in Tasks : left[t]
  => blocked

\* No task is claimed while the runner is blocked: the gate is read with the
\* only slot in hand, so no build can block the runner behind it.
NoClaimWhileBlocked ==
  [][\A t \in Tasks : blocked /\ pc[t] = "queued" => pc'[t] = "queued"]_vars

\* A claimed task comes to its end, unless the process does.
EveryBuildEnds == \A t \in Tasks : pc[t] = "redeem" ~> pc[t] \in {"done", "lost"}

\* README: unconfirmed cleanup "does not report a successful cancellation".
CancellationMeansCleanup ==
  \A t \in Tasks : reported[t] = "canceled" => ~left[t] /\ t \notin containers

=============================================================================
