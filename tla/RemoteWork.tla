----------------------------- MODULE RemoteWork -----------------------------
(***************************************************************************)
(* executeDockerOperation and executeAgentRun: work whose cancellation the *)
(* control plane regards as done when the runner acknowledges it.          *)
(*                                                                         *)
(* Three kinds of work take the same way: a Docker operation, an agent run *)
(* of a command line provider, and a chat with a remote Hermes agent.  The *)
(* runner's goroutine announces the start, executes, looks whether the     *)
(* heartbeat goroutine was told to stop, and reports or acknowledges.      *)
(***************************************************************************)
EXTENDS Naturals

CONSTANTS
  Kinds,        \* the kinds of work that are offered
  MaxAttempts   \* control_plane.callback_retry.max_attempts, at least one

ASSUME RemoteWorkAssumption ==
  /\ Kinds \subseteq {"docker", "provider", "chat"}
  /\ MaxAttempts \in Nat \ {0}

Verdicts == {"completed", "failed", "callback_timeout"}
None == "none"

VARIABLES
  kind,     \* of the one piece of work
  cp,       \* its status in the control plane
  pending,  \* an agent run is canceled there, and nobody has acknowledged it
  acked,    \* it received the acknowledgement
  asked,    \* history: someone cancelled the work in the control plane
  pc,       \* where the runner's goroutine is
  tries,    \* failed attempts of the callback it is making
  ctx,      \* taskCtx: live, or what ended it first
  result,   \* what the executor returned
  verdict,  \* the status it reports
  stop,     \* the channel stopReason
  hb,       \* where the heartbeat goroutine is, and what it was told
  ext,      \* the remote run of a chat
  shutdown  \* the runner's context is done

external == <<cp, pending, acked, asked>>
local == <<result, verdict, stop, ext>>
vars == <<kind, external, pc, tries, ctx, local, hb, shutdown>>

Cancelled == {"canceling", "canceled"}
Final == Verdicts \cup {"canceled"}

\* shouldStopLocalExecution, and shouldStopDockerExecution.
Stops(status) == status \in Final \/ (kind = "docker" /\ status = "canceling")

Quiet == [pc |-> "off", told |-> None]
Started == [Quiet EXCEPT !.pc = "waiting"]

Init ==
  /\ kind \in Kinds
  /\ cp = "running"
  /\ pending = FALSE /\ acked = FALSE /\ asked = FALSE
  /\ pc = "claimed" /\ tries = 0
  /\ ctx = "live" /\ shutdown = FALSE
  /\ result = None /\ verdict = None /\ stop = None /\ ext = None
  /\ hb = Quiet

-----------------------------------------------------------------------------
(* The control plane.                                                      *)

\* A Docker operation waits for the acknowledgement in "canceling"; an agent run is
\* canceled at once, and marked as pending.
Cancel ==
  /\ cp = "running"
  /\ cp' = IF kind = "docker" THEN "canceling" ELSE "canceled"
  /\ pending' = (kind # "docker")
  /\ asked' = TRUE
  /\ UNCHANGED <<kind, acked, pc, tries, ctx, local, hb, shutdown>>

\* It gives up on work it has not heard of for too long.
Expire ==
  /\ cp \in {"running", "canceling"}
  /\ cp' = "callback_timeout"
  /\ UNCHANGED <<kind, pending, acked, asked, pc, tries, ctx, local, hb, shutdown>>

\* It records a report of work that is not over.
Records(status) ==
  /\ cp' = IF cp \in Final THEN cp ELSE status
  /\ UNCHANGED <<pending, acked, asked>>

\* It records an acknowledgement, which ends the cancellation.
RecordsAck ==
  /\ cp' = IF cp \in Final THEN cp ELSE "canceled"
  /\ acked' = TRUE /\ pending' = FALSE
  /\ UNCHANGED asked

-----------------------------------------------------------------------------
(* withCallbackRetry: an attempt is answered, or fails on its way there or  *)
(* back; a context that is done ends the retries.                           *)

\* The context that the callback at hand runs under is done.
CallbackContextDone ==
  \/ pc = "start" /\ kind = "docker" /\ ctx # "live"
  \/ pc = "ack" /\ kind # "docker" /\ shutdown
  \/ pc \in {"start", "final"} /\ shutdown

\* Mutant: one attempt more than configured.
RetryOnceMore == tries < MaxAttempts /\ ~CallbackContextDone

CanRetry == tries + 1 < MaxAttempts /\ ~CallbackContextDone

\* What the control plane does with the callback at hand when it receives it.
Receive ==
  CASE pc = "start" -> UNCHANGED external
    [] pc = "final" -> Records(verdict)
    [] pc = "ack"   -> RecordsAck

\* Where the goroutine goes on when no attempt was answered.  A Docker operation
\* whose start is not confirmed is not executed; an agent run is.
GiveUp == IF pc = "start" /\ kind # "docker" THEN "exec" ELSE "lost"

\* The acknowledgement of a Docker operation has finalCallbackContext's time limit.
FinalContextExpires == pc = "ack" /\ kind = "docker"

Attempting == pc \in {"start", "final", "ack"}

AttemptFails(received) ==
  /\ Attempting
  /\ received => ~CallbackContextDone
  /\ IF received THEN Receive ELSE UNCHANGED external
  /\ \/ CanRetry /\ tries' = tries + 1 /\ UNCHANGED <<pc, hb>>
     \/ /\ ~CanRetry \/ FinalContextExpires
        /\ tries' = 0 /\ pc' = GiveUp
        /\ hb' = IF GiveUp = "exec" THEN Started ELSE hb
  /\ UNCHANGED <<kind, ctx, local, shutdown>>

-----------------------------------------------------------------------------
(* The runner's goroutine.                                                 *)

\* A secret lease that is not redeemed, or an operation that is not allow-listed.
Refuse ==
  /\ pc = "claimed"
  /\ pc' = "final" /\ verdict' = "failed"
  /\ UNCHANGED <<kind, external, tries, ctx, result, stop, ext, hb, shutdown>>

Announce ==
  /\ pc = "claimed"
  /\ pc' = "start"
  /\ UNCHANGED <<kind, external, tries, ctx, local, hb, shutdown>>

\* Mutant: any status that stops the work is acknowledged as a cancellation.
AcknowledgesAll(status) == "ack"

\* acknowledgeAgentCancellation, acknowledgeDockerCancellation: a status that is not
\* a cancellation ends the work without a word.
Acknowledges(status) == IF status \in Cancelled THEN "ack" ELSE "over"

\* The start was received and answered with the status of that moment.
StartAnswered ==
  /\ pc = "start" /\ ~CallbackContextDone
  /\ pc' = IF Stops(cp) THEN Acknowledges(cp) ELSE "exec"
  /\ tries' = 0
  /\ hb' = IF Stops(cp) THEN hb ELSE Started
  /\ UNCHANGED <<kind, external, ctx, local, shutdown>>

\* Mutant: the remote run is not asked to stop.
ReturnsAtOnce(outcome) ==
  /\ pc = "exec"
  /\ outcome = "ok" => (kind = "chat" => ext = "done")
  /\ outcome = "canceled" => (kind = "chat" /\ ext = "cancelled")
  /\ result' = outcome
  /\ pc' = "drain"
  /\ UNCHANGED <<kind, external, tries, ctx, verdict, stop, ext, hb, shutdown>>

\* The executor returns: its commands are over, or were stopped with their context.
\* A chat that has not completed asks the remote run to stop first.
ExecReturns(outcome) ==
  /\ pc = "exec"
  /\ outcome = "ok" => (kind = "chat" => ext = "done")
  /\ outcome = "canceled" => (kind = "chat" /\ ext = "cancelled")
  /\ result' = outcome
  /\ pc' = IF ext \in {"running", "done", "cancelled"} /\ outcome # "ok" THEN "stopping" ELSE "drain"
  /\ UNCHANGED <<kind, external, tries, ctx, verdict, stop, ext, hb, shutdown>>

\* A callback within the chat is answered with a status that stops it.
PublishStopped ==
  /\ pc = "exec" /\ kind = "chat" /\ ext = "running" /\ ctx = "live"
  /\ Stops(cp)
  /\ result' = "canceled" /\ pc' = "stopping"
  /\ UNCHANGED <<kind, external, tries, ctx, verdict, stop, ext, hb, shutdown>>

\* drainStopReason, after done was closed.
Drain ==
  /\ pc = "drain"
  /\ pc' = IF stop # None THEN Acknowledges(stop) ELSE "finish"
  /\ UNCHANGED <<kind, external, tries, ctx, local, hb, shutdown>>

\* The verdict.  A chat whose context was cancelled is left without one: whoever
\* cancelled it is expected to know.
Finish ==
  /\ pc = "finish"
  /\ IF kind = "chat" /\ ctx = "canceled"
     THEN pc' = "over" /\ UNCHANGED verdict
     ELSE /\ pc' = "final"
          /\ verdict' = CASE result = "ok" -> "completed"
                          [] result # "ok" /\ ctx = "deadline" -> "callback_timeout"
                          [] result = "canceled" /\ ctx # "deadline" -> "canceled"
                          [] OTHER -> "failed"
  /\ UNCHANGED <<kind, external, tries, ctx, result, stop, ext, hb, shutdown>>

\* Mutant: the answer to the final report is not looked at.
FinalAnsweredUnread ==
  /\ pc = "final" /\ ~CallbackContextDone
  /\ Records(verdict)
  /\ pc' = "over" /\ tries' = 0
  /\ UNCHANGED <<kind, ctx, local, hb, shutdown>>

\* The report is answered.  agentRunCallback looks at the answer: a run that was
\* canceled meanwhile, and waits for it, is acknowledged after all.
FinalAnswered ==
  /\ pc = "final" /\ ~CallbackContextDone
  /\ Records(verdict)
  /\ pc' = IF kind # "docker" /\ cp' = "canceled" /\ pending THEN "ack" ELSE "over"
  /\ tries' = 0
  /\ UNCHANGED <<kind, ctx, local, hb, shutdown>>

AckAnswered ==
  /\ pc = "ack" /\ ~CallbackContextDone
  /\ RecordsAck
  /\ pc' = "over" /\ tries' = 0
  /\ UNCHANGED <<kind, ctx, local, hb, shutdown>>

-----------------------------------------------------------------------------
(* The remote run of a chat, executeChatProviderRun.                       *)

\* The run is submitted.  When the answer is lost, or the control plane does not
\* take the run's identity, the executor fails; without an identity it cannot stop it.
Submit ==
  /\ pc = "exec" /\ kind = "chat" /\ ext = None /\ ctx = "live"
  /\ ext' \in {"running", "orphan"}
  /\ UNCHANGED <<kind, external, pc, tries, ctx, result, verdict, stop, hb, shutdown>>

\* It completes, or somebody cancels it there.
RemoteEnds ==
  /\ ext = "running" /\ pc = "exec"
  /\ ext' \in {"done", "cancelled"}
  /\ UNCHANGED <<kind, external, pc, tries, ctx, result, verdict, stop, hb, shutdown>>

\* The deferred request to stop; nobody looks whether it succeeded.
StopRemote ==
  /\ pc = "stopping"
  /\ pc' = "drain"
  /\ ext' \in IF ext = "running" THEN {"stopped", "stopLost"} ELSE {ext}
  /\ UNCHANGED <<kind, external, tries, ctx, result, verdict, stop, hb, shutdown>>

-----------------------------------------------------------------------------
(* The heartbeat goroutine, and what ends taskCtx.  It may take one more tick *)
(* when the tick and the end of its wait are both there.                      *)

Ended == pc \in {"over", "lost"}
DoneClosed == pc \in {"drain", "finish", "final", "ack"}

\* The answer of a heartbeat that stops the work is on its way.
HeartbeatAnswered ==
  /\ hb.pc = "waiting" /\ ctx = "live" /\ ~Ended
  /\ Stops(cp)
  /\ hb' = [pc |-> "told", told |-> cp]
  /\ UNCHANGED <<kind, external, pc, tries, ctx, local, shutdown>>

\* Mutant: the heartbeat acknowledges what it is told.
HeartbeatAcknowledges ==
  /\ hb.pc = "told" /\ ~Ended
  /\ stop' = IF stop = None THEN hb.told ELSE stop
  /\ IF hb.told \in Cancelled THEN RecordsAck ELSE UNCHANGED external
  /\ hb' = [hb EXCEPT !.pc = "marked"]
  /\ UNCHANGED <<kind, pc, tries, ctx, result, verdict, ext, shutdown>>

HeartbeatTells ==
  /\ hb.pc = "told" /\ ~Ended
  /\ stop' = IF stop = None THEN hb.told ELSE stop
  /\ hb' = [hb EXCEPT !.pc = "marked"]
  /\ UNCHANGED <<kind, external, pc, tries, ctx, result, verdict, ext, shutdown>>

HeartbeatCancels ==
  /\ hb.pc = "marked" /\ ~Ended
  /\ ctx' = IF ctx = "live" THEN "canceled" ELSE ctx
  /\ hb' = [hb EXCEPT !.pc = "gone"]
  /\ UNCHANGED <<kind, external, pc, tries, local, shutdown>>

HeartbeatStops ==
  /\ hb.pc = "waiting" /\ (ctx # "live" \/ DoneClosed)
  /\ hb' = [hb EXCEPT !.pc = "gone"]
  /\ UNCHANGED <<kind, external, pc, tries, ctx, local, shutdown>>

\* A Docker operation's time runs from its announcement on.
Deadline ==
  /\ ctx = "live"
  /\ pc \in {"exec", "stopping", "drain", "finish"} \/ (kind = "docker" /\ pc = "start")
  /\ ctx' = "deadline"
  /\ UNCHANGED <<kind, external, pc, tries, local, hb, shutdown>>

Shutdown ==
  /\ ~shutdown /\ shutdown' = TRUE
  /\ ctx' = IF ctx = "live" THEN "canceled" ELSE ctx
  /\ UNCHANGED <<kind, external, pc, tries, local, hb>>

RunnerStep ==
  \/ Refuse \/ Announce \/ StartAnswered
  \/ \E outcome \in {"ok", "error", "canceled"} : ExecReturns(outcome)
  \/ PublishStopped \/ StopRemote
  \/ Drain \/ Finish \/ FinalAnswered \/ AckAnswered
  \/ \E received \in BOOLEAN : AttemptFails(received)

Next ==
  \/ RunnerStep
  \/ Submit \/ RemoteEnds
  \/ HeartbeatAnswered \/ HeartbeatTells \/ HeartbeatCancels \/ HeartbeatStops
  \/ Deadline \/ Shutdown
  \/ Cancel \/ Expire

\* The runner's goroutine goes on: a request ends within its timeout, and an executor
\* returns at the latest some time after the deadline of its context.
Spec == Init /\ [][Next]_vars /\ WF_vars(RunnerStep)

-----------------------------------------------------------------------------
\* The types, and the bound on attempts.
TypeOK ==
  /\ kind \in Kinds
  /\ cp \in {"running", "canceling"} \cup Final
  /\ pending \in BOOLEAN /\ acked \in BOOLEAN /\ asked \in BOOLEAN
  /\ pc \in {"claimed", "start", "exec", "stopping", "drain", "finish", "final", "ack",
              "over", "lost"}
  /\ tries \in 0..(MaxAttempts - 1)
  /\ ctx \in {"live", "deadline", "canceled"}
  /\ result \in {None, "ok", "error", "canceled"}
  /\ verdict \in {None} \cup Final
  /\ pc = "final" => verdict # None
  /\ stop \in {None, "canceling"} \cup Final
  /\ hb \in [pc : {"off", "waiting", "told", "marked", "gone"},
             told : {None, "canceling"} \cup Final]
  /\ ext \in {None, "running", "orphan", "done", "cancelled", "stopped", "stopLost"}
  /\ shutdown \in BOOLEAN

\* The runner acknowledges a cancellation when its commands have stopped ("runner
\* acknowledged before command exited" is what the tests look for), and has asked a
\* remote run that it knows of to stop.
AckMeansStopped == acked => pc \notin {"exec", "stopping", "drain"} /\ ext # "running"

\* Work ends as canceled in the control plane only when somebody asked to cancel it,
\* there or, for a chat, at the remote agent: not when its time is over or it fails.
CanceledOnlyIfAsked ==
  /\ acked => asked
  /\ cp = "canceled" => asked \/ ext = "cancelled"

\* A cancellation does not stay open: however it races with the end of the work, the
\* runner acknowledges it or reports, unless the runner stops or its callback is lost.
Open == cp = "canceling" \/ pending
Closed == ~Open \/ pc = "lost" \/ shutdown
CancelAnswered == kind # "chat" => (Open ~> Closed)

\* The same of a chat.
ChatCancelAnswered == kind = "chat" => (Open ~> Closed)

=============================================================================
