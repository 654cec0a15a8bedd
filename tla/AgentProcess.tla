---------------------------- MODULE AgentProcess ----------------------------
(***************************************************************************)
(* The life of the two programs.  The agent builds its parts, starts the   *)
(* loops of the runner before the rest is built, serves its HTTP API until *)
(* a signal or the end of the server, and shuts down within ten seconds.   *)
(* The personal guest runs its client and its runtime side by side: the    *)
(* end of either cancels the other, and both are waited for.               *)
(***************************************************************************)
EXTENDS Naturals

CONSTANT MaxRequests   \* bound: handlers in flight

VARIABLES
  main,       \* build, started (the loops run), select, stopping, draining, exited
  code,       \* the exit code
  signaled,   \* SIGINT or SIGTERM has arrived
  canceled,   \* the context of the agent's parts is canceled
  loops,      \* the loops of the runner: off, running, ended
  server,     \* off, serving, failed, closed
  serving,    \* the goroutine of Run: off, listening, leaving, returned
  collector,  \* of personal environments: off, sweeping, waiting, ended
  swept,      \* the context of the collector is canceled
  requests,   \* handlers that have not returned
  guest,      \* the guest's program: running, leaving, closed
  client,     \* the guest's client: running or ended
  brokers     \* the guest's runtime: running or ended

agent == <<main, code, signaled, canceled, loops, server, serving, collector, swept, requests>>
guestVars == <<guest, client, brokers>>
vars == <<agent, guestVars>>

Init ==
  /\ main = "build" /\ code = 0 /\ signaled = FALSE /\ canceled = FALSE
  /\ loops = "off" /\ server = "off" /\ serving = "off"
  /\ collector = "off" /\ swept = FALSE /\ requests = 0
  /\ guest = "running" /\ client = "running" /\ brokers = "running"

Exits(c) == main' = "exited" /\ code' = c

-----------------------------------------------------------------------------
(* The agent.                                                              *)

\* Configuration, logger and the Kubernetes client; then the runner is started.
Build ==
  /\ main = "build"
  /\ \/ main' = "started" /\ loops' = "running" /\ UNCHANGED <<code, canceled>>
     \/ Exits(1) /\ canceled' = TRUE /\ UNCHANGED loops
  /\ UNCHANGED <<signaled, server, serving, collector, swept, requests, guestVars>>

\* The session is refused when the loops already run, or the API is served.
FinishBuild ==
  /\ main = "started"
  /\ \/ main' = "select" /\ server' = "serving" /\ serving' = "listening" /\ UNCHANGED <<code, canceled>>
     \/ Exits(1) /\ canceled' = TRUE /\ UNCHANGED <<server, serving>>
  /\ collector' \in IF main' = "select" THEN {"off", "sweeping"} ELSE {collector}
  /\ UNCHANGED <<signaled, loops, swept, requests, guestVars>>

Signal ==
  /\ ~signaled /\ main # "exited"
  /\ signaled' = TRUE
  /\ UNCHANGED <<main, code, canceled, loops, server, serving, collector, swept, requests, guestVars>>

\* The context that NotifyContext made is the parent of the parts' context.
Over == signaled \/ canceled

LoopsEnd ==
  /\ loops = "running" /\ Over
  /\ loops' = "ended"
  /\ UNCHANGED <<main, code, signaled, canceled, server, serving, collector, swept, requests, guestVars>>

\* A request comes in, or its handler returns; some follow a log for half an hour.
Request ==
  /\ main # "exited"
  /\ \/ server = "serving" /\ requests < MaxRequests /\ requests' = requests + 1
     \/ requests > 0 /\ requests' = requests - 1
  /\ UNCHANGED <<main, code, signaled, canceled, loops, server, serving, collector, swept, guestVars>>

\* The address is taken, or the listener breaks.
ServerFails ==
  /\ server = "serving" /\ main # "exited"
  /\ server' = "failed" /\ serving' = "leaving"
  /\ UNCHANGED <<main, code, signaled, canceled, loops, collector, swept, requests, guestVars>>

\* Mutant: Run returns and leaves its collector to itself.
LeavesCollector == TRUE

\* The deferred call of Run: it cancels the collector and waits for it.
CollectorEnded == collector \in {"off", "ended"}

RunReturns ==
  /\ serving = "leaving" /\ main # "exited"
  /\ swept' = TRUE
  /\ serving' = IF CollectorEnded THEN "returned" ELSE serving
  /\ UNCHANGED <<main, code, signaled, canceled, loops, server, collector, requests, guestVars>>

\* collectPersonalEnvironments: a sweep every minute; a sweep is not begun after the end.
Collect ==
  /\ main # "exited"
  /\ \/ collector = "sweeping" /\ collector' = "waiting"
     \/ collector = "waiting" /\ ~swept /\ collector' = "sweeping"
     \/ collector = "waiting" /\ swept /\ collector' = "ended"
  /\ UNCHANGED <<main, code, signaled, canceled, loops, server, serving, swept, requests, guestVars>>

\* main takes what is ready: the signal, or the end of Run.
Select ==
  /\ main = "select"
  /\ \/ signaled /\ UNCHANGED code
     \/ serving = "returned" /\ code' = (IF server = "failed" THEN 1 ELSE 0)
  /\ main' = "stopping"
  /\ UNCHANGED <<signaled, canceled, loops, server, serving, collector, swept, requests, guestVars>>

\* Shutdown: the parts are canceled, the sessions closed, and the listener with them.
Shutdown ==
  /\ main = "stopping"
  /\ canceled' = TRUE /\ swept' = TRUE
  /\ main' = "draining"
  /\ IF server = "serving" THEN server' = "closed" /\ serving' = "leaving"
     ELSE UNCHANGED <<server, serving>>
  /\ UNCHANGED <<code, signaled, loops, collector, requests, guestVars>>

\* Mutant: the handlers are not waited for.
AnyRequests == TRUE

AllAnswered == requests = 0

\* The handlers have returned; nobody waits for the loops, nor for what they have in hand.
ShutdownDone ==
  /\ main = "draining" /\ AllAnswered
  /\ Exits(code)
  /\ UNCHANGED <<signaled, canceled, loops, server, serving, collector, swept, requests, guestVars>>

\* Ten seconds are over.
ShutdownFails ==
  /\ main = "draining" /\ requests > 0
  /\ Exits(1)
  /\ UNCHANGED <<signaled, canceled, loops, server, serving, collector, swept, requests, guestVars>>

-----------------------------------------------------------------------------
(* The guest's program.                                                    *)

\* Either ends by itself, or because the other has.
PartEnds ==
  /\ \/ client = "running" /\ client' = "ended" /\ UNCHANGED brokers
     \/ brokers = "running" /\ brokers' = "ended" /\ UNCHANGED client
  /\ UNCHANGED <<agent, guest>>

\* The first result cancels the rest.
FirstResult ==
  /\ guest = "running" /\ "ended" \in {client, brokers}
  /\ guest' = "leaving"
  /\ UNCHANGED <<agent, client, brokers>>

\* Mutant: the first result ends the program.
OneEnded == "ended" \in {client, brokers}

\* Both results are read before the client is closed and its key forgotten.
BothEnded == client = "ended" /\ brokers = "ended"

SecondResult ==
  /\ guest = "leaving" /\ BothEnded
  /\ guest' = "closed"
  /\ UNCHANGED <<agent, client, brokers>>

Next ==
  \/ Build \/ FinishBuild \/ Signal \/ LoopsEnd \/ Request \/ ServerFails \/ RunReturns
  \/ Collect \/ Select \/ Shutdown \/ ShutdownDone \/ ShutdownFails
  \/ PartEnds \/ FirstResult \/ SecondResult

\* The goroutines run; a sweep of the collector has timeouts, the shutdown has ten seconds,
\* and the parts of the guest end when they are canceled.
Fairness ==
  /\ WF_vars(Build) /\ WF_vars(FinishBuild) /\ WF_vars(RunReturns)
  /\ WF_vars(Collect) /\ WF_vars(Select) /\ WF_vars(Shutdown)
  /\ WF_vars(ShutdownDone \/ ShutdownFails)
  /\ WF_vars(PartEnds /\ guest = "leaving") /\ WF_vars(FirstResult) /\ WF_vars(SecondResult)

Spec == Init /\ [][Next]_vars /\ Fairness

-----------------------------------------------------------------------------
\* An agent that leaves without an error has answered every request, and one whose server
\* failed has no sweep of the collector in the middle; the guest's key is not forgotten under
\* a part that uses it.
LeavesNothing ==
  /\ main = "exited" /\ code = 0 => requests = 0
  /\ main = "exited" /\ server = "failed" /\ ~signaled => collector \in {"off", "ended"}
  /\ guest = "closed" => client = "ended" /\ brokers = "ended"

\* A signal or the end of the server ends the agent, and the end of a part ends the guest.
ProgramsEnd ==
  /\ signaled \/ server = "failed" ~> main = "exited"
  /\ "ended" \in {client, brokers} ~> guest = "closed"

=============================================================================
