---------------------------- MODULE DockerRuntime ----------------------------
(***************************************************************************)
(* The Docker runtime routes of the HTTP API.  Every request writes the    *)
(* project's compose file into a directory of its own, runs a docker       *)
(* command there and removes the directory: a terminal in a service, a     *)
(* log that is followed, or a command that is given 30 seconds.  What is   *)
(* read from a volume is a path that the request names.                    *)
(*                                                                         *)
(* The terminal's output passes through two goroutines that nobody waits   *)
(* for, and cmd.Wait closes the pipes that they read: the end of the       *)
(* output may be lost.                                                     *)
(***************************************************************************)
EXTENDS Naturals, Sequences, SequencesExt

CONSTANTS
  MaxChunks,   \* chunks of output the command writes
  MaxInput,    \* messages of the terminal's client
  PipeRoom,    \* chunks a pipe holds
  Targets,     \* where volumes may be mounted: sequences of names
  Inner        \* paths that a request may name: sequences of names and ".."

VARIABLES
  kind,        \* terminal, stream or once
  volumes,     \* targets that the compose file and the configuration declare, in order
  opened,      \* the path that was read in the container, or none
  handler,     \* init, prepare, start, waiting, closing, over
  dir,         \* the request's directory is there
  cmd,         \* none, running, killed (its context has ended), exited
  made,        \* chunks of output made so far
  pipe,        \* chunks in the pipe
  held,        \* the output goroutine: reading, holding a chunk, done
  told,        \* what the client was sent
  input,       \* the input goroutine: off, reading, writing, done
  typed,       \* messages of the client
  stdin,       \* chunks that the command has not read
  client       \* there or gone

request == <<kind, volumes>>
output == <<made, pipe, held>>
inputVars == <<input, typed, stdin>>
vars == <<request, opened, handler, dir, cmd, output, told, inputVars, client>>

None == <<>>

Init ==
  /\ kind \in {"terminal", "stream", "once"}
  /\ volumes \in [1..2 -> Targets]
  /\ opened = None /\ handler = "init" /\ dir = FALSE /\ cmd = "none"
  /\ made = 0 /\ pipe = 0 /\ held = "reading" /\ told = <<>>
  /\ input = "off" /\ typed = 0 /\ stdin = 0 /\ client = "there"

-----------------------------------------------------------------------------
(* What a request names.                                                   *)

\* path.Clean("/" + value): ".." stops at the root.
After(at, name) ==
  IF name # ".." THEN Append(at, name) ELSE IF at = <<>> THEN at ELSE Front(at)

Clean(path) ==
  LET at[n \in 0..Len(path)] == IF n = 0 THEN <<>> ELSE After(at[n - 1], path[n])
  IN at[Len(path)]

\* dockerRuntimeProjectVolumes: each target once, and never the root of the container.
ProjectVolumes == {Clean(volumes[i]) : i \in DOMAIN volumes} \ {<<>>}

\* Mutant: the path is joined as it was sent.
JoinedAsSent(target, inner) == Clean(target \o inner)

\* joinDockerRuntimeContainerPath: the inner path is cleaned on its own first.
ContainerPath(target, inner) == target \o Clean(inner)

-----------------------------------------------------------------------------
(* The handler.                                                            *)

\* The payload cannot be read, or names a service that the compose file has not.
Refuse ==
  /\ handler = "init"
  /\ handler' = "over"
  /\ UNCHANGED <<request, opened, dir, cmd, output, told, inputVars, client>>

\* A volume that is browsed is one of the project's.
Accept ==
  /\ handler = "init"
  /\ \/ UNCHANGED opened
     \/ kind = "once" /\ \E target \in Targets, inner \in Inner :
          /\ Clean(target) \in ProjectVolumes
          /\ opened' = ContainerPath(Clean(target), inner)
  /\ handler' = "prepare"
  /\ UNCHANGED <<request, dir, cmd, output, told, inputVars, client>>

\* prepareDockerRuntimeWorkspace; what a failure leaves is removed at once.
Prepare ==
  /\ handler = "prepare"
  /\ \/ handler' = "start" /\ dir' = TRUE
     \/ handler' = "over" /\ UNCHANGED dir
  /\ UNCHANGED <<request, opened, cmd, output, told, inputVars, client>>

\* The command starts, or cannot be started.
Start ==
  /\ handler = "start"
  /\ \/ /\ cmd' = "running" /\ handler' = "waiting"
        /\ input' = IF kind = "terminal" THEN "reading" ELSE input
     \/ handler' = "closing" /\ UNCHANGED <<cmd, input>>
  /\ UNCHANGED <<request, opened, dir, output, told, typed, stdin, client>>

\* The context of the command ends: it is killed.
Cancels == cmd' = IF cmd = "running" THEN "killed" ELSE cmd

\* The client of a stream or of a command leaves, or the 30 seconds are over.  A terminal's
\* connection is hijacked: the context of its request does not end with the client.
RequestEnds ==
  /\ kind # "terminal" /\ handler = "waiting"
  /\ client = "gone" \/ kind = "once"
  /\ Cancels
  /\ UNCHANGED <<request, opened, handler, dir, output, told, inputVars, client>>

CommandWrites ==
  /\ cmd = "running" /\ made < MaxChunks /\ pipe < PipeRoom
  /\ made' = made + 1 /\ pipe' = pipe + 1
  /\ UNCHANGED <<request, opened, handler, dir, cmd, held, told, inputVars, client>>

CommandReads ==
  /\ cmd = "running" /\ stdin > 0
  /\ stdin' = stdin - 1
  /\ UNCHANGED <<request, opened, handler, dir, cmd, output, told, input, typed, client>>

CommandEnds ==
  /\ cmd = "running"
  /\ cmd' = "exited"
  /\ UNCHANGED <<request, opened, handler, dir, output, told, inputVars, client>>

\* cmd.Wait has the command's exit.  The terminal does not wait for its readers: Wait closes
\* the pipes under them.  The other commands write to the answer, and Wait waits for all of it.
WaitReturns ==
  /\ handler = "waiting" /\ cmd \in {"killed", "exited"}
  /\ kind # "terminal" => pipe = 0 /\ held = "reading"
  /\ cmd' = "exited" /\ pipe' = 0
  /\ held' = IF kind = "terminal" /\ held = "reading" THEN "done" ELSE held
  /\ handler' = "closing"
  /\ UNCHANGED <<request, opened, dir, made, told, inputVars, client>>

Says(message) == IF client = "there" THEN Append(told, message) ELSE told

\* pipeDockerRuntimeOutput, or the copy into the answer.
ReadOutput ==
  /\ held = "reading" /\ pipe > 0
  /\ held' = "holding" /\ pipe' = pipe - 1
  /\ UNCHANGED <<request, opened, handler, dir, cmd, made, told, inputVars, client>>

\* A client that is gone ends the goroutine of a terminal; what comes then is not read.
SendOutput ==
  /\ held = "holding"
  /\ IF handler = "over" THEN UNCHANGED told ELSE told' = Says("output")
  /\ held' = IF handler = "over" \/ (kind = "terminal" /\ client = "gone") THEN "done" ELSE "reading"
  /\ UNCHANGED <<request, opened, handler, dir, cmd, made, pipe, inputVars, client>>

\* Mutant: the directory of a request stays.
LeavesDir == UNCHANGED dir

RemovesDir == dir' = FALSE

\* The last message, and the deferred calls: the context is canceled, the directory removed,
\* the connection closed.
Return ==
  /\ handler = "closing"
  /\ told' = Says("end")
  /\ RemovesDir /\ handler' = "over"
  /\ UNCHANGED <<request, opened, cmd, output, inputVars, client>>

-----------------------------------------------------------------------------
(* The terminal's client.                                                  *)

ReadMessage ==
  /\ input = "reading" /\ client = "there" /\ typed < MaxInput /\ handler # "over"
  /\ typed' = typed + 1 /\ input' = "writing"
  /\ UNCHANGED <<request, opened, handler, dir, cmd, output, told, stdin, client>>

\* The pipe has room; or nobody can read it any more, and the context is canceled.
WriteInput ==
  /\ input = "writing"
  /\ IF cmd = "running"
     THEN stdin < PipeRoom /\ stdin' = stdin + 1 /\ input' = "reading" /\ UNCHANGED cmd
     ELSE input' = "done" /\ Cancels /\ UNCHANGED stdin
  /\ UNCHANGED <<request, opened, handler, dir, output, told, typed, client>>

\* Mutant: the command of a client that has gone runs on.
RunsOn == UNCHANGED cmd

CancelsCommand == Cancels

\* The client asks to close, or its connection cannot be read any more.
InputEnds ==
  /\ input = "reading"
  /\ input' = "done" /\ CancelsCommand
  /\ UNCHANGED <<request, opened, handler, dir, output, told, typed, stdin, client>>

ClientGoes ==
  /\ client = "there"
  /\ client' = "gone"
  /\ UNCHANGED <<request, opened, handler, dir, cmd, output, told, inputVars>>

Next ==
  \/ Refuse \/ Accept \/ Prepare \/ Start \/ RequestEnds
  \/ CommandWrites \/ CommandReads \/ CommandEnds \/ WaitReturns
  \/ ReadOutput \/ SendOutput \/ Return
  \/ ReadMessage \/ WriteInput \/ InputEnds \/ ClientGoes

\* The goroutines run, a killed command exits, and a connection that is gone or closed cannot
\* be read.  What the command does by itself is not assumed.
Fairness ==
  /\ WF_vars(Refuse \/ Accept) /\ WF_vars(Prepare) /\ WF_vars(Start) /\ WF_vars(RequestEnds)
  /\ WF_vars(WaitReturns) /\ WF_vars(ReadOutput) /\ WF_vars(SendOutput) /\ WF_vars(Return)
  /\ WF_vars(WriteInput) /\ WF_vars(InputEnds /\ (client = "gone" \/ handler = "over"))

Spec == Init /\ [][Next]_vars /\ Fairness

-----------------------------------------------------------------------------
\* A request that is over has left no directory and no command behind.
RequestsTidy == handler = "over" => ~dir /\ cmd \in {"none", "exited"}

\* A client that stays until the end of a log that is followed has all of it, and nothing
\* after the end.
AnswerComplete ==
  kind = "stream" /\ handler = "over" /\ client = "there" /\ cmd = "exited" =>
    Len(told) = made + 1 /\ Last(told) = "end"

\* What is read in the container is inside a volume of the project.
WithinVolumes ==
  opened # None =>
    \E i \in DOMAIN volumes : Clean(volumes[i]) # <<>> /\ IsPrefix(Clean(volumes[i]), opened)

\* The input of a terminal waits for a command that does not read it.
InputStuck == input = "writing" /\ cmd = "running" /\ stdin = PipeRoom

\* A request whose client has left comes to its end; the exception is a terminal whose input
\* is stuck.
RequestsEnd == client = "gone" ~> handler = "over" \/ InputStuck

\* The goroutines of a request that is over end.
ReadersEnd == handler = "over" ~> held # "holding" /\ input \in {"off", "done"}

=============================================================================
