------------------------------ MODULE SshStream ------------------------------
(***************************************************************************)
(* One SSH session that is carried over a websocket: the handler, and the  *)
(* three goroutines between the client and the remote shell.               *)
(*                                                                         *)
(* The pipe that carries the output has no buffer: the exit of the shell   *)
(* is known when all its output was read.                                  *)
(***************************************************************************)
EXTENDS Naturals

CONSTANT MaxChunks  \* pieces of output of the shell

VARIABLES
  main,     \* the handler: where it stands
  input, output, wait,  \* its goroutines
  shell,    \* the remote shell and its connection: running, exited or closed
  made, read, sent,     \* pieces of output: written by the shell, read from the pipe, sent on
  pipe,     \* the pipe is open for writing
  conn,     \* the websocket: open, broken by the client, or closed
  told      \* the exit was sent: after the output, or late

vars == <<main, input, output, wait, shell, made, read, sent, pipe, conn, told>>

None == "none"

Init ==
  /\ main = "select" /\ input = "read" /\ output = "read" /\ wait = "wait"
  /\ shell = "running" /\ made = 0 /\ read = 0 /\ sent = 0
  /\ pipe = TRUE /\ conn = "open" /\ told = None

-----------------------------------------------------------------------------
ShellWrites ==
  /\ shell = "running" /\ pipe /\ made = read /\ made < MaxChunks
  /\ made' = made + 1
  /\ UNCHANGED <<main, input, output, wait, shell, read, sent, pipe, conn, told>>

ShellExits ==
  /\ shell = "running"
  /\ shell' = "exited"
  /\ UNCHANGED <<main, input, output, wait, made, read, sent, pipe, conn, told>>

\* The context ends: the connection to the host is closed.
ContextEnds ==
  /\ shell # "closed"
  /\ shell' = "closed"
  /\ UNCHANGED <<main, input, output, wait, made, read, sent, pipe, conn, told>>

\* The client leaves, or sends what is not understood; only the first stops the writes.
ClientLeaves ==
  /\ conn = "open"
  /\ conn' = "broken"
  /\ UNCHANGED <<main, input, output, wait, shell, made, read, sent, pipe, told>>

ReadInput ==
  /\ input = "read"
  /\ input' = "done"
  /\ UNCHANGED <<main, output, wait, shell, made, read, sent, pipe, conn, told>>

OutputReads ==
  /\ output = "read"
  /\ \/ read < made /\ pipe /\ read' = made /\ output' = "write"
     \/ ~pipe /\ output' = "done" /\ UNCHANGED read
  /\ UNCHANGED <<main, input, wait, shell, made, sent, pipe, conn, told>>

OutputWrites ==
  /\ output = "write"
  /\ IF conn = "open" THEN sent' = read /\ output' = "read" ELSE output' = "done" /\ UNCHANGED sent
  /\ UNCHANGED <<main, input, wait, shell, made, read, pipe, conn, told>>

\* The session's wait returns when the shell is over and its output was read, or the pipe
\* is closed.
WaitReturns ==
  /\ wait = "wait" /\ shell # "running" /\ (read = made \/ ~pipe)
  /\ wait' = "done" /\ pipe' = FALSE
  /\ UNCHANGED <<main, input, output, shell, made, read, sent, conn, told>>

Selects ==
  /\ main = "select"
  /\ \/ input = "done" /\ main' = "close"
     \/ shell = "closed" /\ main' = "close"
     \/ wait = "done" /\ main' = "terminal"
     \/ output = "done" /\ main' \in (IF wait = "done" THEN {"terminal", "close"} ELSE {"close"})
  /\ UNCHANGED <<input, output, wait, shell, made, read, sent, pipe, conn, told>>

\* Mutant: closing the terminal leaves its pipe open.
CloseConnection == shell' = "closed" /\ UNCHANGED pipe

\* SSHPTY.Close: the connection and the pipe, so that nobody waits for output to be read.
ClosePTY == shell' = "closed" /\ pipe' = FALSE

ClosesPTY ==
  /\ main \in {"close", "terminal"}
  /\ ClosePTY
  /\ main' = IF main = "close" THEN "drain" ELSE "drain and tell"
  /\ UNCHANGED <<input, output, wait, made, read, sent, conn, told>>

\* Mutant: the exit is sent at once.
WithoutDraining == main = "drain and tell"

Drained == main = "drain and tell" /\ output = "done"

Tells ==
  /\ Drained
  /\ told' = IF conn = "open" THEN "exit" ELSE told
  /\ main' = "hang up"
  /\ UNCHANGED <<input, output, wait, shell, made, read, sent, pipe, conn>>

\* Ten seconds without the end of the output.
TellsLate ==
  /\ main = "drain and tell" /\ output = "write"
  /\ told' = IF conn = "open" THEN "late" ELSE told
  /\ main' = "hang up"
  /\ UNCHANGED <<input, output, wait, shell, made, read, sent, pipe, conn>>

\* Without an exit to tell it does not wait longer than ten seconds for the output.
HangsUp ==
  /\ main = "hang up" \/ main = "drain"
  /\ conn' = "closed"
  /\ main' = "done"
  /\ UNCHANGED <<input, output, wait, shell, made, read, sent, pipe, told>>

Next ==
  \/ ReadInput \/ OutputReads \/ OutputWrites \/ WaitReturns
  \/ Selects \/ ClosesPTY \/ Tells \/ TellsLate \/ HangsUp
  \/ ShellWrites \/ ShellExits \/ ContextEnds \/ ClientLeaves

\* Every goroutine of the stream runs on; neither the shell nor the client has to do anything.
Fairness ==
  /\ WF_vars(ReadInput /\ conn # "open") /\ WF_vars(OutputReads) /\ WF_vars(OutputWrites)
  /\ WF_vars(WaitReturns) /\ WF_vars(Selects) /\ WF_vars(ClosesPTY)
  /\ WF_vars(Tells) /\ WF_vars(HangsUp)

Spec == Init /\ [][Next]_vars /\ Fairness

-----------------------------------------------------------------------------
\* The client that learns of the exit has all the output before it, unless the ten seconds
\* were over ("SSH shell exited").
ExitFollowsOutput == told = "exit" => sent = made

\* When the shell has exited, the client has left or the context is over, the stream and
\* all its goroutines end.
ShellStreamEnds ==
  shell # "running" \/ conn # "open" ~>
    main = "done" /\ input = "done" /\ output = "done" /\ wait = "done"

=============================================================================
