----------------------------- MODULE PodStreams -----------------------------
(***************************************************************************)
(* Two streams that the HTTP API keeps between a client and pods: the      *)
(* stream of log events of several sources, and the terminal.              *)
(*                                                                         *)
(* Both are a handler among goroutines.  The sources of a log stream share *)
(* one bounded channel to the handler; the terminal's input goes through a *)
(* pipe without a buffer, which the Kubernetes client reads.               *)
(***************************************************************************)
EXTENDS Naturals, Sequences, FiniteSets

CONSTANTS
  Sources,  \* log sources of the stream
  MaxLines, \* lines of a source
  MaxInput, \* messages of the terminal's client
  Room      \* events the channel holds

VARIABLES
  handler,  \* the log handler: live, ended, or gone with its client
  over,     \* the half hour is over, or the request ended
  source,   \* the sources: reading, sending, done
  lines,    \* lines of each source that were put into the channel
  events,   \* the channel
  shown,    \* lines that the client got
  term,     \* the terminal's handler: streaming, joining, done
  exec,     \* the command in the pod: running or ended
  copier,   \* the Kubernetes client's reader of the input: reading or gone
  reader,   \* the goroutine that reads the client's messages: reading, writing, done
  typed,    \* messages of the client
  client    \* the terminal's client: there or gone

logs == <<handler, over, source, lines, events, shown>>
terminal == <<term, exec, copier, reader, typed, client>>
vars == <<logs, terminal>>

Init ==
  /\ handler = "live" /\ over = FALSE
  /\ source = [s \in Sources |-> "reading"]
  /\ lines = [s \in Sources |-> 0] /\ events = <<>> /\ shown = 0
  /\ term = "streaming" /\ exec = "running" /\ copier = "reading"
  /\ reader = "reading" /\ typed = 0 /\ client = "there"

-----------------------------------------------------------------------------
(* The log stream.                                                         *)

\* The handler's context ends with its half hour, its request, and its return.
Canceled == over \/ handler # "live"

TimeIsUp ==
  /\ ~over
  /\ over' = TRUE
  /\ UNCHANGED <<handler, source, lines, events, shown, terminal>>

\* A line that the filter lets through; or the source ends or fails, which is an event too.
SourceReads(s) ==
  /\ source[s] = "reading"
  /\ \/ lines[s] < MaxLines /\ source' = [source EXCEPT ![s] = "sending"]
     \/ source' \in {[source EXCEPT ![s] = pc] : pc \in {"done", "telling"}}
  /\ UNCHANGED <<handler, over, lines, events, shown, terminal>>

\* Mutant: the source waits for room and for nothing else.
NeverGivesUp(s) == FALSE

GivesUp(s) == Canceled

\* sendAggregateLogEvent.
SourceSends(s) ==
  /\ source[s] \in {"sending", "telling"}
  /\ \/ /\ Len(events) < Room
        /\ events' = Append(events, source[s])
        /\ lines' = [lines EXCEPT ![s] = IF source[s] = "sending" THEN @ + 1 ELSE @]
        /\ source' = [source EXCEPT ![s] = IF source[s] = "sending" THEN "reading" ELSE "done"]
     \/ GivesUp(s) /\ source' = [source EXCEPT ![s] = "done"] /\ UNCHANGED <<events, lines>>
  /\ UNCHANGED <<handler, over, shown, terminal>>

\* The wait for a line ends with the context.
SourceStops(s) ==
  /\ source[s] = "reading" /\ Canceled
  /\ source' = [source EXCEPT ![s] = "done"]
  /\ UNCHANGED <<handler, over, lines, events, shown, terminal>>

\* The next event is written, or the client is gone.
EmitEvent ==
  /\ handler = "live" /\ events # <<>>
  /\ events' = Tail(events)
  /\ \/ /\ shown' = (IF Head(events) = "sending" THEN shown + 1 ELSE shown)
        /\ UNCHANGED handler
     \/ handler' = "gone" /\ UNCHANGED shown
  /\ UNCHANGED <<over, source, lines, terminal>>

\* A heartbeat is not written: the client is gone.
HeartbeatFails ==
  /\ handler = "live"
  /\ handler' = "gone"
  /\ UNCHANGED <<over, source, lines, events, shown, terminal>>

\* Mutant: the channel is closed with the first source.
OneDone == \E s \in Sources : source[s] = "done"

\* The channel is closed when all sources are done.
AllDone == \A s \in Sources : source[s] = "done"

EndStream ==
  /\ handler = "live"
  /\ (events = <<>> /\ AllDone) \/ over
  /\ handler' = "ended"
  /\ UNCHANGED <<over, source, lines, events, shown, terminal>>

-----------------------------------------------------------------------------
(* The terminal.                                                           *)

\* The command ends by itself.
ShellEnds ==
  /\ exec = "running"
  /\ exec' = "ended"
  /\ UNCHANGED <<logs, term, copier, reader, typed, client>>

ClientGoes ==
  /\ client = "there"
  /\ client' = "gone"
  /\ UNCHANGED <<logs, term, exec, copier, reader, typed>>

ReadMessage ==
  /\ reader = "reading" /\ client = "there" /\ typed < MaxInput
  /\ typed' = typed + 1
  /\ reader' = "writing"
  /\ UNCHANGED <<logs, term, exec, copier, client>>

\* The reader of the pipe takes the input; after the command has ended it takes one message
\* more, fails to pass it on, and is gone.
WriteInput ==
  /\ reader = "writing" /\ copier = "reading"
  /\ reader' = "reading"
  /\ copier' = IF exec = "ended" THEN "gone" ELSE copier
  /\ UNCHANGED <<logs, term, exec, typed, client>>

\* Mutant: the reader ends without canceling the command.
LeavesCommand == UNCHANGED exec

CancelsCommand == exec' = "ended"

\* The client asks to close, or cannot be read any more.
ReaderEnds ==
  /\ reader = "reading"
  /\ reader' = "done" /\ CancelsCommand
  /\ UNCHANGED <<logs, term, copier, typed, client>>

\* The handler waits for the command, and then for its reader.
StreamReturns ==
  /\ term = "streaming" /\ exec = "ended"
  /\ term' = "joining"
  /\ UNCHANGED <<logs, exec, copier, reader, typed, client>>

TerminalExits ==
  /\ term = "joining" /\ reader = "done"
  /\ term' = "done"
  /\ UNCHANGED <<logs, exec, copier, reader, typed, client>>

LogNext ==
  \/ TimeIsUp \/ EmitEvent \/ HeartbeatFails \/ EndStream
  \/ \E s \in Sources : SourceReads(s) \/ SourceSends(s) \/ SourceStops(s)

TerminalNext ==
  \/ ShellEnds \/ ClientGoes \/ ReadMessage \/ WriteInput \/ ReaderEnds
  \/ StreamReturns \/ TerminalExits

Next == LogNext \/ TerminalNext

Fairness ==
  /\ \A s \in Sources : WF_vars(SourceSends(s)) /\ WF_vars(SourceStops(s))
  /\ WF_vars(EmitEvent) /\ WF_vars(EndStream)
  /\ WF_vars(WriteInput) /\ WF_vars(ReaderEnds /\ client = "gone")
  /\ WF_vars(StreamReturns) /\ WF_vars(TerminalExits)

Spec == Init /\ [][Next]_vars /\ Fairness

-----------------------------------------------------------------------------
\* A log stream that ends before its time has shown every line that was read, and told of
\* every source that failed.
LogStreamComplete ==
  handler = "ended" /\ ~over =>
    events = <<>> /\ AllDone /\ shown = Cardinality({p \in Sources \X (1..MaxLines) : p[2] <= lines[p[1]]})

\* When the handler of a log stream has returned, or its time is over, every source ends,
\* also one that waits for room in the channel.
SourcesEnd == Canceled ~> AllDone /\ handler # "live"

\* The input is written to a pipe that nobody reads any more.
InputStuck == reader = "writing" /\ copier = "gone"

\* When the client of a terminal leaves, the command is canceled and the handler returns;
\* the exception is a reader whose input is stuck.
TerminalEnds == client = "gone" ~> term = "done" \/ InputStuck

=============================================================================
