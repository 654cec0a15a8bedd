------------------------------- MODULE MCAgent --------------------------------
(***************************************************************************)
(* What the agent keeps open: the slots of the task loops, two of them     *)
(* with enough work to fill them from either loop, the sessions and        *)
(* streams of the HTTP API and of the control plane, the Docker runtime    *)
(* requests, and the programs themselves.  These share no state, so that   *)
(* one run checks them side by side: a behaviour exercises the part that   *)
(* "part" names, and the others stand still.                               *)
(***************************************************************************)
EXTENDS RunnerSlots, Sequences, TLC

CONSTANTS
  execution, agentRuntime, e1, e2, a1, a2,
  SshIds, SshStreams, SshLimit,          \* of SshSessions
  ShellChunks,                           \* of SshStream
  LogSources, MaxLines, MaxInput, Room,  \* of PodStreams
  Forwards, Tunnels,                     \* of PortForwards
  StreamIds, MaxStreams, MaxConnects,    \* of SessionTunnel
  DockerChunks, DockerInput, PipeRoom, Targets, Inner,  \* of DockerRuntime
  MaxRequests                            \* of AgentProcess

ASSUME SshAssumption ==
  IsFiniteSet(SshIds) /\ IsFiniteSet(SshStreams) /\ "none" \notin SshStreams /\ SshLimit \in Nat
ASSUME TunnelAssumption == IsFiniteSet(StreamIds) /\ MaxStreams \in Nat
ASSUME LogAssumption == IsFiniteSet(LogSources) /\ MaxLines \in Nat
ASSUME PathsAssumption == Targets \subseteq Seq(STRING) /\ Inner \subseteq Seq(STRING)

BothLoops == {execution, agentRuntime}
FourPieces == {e1, e2, a1, a2}
ForLoop == e1 :> execution @@ e2 :> execution @@ a1 :> agentRuntime @@ a2 :> agentRuntime
Mounts == {<<>>, <<"..", "data">>, <<"data">>, <<"db", "log">>}
Paths == UNION {[1..n -> {"x", ".."}] : n \in 0..3}

VARIABLES
  part,
  \* SshSessions and SshStream
  pending, late, active, stream, closed,
  main, input, output, wait, shell, made, read, sent, pipe, conn, told,
  \* PodStreams
  handler, over, source, lines, events, shown, term, exec, copier, reader, typed, client,
  \* PortForwards
  request, forwarding, wasReady, stopped, listed, deleting, tunnel,
  \* SessionTunnel
  manager, down, connects, up, streams, tokens,
  \* DockerRuntime
  kind, volumes, opened, dHandler, dir, cmd, dMade, dPipe, held, dTold, dInput, dTyped, stdin, dClient,
  \* AgentProcess
  program, code, signaled, canceled, loops, server, serving, collector, swept, requests, guest,
  gClient, brokers

sVars == <<pending, late, active, stream, closed>>
shVars == <<main, input, output, wait, shell, made, read, sent, pipe, conn, told>>
pVars == <<handler, over, source, lines, events, shown, term, exec, copier, reader, typed, client>>
fVars == <<request, forwarding, wasReady, stopped, listed, deleting, tunnel>>
uVars == <<manager, down, connects, up, streams, tokens>>
dVars == <<kind, volumes, opened, dHandler, dir, cmd, dMade, dPipe, held, dTold, dInput, dTyped, stdin,
           dClient>>
aVars == <<program, code, signaled, canceled, loops, server, serving, collector, swept, requests, guest,
           gClient, brokers>>

SshSessions == INSTANCE SshSessions WITH Ids <- SshIds, Streams <- SshStreams, Limit <- SshLimit
SshStream == INSTANCE SshStream WITH MaxChunks <- ShellChunks
PodStreams == INSTANCE PodStreams WITH Sources <- LogSources
PortForwards == INSTANCE PortForwards
SessionTunnel == INSTANCE SessionTunnel WITH shutdown <- down
DockerRuntime == INSTANCE DockerRuntime WITH MaxChunks <- DockerChunks, MaxInput <- DockerInput,
  handler <- dHandler, made <- dMade, pipe <- dPipe, told <- dTold, input <- dInput, typed <- dTyped,
  client <- dClient
AgentProcess == INSTANCE AgentProcess WITH main <- program, client <- gClient

MCInit ==
  /\ part \in {"slots", "sessions", "shell", "logs", "terminal",
               "forwards", "tunnel", "docker", "process"}
  /\ Init /\ SshSessions!Init /\ SshStream!Init /\ PodStreams!Init
  /\ PortForwards!Init /\ SessionTunnel!Init
  /\ IF part = "docker" THEN DockerRuntime!Init
     ELSE /\ kind = "once" /\ volumes = <<>> /\ opened = <<>> /\ dHandler = "over" /\ dir = FALSE
          /\ cmd = "none" /\ dMade = 0 /\ dPipe = 0 /\ held = "done" /\ dTold = <<>>
          /\ dInput = "off" /\ dTyped = 0 /\ stdin = 0 /\ dClient = "gone"
  /\ IF part = "process" THEN AgentProcess!Init
     ELSE /\ program = "exited" /\ code = 0 /\ signaled = TRUE /\ canceled = TRUE
          /\ loops = "ended" /\ server = "closed" /\ serving = "returned"
          /\ collector = "off" /\ swept = TRUE /\ requests = 0
          /\ guest = "closed" /\ gClient = "ended" /\ brokers = "ended"

MCNext ==
  /\ UNCHANGED part
  /\ \/ part = "slots" /\ Next
        /\ UNCHANGED <<sVars, shVars, pVars, fVars, uVars, dVars, aVars>>
     \/ part = "sessions" /\ SshSessions!Next
        /\ UNCHANGED <<vars, shVars, pVars, fVars, uVars, dVars, aVars>>
     \/ part = "shell" /\ SshStream!Next
        /\ UNCHANGED <<vars, sVars, pVars, fVars, uVars, dVars, aVars>>
     \/ part = "logs" /\ PodStreams!LogNext
        /\ UNCHANGED <<vars, sVars, shVars, fVars, uVars, dVars, aVars>>
     \/ part = "terminal" /\ PodStreams!TerminalNext
        /\ UNCHANGED <<vars, sVars, shVars, fVars, uVars, dVars, aVars>>
     \/ part = "forwards" /\ PortForwards!Next
        /\ UNCHANGED <<vars, sVars, shVars, pVars, uVars, dVars, aVars>>
     \/ part = "tunnel" /\ SessionTunnel!Next
        /\ UNCHANGED <<vars, sVars, shVars, pVars, fVars, dVars, aVars>>
     \/ part = "docker" /\ DockerRuntime!Next
        /\ UNCHANGED <<vars, sVars, shVars, pVars, fVars, uVars, aVars>>
     \/ part = "process" /\ AgentProcess!Next
        /\ UNCHANGED <<vars, sVars, shVars, pVars, fVars, uVars, dVars>>

\* No fair action is enabled in the states in which the idle parts stand.
MCSpec ==
  /\ MCInit /\ [][MCNext]_<<part, vars, sVars, shVars, pVars, fVars, uVars, dVars, aVars>>
  /\ Fairness /\ SshStream!Fairness /\ PodStreams!Fairness
  /\ PortForwards!Fairness /\ SessionTunnel!Fairness
  /\ DockerRuntime!Fairness /\ AgentProcess!Fairness

-----------------------------------------------------------------------------
\* Whatever runs on behalf of a client is where its end is looked for: SSH streams, forwards,
\* the streams of the session; a Docker request leaves neither a directory nor a command behind
\* and reads inside the project's volumes; and a program that ends leaves nobody waiting for an
\* answer (SshSessions, PortForwards, SessionTunnel, DockerRuntime, AgentProcess).
NothingLeaks ==
  /\ SshSessions!SessionsRegistered /\ PortForwards!NoForwardLeaks /\ SessionTunnel!StreamsBounded
  /\ DockerRuntime!RequestsTidy /\ DockerRuntime!WithinVolumes
  /\ AgentProcess!LeavesNothing

\* A client that is told of the end has all that came before it (SshStream, PodStreams,
\* DockerRuntime).
OutputComplete ==
  SshStream!ExitFollowsOutput /\ PodStreams!LogStreamComplete /\ DockerRuntime!AnswerComplete

\* Every stream ends after its client, its session or its forward did, and a program after a
\* signal or the end of one of its parts.
StreamsEnd ==
  /\ SshStream!ShellStreamEnds
  /\ PodStreams!SourcesEnd /\ PodStreams!TerminalEnds
  /\ PortForwards!DeletedForwardEnds
  /\ SessionTunnel!StreamsEndWithSession
  /\ DockerRuntime!RequestsEnd /\ DockerRuntime!ReadersEnd
  /\ AgentProcess!ProgramsEnd

=============================================================================
