---------------------------- MODULE SessionTunnel ----------------------------
(***************************************************************************)
(* The agent's session with the control plane: one WebSocket that carries  *)
(* streams, each of which is proxied to the agent's own HTTP API.          *)
(*                                                                         *)
(* The manager connects when the API listens, and again after a pause when *)
(* the connection broke.  The streams of all its connections share a       *)
(* semaphore; a stream that finds no room is closed at once.               *)
(***************************************************************************)
EXTENDS Naturals, FiniteSets

CONSTANTS
  StreamIds,  \* streams that the control plane opens
  MaxStreams, \* room of the semaphore
  MaxConnects \* connections made

VARIABLES
  manager,  \* the manager: waiting, dialing, accepting, pausing, ended
  shutdown, \* the agent's context is done
  connects, \* connections made so far; the last one carries new streams
  up,       \* the last connection stands
  streams,  \* per stream: its step, and the connection it came over
  tokens    \* what the semaphore holds

vars == <<manager, shutdown, connects, up, streams, tokens>>

Init ==
  /\ manager = "waiting" /\ shutdown = FALSE /\ connects = 0 /\ up = FALSE
  /\ streams = [s \in StreamIds |-> [at |-> "unopened", over |-> 0]] /\ tokens = 0

-----------------------------------------------------------------------------
(* The manager.                                                            *)

Shutdown ==
  /\ ~shutdown
  /\ shutdown' = TRUE
  /\ UNCHANGED <<manager, connects, up, streams, tokens>>

\* Every wait of the manager but that for a stream looks at the context.
ManagerEnds ==
  /\ shutdown /\ manager \in {"waiting", "dialing", "pausing"}
  /\ manager' = "ended"
  /\ UNCHANGED <<shutdown, connects, up, streams, tokens>>

\* The API's port answered.
RuntimeReady ==
  /\ manager = "waiting"
  /\ manager' = "dialing"
  /\ UNCHANGED <<shutdown, connects, up, streams, tokens>>

Connect ==
  /\ manager = "dialing"
  /\ \/ /\ connects < MaxConnects
        /\ manager' = "accepting" /\ connects' = connects + 1 /\ up' = TRUE
     \/ manager' = "pausing" /\ UNCHANGED <<connects, up>>
  /\ UNCHANGED <<shutdown, streams, tokens>>

\* The connection breaks; runSession closes what is left of it when it returns.
Breaks ==
  /\ up /\ up' = FALSE
  /\ UNCHANGED <<manager, shutdown, connects, streams, tokens>>

Disconnected ==
  /\ manager = "accepting" /\ ~up
  /\ manager' = IF shutdown THEN "ended" ELSE "pausing"
  /\ UNCHANGED <<shutdown, connects, up, streams, tokens>>

Reconnect ==
  /\ manager = "pausing"
  /\ manager' = "waiting"
  /\ UNCHANGED <<shutdown, connects, up, streams, tokens>>

-----------------------------------------------------------------------------
(* The streams.                                                            *)

Running(s) == streams[s].at \in {"dialing", "proxying"}

\* Mutant: every connection has a semaphore of its own.
RoomOfConnection ==
  Cardinality({s \in StreamIds : Running(s) /\ streams[s].over = connects}) < MaxStreams

HasRoom == tokens < MaxStreams

\* The select takes a token when there is one to take; with the context done, it may as well
\* take the context and leave.
Accept(s) ==
  /\ manager = "accepting" /\ up /\ streams[s].at = "unopened"
  /\ \/ /\ HasRoom
        /\ tokens' = tokens + 1
        /\ streams' = [streams EXCEPT ![s] = [at |-> "dialing", over |-> connects]]
        /\ UNCHANGED <<manager, up>>
     \/ /\ shutdown
        /\ manager' = "ended" /\ up' = FALSE
        /\ streams' = [streams EXCEPT ![s].at = "closed"] /\ UNCHANGED tokens
     \/ /\ ~HasRoom /\ ~shutdown
        /\ streams' = [streams EXCEPT ![s].at = "closed"] /\ UNCHANGED <<manager, up, tokens>>
  /\ UNCHANGED <<shutdown, connects>>

\* The stream is closed, and the token given back.
Finish(s) ==
  /\ streams' = [streams EXCEPT ![s].at = "closed"] /\ tokens' = tokens - 1
  /\ UNCHANGED <<manager, shutdown, connects, up>>

\* The dial of the local API; it fails within five seconds, or with the context.
DialRuntime(s) ==
  /\ streams[s].at = "dialing"
  /\ \/ streams' = [streams EXCEPT ![s].at = "proxying"]
        /\ UNCHANGED <<manager, shutdown, connects, up, tokens>>
     \/ Finish(s)

\* One of the two ends of a stream closes it.
PeerCloses(s) == streams[s].at = "proxying" /\ Finish(s)

\* Mutant: a stream outlives the connection it came over.
OnlyWithTheContext(s) == shutdown

\* A copy fails with the connection, or the context is done.
Cut(s) == shutdown \/ streams[s].over < connects \/ ~up

StreamCut(s) == streams[s].at = "proxying" /\ Cut(s) /\ Finish(s)

Next ==
  \/ Shutdown \/ ManagerEnds \/ RuntimeReady \/ Connect \/ Breaks \/ Disconnected \/ Reconnect
  \/ \E s \in StreamIds : Accept(s) \/ DialRuntime(s) \/ PeerCloses(s) \/ StreamCut(s)

Fairness ==
  /\ WF_vars(ManagerEnds) /\ WF_vars(Disconnected)
  /\ \A s \in StreamIds : WF_vars(DialRuntime(s)) /\ WF_vars(StreamCut(s))

Spec == Init /\ [][Next]_vars /\ Fairness

-----------------------------------------------------------------------------
\* The streams that are proxied at a time have room in the semaphore, also those of a
\* connection that broke, and every one of them holds one token.
StreamsBounded ==
  /\ tokens = Cardinality({s \in StreamIds : Running(s)})
  /\ tokens <= MaxStreams

\* Streams end with their connection, and with the agent.
StreamsEndWithSession ==
  \A s \in StreamIds : Running(s) /\ (shutdown \/ ~up \/ streams[s].over < connects)
                         ~> streams[s].at = "closed"

=============================================================================
