---------------------------- MODULE PortForwards ----------------------------
(***************************************************************************)
(* Port forwards of the HTTP API and the tunnels that clients open through *)
(* them.                                                                   *)
(*                                                                         *)
(* A forward is a goroutine of the Kubernetes client that listens on a     *)
(* local port until its stop channel is closed, or until it fails.  The    *)
(* request that starts one waits for it to be ready, for ten seconds or    *)
(* until the caller leaves; only then is it registered and can be deleted. *)
(***************************************************************************)
EXTENDS FiniteSets

CONSTANTS
  Forwards, \* requests for a forward
  Tunnels   \* tunnels that clients open

VARIABLES
  request,    \* the request for a forward: new, waiting, ready, answered, failed
  forwarding, \* its goroutine: none, starting, listening, ended
  wasReady,   \* forwards whose ready channel is closed
  stopped,    \* forwards whose stop channel is closed
  listed,     \* the registry: every entry says "active"
  deleting,   \* forwards taken out of the registry and not stopped yet
  tunnel      \* per tunnel: its step and the forward it was opened for

vars == <<request, forwarding, wasReady, stopped, listed, deleting, tunnel>>

Init ==
  /\ request = [f \in Forwards |-> "new"]
  /\ forwarding = [f \in Forwards |-> "none"]
  /\ wasReady = {} /\ stopped = {} /\ listed = {} /\ deleting = {}
  /\ tunnel = [t \in Tunnels |-> [at |-> "new", to |-> "none"]]

-----------------------------------------------------------------------------
(* StartPortForward and register.                                          *)

Answer(f, answer) == request' = [request EXCEPT ![f] = answer]
Goes(f, state) == forwarding' = [forwarding EXCEPT ![f] = state]

\* Stop closes the channel once, and waits for the goroutine for at most five seconds.
Stop(f) == stopped' = stopped \cup {f}

\* The target is a ready pod, or the request fails before anything was started.
Resolve(f) ==
  /\ request[f] = "new"
  /\ \/ Answer(f, "waiting") /\ Goes(f, "starting")
     \/ Answer(f, "failed") /\ UNCHANGED forwarding
  /\ UNCHANGED <<wasReady, stopped, listed, deleting, tunnel>>

\* The select takes the ready channel; the forwarder tells the port, or has none to tell.
BecomesReady(f) ==
  /\ request[f] = "waiting" /\ f \in wasReady
  /\ \/ Answer(f, "ready") /\ UNCHANGED stopped
     \/ Answer(f, "failed") /\ Stop(f)
  /\ UNCHANGED <<forwarding, wasReady, listed, deleting, tunnel>>

EndsEarly(f) ==
  /\ request[f] = "waiting" /\ forwarding[f] = "ended"
  /\ Answer(f, "failed")
  /\ UNCHANGED <<forwarding, wasReady, stopped, listed, deleting, tunnel>>

\* Mutant: a request that nobody waits for any more leaves the forwarder to itself.
LeaveRunning(f) == UNCHANGED stopped

StopUnready(f) == Stop(f)

\* Ten seconds, or the request's context.
GivesUp(f) ==
  /\ request[f] = "waiting"
  /\ Answer(f, "failed") /\ StopUnready(f)
  /\ UNCHANGED <<forwarding, wasReady, listed, deleting, tunnel>>

Register(f) ==
  /\ request[f] = "ready"
  /\ Answer(f, "answered") /\ listed' = listed \cup {f}
  /\ UNCHANGED <<forwarding, wasReady, stopped, deleting, tunnel>>

\* The deletion takes the entry under the mutex, and stops the forward after it.
Delete(f) ==
  /\ f \in listed
  /\ listed' = listed \ {f} /\ deleting' = deleting \cup {f}
  /\ UNCHANGED <<request, forwarding, wasReady, stopped, tunnel>>

StopDeleted(f) ==
  /\ f \in deleting
  /\ deleting' = deleting \ {f} /\ Stop(f)
  /\ UNCHANGED <<request, forwarding, wasReady, listed, tunnel>>

-----------------------------------------------------------------------------
(* The forwarder's goroutine, of the Kubernetes client.                    *)

Listen(f) ==
  /\ forwarding[f] = "starting"
  /\ Goes(f, "listening") /\ wasReady' = wasReady \cup {f}
  /\ UNCHANGED <<request, stopped, listed, deleting, tunnel>>

\* The connection to the pod is lost; an entry in the registry stays as it is.
ForwardFails(f) ==
  /\ forwarding[f] \in {"starting", "listening"}
  /\ Goes(f, "ended")
  /\ UNCHANGED <<request, wasReady, stopped, listed, deleting, tunnel>>

ForwardStops(f) ==
  /\ forwarding[f] \in {"starting", "listening"} /\ f \in stopped
  /\ Goes(f, "ended")
  /\ UNCHANGED <<request, wasReady, stopped, listed, deleting, tunnel>>

-----------------------------------------------------------------------------
(* Tunnels.                                                                *)

Step(t, from, to) == tunnel[t].at = from /\ tunnel' = [tunnel EXCEPT ![t].at = to]

\* The entry is looked up, and the mutex released; a request for an unknown one is refused.
Get(t, f) ==
  /\ f \in listed /\ tunnel[t].at = "new"
  /\ tunnel' = [tunnel EXCEPT ![t] = [at |-> "found", to |-> f]]
  /\ UNCHANGED <<request, forwarding, wasReady, stopped, listed, deleting>>

\* The connection is upgraded, or not, and the local port dialed; nothing else listens on it.
Dial(t) ==
  /\ \/ Step(t, "found", "open") /\ forwarding[tunnel[t].to] = "listening"
     \/ Step(t, "found", "over")
  /\ UNCHANGED <<request, forwarding, wasReady, stopped, listed, deleting>>

\* Mutant: the bridge waits for the client alone.
WaitForClient(t) == FALSE

\* A forwarder that ends closes the connections it accepted.
PeerClosed(t) == forwarding[tunnel[t].to] = "ended"

\* The first of the two copies that ends closes both connections.
BridgeEnds(t) ==
  /\ Step(t, "open", "over")
  /\ PeerClosed(t)
  /\ UNCHANGED <<request, forwarding, wasReady, stopped, listed, deleting>>

\* The client leaves.
ClientLeaves(t) ==
  /\ Step(t, "open", "over")
  /\ UNCHANGED <<request, forwarding, wasReady, stopped, listed, deleting>>

Next ==
  \/ \E f \in Forwards :
       \/ Resolve(f) \/ BecomesReady(f) \/ EndsEarly(f) \/ GivesUp(f) \/ Register(f)
       \/ Delete(f) \/ StopDeleted(f)
       \/ Listen(f) \/ ForwardFails(f) \/ ForwardStops(f)
  \/ \E t \in Tunnels :
       \/ \E f \in Forwards : Get(t, f)
       \/ Dial(t) \/ BridgeEnds(t) \/ ClientLeaves(t)

\* Requests run to their end, and a forwarder heeds its stop channel.
Fairness ==
  /\ \A f \in Forwards : WF_vars(GivesUp(f)) /\ WF_vars(Register(f))
                         /\ WF_vars(StopDeleted(f)) /\ WF_vars(ForwardStops(f))
  /\ \A t \in Tunnels : WF_vars(Dial(t)) /\ WF_vars(BridgeEnds(t))

Spec == Init /\ [][Next]_vars /\ Fairness

-----------------------------------------------------------------------------
\* A forward that nobody can stop any more is none: while its goroutine runs unstopped, a
\* request waits for it, or the registry or a deletion has it.
NoForwardLeaks ==
  \A f \in Forwards : forwarding[f] \in {"starting", "listening"} =>
    f \in stopped \cup listed \cup deleting \/ request[f] \in {"waiting", "ready"}

\* A deleted forward ends, and every tunnel through it ("port-forward runtime was not
\* stopped", api/server_security_test.go:378).
DeletedForwardEnds ==
  \A f \in Forwards : f \in deleting ~>
    forwarding[f] = "ended" /\ \A t \in Tunnels : tunnel[t].to = f => tunnel[t].at = "over"

=============================================================================
