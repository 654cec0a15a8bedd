----------------------------- MODULE SshSessions -----------------------------
(***************************************************************************)
(* The SSH sessions of the agent's HTTP API: a session is staged by the    *)
(* control plane, claimed by the stream that is to carry it, and released  *)
(* when the stream is over; the shutdown of the server cancels them all.   *)
(***************************************************************************)
EXTENDS Naturals, FiniteSets

CONSTANTS
  Ids,      \* identities of sessions
  Streams,  \* requests to stream a session
  Limit     \* sessions that are staged or streamed at a time

VARIABLES
  pending,  \* staged sessions
  late,     \* those whose 30 seconds are over
  active,   \* the stream whose cancellation is registered for each session
  stream,   \* the streams
  closed    \* the server was shut down

vars == <<pending, late, active, stream, closed>>

None == "none"
NewStream == [pc |-> "new", id |-> None, canceled |-> FALSE]

Init ==
  /\ pending = {} /\ late = {} /\ closed = FALSE
  /\ active = [id \in Ids |-> None]
  /\ stream = [s \in Streams |-> NewStream]

-----------------------------------------------------------------------------
\* Mutant: a session is staged again while it is streamed.
FreeOfPending(id) == id \notin pending

\* Staged sessions whose time is over make room before the limit is looked at.
Free(id) == id \notin pending \ late /\ active[id] = None

Taken == Cardinality(pending \ late) + Cardinality({id \in Ids : active[id] # None})

Stage(id) ==
  /\ late' = {}
  /\ pending' = IF ~closed /\ Taken < Limit /\ Free(id)
                THEN (pending \ late) \union {id} ELSE pending \ late
  /\ UNCHANGED <<active, stream, closed>>

StageExpires(id) ==
  /\ id \in pending \ late
  /\ late' = late \union {id}
  /\ UNCHANGED <<pending, active, stream, closed>>

\* A staged session is claimed once, whether its time is over or not.
Claim(s, id) ==
  /\ stream[s].pc = "new"
  /\ pending' = pending \ {id} /\ late' = late \ {id}
  /\ IF id \in pending \ late /\ ~closed
     THEN /\ active' = [active EXCEPT ![id] = s]
          /\ stream' = [stream EXCEPT ![s] = [pc |-> "open", id |-> id, canceled |-> FALSE]]
     ELSE UNCHANGED <<active, stream>>
  /\ UNCHANGED closed

\* The deadline of the session, or the end of the request.
SessionExpires(s) ==
  /\ stream[s].pc \in {"open", "forward"} /\ ~stream[s].canceled
  /\ stream' = [stream EXCEPT ![s].canceled = TRUE]
  /\ UNCHANGED <<pending, late, active, closed>>

\* The credentials are redeemed, the connection made and the shell started, unless one of
\* them fails or the session is canceled.
OpenPTY(s) ==
  /\ stream[s].pc = "open"
  /\ \/ ~stream[s].canceled /\ stream' = [stream EXCEPT ![s].pc = "forward"]
     \/ stream' = [stream EXCEPT ![s].pc = "release"]
  /\ UNCHANGED <<pending, late, active, closed>>

\* The shell or the client has ended it, or it was canceled.
StreamOver(s) ==
  /\ stream[s].pc = "forward"
  /\ stream' = [stream EXCEPT ![s].pc = "release"]
  /\ UNCHANGED <<pending, late, active, closed>>

ReleaseSession(s) ==
  /\ stream[s].pc = "release"
  /\ active' = [active EXCEPT ![stream[s].id] = None]
  /\ stream' = [stream EXCEPT ![s] = NewStream]
  /\ UNCHANGED <<pending, late, closed>>

Close ==
  /\ ~closed
  /\ closed' = TRUE
  /\ pending' = {} /\ late' = {}
  /\ stream' = [s \in Streams |->
       IF \E id \in Ids : active[id] = s THEN [stream[s] EXCEPT !.canceled = TRUE] ELSE stream[s]]
  /\ UNCHANGED <<active>>

Next ==
  \/ \E id \in Ids : Stage(id) \/ StageExpires(id)
  \/ \E s \in Streams :
       \/ SessionExpires(s) \/ OpenPTY(s) \/ StreamOver(s) \/ ReleaseSession(s)
       \/ \E id \in Ids : Claim(s, id)
  \/ Close

Spec == Init /\ [][Next]_vars

-----------------------------------------------------------------------------
Live(s) == stream[s].pc # "new"

\* Every stream is the registered one of its session: no session has two, together they
\* keep to the limit, and the shutdown reaches each of them, also one that was claimed
\* while it was under way ("SSH session unavailable").
SessionsRegistered ==
  /\ \A s \in Streams : Live(s) => active[stream[s].id] = s
  /\ Cardinality(pending) + Cardinality({s \in Streams : Live(s)}) <= Limit
  /\ closed => pending = {} /\ \A s \in Streams : Live(s) => stream[s].canceled

=============================================================================
