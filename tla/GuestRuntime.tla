----------------------------- MODULE GuestRuntime -----------------------------
(***************************************************************************)
(* The runtime broker of a personal guest: launchers connect with the      *)
(* number of an operation, the broker asks the control plane for what it   *)
(* stands for, marks it as dispatched and does it.  A mark is a file, so   *)
(* that no operation is done twice; at most two connections are served,    *)
(* and one operation at a time besides releases.  A release cancels the    *)
(* operations of its lease and waits for their end.                        *)
(***************************************************************************)
EXTENDS Naturals, FiniteSets

CONSTANTS
  Workers,    \* the places for connections, 2 in the code
  Ops,        \* operations of the control plane
  Requests,   \* what they may be: functions from Ops to [kind, lease]
  MaxLaunch,  \* launchers that connect
  MaxCrashes  \* crashes of the broker

VARIABLES
  request,    \* what each operation is: [kind, lease]
  granted,    \* the operations that the control plane grants now
  conn,       \* the connections: [pc, op, cancelled, awaits, ok]
  marks,      \* the operations with a file of dispatch
  container,  \* the container of an operation: none, created, running or exited
  proof,      \* the file that says that containers were proved to be isolated
  launches, crashes,
  runs,       \* history: how often an operation was begun
  released,   \* history: the operations that an answered release had to end
  orphans     \* history: the operations whose stop command failed, or that a crash cut short

vars == <<request, granted, conn, marks, container, proof, launches, crashes, runs, released, orphans>>

\* The kinds are command (whatever runs in the sandbox or in the broker itself: reads, writes and
\* the browser), docker, probe and release.
NoOp == "no operation"
Idle == [pc |-> "idle", op |-> NoOp, cancelled |-> FALSE, awaits |-> {}, ok |-> FALSE]
Registered == {"usage", "command", "create", "inspect", "attach", "wait", "stop", "proof", "leave"}

Init ==
  /\ request \in Requests
  /\ granted = Ops
  /\ conn = [w \in Workers |-> Idle]
  /\ marks = {} /\ container = [o \in Ops |-> "none"] /\ proof = FALSE
  /\ launches = 0 /\ crashes = 0
  /\ runs = [o \in Ops |-> 0] /\ released = {} /\ orphans = {}

At(w, pc) == conn[w].pc = pc
Goto(w, pc) == conn' = [conn EXCEPT ![w].pc = pc]
Close(w) == conn' = [conn EXCEPT ![w] = Idle]
Kind(w) == request[conn[w].op].kind
Fails(w) == conn' = [conn EXCEPT ![w].pc = "leave", ![w].ok = FALSE]

\* runtimeBroker.active
Active == {w \in Workers : conn[w].pc \in Registered}
ActiveOps == {conn[w].op : w \in Active}

-----------------------------------------------------------------------------
(* A connection, up to the dispatch.                                       *)

\* A launcher that finds no place is turned away, and an operation may be launched again.
Launch(w, o) ==
  /\ At(w, "idle") /\ launches < MaxLaunch
  /\ launches' = launches + 1
  /\ conn' = [conn EXCEPT ![w] = [Idle EXCEPT !.pc = "grant", !.op = o]]
  /\ UNCHANGED <<request, granted, marks, container, proof, crashes, runs, released, orphans>>

\* The grant also fails when the control plane cannot be reached.
Grant(w) ==
  /\ At(w, "grant")
  /\ \/ Close(w)
     \/ conn[w].op \in granted /\ Goto(w, IF Kind(w) = "release" THEN "cancel" ELSE "dispatch")
  /\ UNCHANGED <<request, granted, marks, container, proof, launches, crashes, runs, released, orphans>>

OfLease(w) == {v \in Active : request[conn[v].op].lease = request[conn[w].op].lease}

\* Mutant: a release cancels and does not wait.
CancelOnly(w) ==
  /\ At(w, "cancel")
  /\ conn' = [v \in Workers |->
       IF v = w THEN [conn[v] EXCEPT !.pc = "dispatch"]
       ELSE IF v \in OfLease(w) THEN [conn[v] EXCEPT !.cancelled = TRUE] ELSE conn[v]]
  /\ released' = released \cup {conn[v].op : v \in OfLease(w)}
  /\ UNCHANGED <<request, granted, marks, container, proof, launches, crashes, runs, orphans>>

\* cancelLease, under the lock.
Cancel(w) ==
  /\ At(w, "cancel")
  /\ conn' = [v \in Workers |->
       IF v = w THEN [conn[v] EXCEPT !.pc = "await", !.awaits = {conn[u].op : u \in OfLease(w)}]
       ELSE IF v \in OfLease(w) THEN [conn[v] EXCEPT !.cancelled = TRUE] ELSE conn[v]]
  /\ UNCHANGED <<request, granted, marks, container, proof, launches, crashes, runs, released, orphans>>

\* It waits until its deadline at most; cancellation_unconfirmed is the answer then.
Await(w) ==
  /\ At(w, "await")
  /\ \/ /\ conn[w].awaits \cap ActiveOps = {}
        /\ released' = released \cup conn[w].awaits
        /\ Goto(w, "dispatch")
     \/ Close(w) /\ UNCHANGED released
  /\ UNCHANGED <<request, granted, marks, container, proof, launches, crashes, runs, orphans>>

Busy(w) == Active # {} /\ Kind(w) # "release"

\* Mutant: a file of dispatch that is there is written again.
DispatchAgain(w) ==
  /\ At(w, "dispatch")
  /\ IF Busy(w) THEN Close(w) /\ UNCHANGED <<marks, runs>>
     ELSE /\ marks' = marks \cup {conn[w].op}
          /\ runs' = [runs EXCEPT ![conn[w].op] = @ + 1]
          /\ Goto(w, "usage")
  /\ UNCHANGED <<request, granted, container, proof, launches, crashes, released, orphans>>

\* The lock is held: the broker is not busy, the mark is new, and the operation is registered.
\* A mark that could not be written to the end stays, and its operation is never begun.
Dispatch(w) ==
  /\ At(w, "dispatch")
  /\ IF Busy(w) \/ conn[w].op \in marks
     THEN Close(w) /\ UNCHANGED <<marks, runs>>
     ELSE \/ /\ marks' = marks \cup {conn[w].op}
             /\ runs' = [runs EXCEPT ![conn[w].op] = @ + 1]
             /\ Goto(w, "usage")
          \/ /\ marks' \in {marks, marks \cup {conn[w].op}}
             /\ Close(w)
             /\ UNCHANGED runs
  /\ UNCHANGED <<request, granted, container, proof, launches, crashes, released, orphans>>

-----------------------------------------------------------------------------
(* execute.                                                                *)

same == <<request, granted, marks, launches, crashes, runs, released>>

\* The quota of the whole is read back; a release does no more.
Usage(w) ==
  /\ At(w, "usage")
  /\ \/ Fails(w)
     \/ /\ ~conn[w].cancelled
        /\ Goto(w, CASE Kind(w) = "docker" -> "create"
                     [] Kind(w) = "release" -> "leave"
                     [] Kind(w) = "probe" /\ ~proof -> "create"
                     [] OTHER -> "command")
  /\ UNCHANGED <<same, container, proof, orphans>>

\* A sandbox dies with its context and with the broker.  The quota is read back at the end.
Command(w) ==
  /\ At(w, "command")
  /\ Fails(w) \/ (~conn[w].cancelled /\ Goto(w, "leave"))
  /\ UNCHANGED <<same, container, proof, orphans>>

\* A creation that is unconfirmed leaves its container, which never ran.
Create(w) ==
  /\ At(w, "create")
  /\ \/ /\ ~conn[w].cancelled /\ Goto(w, "inspect")
        /\ container' = [container EXCEPT ![conn[w].op] = "created"]
     \/ /\ Fails(w)
        /\ \E c \in {"none", "created"} : container' = [container EXCEPT ![conn[w].op] = c]
  /\ UNCHANGED <<same, proof, orphans>>

\* From here on the stop command is deferred.
ToStop(w, ok) == conn' = [conn EXCEPT ![w].pc = "stop", ![w].ok = ok]

Inspect(w) ==
  /\ At(w, "inspect")
  /\ ToStop(w, FALSE) \/ (~conn[w].cancelled /\ Goto(w, "attach"))
  /\ UNCHANGED <<same, container, proof, orphans>>

\* docker start --attach: a client that is killed leaves a container that runs.
Attach(w) ==
  /\ At(w, "attach") /\ container[conn[w].op] = "created"
  /\ container' = [container EXCEPT ![conn[w].op] = "running"]
  /\ UNCHANGED <<same, conn, proof, orphans>>

\* The start ended, with the exit of the container or without.
Attached(w) ==
  /\ At(w, "attach")
  /\ \/ ToStop(w, FALSE)
     \/ ~conn[w].cancelled /\ container[conn[w].op] = "exited" /\ Goto(w, "wait")
  /\ UNCHANGED <<same, container, proof, orphans>>

\* docker wait, and the second inspection.
Wait(w) ==
  /\ At(w, "wait")
  /\ ToStop(w, FALSE) \/ (~conn[w].cancelled /\ ToStop(w, TRUE))
  /\ UNCHANGED <<same, container, proof, orphans>>

Exits(o) ==
  /\ container[o] = "running"
  /\ container' = [container EXCEPT ![o] = "exited"]
  /\ UNCHANGED <<same, conn, proof, orphans>>

AfterStop(w) ==
  IF ~conn[w].ok THEN Fails(w)
  ELSE Goto(w, IF Kind(w) = "probe" THEN "proof" ELSE "leave")

\* Mutant: the stop command has the context of the operation.
StopsWithContext(w) ==
  /\ At(w, "stop") /\ AfterStop(w)
  /\ IF conn[w].cancelled THEN UNCHANGED container
     ELSE container' = [container EXCEPT ![conn[w].op] = IF @ = "running" THEN "exited" ELSE @]
  /\ UNCHANGED <<same, proof, orphans>>

\* The stop command has ten seconds of its own, whatever became of the operation.
Stop(w) ==
  /\ At(w, "stop") /\ AfterStop(w)
  /\ container' = [container EXCEPT ![conn[w].op] = IF @ = "running" THEN "exited" ELSE @]
  /\ UNCHANGED <<same, proof, orphans>>

\* Nobody looks at its failure.
StopFails(w) ==
  /\ At(w, "stop") /\ AfterStop(w)
  /\ orphans' = orphans \cup {conn[w].op}
  /\ UNCHANGED <<same, container, proof>>

\* probeDocker writes what it proved, for every probe to come.
Proof(w) ==
  /\ At(w, "proof")
  /\ \/ proof' = TRUE /\ Goto(w, "command")
     \/ proof' \in BOOLEAN /\ (proof => proof') /\ Fails(w)
  /\ UNCHANGED <<same, container, orphans>>

\* The launcher has its answer by now, and the operation is still registered: the next one may
\* be refused as busy.
Leave(w) ==
  /\ At(w, "leave")
  /\ Close(w)
  /\ UNCHANGED <<same, container, proof, orphans>>

-----------------------------------------------------------------------------
(* The control plane, the monitors and the crash.                          *)

Withdraw(o) ==
  /\ o \in granted
  /\ granted' = granted \ {o}
  /\ UNCHANGED <<request, conn, marks, container, proof, launches, crashes, runs, released, orphans>>

\* Mutant: an answer that refuses is not told from one that was lost.
MonitorWaits(w) ==
  /\ w \in Active /\ ~conn[w].cancelled /\ conn[w].op \in granted
  /\ conn' = [conn EXCEPT ![w].cancelled = TRUE]
  /\ UNCHANGED <<same, container, proof, orphans>>

\* Every eight seconds; a control plane that cannot be reached counts as a refusal, and the
\* deadline of the operation does the same.
Monitor(w) ==
  /\ w \in Active /\ ~conn[w].cancelled
  /\ conn' = [conn EXCEPT ![w].cancelled = TRUE]
  /\ UNCHANGED <<same, container, proof, orphans>>

\* Containers go on without the broker, and nobody looks for them afterwards.
Crash ==
  /\ crashes < MaxCrashes
  /\ crashes' = crashes + 1
  /\ conn' = [w \in Workers |-> Idle]
  /\ orphans' = orphans \cup ActiveOps
  /\ UNCHANGED <<request, granted, marks, container, proof, launches, runs, released>>

Execute(w) ==
  \/ Usage(w) \/ Command(w) \/ Create(w) \/ Inspect(w) \/ Attached(w) \/ Wait(w)
  \/ Stop(w) \/ Proof(w) \/ Leave(w)

Next ==
  \/ \E w \in Workers :
       \/ \E o \in Ops : Launch(w, o)
       \/ Grant(w) \/ Cancel(w) \/ Await(w) \/ Dispatch(w)
       \/ Execute(w) \/ Attach(w) \/ StopFails(w) \/ Monitor(w)
  \/ \E o \in Ops : Exits(o) \/ Withdraw(o)
  \/ Crash

\* What a sandbox or a container runs may go on for as long as nobody cancels it; every other
\* step comes to an end, and the monitor asks again and again.
Busying(w) ==
  /\ conn[w].pc \in {"command", "attach"} /\ ~conn[w].cancelled
  /\ At(w, "attach") => container[conn[w].op] # "exited"

Fairness ==
  \A w \in Workers :
    /\ WF_vars(~Busying(w) /\ Execute(w)) /\ WF_vars(Grant(w)) /\ WF_vars(Dispatch(w))
    /\ WF_vars(Cancel(w)) /\ WF_vars(Await(w))
    /\ WF_vars(conn[w].op \notin granted /\ Monitor(w))

Spec == Init /\ [][Next]_vars /\ Fairness

-----------------------------------------------------------------------------
\* No operation is begun twice, whatever launcher comes again and whatever crashed.
BegunOnce == \A o \in Ops : runs[o] <= 1

\* Once a release has waited for an operation, nothing of it goes on, nor its container, unless
\* the stop command failed or the broker crashed.
ReleasedIsOver ==
  \A o \in released \ orphans : o \notin ActiveOps /\ container[o] # "running"

\* An operation runs alone, besides releases.
Alone ==
  Cardinality({w \in Active : Kind(w) # "release"}) <= 1

\* An operation whose grant is withdrawn comes to its end.
WithdrawnEnds ==
  \A w \in Workers : w \in Active /\ conn[w].op \notin granted ~> w \notin Active

=============================================================================
