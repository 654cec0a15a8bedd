----------------------- MODULE DockerEnvironmentProofs ------------------------
(***************************************************************************)
(* What holds of DockerEnvironment for any number of agents, leases,       *)
(* containers and crashes.                                                 *)
(***************************************************************************)
EXTENDS DockerEnvironment, TLAPS

-----------------------------------------------------------------------------
(* The inductive invariant                                                 *)

Pcs == {"idle", "lookup", "start", "provision", "run", "confirm", "stop", "unfence", "lease",
        "fence", "volume", "active", "alone", "exec", "wait", "after", "cleanup", "own",
        "verify", "erase", "unused", "export", "reading"}

Requests == [pc : Pcs, act : Actions \cup {None, "gc"}, lease : Leases \cup {None}, id : Nat,
             bad : BOOLEAN, then : {None, "own"}]

\* The steps that use a container, and those at which the request holds its fence.
Guarded == Commanding \cup {"cleanup"}
OfContainer == Guarded \cup {"stop", "unfence", "lease", "fence", "own"}

\* What a request may count on at a step: a container that was made for its lease; the
\* fence of a command, as long as its container is there, and no process when the command
\* is about to start; a tombstone alone when a deletion waits to be confirmed.  The
\* collector only stops containers.
Fits(w, pc, id, lease, then) ==
  /\ pc \in OfContainer => id \in Ids /\ box[id].st # "absent"
                             /\ (w # Collector => lease = box[id].lease)
  /\ pc = "unfence" => box[id].st = "removed"
  /\ pc \in Guarded => box[id].st = "removed" \/ fence[id].by = w
  /\ pc = "exec" => procs[id] = {}
  /\ pc = "unused" => vol.retired /\ ~vol.data
  /\ then = "own" => pc \in {"stop", "unfence"}
  /\ w = Collector => pc \in {"idle", "stop", "unfence"} /\ then = None

RequestFits(w) == Fits(w, wk[w].pc, wk[w].id, wk[w].lease, wk[w].then)

\* Until its container is removed, the fence of a command of which nobody knows the end is
\* nobody's.
UnknownFenced == \A id \in Ids : unknown[id] => box[id].st = "removed" \/ fence[id].by = Lost

\* A fence is made for a container that was there.
FencesOfContainers == \A id \in Ids : fence[id].by # None => box[id].st # "absent"

\* Processes are where a supervisor runs.
ProcessesSupervised == \A id \in Ids : procs[id] # {} => box[id].st = "running"

\* A container that is on its way to the lock finds the data or the tombstone.
DataOrTombstone == \A id \in Ids : box[id].st = "starting" => vol.data \/ vol.retired

TombstoneStays == deleted => vol.retired /\ ~vol.data

World == /\ TypeOK /\ UnknownFenced /\ FencesOfContainers /\ ProcessesSupervised
         /\ DataOrTombstone /\ TombstoneStays /\ DataGuarded

IInv ==
  /\ wk \in [Workers -> Requests]
  /\ \A w \in Workers : RequestFits(w)
  /\ World

LEMMA InitIInv == Init => IInv
<1> SUFFICES ASSUME Init PROVE IInv
  OBVIOUS
<1> USE DEF Init, Idle, Gone, NoFence, None, Lost, Collector
<1>1. TypeOK
  <2>1. box \in [Ids -> [lease : Leases \cup {None},
                         st : {"absent", "created", "starting", "running", "exited", "removed"}]]
    OBVIOUS
  <2>2. fence \in [Ids -> [by : Workers \cup {None, Lost}, due : BOOLEAN]]
    OBVIOUS
  <2>3. crashes \in 0..MaxCrashes
    BY DockerEnvironmentAssumption DEF DockerEnvironmentAssumption
  <2> QED
    BY <2>1, <2>2, <2>3 DEF TypeOK
<1>2. Collector \in Workers /\ \A w \in Workers : wk[w] = Idle
  BY DEF Workers
<1>3. wk \in [Workers -> Requests]
  BY DEF Requests, Pcs
<1>4. \A w \in Workers : wk[w].pc = "idle" /\ wk[w].then = None
  BY <1>2
<1>5. \A w \in Workers : RequestFits(w)
  BY <1>4 DEF RequestFits, Fits, OfContainer, Guarded, Commanding
<1>6. UnknownFenced /\ FencesOfContainers /\ ProcessesSupervised /\ DataOrTombstone /\ TombstoneStays /\ DataGuarded
  BY DEF UnknownFenced, FencesOfContainers, ProcessesSupervised, DataOrTombstone, TombstoneStays,
         DataGuarded, Locked
<1> QED
  BY <1>1, <1>3, <1>5, <1>6 DEF IInv, World

-----------------------------------------------------------------------------
(* How a request moves on                                                  *)

\* Only w moves, to a step of the program.
Moves(w) == wk' \in [Workers -> Requests] /\ \A v \in Workers \ {w} : wk'[v] = wk[v]

LEMMA GotoMoves ==
  ASSUME IInv, NEW w \in Workers, NEW pc \in Pcs, Goto(w, pc)
  PROVE  /\ Moves(w) /\ wk'[w].pc = pc
         /\ wk'[w].id = wk[w].id /\ wk'[w].lease = wk[w].lease /\ wk'[w].then = wk[w].then
BY DEF IInv, Goto, Moves, Requests

LEMMA DoneMoves ==
  ASSUME IInv, NEW w \in Workers, Done(w)
  PROVE  Moves(w) /\ wk'[w].pc = "idle" /\ wk'[w].then = None
BY DEF IInv, Done, Moves, Requests, Idle, Pcs, None

LEMMA CleanupRecord ==
  ASSUME NEW r \in Requests, NEW b \in BOOLEAN
  PROVE  LET q == [r EXCEPT !.pc = "cleanup", !.bad = b]
         IN  q.pc = "cleanup" /\ q.id = r.id /\ q.lease = r.lease /\ q.then = r.then
BY DEF Requests

\* To the cleanup of a command, to the fence that is still its own, or to the end.
LEMMA FailsMoves ==
  ASSUME IInv, NEW w \in Workers, Fails(w)
  PROVE  /\ Moves(w)
         /\ \/ /\ wk[w].pc \in Commanding /\ wk'[w].pc = "cleanup" /\ wk'[w].id = wk[w].id
               /\ wk'[w].lease = wk[w].lease /\ wk'[w].then = wk[w].then
            \/ /\ wk[w].then = "own" /\ wk'[w].pc = "own" /\ wk'[w].id = wk[w].id
               /\ wk'[w].lease = wk[w].lease /\ wk'[w].then = None /\ wk[w].pc \notin Commanding
            \/ wk'[w].pc = "idle" /\ wk'[w].then = None /\ wk[w].pc \notin Commanding
<1>0. wk[w].pc \in Commanding => wk[w].then # "own"
  BY DEF IInv, RequestFits, Fits, Commanding
<1>1. CASE wk[w].pc \in Commanding
  <2>1. /\ wk[w] \in Requests
        /\ wk' = [wk EXCEPT ![w] = [wk[w] EXCEPT !.pc = "cleanup", !.bad = TRUE]]
    <3>1. wk' = [wk EXCEPT ![w].pc = "cleanup", ![w].bad = TRUE]
      BY <1>0, <1>1 DEF Fails
    <3> QED
      BY <3>1 DEF IInv
  <2>2. [wk[w] EXCEPT !.pc = "cleanup", !.bad = TRUE] \in Requests
    BY <2>1 DEF Requests, Pcs
  <2>3. wk'[w] = [wk[w] EXCEPT !.pc = "cleanup", !.bad = TRUE] /\ \A v \in Workers \ {w} : wk'[v] = wk[v]
    BY <2>1 DEF IInv
  <2>4. Moves(w)
    BY <2>1, <2>2, <2>3 DEF IInv, Moves
  <2>5. /\ wk'[w].pc = "cleanup" /\ wk'[w].id = wk[w].id
        /\ wk'[w].lease = wk[w].lease /\ wk'[w].then = wk[w].then
    BY <2>1, <2>3, CleanupRecord
  <2> QED
    BY <1>1, <2>4, <2>5
<1>2. CASE wk[w].pc \notin Commanding /\ wk[w].then = "own"
  BY <1>2 DEF IInv, Fails, Moves, Requests, Pcs, None
<1>3. CASE wk[w].pc \notin Commanding /\ wk[w].then # "own"
  BY <1>3, DoneMoves DEF Fails
<1> QED
  BY <1>1, <1>2, <1>3

\* Wherever it was, it can count on what it needs there.
LEMMA EndFits ==
  ASSUME NEW w \in Workers, wk'[w].pc = "idle", wk'[w].then = None
  PROVE  RequestFits(w)'
BY DEF RequestFits, Fits, OfContainer, Guarded, Commanding, None

\* A step of a request that changes nothing else.
LEMMA LooksOnly ==
  ASSUME IInv, NEW w \in Workers, Moves(w), RequestFits(w)', wk'[w].pc # "reading",
         UNCHANGED <<docker, history, crashes>>, expired' \subseteq Leases
  PROVE  IInv'
<1> USE DEF docker, history
<1>1. \A v \in Workers : RequestFits(v)'
  <2> SUFFICES ASSUME NEW v \in Workers, v # w PROVE RequestFits(v)'
    OBVIOUS
  <2>1. wk'[v] = wk[v] /\ RequestFits(v)
    BY DEF Moves, IInv
  <2> QED
    BY <2>1 DEF RequestFits, Fits
<1>2. Exporting' => Exporting
  BY DEF Exporting, Moves
<1>3. World'
  BY <1>2 DEF IInv, World, TypeOK, UnknownFenced, FencesOfContainers, ProcessesSupervised,
              DataOrTombstone, TombstoneStays, DataGuarded, Locked
<1> QED
  BY <1>1, <1>3 DEF IInv, Moves

-----------------------------------------------------------------------------
(* The steps of a request that only look                                   *)

LEMMA LookingSteps ==
  ASSUME IInv, NEW w \in Workers,
         \/ Lookup(w) \/ StartLookup(w) \/ NameTaken(w) \/ Confirm(w) \/ CheckLease(w)
         \/ CheckVolume(w) \/ CheckActive(w) \/ RequireOnlySupervisor(w) \/ Cleanup(w)
         \/ RequireUnused(w) \/ ExportEnds(w)
  PROVE  IInv'
<1> DEFINE Keeps == UNCHANGED <<docker, history, crashes>> /\ expired' = expired
<1>0. expired \subseteq Leases /\ RequestFits(w)
  BY DEF IInv, World, TypeOK
<1>1. ASSUME Keeps, Done(w) PROVE IInv'
  BY <1>0, <1>1, DoneMoves, EndFits, LooksOnly
\* An error leads to the cleanup only from a command.
<1>2. ASSUME Keeps, Fails(w) PROVE IInv'
  <2>1. RequestFits(w)'
    BY <1>0, <1>2, FailsMoves DEF RequestFits, Fits, OfContainer, Guarded, Commanding, docker, None
  <2>2. wk'[w].pc # "reading"
    BY <1>2, FailsMoves
  <2> QED
    BY <1>0, <1>2, <2>1, <2>2, FailsMoves, LooksOnly
<1>3. ASSUME Keeps, NEW pc \in Pcs \ {"unfence", "unused", "reading"}, Goto(w, pc),
             pc \in OfContainer => wk[w].pc \in OfContainer,
             pc \in Guarded => wk[w].pc \in Guarded,
             pc = "exec" => procs[wk[w].id] = {},
             wk[w].pc \notin {"stop", "unfence"}, w # Collector
      PROVE  IInv'
  <2>1. RequestFits(w)'
    BY <1>0, <1>3, GotoMoves DEF RequestFits, Fits, docker
  <2> QED
    BY <1>0, <1>3, <2>1, GotoMoves, LooksOnly
<1>4. wk[w].pc \notin {"idle", "stop", "unfence"} => w # Collector
  BY <1>0 DEF RequestFits, Fits
<1> USE DEF Pcs, OfContainer, Guarded, Commanding, history
<1>5. CASE Lookup(w)
  <2> DEFINE r == wk'[w]
  <2>1. CASE \/ Done(w) \/ Goto(w, "verify") \/ Goto(w, "start")
    BY <1>1, <1>3, <1>4, <1>5, <2>1 DEF Lookup
  <2>2. ASSUME NEW id \in Named(wk[w].lease), Owns(w, id), NEW pc \in {"stop", "lease"},
               wk' = [wk EXCEPT ![w].pc = pc, ![w].id = id]
        PROVE  IInv'
    <3>1. id \in Ids /\ box[id].st # "absent" /\ wk[w].lease = box[id].lease
      BY <2>2 DEF Named, Owns, Present
    <3>2. /\ Moves(w) /\ wk'[w].pc = pc /\ wk'[w].id = id
          /\ wk'[w].lease = wk[w].lease /\ wk'[w].then = wk[w].then
      <4>1. wk[w] \in Requests /\ id \in Nat
        BY <3>1, DockerEnvironmentAssumption DEF IInv, DockerEnvironmentAssumption
      <4>2. wk'[w] = [wk[w] EXCEPT !.pc = pc, !.id = id] /\ \A v \in Workers \ {w} : wk'[v] = wk[v]
        BY <2>2 DEF IInv
      <4>3. wk'[w] \in Requests
        BY <4>1, <4>2 DEF Requests
      <4>4. wk' \in [Workers -> Requests]
        BY <2>2, <4>2, <4>3 DEF IInv
      <4> QED
        BY <4>1, <4>2, <4>4 DEF Moves, Requests
    <3>3. wk[w].then # "own" /\ w # Collector
      BY <1>0, <1>4, <1>5 DEF Lookup, RequestFits, Fits
    <3>4. RequestFits(w)'
      BY <1>5, <3>1, <3>2, <3>3 DEF Lookup, RequestFits, Fits, docker
    <3> QED
      BY <1>0, <1>5, <3>2, <3>4, LooksOnly DEF Lookup
  <2> QED
    BY <1>5, <2>1, <2>2 DEF Lookup, Found, NotFound
<1>6. CASE StartLookup(w)
  BY <1>1, <1>3, <1>4, <1>6 DEF StartLookup
<1>7. CASE NameTaken(w) \/ Confirm(w) \/ ExportEnds(w)
  BY <1>1, <1>7 DEF NameTaken, Confirm, ExportEnds
<1>8. CASE CheckLease(w)
  BY <1>2, <1>3, <1>4, <1>8 DEF CheckLease
<1>9. CASE CheckVolume(w)
  BY <1>2, <1>3, <1>4, <1>9 DEF CheckVolume
<1>10. CASE CheckActive(w)
  BY <1>2, <1>3, <1>4, <1>10 DEF CheckActive
<1>11. CASE RequireOnlySupervisor(w)
  BY <1>2, <1>3, <1>4, <1>11 DEF RequireOnlySupervisor, Alone
<1>12. CASE Cleanup(w)
  <2>1. CASE Goto(w, "own")
    BY <1>3, <1>4, <1>12, <2>1 DEF Cleanup
  <2>2. CASE wk' = [wk EXCEPT ![w].pc = "stop", ![w].then = "own"]
    <3>1. /\ Moves(w) /\ wk'[w].pc = "stop" /\ wk'[w].id = wk[w].id
          /\ wk'[w].lease = wk[w].lease /\ wk'[w].then = "own" /\ w # Collector
      <4>1. wk[w] \in Requests /\ w # Collector
        BY <1>4, <1>12 DEF IInv, Cleanup
      <4>2. wk'[w] = [wk[w] EXCEPT !.pc = "stop", !.then = "own"] /\ \A v \in Workers \ {w} : wk'[v] = wk[v]
        BY <2>2 DEF IInv
      <4>3. wk'[w] \in Requests
        BY <4>1, <4>2 DEF Requests
      <4>4. wk' \in [Workers -> Requests]
        BY <2>2, <4>2, <4>3 DEF IInv
      <4> QED
        BY <4>1, <4>2, <4>4 DEF Moves, Requests
    <3>2. RequestFits(w)'
      BY <1>0, <1>12, <3>1 DEF Cleanup, RequestFits, Fits, docker
    <3> QED
      BY <1>0, <1>12, <3>1, <3>2, LooksOnly DEF Cleanup
  <2> QED
    BY <1>12, <2>1, <2>2 DEF Cleanup, Goto
<1>13. CASE RequireUnused(w)
  BY <1>1, <1>3, <1>4, <1>13 DEF RequireUnused
<1> QED
  BY <1>5, <1>6, <1>7, <1>8, <1>9, <1>10, <1>11, <1>12, <1>13

\* Nor does the arrival of a request, or the choice of the collector.
LEMMA ArrivalSteps ==
  ASSUME IInv,
         \/ \E w \in Agents : \E ask \in Asks[w] : Request(w, ask[1], ask[2])
         \/ \E id \in Ids : Collect(id)
  PROVE  IInv'
<1>0. expired \subseteq Leases
  BY DEF IInv, World, TypeOK
<1>1. ASSUME NEW w \in Agents, NEW ask \in Asks[w], Request(w, ask[1], ask[2]) PROVE IInv'
  <2>1. ask[1] \in Actions /\ ask[2] \in Leases /\ w # Collector /\ w \in Workers
    BY DockerEnvironmentAssumption DEF DockerEnvironmentAssumption, Workers
  <2>2. [Idle EXCEPT !.pc = "lookup", !.act = ask[1], !.lease = ask[2]] \in Requests
    BY <2>1 DEF Requests, Idle, Pcs, None
  <2>3. Moves(w) /\ wk'[w].pc = "lookup" /\ wk'[w].then = None
    BY <1>1, <2>1, <2>2 DEF IInv, Request, Moves, Idle
  <2>4. RequestFits(w)'
    BY <2>1, <2>3 DEF RequestFits, Fits, OfContainer, Guarded, Commanding, None
  <2> QED
    BY <1>0, <1>1, <2>1, <2>3, <2>4, LooksOnly DEF Request, history
<1>2. ASSUME NEW id \in Ids, Collect(id) PROVE IInv'
  <2>1. [Idle EXCEPT !.pc = "stop", !.act = "gc", !.id = id] \in Requests /\ Collector \in Workers
    BY DockerEnvironmentAssumption DEF DockerEnvironmentAssumption, Requests, Idle, Pcs, None, Workers
  <2>2. /\ Moves(Collector) /\ wk'[Collector].pc = "stop" /\ wk'[Collector].id = id
        /\ wk'[Collector].then = None
    BY <1>2, <2>1 DEF IInv, Collect, Moves, Idle
  <2>3. box[id].st # "absent"
    BY <1>2 DEF Collect, Collectable, IInv, World, FencesOfContainers
  <2>4. RequestFits(Collector)'
    BY <1>2, <2>2, <2>3 DEF Collect, RequestFits, Fits, OfContainer, Guarded, Commanding, None, docker
  <2> QED
    BY <1>0, <1>2, <2>1, <2>2, <2>4, LooksOnly DEF Collect, history
<1> QED
  BY <1>1, <1>2

-----------------------------------------------------------------------------
(* The steps that change what Docker keeps                                 *)

\* Nobody begins to read the volume.
LEMMA NoExportBegins ==
  ASSUME NEW w \in Workers, Moves(w), wk'[w].pc # "reading"
  PROVE  Exporting' => Exporting
BY DEF Exporting, Moves

\* What the invariant says of the request that moves, of the others, and of the rest.
LEMMA Assembled ==
  ASSUME IInv, NEW w \in Workers, Moves(w), RequestFits(w)', World',
         \A v \in Workers \ {w} : wk'[v] = wk[v] /\ RequestFits(v) => RequestFits(v)'
  PROVE  IInv'
BY DEF IInv, Moves

LEMMA ProvisionStep ==
  ASSUME IInv, NEW w \in Workers, NEW create \in BOOLEAN, Provision(w, create)
  PROVE  IInv'
<1>1. w # Collector /\ wk[w].then # "own" /\ RequestFits(w)
  BY DEF IInv, Provision, RequestFits, Fits
<1>2. Moves(w) /\ RequestFits(w)' /\ wk'[w].pc # "reading"
  <2>1. CASE Goto(w, "run")
    <3>1. Moves(w) /\ wk'[w].pc = "run" /\ wk'[w].then # "own"
      BY <1>1, <2>1, GotoMoves DEF Pcs
    <3> QED
      BY <1>1, <3>1 DEF RequestFits, Fits, OfContainer, Guarded, Commanding
  <2>2. CASE Fails(w)
    <3>1. Moves(w) /\ wk'[w].pc = "idle" /\ wk'[w].then = None
      BY <1>1, <2>2, FailsMoves DEF Provision, Commanding
    <3> QED
      BY <3>1, EndFits
  <2> QED
    BY <2>1, <2>2 DEF Provision
<1>3. /\ vol' \in [exists : BOOLEAN, data : BOOLEAN, retired : BOOLEAN]
      /\ vol'.retired = vol.retired /\ (vol.data => vol'.data)
      /\ vol.retired /\ ~vol.data => ~vol'.data
  BY DEF IInv, World, TypeOK, Provision, MayProvision
<1>4. UNCHANGED <<box, fence, procs, expired, history, crashes>>
  BY DEF Provision
<1>5. World'
  <2>1. Exporting' => Exporting
    BY <1>2, NoExportBegins
  <2>2. TypeOK'
    BY <1>3, <1>4 DEF IInv, World, TypeOK, history
  <2>3. TombstoneStays' /\ DataOrTombstone' /\ DataGuarded'
    BY <1>3, <1>4, <2>1 DEF IInv, World, TombstoneStays, DataOrTombstone, DataGuarded, Locked, history
  <2>4. UnknownFenced' /\ FencesOfContainers' /\ ProcessesSupervised'
    BY <1>4 DEF IInv, World, UnknownFenced, FencesOfContainers, ProcessesSupervised, history
  <2> QED
    BY <2>2, <2>3, <2>4 DEF World
<1>6. ASSUME NEW v \in Workers \ {w}, wk'[v] = wk[v], RequestFits(v) PROVE RequestFits(v)'
  BY <1>3, <1>4, <1>6 DEF RequestFits, Fits
<1> QED
  BY <1>2, <1>5, <1>6, Assembled

LEMMA RunStep ==
  ASSUME IInv, NEW w \in Workers, Run(w)
  PROVE  IInv'
<1>1. w # Collector /\ wk[w].then # "own" /\ wk[w].lease \in Leases \cup {None}
  BY DEF IInv, Run, RequestFits, Fits, Requests
<1>2. Moves(w) /\ RequestFits(w)' /\ wk'[w].pc # "reading"
  <2>1. CASE Goto(w, "confirm")
    <3>1. Moves(w) /\ wk'[w].pc = "confirm" /\ wk'[w].then # "own"
      BY <1>1, <2>1, GotoMoves DEF Pcs
    <3> QED
      BY <1>1, <3>1 DEF RequestFits, Fits, OfContainer, Guarded, Commanding
  <2>2. CASE Done(w)
    BY <2>2, DoneMoves, EndFits
  <2> QED
    BY <2>1, <2>2 DEF Run
<1>3. PICK id \in Ids, st \in {"created", "starting"} :
        /\ box[id] = Gone /\ (st = "starting" => vol.data)
        /\ box' = [box EXCEPT ![id] = [lease |-> wk[w].lease, st |-> st]]
  BY DEF Run
<1>4. UNCHANGED <<fence, procs, vol, expired, history, crashes>>
  BY DEF Run
<1>5. /\ box' \in [Ids -> [lease : Leases \cup {None},
                           st : {"absent", "created", "starting", "running", "exited", "removed"}]]
      /\ box[id].st = "absent" /\ box'[id].st = st /\ \A i \in Ids \ {id} : box'[i] = box[i]
  BY <1>1, <1>3 DEF IInv, World, TypeOK, Gone
<1>6. World'
  <2>1. Exporting' => Exporting
    BY <1>2, NoExportBegins
  <2>2. TypeOK'
    BY <1>4, <1>5 DEF IInv, World, TypeOK, history
  <2>3. TombstoneStays' /\ DataOrTombstone' /\ DataGuarded'
    BY <1>3, <1>4, <1>5, <2>1
       DEF IInv, World, TombstoneStays, DataOrTombstone, DataGuarded, Locked, history
  <2>4. UnknownFenced' /\ FencesOfContainers' /\ ProcessesSupervised'
    BY <1>4, <1>5 DEF IInv, World, UnknownFenced, FencesOfContainers, ProcessesSupervised, history
  <2> QED
    BY <2>2, <2>3, <2>4 DEF World
<1>7. ASSUME NEW v \in Workers \ {w}, wk'[v] = wk[v], RequestFits(v) PROVE RequestFits(v)'
  BY <1>4, <1>5, <1>7 DEF RequestFits, Fits, OfContainer
<1> QED
  BY <1>2, <1>6, <1>7, Assembled

LEMMA StopStep ==
  ASSUME IInv, NEW w \in Workers, Stop(w)
  PROVE  IInv'
<1> DEFINE id == wk[w].id
<1>1. id \in Ids /\ box[id].st # "absent" /\ RequestFits(w)
  BY DEF IInv, Stop, RequestFits, Fits, OfContainer
<1>2. /\ box' = [box EXCEPT ![id].st = "removed"] /\ procs' = [procs EXCEPT ![id] = {}]
      /\ UNCHANGED <<fence, vol, expired, history, crashes>>
  <2>1. ~Present(id) => box[id].st = "removed"
    BY <1>1 DEF IInv, World, TypeOK, Present
  <2> QED
    BY <2>1 DEF Stop
<1>3. /\ box' \in [Ids -> [lease : Leases \cup {None},
                           st : {"absent", "created", "starting", "running", "exited", "removed"}]]
      /\ procs' \in [Ids -> SUBSET (Agents \cup {Lost})]
      /\ box'[id].st = "removed" /\ procs'[id] = {}
      /\ \A i \in Ids : box'[i].lease = box[i].lease /\ (i # id => box'[i] = box[i] /\ procs'[i] = procs[i])
  BY <1>1, <1>2 DEF IInv, World, TypeOK
<1>4. Moves(w) /\ RequestFits(w)' /\ wk'[w].pc # "reading"
  <2>1. CASE Goto(w, "unfence")
    <3>1. /\ Moves(w) /\ wk'[w].pc = "unfence" /\ wk'[w].then = wk[w].then
          /\ wk'[w].id = id /\ wk'[w].lease = wk[w].lease
      BY <2>1, GotoMoves DEF Pcs
    <3> QED
      BY <1>1, <1>3, <3>1 DEF Stop, RequestFits, Fits, OfContainer, Guarded, Commanding
  <2>2. CASE Fails(w)
    <3>1. wk[w].pc \notin Commanding
      BY DEF Stop, Commanding
    <3>2. CASE wk'[w].pc = "idle" /\ wk'[w].then = None
      BY <2>2, <3>2, FailsMoves, EndFits
    <3>3. CASE /\ wk'[w].pc = "own" /\ wk'[w].id = wk[w].id /\ wk[w].then = "own"
               /\ wk'[w].lease = wk[w].lease /\ wk'[w].then = None
      BY <1>1, <1>3, <2>2, <3>3, FailsMoves
         DEF Stop, RequestFits, Fits, OfContainer, Guarded, Commanding, None
    <3> QED
      BY <2>2, <3>1, <3>2, <3>3, FailsMoves
  <2> QED
    BY <2>1, <2>2 DEF Stop
<1>5. World'
  <2>1. Exporting' => Exporting
    BY <1>4, NoExportBegins
  <2>2. TypeOK'
    BY <1>2, <1>3 DEF IInv, World, TypeOK, history
  <2>3. TombstoneStays' /\ DataOrTombstone' /\ DataGuarded'
    BY <1>2, <1>3, <2>1
       DEF IInv, World, TombstoneStays, DataOrTombstone, DataGuarded, Locked, history
  <2>4. UnknownFenced' /\ FencesOfContainers' /\ ProcessesSupervised'
    BY <1>2, <1>3 DEF IInv, World, UnknownFenced, FencesOfContainers, ProcessesSupervised, history
  <2> QED
    BY <2>2, <2>3, <2>4 DEF World
<1>6. ASSUME NEW v \in Workers \ {w}, wk'[v] = wk[v], RequestFits(v) PROVE RequestFits(v)'
  BY <1>2, <1>3, <1>6 DEF RequestFits, Fits, OfContainer, Guarded, Commanding
<1> QED
  BY <1>4, <1>5, <1>6, Assembled

\* What a change of fences alone keeps: the fence of a command that has not moved, and the
\* fences of commands of which nobody knows the end.
LEMMA FencesOnly ==
  ASSUME IInv, NEW w \in Workers, Moves(w), RequestFits(w)', wk'[w].pc # "reading",
         fence' \in [Ids -> [by : Workers \cup {None, Lost}, due : BOOLEAN]],
         UNCHANGED <<box, procs, vol, history, crashes>>, expired' \subseteq Leases,
         \A id \in Ids : \/ box[id].st = "removed"
                         \/ /\ fence[id].by \in (Workers \ {w}) \cup {Lost} => fence'[id].by = fence[id].by
                            /\ fence'[id].by # None => box[id].st # "absent"
  PROVE  IInv'
<1>1. World'
  <2>1. Exporting' => Exporting
    BY NoExportBegins
  <2>2. TypeOK'
    BY DEF IInv, World, TypeOK, history
  <2>3. TombstoneStays' /\ DataOrTombstone' /\ DataGuarded' /\ ProcessesSupervised'
    BY <2>1 DEF IInv, World, TombstoneStays, DataOrTombstone, DataGuarded, ProcessesSupervised,
                Locked, history
  <2>4. UnknownFenced' /\ FencesOfContainers'
    BY DEF IInv, World, UnknownFenced, FencesOfContainers, history
  <2> QED
    BY <2>2, <2>3, <2>4 DEF World
<1>2. ASSUME NEW v \in Workers \ {w}, wk'[v] = wk[v], RequestFits(v) PROVE RequestFits(v)'
  BY <1>2 DEF RequestFits, Fits, OfContainer, Guarded, Commanding
<1> QED
  BY <1>1, <1>2, Assembled

LEMMA FenceSteps ==
  ASSUME IInv, NEW w \in Workers, Unfence(w) \/ AcquireFence(w) \/ RemoveOwn(w)
  PROVE  IInv'
<1> DEFINE id == wk[w].id
<1>1. /\ id \in Ids /\ box[id].st # "absent" /\ RequestFits(w) /\ expired \subseteq Leases
      /\ fence \in [Ids -> [by : Workers \cup {None, Lost}, due : BOOLEAN]]
  BY DEF IInv, World, TypeOK, Unfence, AcquireFence, RemoveOwn, RequestFits, Fits, OfContainer, Guarded
<1>2. Lost \notin Workers /\ None \notin Workers
  BY DockerEnvironmentAssumption DEF DockerEnvironmentAssumption, Workers, None, Lost, Collector
<1>3. \A i \in Ids : fence[i].by # None => box[i].st # "absent"
  BY DEF IInv, World, FencesOfContainers
<1>4. CASE Unfence(w)
  <2>1. Moves(w) /\ RequestFits(w)' /\ wk'[w].pc # "reading"
    <3>1. CASE wk[w].then # "own"
      BY <1>4, <3>1, DoneMoves, EndFits DEF Unfence, StopEnds
    <3>2. CASE wk[w].then = "own"
      <4>1. /\ Moves(w) /\ wk'[w].pc = "own" /\ wk'[w].then = None /\ wk'[w].id = id
            /\ wk'[w].lease = wk[w].lease
        <5>1. wk[w] \in Requests /\ wk' = [wk EXCEPT ![w] = [wk[w] EXCEPT !.pc = "own", !.then = None]]
          BY <1>4, <3>2 DEF Unfence, StopEnds, IInv
        <5>2. [wk[w] EXCEPT !.pc = "own", !.then = None] \in Requests
          BY <5>1 DEF Requests, Pcs
        <5> QED
          BY <5>1, <5>2 DEF Moves, IInv, Requests
      <4> QED
        BY <1>1, <1>4, <3>2, <4>1 DEF Unfence, RequestFits, Fits, OfContainer, Guarded, Commanding, None
    <3> QED
      BY <3>1, <3>2
  <2>2. fence' = [fence EXCEPT ![id] = NoFence] /\ box[id].st = "removed"
    BY <1>1, <1>4 DEF Unfence, RequestFits, Fits
  <2>3. fence' \in [Ids -> [by : Workers \cup {None, Lost}, due : BOOLEAN]]
    BY <1>1, <2>2 DEF NoFence
  <2> QED
    BY <1>1, <1>3, <1>4, <2>1, <2>2, <2>3, FencesOnly DEF Unfence
<1>5. CASE AcquireFence(w)
  <2>1. w # Collector /\ wk[w].then # "own"
    BY <1>1, <1>5 DEF AcquireFence, RequestFits, Fits
  <2>2. CASE /\ fence[id].by = None /\ fence' = [fence EXCEPT ![id] = [by |-> w, due |-> FALSE]]
             /\ Goto(w, "volume") \/ Goto(w, "own")
    <3>1. /\ fence' \in [Ids -> [by : Workers \cup {None, Lost}, due : BOOLEAN]]
          /\ fence'[id].by = w /\ \A i \in Ids \ {id} : fence'[i] = fence[i]
      BY <1>1, <2>2
    <3>2. /\ Moves(w) /\ wk'[w].pc \in {"volume", "own"} /\ wk'[w].id = id
          /\ wk'[w].lease = wk[w].lease /\ wk'[w].then = wk[w].then
      BY <2>2, GotoMoves DEF Pcs
    <3>3. RequestFits(w)'
      BY <1>1, <1>5, <2>1, <3>1, <3>2
         DEF AcquireFence, RequestFits, Fits, OfContainer, Guarded, Commanding
    <3>4. UNCHANGED <<box, procs, vol, history, crashes>> /\ expired' \subseteq Leases
      BY <1>1, <1>5 DEF AcquireFence
    <3>5. \A i \in Ids :
            /\ fence[i].by \in (Workers \ {w}) \cup {Lost} => fence'[i].by = fence[i].by
            /\ fence'[i].by # None => box[i].st # "absent"
      <4>1. None # Lost
        BY DEF None, Lost
      <4> QED
        BY <1>1, <1>2, <1>3, <2>2, <3>1, <4>1
    <3> QED
      BY <3>1, <3>2, <3>3, <3>4, <3>5, FencesOnly
  <2>3. CASE UNCHANGED fence /\ (Goto(w, "stop") \/ Done(w))
    <3>1. Moves(w) /\ RequestFits(w)' /\ wk'[w].pc # "reading"
      <4>1. CASE Goto(w, "stop")
        <5>1. /\ Moves(w) /\ wk'[w].pc = "stop" /\ wk'[w].id = id
              /\ wk'[w].lease = wk[w].lease /\ wk'[w].then = wk[w].then
          BY <4>1, GotoMoves DEF Pcs
        <5> QED
          BY <1>1, <1>5, <2>1, <5>1 DEF AcquireFence, RequestFits, Fits, OfContainer, Guarded, Commanding
      <4>2. CASE Done(w)
        BY <4>2, DoneMoves, EndFits
      <4> QED
        BY <2>3, <4>1, <4>2
    <3> QED
      BY <1>1, <1>3, <1>5, <2>3, <3>1, FencesOnly DEF AcquireFence
  <2> QED
    BY <1>5, <2>2, <2>3 DEF AcquireFence, ExpiredFence
<1>6. CASE RemoveOwn(w)
  <2>1. Moves(w) /\ RequestFits(w)' /\ wk'[w].pc # "reading"
    BY <1>6, DoneMoves, EndFits DEF RemoveOwn
  <2>2. fence' = [fence EXCEPT ![id] = IF fence[id].by = w THEN NoFence ELSE fence[id]]
    BY <1>6 DEF RemoveOwn
  <2>3. /\ fence' \in [Ids -> [by : Workers \cup {None, Lost}, due : BOOLEAN]]
        /\ \A i \in Ids : fence'[i] = fence[i] \/ (fence[i].by = w /\ fence'[i].by = None)
    BY <1>1, <2>2 DEF NoFence
  <2> QED
    BY <1>1, <1>2, <1>3, <1>6, <2>1, <2>3, FencesOnly DEF RemoveOwn
<1> QED
  BY <1>4, <1>5, <1>6

\* A fence that is abandoned is nobody's.
LEMMA AbandonedFences ==
  ASSUME IInv, NEW w \in Workers
  PROVE  /\ Abandoned(w) \in [Ids -> [by : Workers \cup {None, Lost}, due : BOOLEAN]]
         /\ \A id \in Ids : IF fence[id].by = w THEN Abandoned(w)[id].by = Lost
                            ELSE Abandoned(w)[id] = fence[id]
BY DEF IInv, World, TypeOK, Abandoned

LEMMA CommandFailsStep ==
  ASSUME IInv, NEW w \in Workers, CommandFails(w)
  PROVE  IInv'
<1>1. RequestFits(w) /\ expired \subseteq Leases
  BY DEF IInv, World, TypeOK
<1>2. /\ fence' \in [Ids -> [by : Workers \cup {None, Lost}, due : BOOLEAN]]
      /\ \A id \in Ids : fence'[id] = fence[id]
           \/ (fence[id].by = w /\ fence'[id].by = Lost /\ wk[w].pc \in {"fence", "own"})
  BY AbandonedFences DEF CommandFails, IInv, World, TypeOK
<1>3. Lost \notin Workers /\ None \notin Workers
  BY DockerEnvironmentAssumption DEF DockerEnvironmentAssumption, Workers, None, Lost, Collector
<1>4. Moves(w) /\ RequestFits(w)' /\ wk'[w].pc # "reading"
  <2>1. CASE wk'[w].pc = "idle" /\ wk'[w].then = None
    BY <2>1, FailsMoves, EndFits DEF CommandFails
  <2>2. CASE /\ wk[w].pc \in Commanding /\ wk'[w].pc = "cleanup" /\ wk'[w].id = wk[w].id
             /\ wk'[w].lease = wk[w].lease /\ wk'[w].then = wk[w].then
    BY <1>1, <1>2, <2>2, FailsMoves
       DEF CommandFails, RequestFits, Fits, OfContainer, Guarded, Commanding
  <2>3. CASE /\ wk[w].then = "own" /\ wk'[w].pc = "own" /\ wk'[w].id = wk[w].id
             /\ wk'[w].lease = wk[w].lease /\ wk'[w].then = None
    BY <1>1, <2>3, FailsMoves DEF CommandFails, RequestFits, Fits, OfContainer, Guarded, Commanding, None
  <2> QED
    BY <2>1, <2>2, <2>3, FailsMoves DEF CommandFails
<1>5. \A id \in Ids : fence[id].by # None => box[id].st # "absent"
  BY DEF IInv, World, FencesOfContainers
<1> QED
  BY <1>1, <1>2, <1>3, <1>4, <1>5, FencesOnly DEF CommandFails, None, Lost

LEMMA CrashStep ==
  ASSUME IInv, NEW w \in Workers, Crash(w)
  PROVE  IInv'
<1>1. RequestFits(w) /\ TypeOK
  BY DEF IInv, World
<1>2. Lost \notin Workers /\ None \notin Workers /\ None # Lost /\ MaxCrashes \in Nat
  BY DockerEnvironmentAssumption DEF DockerEnvironmentAssumption, Workers, None, Lost, Collector
<1>3. /\ Moves(w) /\ RequestFits(w)' /\ wk'[w].pc # "reading"
      /\ UNCHANGED <<box, vol, expired, deleted>> /\ crashes' = crashes + 1 /\ crashes < MaxCrashes
  BY DoneMoves, EndFits DEF Crash
<1>4. /\ fence' \in [Ids -> [by : Workers \cup {None, Lost}, due : BOOLEAN]]
      /\ \A id \in Ids : IF fence[id].by = w THEN fence'[id].by = Lost ELSE fence'[id] = fence[id]
  BY AbandonedFences DEF Crash
<1>5. /\ procs' \in [Ids -> SUBSET (Agents \cup {Lost})]
      /\ \A id \in Ids : procs[id] = {} => procs'[id] = {}
  BY <1>1 DEF Crash, TypeOK
<1>6. /\ unknown' \in [Ids -> BOOLEAN]
      /\ \A id \in Ids : unknown'[id] => unknown[id] \/ (id = wk[w].id /\ wk[w].pc \in Guarded)
  BY <1>1 DEF Crash, TypeOK, Guarded, Commanding
<1>7. World'
  <2>1. Exporting' => Exporting
    BY <1>3, NoExportBegins
  <2>2. TypeOK'
    BY <1>1, <1>2, <1>3, <1>4, <1>5, <1>6 DEF TypeOK
  <2>3. TombstoneStays' /\ DataOrTombstone' /\ DataGuarded'
    BY <1>3, <2>1 DEF IInv, World, TombstoneStays, DataOrTombstone, DataGuarded, Locked
  <2>4. ProcessesSupervised'
    BY <1>3, <1>5 DEF IInv, World, ProcessesSupervised
  <2>5. UnknownFenced'
    BY <1>1, <1>2, <1>3, <1>4, <1>6 DEF IInv, World, UnknownFenced, RequestFits, Fits
  <2>6. FencesOfContainers'
    BY <1>2, <1>3, <1>4 DEF IInv, World, FencesOfContainers
  <2> QED
    BY <2>2, <2>3, <2>4, <2>5, <2>6 DEF World
<1>8. ASSUME NEW v \in Workers \ {w}, wk'[v] = wk[v], RequestFits(v) PROVE RequestFits(v)'
  BY <1>3, <1>4, <1>5, <1>8 DEF RequestFits, Fits, OfContainer, Guarded, Commanding
<1> QED
  BY <1>3, <1>7, <1>8, Assembled

\* Only a command whose container runs and whose fence is its own starts a process, and then
\* no other command is about to.
LEMMA ProcessSteps ==
  ASSUME IInv, NEW w \in Workers, Exec(w) \/ ExecReturns(w)
  PROVE  IInv'
<1> DEFINE id == wk[w].id
<1>1. /\ id \in Ids /\ RequestFits(w) /\ w \in Agents /\ TypeOK
      /\ wk[w].pc \in {"exec", "wait"} /\ wk[w].then # "own"
  BY DEF IInv, World, Exec, ExecReturns, RequestFits, Fits, OfContainer, Guarded, Commanding, Workers
<1>2. UNCHANGED <<box, fence, vol, expired, history, crashes>>
  BY DEF Exec, ExecReturns
<1>3. /\ procs' \in [Ids -> SUBSET (Agents \cup {Lost})]
      /\ \A i \in Ids : procs'[i] # {} => procs[i] # {} \/ (i = id /\ Exec(w) /\ box[id].st = "running")
  <2>1. CASE Exec(w)
    BY <1>1, <2>1 DEF Exec, TypeOK
  <2>2. CASE ExecReturns(w)
    BY <1>1, <2>2 DEF ExecReturns, TypeOK
  <2> QED
    BY <2>1, <2>2
<1>4. Moves(w) /\ RequestFits(w)' /\ wk'[w].pc # "reading"
  <2>1. CASE Goto(w, "wait") \/ Goto(w, "after")
    <3>1. /\ Moves(w) /\ wk'[w].pc \in {"wait", "after"} /\ wk'[w].id = id
          /\ wk'[w].lease = wk[w].lease /\ wk'[w].then = wk[w].then
      BY <2>1, GotoMoves DEF Pcs
    <3> QED
      BY <1>1, <1>2, <3>1 DEF RequestFits, Fits, OfContainer, Guarded, Commanding
  <2>2. CASE Fails(w)
    <3>1. /\ Moves(w) /\ wk'[w].pc = "cleanup" /\ wk'[w].id = id
          /\ wk'[w].lease = wk[w].lease /\ wk'[w].then = wk[w].then
      <4>1. wk[w].pc \in Commanding
        BY <1>1 DEF Commanding
      <4> QED
        BY <2>2, <4>1, FailsMoves
    <3> QED
      BY <1>1, <1>2, <3>1 DEF RequestFits, Fits, OfContainer, Guarded, Commanding
  <2> QED
    BY <2>1, <2>2 DEF Exec, ExecReturns
<1>5. World'
  <2>1. Exporting' => Exporting
    BY <1>4, NoExportBegins
  <2>2. TypeOK'
    BY <1>1, <1>2, <1>3 DEF TypeOK, history
  <2>3. TombstoneStays' /\ DataOrTombstone' /\ DataGuarded' /\ UnknownFenced' /\ FencesOfContainers'
    BY <1>2, <2>1 DEF IInv, World, TombstoneStays, DataOrTombstone, DataGuarded, Locked, UnknownFenced,
                      FencesOfContainers, history
  <2>4. ProcessesSupervised'
    BY <1>2, <1>3 DEF IInv, World, ProcessesSupervised
  <2> QED
    BY <2>2, <2>3, <2>4 DEF World
<1>6. ASSUME NEW v \in Workers \ {w}, wk'[v] = wk[v], RequestFits(v) PROVE RequestFits(v)'
  <2>1. wk[v].pc = "exec" => procs'[wk[v].id] = {}
    <3>1. ASSUME wk[v].pc = "exec", wk[v].id = id, Exec(w), box[id].st = "running" PROVE FALSE
      <4>1. fence[id].by = v /\ fence[id].by = w
        BY <1>1, <1>6, <3>1 DEF Exec, RequestFits, Fits, Guarded, Commanding
      <4> QED
        BY <4>1
    <3>2. wk[v].pc = "exec" => wk[v].id \in Ids /\ procs[wk[v].id] = {}
      BY <1>6 DEF RequestFits, Fits, OfContainer, Guarded, Commanding
    <3> QED
      BY <1>3, <3>1, <3>2
  <2> QED
    BY <1>2, <1>6, <2>1 DEF RequestFits, Fits
<1> QED
  BY <1>4, <1>5, <1>6, Assembled

LEMMA DataSteps ==
  ASSUME IInv, NEW w \in Workers, Erase(w) \/ ConfirmUnused(w) \/ Export(w)
  PROVE  IInv'
<1>1. /\ RequestFits(w) /\ TypeOK /\ w # Collector /\ wk[w].then # "own"
      /\ UNCHANGED <<box, fence, procs, expired, unknown, crashes>>
  BY DEF IInv, World, Erase, ConfirmUnused, Export, RequestFits, Fits, history, docker
<1>2. CASE Erase(w)
  <2>1. /\ vol' \in [exists : BOOLEAN, data : BOOLEAN, retired : BOOLEAN] /\ deleted' = deleted
        /\ vol' = vol \/ (vol'.retired /\ ~Locked)
        /\ vol.retired => vol'.retired
        /\ ~vol.data => ~vol'.data
    BY <1>1, <1>2 DEF Erase, TypeOK, history, Lockable
  <2>2. Moves(w) /\ RequestFits(w)' /\ wk'[w].pc # "reading"
    <3>1. CASE Done(w)
      BY <3>1, DoneMoves, EndFits
    <3>2. CASE Goto(w, "unused") /\ vol' = [vol EXCEPT !.retired = TRUE, !.data = FALSE]
      <4>1. Moves(w) /\ wk'[w].pc = "unused" /\ wk'[w].then = wk[w].then
        BY <3>2, GotoMoves DEF Pcs
      <4>2. vol'.retired /\ ~vol'.data
        BY <1>1, <3>2 DEF TypeOK
      <4> QED
        BY <1>1, <4>1, <4>2 DEF RequestFits, Fits, OfContainer, Guarded, Commanding
    <3> QED
      BY <1>2, <3>1, <3>2 DEF Erase
  <2>3. World'
    <3>1. Exporting' => Exporting
      BY <2>2, NoExportBegins
    <3>2. TypeOK'
      BY <1>1, <2>1 DEF TypeOK
    <3>3. TombstoneStays' /\ DataGuarded'
      BY <1>1, <2>1, <3>1 DEF IInv, World, TombstoneStays, DataGuarded, Locked
    <3>4. DataOrTombstone'
      BY <1>1, <2>1 DEF IInv, World, DataOrTombstone
    <3>5. UnknownFenced' /\ FencesOfContainers' /\ ProcessesSupervised'
      BY <1>1 DEF IInv, World, UnknownFenced, FencesOfContainers, ProcessesSupervised
    <3> QED
      BY <3>2, <3>3, <3>4, <3>5 DEF World
  <2>4. ASSUME NEW v \in Workers \ {w}, wk'[v] = wk[v], RequestFits(v) PROVE RequestFits(v)'
    BY <1>1, <2>1, <2>4 DEF RequestFits, Fits
  <2> QED
    BY <2>2, <2>3, <2>4, Assembled
<1>3. CASE ConfirmUnused(w)
  <2>1. Moves(w) /\ RequestFits(w)' /\ wk'[w].pc # "reading" /\ UNCHANGED vol
    BY <1>3, DoneMoves, EndFits DEF ConfirmUnused, docker
  <2>2. vol.retired /\ ~vol.data
    BY <1>1, <1>3 DEF ConfirmUnused, RequestFits, Fits
  <2>3. World'
    <3>1. Exporting' => Exporting
      BY <2>1, NoExportBegins
    <3>2. deleted' \in BOOLEAN
      BY <1>1, <1>3 DEF ConfirmUnused, TypeOK
    <3>3. TypeOK'
      BY <1>1, <2>1, <3>2 DEF TypeOK
    <3>4. TombstoneStays' /\ DataGuarded' /\ DataOrTombstone'
      BY <1>1, <2>1, <2>2, <3>1 DEF IInv, World, TombstoneStays, DataGuarded, DataOrTombstone, Locked
    <3>5. UnknownFenced' /\ FencesOfContainers' /\ ProcessesSupervised'
      BY <1>1 DEF IInv, World, UnknownFenced, FencesOfContainers, ProcessesSupervised
    <3> QED
      BY <3>3, <3>4, <3>5 DEF World
  <2>4. ASSUME NEW v \in Workers \ {w}, wk'[v] = wk[v], RequestFits(v) PROVE RequestFits(v)'
    BY <1>1, <2>1, <2>4 DEF RequestFits, Fits
  <2> QED
    BY <2>1, <2>3, <2>4, Assembled
\* An export begins while no supervisor holds the lock.
<1>4. CASE Export(w)
  <2>1. UNCHANGED <<vol, deleted>>
    BY <1>4 DEF Export, docker, history
  <2>2. Moves(w) /\ RequestFits(w)' /\ (wk'[w].pc = "reading" => ~Locked)
    <3>1. CASE Done(w)
      BY <3>1, DoneMoves, EndFits
    <3>2. CASE Goto(w, "reading") /\ ~Locked
      <4>1. Moves(w) /\ wk'[w].pc = "reading" /\ wk'[w].then = wk[w].then
        BY <3>2, GotoMoves DEF Pcs
      <4> QED
        BY <1>1, <3>2, <4>1 DEF RequestFits, Fits, OfContainer, Guarded, Commanding
    <3> QED
      BY <1>4, <3>1, <3>2 DEF Export, Lockable
  <2>3. World'
    <3>1. Locked => ~Exporting'
      BY <2>2 DEF IInv, World, DataGuarded, Exporting, Moves
    <3>2. TypeOK'
      BY <1>1, <2>1 DEF TypeOK
    <3>3. TombstoneStays' /\ DataGuarded' /\ DataOrTombstone'
      BY <1>1, <2>1, <3>1 DEF IInv, World, TombstoneStays, DataGuarded, DataOrTombstone, Locked
    <3>4. UnknownFenced' /\ FencesOfContainers' /\ ProcessesSupervised'
      BY <1>1 DEF IInv, World, UnknownFenced, FencesOfContainers, ProcessesSupervised
    <3> QED
      BY <3>2, <3>3, <3>4 DEF World
  <2>4. ASSUME NEW v \in Workers \ {w}, wk'[v] = wk[v], RequestFits(v) PROVE RequestFits(v)'
    BY <1>1, <2>1, <2>4 DEF RequestFits, Fits
  <2> QED
    BY <2>2, <2>3, <2>4, Assembled
<1> QED
  BY <1>2, <1>3, <1>4

-----------------------------------------------------------------------------
(* Containers, processes and time                                          *)

LEMMA ContainerSteps ==
  ASSUME IInv, NEW id \in Ids,
         Supervise(id) \/ SupervisorEnds(id) \/ ProcessEnds(id) \/ FenceDue(id)
  PROVE  IInv'
<1>1. TypeOK /\ wk' = wk /\ UNCHANGED <<vol, expired, history, crashes>> /\ Exporting' = Exporting
  BY DEF IInv, World, Supervise, SupervisorEnds, ProcessEnds, FenceDue, Exporting
\* A supervisor that finds the tombstone, or a reader, ends.
<1>2. /\ box' \in [Ids -> [lease : Leases \cup {None},
                           st : {"absent", "created", "starting", "running", "exited", "removed"}]]
      /\ \A i \in Ids :
           /\ box'[i].lease = box[i].lease
           /\ \/ box'[i].st = box[i].st
              \/ /\ box[i].st = "starting" /\ box'[i].st = "running" /\ ~Exporting /\ ~vol.retired
              \/ /\ box[i].st \in {"starting", "running"} /\ box'[i].st = "exited"
                 /\ procs[i] # {} => procs'[i] = {}
  <2>1. ASSUME NEW st \in {"running", "exited"}, box' = [box EXCEPT ![id].st = st],
               \/ box[id].st = "starting" /\ st = "running" /\ ~Exporting /\ ~vol.retired
               \/ /\ box[id].st \in {"starting", "running"} /\ st = "exited"
                  /\ procs[id] # {} => procs'[id] = {}
        PROVE  <1>2
    BY <1>1, <2>1 DEF TypeOK
  <2>2. CASE UNCHANGED box
    BY <1>1, <2>2 DEF TypeOK
  <2>3. CASE Supervise(id)
    <3>1. procs[id] = {}
      BY <2>3 DEF IInv, World, ProcessesSupervised, Supervise
    <3>2. CASE Exporting \/ vol.retired \/ box[id].lease \in expired
      BY <2>1, <2>3, <3>1, <3>2 DEF Supervise
    <3>3. CASE ~(Exporting \/ vol.retired \/ box[id].lease \in expired)
      BY <2>1, <2>3, <3>3 DEF Supervise
    <3> QED
      BY <3>2, <3>3
  <2>4. CASE SupervisorEnds(id)
    <3>1. procs'[id] = {}
      BY <1>1, <2>4 DEF SupervisorEnds, TypeOK
    <3> QED
      BY <2>1, <2>4, <3>1 DEF SupervisorEnds
  <2> QED
    BY <2>2, <2>3, <2>4 DEF ProcessEnds, FenceDue
<1>3. /\ procs' \in [Ids -> SUBSET (Agents \cup {Lost})]
      /\ \A i \in Ids : procs[i] = {} => procs'[i] = {}
  <2>1. CASE SupervisorEnds(id)
    BY <1>1, <2>1 DEF SupervisorEnds, TypeOK
  <2>2. CASE ProcessEnds(id)
    BY <1>1, <2>2 DEF ProcessEnds, TypeOK
  <2>3. CASE UNCHANGED procs
    BY <1>1, <2>3 DEF TypeOK
  <2> QED
    BY <2>1, <2>2, <2>3 DEF Supervise, FenceDue
<1>4. /\ fence' \in [Ids -> [by : Workers \cup {None, Lost}, due : BOOLEAN]]
      /\ \A i \in Ids : fence'[i].by = fence[i].by
  <2>1. CASE FenceDue(id)
    BY <1>1, <2>1 DEF FenceDue, TypeOK
  <2>2. CASE UNCHANGED fence
    BY <1>1, <2>2 DEF TypeOK
  <2> QED
    BY <2>1, <2>2 DEF Supervise, SupervisorEnds, ProcessEnds
<1>5. World'
  <2>1. TypeOK'
    BY <1>1, <1>2, <1>3, <1>4 DEF TypeOK, history
  <2>2. TombstoneStays' /\ DataOrTombstone'
    BY <1>1, <1>2 DEF IInv, World, TombstoneStays, DataOrTombstone, history
  <2>3. DataGuarded'
    BY <1>1, <1>2 DEF IInv, World, DataGuarded, DataOrTombstone, Locked
  <2>4. UnknownFenced' /\ FencesOfContainers'
    BY <1>1, <1>2, <1>4 DEF IInv, World, UnknownFenced, FencesOfContainers, history
  <2>5. ProcessesSupervised'
    BY <1>2, <1>3 DEF IInv, World, ProcessesSupervised
  <2> QED
    BY <2>1, <2>2, <2>3, <2>4, <2>5 DEF World
<1>6. ASSUME NEW v \in Workers PROVE RequestFits(v)'
  <2>1. RequestFits(v) /\ wk'[v] = wk[v]
    BY <1>1 DEF IInv
  <2> QED
    BY <1>1, <1>2, <1>3, <1>4, <2>1 DEF RequestFits, Fits, OfContainer, Guarded, Commanding
<1> QED
  BY <1>1, <1>5, <1>6 DEF IInv

LEMMA ExpireStep ==
  ASSUME IInv, NEW lease \in Leases, Expire(lease)
  PROVE  IInv'
<1>1. TypeOK /\ wk' = wk /\ UNCHANGED <<box, procs, vol, history, crashes>> /\ Exporting' = Exporting
  BY DEF IInv, World, Expire, Exporting
<1>2. /\ fence' \in [Ids -> [by : Workers \cup {None, Lost}, due : BOOLEAN]]
      /\ \A i \in Ids : fence'[i].by = fence[i].by
      /\ expired' \subseteq Leases
  BY <1>1 DEF Expire, TypeOK
<1>3. World'
  BY <1>1, <1>2 DEF IInv, World, TypeOK, TombstoneStays, DataOrTombstone, DataGuarded, Locked,
     UnknownFenced, FencesOfContainers, ProcessesSupervised, history
<1>4. ASSUME NEW v \in Workers PROVE RequestFits(v)'
  <2>1. RequestFits(v) /\ wk'[v] = wk[v]
    BY <1>1 DEF IInv
  <2> QED
    BY <1>1, <1>2, <2>1 DEF RequestFits, Fits, OfContainer, Guarded, Commanding
<1> QED
  BY <1>1, <1>3, <1>4 DEF IInv

LEMMA Stutters == ASSUME IInv, UNCHANGED vars PROVE IInv'
BY DEF vars, docker, history, IInv, World, TypeOK, TombstoneStays, DataOrTombstone, DataGuarded, Locked,
       Exporting, UnknownFenced, FencesOfContainers, ProcessesSupervised, RequestFits, Fits

LEMMA Steps == IInv /\ [Next]_vars => IInv'
<1> SUFFICES ASSUME IInv, [Next]_vars PROVE IInv'
  OBVIOUS
<1>1. ASSUME NEW w \in Workers, RequestStep(w) PROVE IInv'
  BY <1>1, LookingSteps, ProvisionStep, RunStep, StopStep, FenceSteps, ProcessSteps, DataSteps
     DEF RequestStep
<1>2. ASSUME NEW w \in Workers, CommandFails(w) \/ Crash(w) PROVE IInv'
  BY <1>2, CommandFailsStep, CrashStep
<1>3. ASSUME NEW id \in Ids, ContainerStep(id) \/ ProcessEnds(id) \/ FenceDue(id) PROVE IInv'
  BY <1>3, ContainerSteps DEF ContainerStep
<1> QED
  BY <1>1, <1>2, <1>3, ArrivalSteps, ExpireStep, Stutters DEF Next

LEMMA Invariant == Spec => []IInv
BY InitIInv, Steps, PTL DEF Spec

-----------------------------------------------------------------------------
(* The theorems                                                            *)

\* The containers, the fences, the volume and what is known of crashes are well typed.
THEOREM TypeCorrect == Spec => []TypeOK
BY Invariant, PTL DEF IInv, World

\* The data of an owner is safe, for any number of agents, containers and crashes: after a
\* confirmed deletion neither the data nor a supervisor comes back, and data is neither
\* removed nor read out under a supervisor that runs.
THEOREM DataSafeHolds == Spec => []DataSafe
<1>1. IInv => DataSafe
  BY DEF IInv, World, TombstoneStays, DataSafe, DeletedStaysDeleted, DataGuarded
<1> QED
  BY <1>1, Invariant, PTL

\* A command starts in a container only if no process of another is there and the end of
\* every earlier one is known: the fence is the command's own until its container is removed,
\* and a crash leaves the fence to nobody.
THEOREM NeverReplayedHolds == Spec => NeverReplayed
<1>1. ASSUME IInv, Next, NEW id \in Ids, Starts(id) PROVE procs[id] = {} /\ ~unknown[id]
  <2>1. ASSUME NEW w \in Workers, Exec(w) PROVE procs[id] = {} /\ ~unknown[id]
    <3>1. id = wk[w].id
      BY <1>1, <2>1 DEF Exec, Starts, IInv, World, TypeOK
    <3>2. procs[id] = {} /\ (box[id].st = "removed" \/ fence[id].by = w)
      <4>1. RequestFits(w) /\ wk[w].pc = "exec"
        BY <1>1, <2>1 DEF Exec, IInv
      <4> QED
        BY <3>1, <4>1 DEF RequestFits, Fits, Guarded, Commanding
    <3>3. box[id].st = "running"
      BY <1>1, <2>1, <3>1 DEF Exec, Starts
    <3>4. Lost \notin Workers
      BY DockerEnvironmentAssumption DEF DockerEnvironmentAssumption, Workers, Lost, Collector
    <3>5. unknown[id] => box[id].st = "removed" \/ fence[id].by = Lost
      BY <1>1 DEF IInv, World, UnknownFenced
    <3> QED
      BY <3>2, <3>3, <3>4, <3>5
  <2>2. ASSUME procs'[id] \subseteq procs[id] \cup {Lost} PROVE FALSE
    BY <1>1, <2>2, DockerEnvironmentAssumption DEF Starts, DockerEnvironmentAssumption
  <2>0. procs \in [Ids -> SUBSET (Agents \cup {Lost})]
    BY <1>1 DEF IInv, World, TypeOK
  <2>3. ASSUME NEW w \in Workers, ExecReturns(w) \/ Stop(w) \/ Crash(w) PROVE FALSE
    <3>1. CASE ExecReturns(w)
      BY <2>0, <2>2, <3>1 DEF ExecReturns
    <3>2. CASE Stop(w)
      BY <2>0, <2>2, <3>2 DEF Stop
    <3>3. CASE Crash(w)
      BY <2>0, <2>2, <3>3 DEF Crash
    <3> QED
      BY <2>3, <3>1, <3>2, <3>3
  <2>4. ASSUME NEW i \in Ids, SupervisorEnds(i) \/ ProcessEnds(i) PROVE FALSE
    <3>1. CASE SupervisorEnds(i)
      BY <2>0, <2>2, <3>1 DEF SupervisorEnds
    <3>2. CASE ProcessEnds(i)
      BY <2>0, <2>2, <3>2 DEF ProcessEnds
    <3> QED
      BY <2>4, <3>1, <3>2
  <2>5. CASE UNCHANGED procs
    BY <2>2, <2>5
  <2> QED
    BY <1>1, <2>1, <2>3, <2>4, <2>5
       DEF Next, RequestStep, ContainerStep, docker, Lookup, StartLookup, Provision, Run, NameTaken,
           Confirm, Unfence, CheckLease, AcquireFence, CheckVolume, CheckActive, RequireOnlySupervisor,
           Cleanup, RemoveOwn, RequireUnused, Erase, ConfirmUnused, Export, ExportEnds, CommandFails,
           Request, Supervise, Collect, FenceDue, Expire
<1>2. IInv /\ [Next]_vars => [\A id \in Ids : Starts(id) => procs[id] = {} /\ ~unknown[id]]_vars
  BY <1>1
<1> QED
  BY <1>2, Invariant, PTL DEF Spec, NeverReplayed

\* A container is removed for its own lease, or by the collector: a request that stops one
\* has read the labels, and they do not change.
THEOREM StopsItsOwnHolds == Spec => StopsItsOwn
<1>1. ASSUME IInv, Next
      PROVE  \A id \in Ids : box'[id].st = "removed" /\ box[id].st # "removed" => StoppedFor(id)
  <2> TAKE id \in Ids
  <2>0. HAVE box'[id].st = "removed" /\ box[id].st # "removed"
  <2>1. ASSUME NEW w \in Workers, Stop(w) PROVE StoppedFor(id)
    <3>1. id = wk[w].id /\ wk[w].pc = "stop"
      BY <1>1, <2>0, <2>1 DEF Stop, IInv, World, TypeOK
    <3>2. w = Collector \/ wk[w].lease = box[id].lease
      <4>1. RequestFits(w)
        BY <1>1 DEF IInv
      <4> QED
        BY <3>1, <4>1 DEF RequestFits, Fits, OfContainer
    <3> QED
      BY <3>1, <3>2 DEF StoppedFor
  <2>2. ASSUME NEW w \in Workers, Run(w) PROVE FALSE
    BY <1>1, <2>0, <2>2 DEF Run, IInv, World, TypeOK
  <2>3. ASSUME NEW i \in Ids, Supervise(i) \/ SupervisorEnds(i) PROVE FALSE
    <3>1. PICK st \in {"exited", "running"} : box' = [box EXCEPT ![i].st = st]
      BY <2>3 DEF Supervise, SupervisorEnds
    <3> QED
      BY <1>1, <2>0, <3>1 DEF IInv, World, TypeOK
  <2>4. CASE UNCHANGED box
    BY <2>0, <2>4
  <2> QED
    BY <1>1, <2>1, <2>2, <2>3, <2>4
       DEF Next, RequestStep, ContainerStep, docker, Lookup, StartLookup, Provision, NameTaken,
           Confirm, Unfence, CheckLease, AcquireFence, CheckVolume, CheckActive, RequireOnlySupervisor,
           Exec, ExecReturns, Cleanup, RemoveOwn, RequireUnused, Erase, ConfirmUnused, Export,
           ExportEnds, CommandFails, Crash, Request, ProcessEnds, Collect, FenceDue, Expire
<1>2. IInv /\ [Next]_vars =>
        [\A id \in Ids : box'[id].st = "removed" /\ box[id].st # "removed" => StoppedFor(id)]_vars
  BY <1>1
<1> QED
  BY <1>2, Invariant, PTL DEF Spec, StopsItsOwn

=============================================================================
