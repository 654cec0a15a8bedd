-------------------------- MODULE DockerEnvironment --------------------------
(***************************************************************************)
(* DockerExecutor: personal environments kept in a Docker daemon that      *)
(* several agents, and a restarted one, share.                             *)
(*                                                                         *)
(* Nothing is kept in an agent: a lease is a container whose name and      *)
(* labels say whose it is, a command that runs in it is guarded by a       *)
(* second container, the fence, and the data of the owner is a volume with *)
(* a lock and a tombstone.  Requests of independent agents interleave at   *)
(* the Docker commands, any of which may fail, or succeed and lose its     *)
(* answer; the mutex of one agent is left out, which only adds behaviours. *)
(*                                                                         *)
(* One owner.  Its restricted-write leases have one container name between *)
(* them, an observe-only lease has one of its own.                         *)
(***************************************************************************)
EXTENDS Naturals

CONSTANTS
  Agents,     \* requests in progress, each of an agent of its own
  Writes,     \* the restricted-write leases of the owner
  Reads,      \* its observe-only leases
  Ids,        \* containers that are ever created
  Asks,       \* what each agent may be asked for: an action and a lease
  MaxCrashes  \* crashes of an agent

None == "none"
Lost == "lost"
Collector == "collector"
Workers == Agents \cup {Collector}
Leases == Writes \cup Reads

\* The last stands for whatever only looks at the environment.
Actions == {"acquire", "execute", "release", "delete_data", "export_data", "observe"}

ASSUME DockerEnvironmentAssumption ==
  /\ Writes \cap Reads = {}
  /\ Ids \subseteq Nat \ {0}
  /\ MaxCrashes \in Nat
  /\ None \notin Agents /\ Lost \notin Agents /\ Collector \notin Agents
  /\ Asks \in [Agents -> SUBSET (Actions \X Leases)]

VARIABLES
  box,       \* the containers: whose lease, and in what state
  fence,     \* the fence of a container: who created it; its deadline has passed
  procs,     \* whose commands have processes in a container
  vol,       \* the volume: its data, its tombstone
  wk,        \* the requests, and the collector
  expired,   \* the leases whose time is over
  deleted,   \* history: a deletion of the data was confirmed
  unknown,   \* history: the agent of a command crashed before it answered
  crashes

docker == <<box, fence, procs, vol>>
history == <<deleted, unknown>>
vars == <<docker, wk, expired, history, crashes>>

Gone == [lease |-> None, st |-> "absent"]
NoFence == [by |-> None, due |-> FALSE]
Idle == [pc |-> "idle", act |-> None, lease |-> None, id |-> 0, bad |-> FALSE, then |-> None]

Present(id) == box[id].st \in {"created", "starting", "running", "exited"}
Name(lease) == IF lease \in Writes THEN "write" ELSE lease
Named(lease) == {id \in Ids : Present(id) /\ Name(box[id].lease) = Name(lease)}

\* The supervisor holds the shared lock as long as it runs.
Locked == \E id \in Ids : box[id].st = "running"
Exporting == \E w \in Workers : wk[w].pc = "reading"

Init ==
  /\ box = [id \in Ids |-> Gone]
  /\ fence = [id \in Ids |-> NoFence]
  /\ procs = [id \in Ids |-> {}]
  /\ vol = [exists |-> FALSE, data |-> FALSE, retired |-> FALSE]
  /\ wk = [w \in Workers |-> Idle]
  /\ expired = {}
  /\ deleted = FALSE
  /\ unknown = [id \in Ids |-> FALSE]
  /\ crashes = 0

Goto(w, pc) == wk' = [wk EXCEPT ![w].pc = pc]
Done(w) == wk' = [wk EXCEPT ![w] = Idle]

\* Where an error takes a request.  A command that has its fence stops its container,
\* and then gives its own fence back; every other request just ends.
Commanding == {"volume", "active", "alone", "exec", "wait", "after"}

Fails(w) ==
  CASE wk[w].pc \in Commanding -> wk' = [wk EXCEPT ![w].pc = "cleanup", ![w].bad = TRUE]
    [] wk[w].then = "own"      -> wk' = [wk EXCEPT ![w].pc = "own", ![w].then = None]
    [] OTHER                   -> Done(w)

\* The fence of a call that ends without having removed it belongs to nobody.
Abandoned(w) ==
  [id \in Ids |-> IF fence[id].by = w THEN [fence[id] EXCEPT !.by = Lost] ELSE fence[id]]

\* A Docker command fails and changes nothing.
CommandFails(w) ==
  /\ wk[w].pc \notin {"idle", "cleanup", "wait"}
  /\ Fails(w)
  /\ fence' = IF wk[w].pc \in {"fence", "own"} THEN Abandoned(w) ELSE fence
  /\ UNCHANGED <<box, procs, vol, expired, history, crashes>>

-----------------------------------------------------------------------------
(* PersonalOperation: the container of the lease is looked up by its name.  *)

Request(w, act, lease) ==
  /\ w \in Agents /\ wk[w].pc = "idle"
  /\ wk' = [wk EXCEPT ![w] = [Idle EXCEPT !.pc = "lookup", !.act = act, !.lease = lease]]
  /\ UNCHANGED <<docker, expired, history, crashes>>

\* Mutant: a container of that name is taken for the lease's own.
AnyOfThatName(w, id) == TRUE

\* validateDockerHandle: the labels name this lease.
Owns(w, id) == box[id].lease = wk[w].lease

Found(w, id) ==
  CASE wk[w].act = "delete_data" -> Done(w)
    [] wk[w].act = "acquire"     -> Goto(w, "start")
    [] wk[w].act = "release" \/ wk[w].lease \in expired ->
         wk' = [wk EXCEPT ![w].pc = "stop", ![w].id = id]
    [] wk[w].act = "execute"     -> wk' = [wk EXCEPT ![w].pc = "lease", ![w].id = id]
    [] OTHER                     -> Done(w)

NotFound(w) ==
  CASE wk[w].act = "delete_data" -> Goto(w, "verify")
    [] wk[w].act = "acquire"     -> Goto(w, "start")
    [] OTHER                     -> Done(w)

Lookup(w) ==
  /\ wk[w].pc = "lookup"
  /\ IF wk[w].act = "export_data" THEN Goto(w, "verify")
     ELSE \/ /\ Named(wk[w].lease) = {}
             /\ NotFound(w)
          \/ \E id \in Named(wk[w].lease) :
               IF Owns(w, id) THEN Found(w, id) ELSE Done(w)
  /\ UNCHANGED <<docker, expired, history, crashes>>

-----------------------------------------------------------------------------
(* Start.                                                                  *)

\* The lease's container is there already, and is answered if its supervisor holds the
\* lock; or it is made.
StartLookup(w) ==
  /\ wk[w].pc = "start" /\ wk[w].lease \notin expired
  /\ IF Named(wk[w].lease) = {} THEN Goto(w, "provision") ELSE Done(w)
  /\ UNCHANGED <<docker, expired, history, crashes>>

\* Mutant: the tombstone is not looked at.
Provisionable(create) ==
  IF vol.data THEN TRUE ELSE create /\ ~Locked /\ ~Exporting

\* prepareVolumeQuota: first data is made under the exclusive lock, data that is there is
\* checked under the shared one, and a tombstone refuses both.
MayProvision(create) ==
  /\ ~vol.retired /\ ~Exporting
  /\ vol.data \/ (create /\ ~Locked)

\* ensureVolume: create says whether the request may bring data into being.
Provision(w, create) ==
  /\ wk[w].pc = "provision"
  /\ vol' = [exists |-> vol.exists \/ create,
             data |-> vol.data \/ ((vol.exists \/ create) /\ MayProvision(create)),
             retired |-> vol.retired]
  /\ \/ (vol.exists \/ create) /\ MayProvision(create) /\ Goto(w, "run")
     \/ Fails(w)   \* refused, or the answer is lost
  /\ UNCHANGED <<box, fence, procs, expired, history, crashes>>

\* docker run creates the container, unless the name is taken, and starts it; the answer
\* may be lost after either.  Without the data directory it cannot start.
Run(w) ==
  /\ wk[w].pc = "run"
  /\ Named(wk[w].lease) = {}
  /\ \E id \in Ids :
       /\ box[id] = Gone
       /\ \E st \in {"created", "starting"} :
            /\ st = "starting" => vol.data
            /\ box' = [box EXCEPT ![id] = [lease |-> wk[w].lease, st |-> st]]
            /\ Done(w) \/ (st = "starting" /\ Goto(w, "confirm"))
  /\ UNCHANGED <<fence, procs, vol, expired, history, crashes>>

NameTaken(w) ==
  /\ wk[w].pc = "run" /\ Named(wk[w].lease) # {}
  /\ Done(w)
  /\ UNCHANGED <<docker, expired, history, crashes>>

\* The receipt is read back; whether it is this lease's and its supervisor runs decides
\* the answer, and nothing else.
Confirm(w) ==
  /\ wk[w].pc = "confirm"
  /\ Done(w)
  /\ UNCHANGED <<docker, expired, history, crashes>>

\* The supervisor takes the shared lock and looks for the tombstone.
Supervise(id) ==
  /\ box[id].st = "starting"
  /\ box' = [box EXCEPT ![id].st =
               IF Exporting \/ vol.retired \/ box[id].lease \in expired THEN "exited" ELSE "running"]
  /\ UNCHANGED <<fence, procs, vol, wk, expired, history, crashes>>

\* It ends with the lease, or the daemon stops it; the commands end with it.
SupervisorEnds(id) ==
  /\ box[id].st = "running"
  /\ box' = [box EXCEPT ![id].st = "exited"]
  /\ procs' = [procs EXCEPT ![id] = {}]
  /\ UNCHANGED <<fence, vol, wk, expired, history, crashes>>

-----------------------------------------------------------------------------
(* Stop: the container is removed by its full identity, and then its fence,  *)
(* whoever made that.                                                        *)

Stop(w) ==
  /\ wk[w].pc = "stop"
  /\ LET id == wk[w].id IN
       /\ box' = [box EXCEPT ![id].st = IF Present(id) THEN "removed" ELSE box[id].st]
       /\ procs' = [procs EXCEPT ![id] = {}]
  /\ Goto(w, "unfence") \/ Fails(w)   \* the answer is lost
  /\ UNCHANGED <<fence, vol, expired, history, crashes>>

StopEnds(w) ==
  IF wk[w].then = "own" THEN wk' = [wk EXCEPT ![w].pc = "own", ![w].then = None] ELSE Done(w)

Unfence(w) ==
  /\ wk[w].pc = "unfence"
  /\ fence' = [fence EXCEPT ![wk[w].id] = NoFence]
  /\ StopEnds(w)
  /\ UNCHANGED <<box, procs, vol, expired, history, crashes>>

-----------------------------------------------------------------------------
(* executeTask.                                                            *)

Active(w) ==
  LET id == wk[w].id IN box[id].st = "running" /\ box[id].lease \notin expired

CheckLease(w) ==
  /\ wk[w].pc = "lease"
  /\ IF Active(w) THEN Goto(w, "fence") ELSE Fails(w)
  /\ UNCHANGED <<docker, expired, history, crashes>>

\* Mutant: a fence past its deadline is taken over.
TakeOverExpired(w) ==
  LET id == wk[w].id IN
    /\ fence' = [fence EXCEPT ![id] = [by |-> w, due |-> FALSE]]
    /\ Goto(w, "volume")

\* Another call's fence past its deadline: what became of that call is unknown, and the
\* container is stopped.
ExpiredFence(w) == Goto(w, "stop") /\ UNCHANGED fence

\* acquireCommandFence: the name of the fence belongs to one call at a time.  When its
\* own creation is in doubt the call removes it again.
AcquireFence(w) ==
  /\ wk[w].pc = "fence"
  /\ LET id == wk[w].id IN
       \/ /\ fence[id].by = None
          /\ fence' = [fence EXCEPT ![id] = [by |-> w, due |-> FALSE]]
          /\ Goto(w, "volume") \/ Goto(w, "own")
       \/ /\ fence[id].by # None /\ fence[id].due
          /\ ExpiredFence(w)
       \/ /\ fence[id].by # None /\ ~fence[id].due
          /\ Done(w) /\ UNCHANGED fence
  /\ UNCHANGED <<box, procs, vol, expired, history, crashes>>

\* The deadline that the fence carries is the one of the call's own context.
TimeOver(w) == fence[wk[w].id].by = w /\ fence[wk[w].id].due

CheckVolume(w) ==
  /\ wk[w].pc = "volume"
  /\ IF vol.exists /\ vol.data /\ MayProvision(FALSE) /\ ~TimeOver(w) THEN Goto(w, "active") ELSE Fails(w)
  /\ UNCHANGED <<docker, expired, history, crashes>>

CheckActive(w) ==
  /\ wk[w].pc = "active"
  /\ IF Active(w) /\ ~TimeOver(w) THEN Goto(w, "alone") ELSE Fails(w)
  /\ UNCHANGED <<docker, expired, history, crashes>>

\* Mutant: processes that an earlier command left are not looked for.
NotLookedFor(w) == TRUE

Alone(w) == procs[wk[w].id] = {} /\ box[wk[w].id].st = "running"

\* requireOnlySupervisor, before the command and after it.
RequireOnlySupervisor(w) ==
  /\ wk[w].pc \in {"alone", "after"}
  /\ IF Alone(w) /\ ~TimeOver(w)
     THEN Goto(w, IF wk[w].pc = "alone" THEN "exec" ELSE "cleanup")
     ELSE Fails(w)
  /\ UNCHANGED <<docker, expired, history, crashes>>

Exec(w) ==
  /\ wk[w].pc = "exec"
  /\ LET id == wk[w].id IN
       IF box[id].st = "running" /\ ~TimeOver(w)
       THEN procs' = [procs EXCEPT ![id] = @ \cup {w}] /\ Goto(w, "wait")
       ELSE Fails(w) /\ UNCHANGED procs
  /\ UNCHANGED <<box, fence, vol, expired, history, crashes>>

\* docker exec returns: the command is over, perhaps with an error and perhaps leaving a
\* process behind; or its time is over, or the answer is lost, and it runs on.
ExecReturns(w) ==
  /\ wk[w].pc = "wait"
  /\ LET id == wk[w].id IN
       \/ procs' = [procs EXCEPT ![id] = @ \ {w}] /\ (Goto(w, "after") \/ Fails(w))
       \/ procs' = [procs EXCEPT ![id] = IF w \in @ THEN (@ \ {w}) \cup {Lost} ELSE @]
          /\ (Goto(w, "after") \/ Fails(w))
  /\ UNCHANGED <<box, fence, vol, expired, history, crashes>>

\* A process that was left behind ends by itself.
ProcessEnds(id) ==
  /\ Lost \in procs[id]
  /\ procs' = [procs EXCEPT ![id] = @ \ {Lost}]
  /\ UNCHANGED <<box, fence, vol, wk, expired, history, crashes>>

\* The deferred cleanup: a call that failed, or whose time is over, stops the container.
Cleanup(w) ==
  /\ wk[w].pc = "cleanup"
  /\ wk' = IF wk[w].bad \/ TimeOver(w)
           THEN [wk EXCEPT ![w].pc = "stop", ![w].then = "own"]
           ELSE [wk EXCEPT ![w].pc = "own"]
  /\ UNCHANGED <<docker, expired, history, crashes>>

\* removeCommandFence: only the call's own.
RemoveOwn(w) ==
  /\ wk[w].pc = "own"
  /\ fence' = [fence EXCEPT ![wk[w].id] = IF @.by = w THEN NoFence ELSE @]
  /\ Done(w)
  /\ UNCHANGED <<box, procs, vol, expired, history, crashes>>

-----------------------------------------------------------------------------
(* DeletePersonalData and ExportPersonalData.                              *)

Attached == \E id \in Ids : Present(id)

\* verifyVolume and the first requireUnusedPersonalVolume.
RequireUnused(w) ==
  /\ wk[w].pc = "verify"
  /\ IF vol.exists /\ ~Attached /\ ~Exporting
     THEN Goto(w, IF wk[w].act = "delete_data" THEN "erase" ELSE "export")
     ELSE Done(w)
  /\ UNCHANGED <<docker, expired, history, crashes>>

\* Mutant: the exclusive lock is not asked for.
EraseUnlocked == TRUE

Lockable == ~Locked /\ ~Exporting

\* The helper writes the tombstone and removes the data, both under the exclusive lock;
\* it may be killed in between, and its answer may be lost.
Erase(w) ==
  /\ wk[w].pc = "erase"
  /\ IF Lockable
     THEN \/ vol' = [vol EXCEPT !.retired = TRUE, !.data = FALSE] /\ (Goto(w, "unused") \/ Done(w))
          \/ vol' = [vol EXCEPT !.retired = TRUE] /\ Done(w)
     ELSE Done(w) /\ UNCHANGED vol
  /\ UNCHANGED <<box, fence, procs, expired, history, crashes>>

\* The second requireUnusedPersonalVolume confirms the deletion.
ConfirmUnused(w) ==
  /\ wk[w].pc = "unused"
  /\ deleted' = (deleted \/ ~Attached)
  /\ Done(w)
  /\ UNCHANGED <<docker, expired, unknown, crashes>>

Export(w) ==
  /\ wk[w].pc = "export"
  /\ IF vol.data /\ ~vol.retired /\ Lockable THEN Goto(w, "reading") ELSE Done(w)
  /\ UNCHANGED <<docker, expired, history, crashes>>

ExportEnds(w) ==
  /\ wk[w].pc = "reading"
  /\ Done(w)
  /\ UNCHANGED <<docker, expired, history, crashes>>

-----------------------------------------------------------------------------
(* GC: containers that have ended past their lease, and the containers of   *)
(* fences past their deadline.                                              *)

\* Mutant: fences are left alone.
EndedOnly(id) == box[id].st = "exited" /\ box[id].lease \in expired

Collectable(id) ==
  \/ box[id].st = "exited" /\ box[id].lease \in expired
  \/ fence[id].by # None /\ fence[id].due

Collect(id) ==
  /\ wk[Collector].pc = "idle" /\ Collectable(id)
  /\ wk' = [wk EXCEPT ![Collector] = [Idle EXCEPT !.pc = "stop", !.act = "gc", !.id = id]]
  /\ UNCHANGED <<docker, expired, history, crashes>>

-----------------------------------------------------------------------------
(* Time, and crashes.                                                      *)

\* A lease ends, and with it the time of the commands that run under it.
Expire(lease) ==
  /\ lease \notin expired
  /\ expired' = expired \cup {lease}
  /\ fence' = [id \in Ids |->
                 IF fence[id].by # None /\ box[id].lease = lease
                 THEN [fence[id] EXCEPT !.due = TRUE] ELSE fence[id]]
  /\ UNCHANGED <<box, procs, vol, wk, history, crashes>>

FenceDue(id) ==
  /\ fence[id].by # None /\ ~fence[id].due
  /\ fence' = [fence EXCEPT ![id].due = TRUE]
  /\ UNCHANGED <<box, procs, vol, wk, expired, history, crashes>>

\* The agent of a request crashes: the containers and the processes in them stay.
Crash(w) ==
  /\ wk[w].pc # "idle" /\ crashes < MaxCrashes
  /\ crashes' = crashes + 1
  /\ Done(w)
  /\ fence' = Abandoned(w)
  /\ procs' = [id \in Ids |->
                 IF w \in procs[id] THEN (procs[id] \ {w}) \cup {Lost} ELSE procs[id]]
  /\ unknown' = [id \in Ids |->
                   unknown[id] \/ (id = wk[w].id /\ (wk[w].pc \in {"wait", "after", "cleanup"}))]
  /\ UNCHANGED <<box, vol, expired, deleted>>

-----------------------------------------------------------------------------
RequestStep(w) ==
  \/ Lookup(w)
  \/ StartLookup(w) \/ (\E create \in BOOLEAN : Provision(w, create))
  \/ Run(w) \/ NameTaken(w) \/ Confirm(w)
  \/ Stop(w) \/ Unfence(w)
  \/ CheckLease(w) \/ AcquireFence(w) \/ CheckVolume(w) \/ CheckActive(w)
  \/ RequireOnlySupervisor(w) \/ Exec(w) \/ ExecReturns(w) \/ Cleanup(w) \/ RemoveOwn(w)
  \/ RequireUnused(w) \/ Erase(w) \/ ConfirmUnused(w) \/ Export(w) \/ ExportEnds(w)

ContainerStep(id) == Supervise(id) \/ SupervisorEnds(id)

Next ==
  \/ \E w \in Workers : RequestStep(w) \/ CommandFails(w) \/ Crash(w)
  \/ \E w \in Agents : \E ask \in Asks[w] : Request(w, ask[1], ask[2])
  \/ \E id \in Ids : ContainerStep(id) \/ ProcessEnds(id) \/ Collect(id) \/ FenceDue(id)
  \/ \E lease \in Leases : Expire(lease)

\* The collector runs every minute and Docker does not fail it for ever; a supervisor
\* starts or ends, and ends with its lease; time passes.
Spec ==
  /\ Init /\ [][Next]_vars
  /\ SF_vars(Stop(Collector) /\ wk'[Collector].pc = "unfence") /\ SF_vars(Unfence(Collector))
  /\ \A id \in Ids :
       /\ WF_vars(Supervise(id)) /\ SF_vars(Collect(id)) /\ WF_vars(FenceDue(id))
       /\ WF_vars(box[id].lease \in expired /\ SupervisorEnds(id))

-----------------------------------------------------------------------------
\* The types.
TypeOK ==
  /\ box \in [Ids -> [lease : Leases \cup {None},
                      st : {"absent", "created", "starting", "running", "exited", "removed"}]]
  /\ fence \in [Ids -> [by : Workers \cup {None, Lost}, due : BOOLEAN]]
  /\ procs \in [Ids -> SUBSET (Agents \cup {Lost})]
  /\ vol \in [exists : BOOLEAN, data : BOOLEAN, retired : BOOLEAN]
  /\ expired \subseteq Leases
  /\ deleted \in BOOLEAN
  /\ unknown \in [Ids -> BOOLEAN]
  /\ crashes \in 0..MaxCrashes

\* A confirmed deletion is final: no late acquisition, of whatever agent, brings the data
\* or a supervisor back ("late container recreated deleted data", the fencing test).
DeletedStaysDeleted == deleted => vol.retired /\ ~vol.data /\ ~Locked

\* Data is neither removed nor exported under a supervisor that runs.
DataGuarded == Locked => vol.data /\ ~Exporting

\* Both: what may never happen to the data.
DataSafe == DeletedStaysDeleted /\ DataGuarded

\* A command is started in a container only if no process of another command is there and
\* no earlier command's outcome is unknown: a lost attempt is never silently replayed,
\* by this agent or another ("another Agent overlapped the original command").
Starts(id) == \E w \in Agents : w \in procs'[id] /\ w \notin procs[id]
NeverReplayed ==
  [][\A id \in Ids : Starts(id) => procs[id] = {} /\ ~unknown[id]]_vars

\* A container never answers for two leases: a request that removes one by force was made
\* for its lease, whoever else has its name.  (The collector may act on a fence that was
\* past its deadline when it read it, and is gone by now.)
StoppedFor(id) ==
  \E w \in Workers : /\ wk[w].pc = "stop" /\ wk[w].id = id
                     /\ w = Collector \/ wk[w].lease = box[id].lease
StopsItsOwn ==
  [][\A id \in Ids : box'[id].st = "removed" /\ box[id].st # "removed" => StoppedFor(id)]_vars

\* Once its time is over, a container that was started is collected, and so is every
\* fence: of crashed agents, of lost answers, and of parents that are gone.
Overdue(id) ==
  \/ box[id].st \in {"starting", "running", "exited"} /\ box[id].lease \in expired
  \/ fence[id].by # None /\ fence[id].due
Collected == \A id \in Ids : Overdue(id) ~> ~Overdue(id)

\* The same of a container that was created and never started.
NeverStarted(id) == box[id].st = "created" /\ box[id].lease \in expired
NeverStartedCollected == \A id \in Ids : NeverStarted(id) ~> ~NeverStarted(id)

=============================================================================
