-------------------------- MODULE RemoteWorkProofs --------------------------
(***************************************************************************)
(* What an acknowledgement means, for any kinds of work and any number of  *)
(* attempts of a callback; what the operations of a project do on the      *)
(* host, for any number of operations, commits, retries and crashes; and   *)
(* what the outpost routes by, for any number of leases and checks.        *)
(***************************************************************************)
EXTENDS MCRemoteWork, TLAPS

\* The remote run is asked to stop before the executor has returned.
RemoteStopped ==
  /\ ext # None => kind = "chat"
  /\ pc \in {"claimed", "start"} => ext = None
  /\ pc \notin {"exec", "stopping"} => ext # "running"

\* Only the last steps of the goroutine acknowledge.
AckIsLast == acked => pc \in {"ack", "over", "lost"}

\* Before the runner reports, a cancellation can only come from the control plane; so
\* whatever the goroutine or its heartbeats go by was asked for.
CancelWasAsked ==
  /\ pending => asked
  /\ cp = "canceling" => asked
  /\ cp = "canceled" => asked \/ (ext = "cancelled" /\ pc \in {"final", "over", "lost"})
  /\ pc \notin {"final", "over", "lost"} => (stop \in Cancelled => asked)
  /\ pc \notin {"final", "over", "lost"} => (hb.told \in Cancelled => asked)
  /\ pc = "ack" => asked
  /\ result = "canceled" => asked \/ ext = "cancelled" \/ cp \in Verdicts
  /\ verdict = "canceled" => asked \/ ext = "cancelled" \/ cp \in Verdicts

IInv == TypeOK /\ RemoteStopped /\ AckIsLast /\ CancelWasAsked

LEMMA FlagsInductive ==
  ASSUME TypeOK, [Next]_vars
  PROVE  /\ pending' \in BOOLEAN /\ acked' \in BOOLEAN
         /\ asked' \in BOOLEAN /\ shutdown' \in BOOLEAN
<1> DEFINE Flags == <<pending, acked, asked, shutdown>>
<1>1. /\ pending \in BOOLEAN /\ acked \in BOOLEAN
      /\ asked \in BOOLEAN /\ shutdown \in BOOLEAN
  BY DEF TypeOK
<1>2. CASE Cancel
  <2>1. pending' = (kind # "docker") /\ asked' = TRUE /\ acked' = acked /\ shutdown' = shutdown
    BY <1>2 DEF Cancel
  <2>2. pending' \in BOOLEAN
    BY <2>1, Zenon
  <2> QED
    BY <1>1, <2>1, <2>2, Zenon
<1>3. CASE Shutdown
  <2>1. shutdown' = TRUE /\ UNCHANGED <<pending, acked, asked>>
    BY <1>3 DEF Shutdown, external
  <2> QED
    BY <1>1, <2>1, Zenon
<1>4. CASE \/ RecordsAck /\ shutdown' = shutdown
          \/ UNCHANGED Flags
  <2>1. CASE UNCHANGED Flags
    BY <1>1, <2>1
  <2>2. CASE RecordsAck /\ shutdown' = shutdown
    <3>1. acked' = TRUE /\ pending' = FALSE /\ asked' = asked /\ shutdown' = shutdown
      BY <2>2 DEF RecordsAck
    <3> QED
      BY <1>1, <3>1, Zenon
  <2> QED
    BY <1>4, <2>1, <2>2
<1>5. ASSUME NEW received \in BOOLEAN, AttemptFails(received)
      PROVE  (RecordsAck /\ shutdown' = shutdown) \/ UNCHANGED Flags
  BY <1>5 DEF AttemptFails, Attempting, Receive, Records, external
<1>6. CASE RunnerStep
  BY <1>4, <1>5, <1>6 DEF RunnerStep, Refuse, Announce, StartAnswered, ExecReturns, PublishStopped,
    StopRemote, Drain, Finish, FinalAnswered, Records, AckAnswered, external
<1>7. CASE Next /\ ~RunnerStep /\ ~Cancel /\ ~Shutdown
  BY <1>4, <1>7 DEF Next, Submit, RemoteEnds, HeartbeatAnswered, HeartbeatTells,
    HeartbeatCancels, HeartbeatStops, Deadline, Expire, external
<1>8. CASE UNCHANGED vars
  BY <1>4, <1>8 DEF vars, external
<1> QED
  BY <1>2, <1>3, <1>6, <1>7, <1>8

\* The other components of the state.
PlacesOK ==
  /\ kind \in Kinds
  /\ cp \in {"running", "canceling"} \cup Final
  /\ pc \in {"claimed", "start", "exec", "stopping", "drain", "finish", "final", "ack",
              "over", "lost"}
  /\ tries \in 0..(MaxAttempts - 1)
  /\ ctx \in {"live", "deadline", "canceled"}
  /\ result \in {None, "ok", "error", "canceled"}
  /\ verdict \in {None} \cup Final
  /\ pc = "final" => verdict # None
  /\ stop \in {None, "canceling"} \cup Final
  /\ hb \in [pc : {"off", "waiting", "told", "marked", "gone"},
             told : {None, "canceling"} \cup Final]
  /\ ext \in {None, "running", "orphan", "done", "cancelled", "stopped", "stopLost"}

LEMMA PlacesInductive == ASSUME PlacesOK, [Next]_vars PROVE PlacesOK'
<1> USE RemoteWorkAssumption
    DEF RemoteWorkAssumption, PlacesOK, Verdicts, Final, None, external, local, Quiet, Started
<1>1. CASE Refuse \/ Announce \/ Submit \/ RemoteEnds \/ StopRemote
  BY <1>1 DEF Refuse, Announce, Submit, RemoteEnds, StopRemote
<1>2. CASE StartAnswered \/ Drain
  BY <1>2 DEF StartAnswered, Drain, Acknowledges
<1>3. ASSUME NEW outcome \in {"ok", "error", "canceled"}, ExecReturns(outcome) PROVE PlacesOK'
  BY <1>3 DEF ExecReturns
<1>4. CASE PublishStopped
  BY <1>4 DEF PublishStopped
<1>5. CASE Finish
  BY <1>5 DEF Finish
<1>6. CASE FinalAnswered
  <2>1. pc = "final" /\ cp' = IF cp \in Final THEN cp ELSE verdict
    BY <1>6 DEF FinalAnswered, Records
  <2> QED
    BY <1>6, <2>1 DEF FinalAnswered
<1>7. CASE AckAnswered
  BY <1>7 DEF AckAnswered, RecordsAck
<1>8. ASSUME NEW received \in BOOLEAN, AttemptFails(received) PROVE PlacesOK'
  <2>1. tries' \in 0..(MaxAttempts - 1)
    BY <1>8 DEF AttemptFails, CanRetry
  <2>2. cp' \in {"running", "canceling"} \cup Final
    BY <1>8 DEF AttemptFails, Attempting, Receive, Records, RecordsAck
  <2>3. /\ pc' \in {"claimed", "start", "exec", "stopping", "drain", "finish", "final", "ack",
                   "over", "lost"}
        /\ hb' \in [pc : {"off", "waiting", "told", "marked", "gone"},
                    told : {None, "canceling"} \cup Final]
        /\ pc' = "final" => pc = "final"
    BY <1>8 DEF AttemptFails, GiveUp
  <2> QED
    BY <1>8, <2>1, <2>2, <2>3 DEF AttemptFails
<1>9. CASE HeartbeatAnswered \/ HeartbeatTells \/ HeartbeatCancels \/ HeartbeatStops
  BY <1>9 DEF HeartbeatAnswered, HeartbeatTells, HeartbeatCancels, HeartbeatStops, Stops
<1>10. CASE Deadline \/ Shutdown \/ Cancel \/ Expire
  BY <1>10 DEF Deadline, Shutdown, Cancel, Expire
<1>11. CASE UNCHANGED vars
  BY <1>11 DEF vars
<1> QED
  BY <1>1, <1>2, <1>3, <1>4, <1>5, <1>6, <1>7, <1>8, <1>9, <1>10, <1>11 DEF Next, RunnerStep

LEMMA TypeInductive == TypeOK /\ [Next]_vars => TypeOK'
BY FlagsInductive, PlacesInductive DEF TypeOK, PlacesOK

\* Whoever leaves the executor with a remote run at hand passes through StopRemote.
LEMMA StoppedInductive ==
  ASSUME IInv, [Next]_vars
  PROVE  RemoteStopped' /\ AckIsLast'
<1> USE DEF IInv, TypeOK, RemoteStopped, AckIsLast, None, external, local
<1>1. CASE Refuse \/ Announce \/ Submit \/ RemoteEnds \/ StopRemote
  BY <1>1 DEF Refuse, Announce, Submit, RemoteEnds, StopRemote
<1>2. CASE StartAnswered \/ Drain
  BY <1>2 DEF StartAnswered, Drain, Acknowledges
<1>3. ASSUME NEW outcome \in {"ok", "error", "canceled"}, ExecReturns(outcome)
      PROVE  RemoteStopped' /\ AckIsLast'
  BY <1>3, RemoteWorkAssumption DEF ExecReturns, RemoteWorkAssumption
<1>4. CASE PublishStopped
  BY <1>4 DEF PublishStopped
<1>5. CASE Finish
  BY <1>5 DEF Finish
<1>6. CASE FinalAnswered
  BY <1>6 DEF FinalAnswered, Records
<1>7. CASE AckAnswered
  BY <1>7 DEF AckAnswered, RecordsAck
<1>8. ASSUME NEW received \in BOOLEAN, AttemptFails(received)
      PROVE  RemoteStopped' /\ AckIsLast'
  BY <1>8 DEF AttemptFails, Attempting, Receive, Records, RecordsAck, GiveUp
<1>9. CASE HeartbeatAnswered \/ HeartbeatTells \/ HeartbeatCancels \/ HeartbeatStops
  BY <1>9 DEF HeartbeatAnswered, HeartbeatTells, HeartbeatCancels, HeartbeatStops
<1>10. CASE Deadline \/ Shutdown \/ Cancel \/ Expire
  BY <1>10 DEF Deadline, Shutdown, Cancel, Expire
<1>11. CASE UNCHANGED vars
  BY <1>11 DEF vars
<1> QED
  BY <1>1, <1>2, <1>3, <1>4, <1>5, <1>6, <1>7, <1>8, <1>9, <1>10, <1>11 DEF Next, RunnerStep

\* What the goroutine goes by was asked for, step by step.
LEMMA AskedInductive ==
  ASSUME IInv, [Next]_vars
  PROVE  CancelWasAsked'
<1> USE DEF IInv, TypeOK, RemoteStopped, CancelWasAsked, None, external, local, Cancelled,
            Final, Verdicts, Quiet, Started
<1>1. CASE Refuse \/ Announce \/ Submit \/ RemoteEnds \/ StopRemote
  BY <1>1 DEF Refuse, Announce, Submit, RemoteEnds, StopRemote
<1>2. CASE StartAnswered
  BY <1>2 DEF StartAnswered, Acknowledges
<1>3. CASE Drain
  BY <1>3 DEF Drain, Acknowledges
<1>4. ASSUME NEW outcome \in {"ok", "error", "canceled"}, ExecReturns(outcome)
      PROVE  CancelWasAsked'
  BY <1>4 DEF ExecReturns
<1>5. CASE PublishStopped
  BY <1>5 DEF PublishStopped, Stops
<1>6. CASE Finish
  BY <1>6 DEF Finish
<1>7. CASE FinalAnswered
  BY <1>7 DEF FinalAnswered, Records
<1>8. CASE AckAnswered
  BY <1>8 DEF AckAnswered, RecordsAck
<1>9. ASSUME NEW received \in BOOLEAN, AttemptFails(received) PROVE CancelWasAsked'
  <2>1. CASE pc = "start"
    BY <1>9, <2>1 DEF AttemptFails, Attempting, Receive, GiveUp
  <2>2. CASE pc = "final"
    BY <1>9, <2>2 DEF AttemptFails, Attempting, Receive, Records, GiveUp
  <2>3. CASE pc = "ack"
    BY <1>9, <2>3 DEF AttemptFails, Attempting, Receive, RecordsAck, GiveUp
  <2> QED
    BY <1>9, <2>1, <2>2, <2>3 DEF AttemptFails, Attempting
<1>10. CASE HeartbeatAnswered
  BY <1>10 DEF HeartbeatAnswered, Ended
<1>11. CASE HeartbeatTells \/ HeartbeatCancels \/ HeartbeatStops
  BY <1>11 DEF HeartbeatTells, HeartbeatCancels, HeartbeatStops
<1>12. CASE Deadline \/ Shutdown
  BY <1>12 DEF Deadline, Shutdown
<1>13. CASE Cancel \/ Expire
  BY <1>13 DEF Cancel, Expire
<1>14. CASE UNCHANGED vars
  BY <1>14 DEF vars
<1> QED
  BY <1>1, <1>2, <1>3, <1>4, <1>5, <1>6, <1>7, <1>8, <1>9, <1>10, <1>11, <1>12, <1>13, <1>14
     DEF Next, RunnerStep

-----------------------------------------------------------------------------
\* The inductive invariant: types, the order of stopping and acknowledging, and where a
\* cancellation came from.
THEOREM IInvHolds == Spec => []IInv
<1>1. Init => IInv
  <2> SUFFICES ASSUME Init PROVE IInv
    OBVIOUS
  <2> USE RemoteWorkAssumption DEF RemoteWorkAssumption
  <2>1. /\ pending = FALSE /\ acked = FALSE /\ asked = FALSE /\ shutdown = FALSE
    BY Zenon DEF Init
  <2>2. PlacesOK
    BY DEF Init, PlacesOK, Verdicts, Final, None, Quiet
  <2>3. TypeOK
    <3>1. /\ pending \in BOOLEAN /\ acked \in BOOLEAN /\ asked \in BOOLEAN
          /\ shutdown \in BOOLEAN
      BY <2>1, Zenon
    <3> QED
      BY <2>2, <3>1, Zenon DEF PlacesOK, TypeOK
  <2>4. RemoteStopped /\ AckIsLast /\ CancelWasAsked
    BY <2>1 DEF Init, RemoteStopped, AckIsLast, CancelWasAsked, Cancelled, None, Quiet
  <2> QED
    BY <2>3, <2>4 DEF IInv
<1>2. IInv /\ [Next]_vars => IInv'
  BY TypeInductive, StoppedInductive, AskedInductive DEF IInv
<1> QED
  BY <1>1, <1>2, PTL DEF Spec

\* No step leaves the types, whatever the number of attempts.
THEOREM TypeCorrect == Spec => []TypeOK
BY IInvHolds, PTL DEF IInv

\* The acknowledgement comes after the commands stopped, and after the remote run was
\* asked to stop.
THEOREM AckMeansStoppedHolds == Spec => []AckMeansStopped
<1>1. IInv => AckMeansStopped
  BY DEF IInv, RemoteStopped, AckIsLast, AckMeansStopped
<1> QED
  BY <1>1, IInvHolds, PTL

-----------------------------------------------------------------------------
\* Only a step of the runner acknowledges, and it was asked for.
AckWasAsked == acked => asked

\* Nothing is acknowledged, and no work ends as canceled, that nobody cancelled.
THEOREM CanceledOnlyIfAskedHolds == Spec => []CanceledOnlyIfAsked
<1>1. Init => AckWasAsked
  BY DEF Init, AckWasAsked
<1>2. IInv /\ AckWasAsked /\ [Next]_vars => AckWasAsked'
  <2> SUFFICES ASSUME IInv, AckWasAsked, [Next]_vars PROVE AckWasAsked'
    OBVIOUS
  <2> USE DEF IInv, CancelWasAsked, AckWasAsked, external
  <2>1. CASE AckAnswered
    BY <2>1 DEF AckAnswered, RecordsAck
  <2>2. CASE FinalAnswered
    BY <2>2 DEF FinalAnswered, Records
  <2>3. ASSUME NEW received \in BOOLEAN, AttemptFails(received) PROVE AckWasAsked'
    BY <2>3 DEF AttemptFails, Attempting, Receive, Records, RecordsAck
  <2>4. CASE Cancel \/ Expire
    BY <2>4 DEF Cancel, Expire
  <2>5. CASE UNCHANGED external
    BY <2>5
  <2> QED
    BY <2>1, <2>2, <2>3, <2>4, <2>5 DEF Next, RunnerStep, Refuse, Announce, StartAnswered,
      ExecReturns, PublishStopped, StopRemote, Drain, Finish, Submit, RemoteEnds,
      HeartbeatAnswered, HeartbeatTells, HeartbeatCancels, HeartbeatStops, Deadline, Shutdown, vars
<1>3. IInv /\ AckWasAsked => CanceledOnlyIfAsked
  BY DEF IInv, CancelWasAsked, AckWasAsked, CanceledOnlyIfAsked
<1> QED
  BY <1>1, <1>2, <1>3, IInvHolds, PTL DEF Spec

-----------------------------------------------------------------------------
(* A project on the host.                                                  *)

JobSteps ==
  {"idle", "validate", "compose", "env", "fetch", "resolve", "build", "clean", "rewrite",
   "pull", "down", "up", "service", "report"}
Runs == [by : Ops \cup {"none"}, commit : Nat]
Jobs == [op : Ops \cup {"none"}, at : JobSteps, commit : Nat, res : {"none", "ok", "error"},
         ready : BOOLEAN, began : Runs]

ProjectTypes ==
  /\ kinds \in [Ops -> OpKinds]
  /\ head \in Nat \ {0} /\ pin \in [Ops -> Nat]
  /\ files \in [compose : Ops \cup {"none"}, env : Ops \cup {"none"}]
  /\ image \in Runs /\ service \in Runs /\ job \in Jobs
  /\ built \in [Ops -> SUBSET (Nat \ {0})] /\ forgot \in [Ops -> BOOLEAN]

\* The way of an operation through the commands depends on its kind.
OnItsWay ==
  /\ job.at # "idle" => job.op \in Ops
  /\ job.at = "validate" => kinds[job.op] = "validate"
  /\ job.at \in {"compose", "env"} => kinds[job.op] # "validate"
  /\ job.at \in {"fetch", "resolve", "build", "clean", "rewrite"} => kinds[job.op] \in ComposeOperations!Git
  /\ job.at = "pull" => kinds[job.op] = "redeploy"
  /\ job.at = "down" => kinds[job.op] \in {"down", "git down", "redeploy", "git redeploy"}
  /\ job.at = "up" => kinds[job.op] \in ComposeOperations!Deploys
  /\ job.at = "service" => kinds[job.op] = "service"
  /\ job.at \in {"clean", "report"} => job.res \in {"ok", "error"}
  /\ job.at = "rewrite" => job.res = "error"

\* The commit that an operation has resolved is in its file, or in the hands of the runner that
\* writes the file again.
Kept(o) == IF job.at = "rewrite" /\ job.op = o THEN job.commit ELSE pin[o]

BuildsKept ==
  /\ \A o \in Ops : forgot[o] \/ built[o] \subseteq {Kept(o)}
  /\ job.at = "resolve" => job.commit # 0 /\ pin[job.op] \in {0, job.commit}
  /\ job.at = "build" => job.commit # 0 /\ pin[job.op] = job.commit

FilesWritten ==
  /\ \A f \in {files.compose, files.env} \cap Ops : kinds[f] # "validate"
  /\ job.at \in {"env", "fetch", "resolve", "build", "pull", "down", "up", "service"} =>
       files.compose = job.op

Replaced ==
  job.at # "idle" /\ kinds[job.op] \in {"redeploy", "git deploy", "git redeploy"} /\ ~job.ready =>
    service = job.began /\ job.at \notin {"down", "up"}

RunsAsAsked ==
  job.at \in {"clean", "report"} /\ job.res = "ok" /\ kinds[job.op] \in ComposeOperations!Deploys =>
    service = [by |-> job.op, commit |-> IF kinds[job.op] \in ComposeOperations!Git THEN image.commit ELSE 0]

ProjectInv ==
  /\ ProjectTypes /\ OnItsWay /\ BuildsKept /\ FilesWritten /\ Replaced /\ RunsAsAsked

LEMMA IdleJob ==
  /\ ComposeOperations!Idle \in Jobs /\ ComposeOperations!Idle.at = "idle"
  /\ ComposeOperations!Idle.op = "none"
BY DEF ComposeOperations!Idle, ComposeOperations!None, ComposeOperations!Nothing, Jobs, JobSteps, Runs

LEMMA ProjectInit == ComposeOperations!Init => ProjectInv
<1> SUFFICES ASSUME ComposeOperations!Init PROVE ProjectInv
  OBVIOUS
<1>1. ProjectTypes
  BY IdleJob DEF ComposeOperations!Init, ProjectTypes, ComposeOperations!None, ComposeOperations!Nothing, Runs
<1>2. job.at = "idle"
  BY IdleJob DEF ComposeOperations!Init
<1>3. BuildsKept /\ FilesWritten
  BY <1>2, ProjectAssumption DEF ComposeOperations!Init, BuildsKept, FilesWritten, Kept, ComposeOperations!None, ProjectAssumption
<1> QED
  BY <1>1, <1>2, <1>3 DEF ProjectInv, OnItsWay, Replaced, RunsAsAsked

LEMMA JobGoes ==
  ASSUME ProjectInv, NEW l \in JobSteps, ComposeOperations!Goto(l)
  PROVE  /\ job' \in Jobs /\ job'.at = l
         /\ job'.op = job.op /\ job'.commit = job.commit /\ job'.res = job.res
         /\ job'.ready = job.ready /\ job'.began = job.began
BY DEF ProjectInv, ProjectTypes, Jobs, ComposeOperations!Goto

LEMMA JobEnds ==
  ASSUME ProjectInv, NEW r \in {"ok", "error"}, ComposeOperations!Ends(r)
  PROVE  /\ job' \in Jobs /\ job'.res = r
         /\ job'.at = (IF kinds[job.op] \in ComposeOperations!Git THEN "clean" ELSE "report")
         /\ job'.op = job.op /\ job'.commit = job.commit
         /\ job'.ready = job.ready /\ job'.began = job.began
BY DEF ProjectInv, ProjectTypes, Jobs, JobSteps, ComposeOperations!Ends, ComposeOperations!op


\* An operation that fails says so, whatever the command has done.
LEMMA Failed ==
  ASSUME ProjectInv, ComposeOperations!Fails, job.at # "idle", kinds' = kinds, files' = files,
         job.ready \/ service' = service \/ kinds[job.op] \notin {"redeploy", "git deploy", "git redeploy"}
  PROVE  job' \in Jobs /\ OnItsWay' /\ FilesWritten' /\ Replaced' /\ RunsAsAsked'
<1>1. /\ job' \in Jobs /\ job'.res = "error"
      /\ job'.at = (IF kinds[job.op] \in ComposeOperations!Git THEN "clean" ELSE "report")
      /\ job'.op = job.op /\ job'.commit = job.commit
      /\ job'.ready = job.ready /\ job'.began = job.began
  BY JobEnds DEF ComposeOperations!Fails
<1>2. job.op \in Ops
  BY DEF ProjectInv, OnItsWay
<1>3. OnItsWay'
  BY <1>1, <1>2 DEF OnItsWay
<1>4. FilesWritten'
  BY <1>1 DEF ProjectInv, FilesWritten
<1>5. Replaced'
  BY <1>1 DEF ProjectInv, Replaced
<1>6. RunsAsAsked'
  BY <1>1 DEF RunsAsAsked
<1> QED
  BY <1>1, <1>3, <1>4, <1>5, <1>6

LEMMA ProjectStep == ProjectInv /\ ComposeOperations!Next => ProjectInv'
<1> SUFFICES ASSUME ProjectInv, ComposeOperations!Next PROVE ProjectInv'
  OBVIOUS
<1> USE DEF ComposeOperations!op, ComposeOperations!host, ComposeOperations!past,
            ComposeOperations!At, ComposeOperations!None
<1>0. ProjectTypes /\ OnItsWay /\ BuildsKept /\ FilesWritten /\ Replaced /\ RunsAsAsked
  BY DEF ProjectInv
<1>1. ASSUME NEW o \in Ops, ComposeOperations!Claim(o) PROVE ProjectInv'
  <2>1. /\ job' \in Jobs /\ job'.op = o /\ job'.began = service
        /\ job'.at = (IF kinds[o] = "validate" THEN "validate" ELSE "compose")
    BY <1>0, <1>1 DEF ComposeOperations!Claim, ComposeOperations!Idle, ComposeOperations!Nothing, Jobs, Runs, JobSteps, ProjectTypes
  <2>2. job.at = "idle" /\ UNCHANGED <<kinds, head, pin, files, image, service, built, forgot>>
    BY <1>1 DEF ComposeOperations!Claim
  <2>3. ProjectTypes'
    BY <1>0, <2>1, <2>2 DEF ProjectTypes
  <2>4. OnItsWay'
    BY <2>1, <2>2 DEF OnItsWay
  <2>5. BuildsKept'
    BY <1>0, <2>1, <2>2 DEF BuildsKept, Kept
  <2>6. FilesWritten'
    BY <1>0, <2>1, <2>2 DEF FilesWritten
  <2>7. Replaced' /\ RunsAsAsked'
    BY <2>1, <2>2 DEF Replaced, RunsAsAsked
  <2> QED
    BY <2>3, <2>4, <2>5, <2>6, <2>7 DEF ProjectInv
<1>2. ASSUME UNCHANGED <<kinds, pin, files, image, service, job, built, forgot>>, head' \in {head, head + 1}
      PROVE  ProjectInv'
  <2>1. ProjectTypes'
    BY <1>0, <1>2 DEF ProjectTypes
  <2>2. OnItsWay' /\ BuildsKept' /\ FilesWritten' /\ Replaced' /\ RunsAsAsked'
    BY <1>0, <1>2 DEF OnItsWay, BuildsKept, Kept, FilesWritten, Replaced, RunsAsAsked
  <2> QED
    BY <2>1, <2>2 DEF ProjectInv
<1>3. CASE ComposeOperations!Crash
  <2>1. /\ job' = ComposeOperations!Idle /\ job.at # "idle" /\ job.op \in Ops
        /\ UNCHANGED <<kinds, head, pin, files, image, service, built>>
        /\ forgot' = [forgot EXCEPT ![job.op] = @ \/ job.at = "rewrite"]
    BY <1>0, <1>3 DEF ComposeOperations!Crash, OnItsWay
  <2>2. job' \in Jobs /\ job'.at = "idle"
    BY <2>1, IdleJob
  <2>3. forgot' \in [Ops -> BOOLEAN] /\ \A o \in Ops : forgot'[o] = (forgot[o] \/ (o = job.op /\ job.at = "rewrite"))
    BY <1>0, <2>1 DEF ProjectTypes
  <2>4. ProjectTypes'
    BY <1>0, <2>1, <2>2, <2>3 DEF ProjectTypes
  <2>5. BuildsKept'
    BY <1>0, <2>1, <2>2, <2>3 DEF BuildsKept, Kept
  <2>6. OnItsWay' /\ FilesWritten' /\ Replaced' /\ RunsAsAsked'
    BY <1>0, <2>1, <2>2 DEF OnItsWay, FilesWritten, Replaced, RunsAsAsked
  <2> QED
    BY <2>4, <2>5, <2>6 DEF ProjectInv
<1>4. CASE ComposeOperations!Report
  <2>1. job' = ComposeOperations!Idle /\ job.at = "report" /\ UNCHANGED <<kinds, head, pin, files, image, service, built, forgot>>
    BY <1>4 DEF ComposeOperations!Report
  <2>2. job' \in Jobs /\ job'.at = "idle"
    BY <2>1, IdleJob
  <2>3. ProjectTypes'
    BY <1>0, <2>1, <2>2 DEF ProjectTypes
  <2>4. BuildsKept'
    BY <1>0, <2>1, <2>2 DEF BuildsKept, Kept
  <2>5. OnItsWay' /\ FilesWritten' /\ Replaced' /\ RunsAsAsked'
    BY <1>0, <2>1, <2>2 DEF OnItsWay, FilesWritten, Replaced, RunsAsAsked
  <2> QED
    BY <2>3, <2>4, <2>5 DEF ProjectInv
<1>5. CASE ComposeOperations!Validate
  <2>1. job.at = "validate" /\ kinds[job.op] = "validate" /\ UNCHANGED <<kinds, head, pin, files, image, service, built, forgot>>
    BY <1>0, <1>5 DEF ComposeOperations!Validate, OnItsWay
  <2>2. /\ job' \in Jobs /\ job'.at = "report" /\ job'.op = job.op /\ job'.res \in {"ok", "error"}
    BY <1>5, <2>1, JobEnds DEF ComposeOperations!Validate, ComposeOperations!Fails, ComposeOperations!Git
  <2>3. ProjectTypes'
    BY <1>0, <2>1, <2>2 DEF ProjectTypes
  <2>4. BuildsKept'
    BY <1>0, <2>1, <2>2 DEF BuildsKept, Kept
  <2>5. OnItsWay' /\ FilesWritten' /\ Replaced' /\ RunsAsAsked'
    BY <1>0, <2>1, <2>2 DEF OnItsWay, FilesWritten, Replaced, RunsAsAsked, ComposeOperations!Deploys
  <2> QED
    BY <2>3, <2>4, <2>5 DEF ProjectInv
<1>6. CASE ComposeOperations!WriteCompose
  <2>1. /\ job.at = "compose" /\ job.op \in Ops /\ kinds[job.op] # "validate"
        /\ UNCHANGED <<kinds, head, pin, image, service, built, forgot>>
    BY <1>0, <1>6 DEF ComposeOperations!WriteCompose, OnItsWay
  <2>2. /\ files' \in [compose : Ops \cup {"none"}, env : Ops \cup {"none"}]
        /\ files'.compose \in {files.compose, job.op, "none"} /\ files'.env = files.env
        /\ job' \in Jobs /\ job'.op = job.op /\ job'.ready = job.ready /\ job'.began = job.began
        /\ \/ job'.at = "env" /\ files'.compose = job.op
           \/ job'.at = "report" /\ job'.res = "error"
    <3>1. CASE files' = [files EXCEPT !.compose = job.op] /\ ComposeOperations!Goto("env")
      BY <1>0, <2>1, <3>1, JobGoes DEF ProjectTypes, JobSteps
    <3>2. CASE /\ files' \in {files, [files EXCEPT !.compose = "none"]}
               /\ job' = [job EXCEPT !.res = "error", !.at = "report"]
      BY <1>0, <3>2 DEF ProjectTypes, Jobs, JobSteps
    <3> QED
      BY <1>6, <3>1, <3>2 DEF ComposeOperations!WriteCompose
  <2>3. ProjectTypes'
    BY <1>0, <2>1, <2>2 DEF ProjectTypes
  <2>4. BuildsKept'
    BY <1>0, <2>1, <2>2 DEF BuildsKept, Kept
  <2>5. OnItsWay'
    BY <2>1, <2>2 DEF OnItsWay
  <2>6. FilesWritten'
    BY <1>0, <2>1, <2>2, ProjectAssumption DEF FilesWritten, ProjectAssumption
  <2>7. Replaced' /\ RunsAsAsked'
    BY <1>0, <2>1, <2>2 DEF Replaced, RunsAsAsked
  <2> QED
    BY <2>3, <2>4, <2>5, <2>6, <2>7 DEF ProjectInv
<1>7. CASE ComposeOperations!WriteEnv
  <2>1. /\ job.at = "env" /\ job.op \in Ops /\ kinds[job.op] # "validate"
        /\ UNCHANGED <<kinds, head, pin, image, service, built, forgot>>
    BY <1>0, <1>7 DEF ComposeOperations!WriteEnv, OnItsWay
  <2> DEFINE next == CASE kinds[job.op] \in ComposeOperations!Git -> "fetch"
                       [] kinds[job.op] = "redeploy" -> "pull"
                       [] kinds[job.op] = "deploy" -> "up" [] OTHER -> kinds[job.op]
  <2>2. /\ kinds[job.op] \in ComposeOperations!Git => next = "fetch"
        /\ kinds[job.op] = "redeploy" => next = "pull"
        /\ kinds[job.op] = "deploy" => next = "up"
        /\ kinds[job.op] = "down" => next = "down"
        /\ kinds[job.op] = "service" => next = "service"
    BY DEF ComposeOperations!Git
  <2>3. kinds[job.op] \in ComposeOperations!Git \cup {"redeploy", "deploy", "down", "service"}
    BY <1>0, <2>1, ProjectAssumption DEF ProjectTypes, ProjectAssumption, ComposeOperations!Git
  <2>4. /\ files' \in [compose : Ops \cup {"none"}, env : Ops \cup {"none"}]
        /\ files'.env \in {files.env, job.op, "none"} /\ files'.compose = files.compose
        /\ job' \in Jobs /\ job'.op = job.op /\ job'.ready = job.ready /\ job'.began = job.began
        /\ \/ job'.at = next
           \/ job'.at = "report" /\ job'.res = "error"
    <3>1. CASE files' = [files EXCEPT !.env = job.op] /\ ComposeOperations!Goto(next)
      <4>1. next \in JobSteps
        BY <2>2, <2>3 DEF JobSteps
      <4> HIDE DEF next
      <4> QED
        BY <1>0, <2>1, <3>1, <4>1, JobGoes DEF ProjectTypes
    <3>2. CASE /\ files' \in {files, [files EXCEPT !.env = "none"]}
               /\ job' = [job EXCEPT !.res = "error", !.at = "report"]
      BY <1>0, <3>2 DEF ProjectTypes, Jobs, JobSteps
    <3> QED
      BY <1>7, <3>1, <3>2 DEF ComposeOperations!WriteEnv
  <2> HIDE DEF next
  <2>5. ProjectTypes'
    BY <1>0, <2>1, <2>4 DEF ProjectTypes
  <2>6. job'.at \in {"fetch", "pull", "up", "down", "service", "report"}
    BY <2>2, <2>3, <2>4
  <2>7. BuildsKept'
    BY <1>0, <2>1, <2>4, <2>6 DEF BuildsKept, Kept
  <2>8. OnItsWay'
    BY <2>1, <2>2, <2>3, <2>4 DEF OnItsWay, ComposeOperations!Deploys, ComposeOperations!Git
  <2>9. FilesWritten'
    BY <1>0, <2>1, <2>4, ProjectAssumption DEF FilesWritten, ProjectAssumption
  <2>10. RunsAsAsked'
    <3>1. job'.at \notin {"clean", "report"} \/ job'.res = "error"
      BY <2>2, <2>3, <2>4
    <3> QED
      BY <3>1 DEF RunsAsAsked
  <2>11. kinds[job.op] \in {"redeploy", "git deploy", "git redeploy"} => job'.at \in {"fetch", "pull", "report"}
    BY <2>2, <2>4 DEF ComposeOperations!Git
  <2>12. Replaced'
    BY <1>0, <2>1, <2>4, <2>11 DEF Replaced
  <2> QED
    BY <2>5, <2>7, <2>8, <2>9, <2>10, <2>12 DEF ProjectInv
<1>8. CASE ComposeOperations!Fetch
  <2>1. job.at = "fetch" /\ job.op \in Ops /\ UNCHANGED <<kinds, head, pin, files, image, service, built, forgot>>
    BY <1>0, <1>8 DEF ComposeOperations!Fetch, OnItsWay
  <2>2. CASE ComposeOperations!Fails
    <3>1. BuildsKept'
      <4>1. job'.at \in {"clean", "report"}
        BY <2>2, JobEnds DEF ComposeOperations!Fails
      <4> QED
        BY <1>0, <2>1, <4>1 DEF BuildsKept, Kept
    <3> QED
      BY <1>0, <2>1, <2>2, <3>1, Failed DEF ProjectInv, ProjectTypes
  <2>3. CASE job' = [job EXCEPT !.commit = ComposeOperations!FetchRef, !.at = "resolve"]
    <3>1. ComposeOperations!FetchRef \in Nat \ {0} /\ pin[job.op] \in {0, ComposeOperations!FetchRef}
      BY <1>0, <2>1 DEF ProjectTypes, ComposeOperations!FetchRef
    <3>2. /\ job' \in Jobs /\ job'.at = "resolve" /\ job'.commit = ComposeOperations!FetchRef
          /\ job'.op = job.op /\ job'.ready = job.ready /\ job'.began = job.began
      BY <1>0, <2>3, <3>1 DEF ProjectTypes, Jobs, JobSteps
    <3>3. ProjectTypes'
      BY <1>0, <2>1, <3>2 DEF ProjectTypes
    <3>4. BuildsKept'
      BY <1>0, <2>1, <3>1, <3>2 DEF BuildsKept, Kept
    <3>5. OnItsWay' /\ FilesWritten' /\ Replaced' /\ RunsAsAsked'
      BY <1>0, <2>1, <3>2 DEF OnItsWay, FilesWritten, Replaced, RunsAsAsked
    <3> QED
      BY <3>3, <3>4, <3>5 DEF ProjectInv
  <2> QED
    BY <1>8, <2>2, <2>3 DEF ComposeOperations!Fetch
<1>9. CASE ComposeOperations!Resolve
  <2>1. job.at = "resolve" /\ job.op \in Ops /\ UNCHANGED <<kinds, head, files, image, service, built>>
    BY <1>0, <1>9 DEF ComposeOperations!Resolve, OnItsWay
  <2>2. job.commit \in Nat /\ job.commit # 0 /\ pin[job.op] \in {0, job.commit}
    BY <1>0, <2>1 DEF ProjectTypes, BuildsKept, Jobs
  <2>3. CASE pin' = [pin EXCEPT ![job.op] = job.commit] /\ ComposeOperations!Goto("build") /\ UNCHANGED forgot
    <3>1. /\ job' \in Jobs /\ job'.at = "build" /\ job'.op = job.op /\ job'.commit = job.commit
          /\ job'.ready = job.ready /\ job'.began = job.began
      BY <2>3, JobGoes DEF JobSteps
    <3>2. ProjectTypes'
      BY <1>0, <2>1, <2>2, <2>3, <3>1 DEF ProjectTypes
    <3>3. \A o \in Ops : forgot'[o] \/ built'[o] \subseteq {Kept(o)'}
      <4>1. ASSUME NEW o \in Ops, ~forgot'[o] PROVE built'[o] \subseteq {pin'[o]}
        <5>1. built[o] \subseteq {pin[o]} /\ built[o] \subseteq Nat \ {0}
          BY <1>0, <2>1, <2>3, <4>1 DEF BuildsKept, Kept, ProjectTypes
        <5> QED
          BY <1>0, <2>1, <2>2, <2>3, <5>1 DEF ProjectTypes
      <4> QED
        BY <3>1, <4>1 DEF Kept
    <3>4. BuildsKept'
      BY <1>0, <2>1, <2>2, <2>3, <3>1, <3>3 DEF BuildsKept, ProjectTypes
    <3>5. OnItsWay' /\ FilesWritten' /\ Replaced' /\ RunsAsAsked'
      BY <1>0, <2>1, <3>1 DEF OnItsWay, FilesWritten, Replaced, RunsAsAsked
    <3> QED
      BY <3>2, <3>4, <3>5 DEF ProjectInv
  <2>4. CASE /\ pin' \in {pin, [pin EXCEPT ![job.op] = 0]} /\ ComposeOperations!Fails
             /\ forgot' = [forgot EXCEPT ![job.op] = @ \/ pin'[job.op] # pin[job.op]]
    <3>1. job'.at \in {"clean", "report"}
      BY <2>4, JobEnds DEF ComposeOperations!Fails
    <3>2. pin' \in [Ops -> Nat] /\ \A o \in Ops : pin'[o] = pin[o] \/ o = job.op
      BY <1>0, <2>1, <2>4 DEF ProjectTypes
    <3>3. /\ forgot' \in [Ops -> BOOLEAN]
          /\ \A o \in Ops : forgot'[o] = (forgot[o] \/ (o = job.op /\ pin'[o] # pin[o]))
      BY <1>0, <2>1, <2>4 DEF ProjectTypes
    <3>4. BuildsKept'
      BY <1>0, <2>1, <3>1, <3>2, <3>3 DEF BuildsKept, Kept
    <3>5. job' \in Jobs /\ OnItsWay' /\ FilesWritten' /\ Replaced' /\ RunsAsAsked'
      BY <2>1, <2>4, Failed
    <3> QED
      BY <1>0, <2>1, <3>2, <3>3, <3>4, <3>5 DEF ProjectInv, ProjectTypes
  <2> QED
    BY <1>9, <2>3, <2>4 DEF ComposeOperations!Resolve
<1>10. CASE ComposeOperations!Build
  <2>1. /\ job.at = "build" /\ job.op \in Ops /\ kinds[job.op] \in ComposeOperations!Git
        /\ UNCHANGED <<kinds, head, pin, files, service, forgot>>
    BY <1>0, <1>10 DEF ComposeOperations!Build, OnItsWay
  <2>2. job.commit \in Nat /\ job.commit # 0 /\ pin[job.op] = job.commit
    BY <1>0, <2>1 DEF ProjectTypes, BuildsKept, Jobs
  <2>3. /\ image' \in Runs /\ built' \in [Ops -> SUBSET (Nat \ {0})]
        /\ \A o \in Ops : forgot'[o] \/ built'[o] \subseteq {pin'[o]}
    <3>1. CASE ComposeOperations!Builds
      <4>1. image' \in Runs /\ built' = [built EXCEPT ![job.op] = @ \cup {job.commit}]
        BY <2>1, <2>2, <3>1 DEF ComposeOperations!Builds, Runs
      <4>2. built' \in [Ops -> SUBSET (Nat \ {0})]
        BY <1>0, <2>1, <2>2, <4>1 DEF ProjectTypes
      <4>3. \A o \in Ops : forgot[o] \/ built[o] \subseteq {pin[o]}
        BY <1>0, <2>1 DEF BuildsKept, Kept
      <4> QED
        BY <1>0, <2>1, <2>2, <4>1, <4>2, <4>3 DEF ProjectTypes
    <3>2. CASE UNCHANGED <<image, built>>
      BY <1>0, <2>1, <3>2 DEF ProjectTypes, BuildsKept, Kept
    <3> QED
      BY <1>10, <3>1, <3>2 DEF ComposeOperations!Build
  <2>4. CASE ComposeOperations!Fails
    <3>1. job'.at \in {"clean", "report"}
      BY <2>4, JobEnds DEF ComposeOperations!Fails
    <3>2. BuildsKept'
      BY <2>3, <3>1 DEF BuildsKept, Kept
    <3>3. job' \in Jobs /\ OnItsWay' /\ FilesWritten' /\ Replaced' /\ RunsAsAsked'
      BY <2>1, <2>4, Failed
    <3> QED
      BY <1>0, <2>1, <2>3, <3>2, <3>3 DEF ProjectInv, ProjectTypes
  <2>5. CASE job' = [job EXCEPT !.ready = TRUE, !.at = ComposeOperations!AfterBuild]
    <3>1. /\ job' \in Jobs /\ job'.ready = TRUE /\ job'.op = job.op
          /\ job'.at = IF kinds[job.op] = "git deploy" THEN "up" ELSE "down"
      BY <1>0, <2>5 DEF ProjectTypes, Jobs, JobSteps, ComposeOperations!AfterBuild
    <3>2. BuildsKept'
      BY <2>3, <3>1 DEF BuildsKept, Kept
    <3>3. OnItsWay'
      BY <2>1, <3>1 DEF OnItsWay, ComposeOperations!Git, ComposeOperations!Deploys
    <3>4. FilesWritten' /\ RunsAsAsked'
      BY <1>0, <2>1, <3>1 DEF FilesWritten, RunsAsAsked
    <3>5. Replaced'
      BY <3>1 DEF Replaced
    <3> QED
      BY <1>0, <2>1, <2>3, <3>1, <3>2, <3>3, <3>4, <3>5 DEF ProjectInv, ProjectTypes
  <2> QED
    BY <1>10, <2>4, <2>5 DEF ComposeOperations!Build
<1>11. CASE ComposeOperations!CleanWorkspace
  <2>1. /\ job.at = "clean" /\ job.op \in Ops /\ kinds[job.op] \in ComposeOperations!Git
        /\ job.res \in {"ok", "error"}
        /\ UNCHANGED <<kinds, head, files, image, service, built>>
    BY <1>0, <1>11 DEF ComposeOperations!CleanWorkspace, OnItsWay
  <2>2. pin' \in [Ops -> Nat] /\ \A o \in Ops : pin'[o] = pin[o] \/ o = job.op
    BY <1>0, <1>11, <2>1 DEF ComposeOperations!CleanWorkspace, ProjectTypes
  <2>3. \A o \in Ops : forgot[o] \/ built[o] \subseteq {pin[o]}
    BY <1>0, <2>1 DEF BuildsKept, Kept
  <2>4. /\ job' \in Jobs /\ job'.op = job.op /\ job'.res = job.res
        /\ job'.ready = job.ready /\ job'.began = job.began
        /\ forgot' \in [Ops -> BOOLEAN] /\ \A o \in Ops \ {job.op} : forgot'[o] = forgot[o]
        /\ \/ job'.at = "report" /\ (forgot'[job.op] \/ (forgot'[job.op] = forgot[job.op] /\ pin[job.op] = 0))
           \/ /\ job'.at = "rewrite" /\ job.res = "error" /\ job'.commit = pin[job.op]
              /\ forgot'[job.op] = forgot[job.op]
    <3>1. CASE /\ job' = [job EXCEPT !.at = IF ComposeOperations!Keeps THEN "rewrite" ELSE "report", !.commit = pin[job.op]]
               /\ forgot' = [forgot EXCEPT ![job.op] = @ \/ job.res = "ok"]
      <4>1. /\ job' \in Jobs /\ job'.op = job.op /\ job'.res = job.res /\ job'.commit = pin[job.op]
            /\ job'.ready = job.ready /\ job'.began = job.began
            /\ job'.at = IF job.res = "error" /\ pin[job.op] # 0 THEN "rewrite" ELSE "report"
        BY <1>0, <2>1, <3>1 DEF ProjectTypes, Jobs, JobSteps, ComposeOperations!Keeps
      <4>2. /\ forgot' \in [Ops -> BOOLEAN] /\ forgot'[job.op] = (forgot[job.op] \/ job.res = "ok")
            /\ \A o \in Ops \ {job.op} : forgot'[o] = forgot[o]
        BY <1>0, <2>1, <3>1 DEF ProjectTypes
      <4>3. CASE job.res = "ok"
        <5>1. forgot'[job.op] /\ job'.at = "report"
          BY <4>1, <4>2, <4>3
        <5> QED
          BY <4>1, <4>2, <5>1
      <4>4. CASE job.res = "error"
        <5>1. forgot'[job.op] = forgot[job.op]
          BY <1>0, <2>1, <4>2, <4>4 DEF ProjectTypes
        <5> QED
          BY <4>1, <4>2, <4>4, <5>1
      <4> QED
        BY <2>1, <4>3, <4>4
    <3>2. CASE ComposeOperations!Goto("report") /\ forgot' = [forgot EXCEPT ![job.op] = TRUE]
      BY <1>0, <2>1, <3>2, JobGoes DEF ProjectTypes, JobSteps
    <3> QED
      BY <1>11, <3>1, <3>2 DEF ComposeOperations!CleanWorkspace
  <2>5. BuildsKept'
    <3>1. ASSUME NEW o \in Ops, ~forgot'[o] PROVE built'[o] \subseteq {Kept(o)'}
      <4>1. CASE o # job.op
        BY <2>1, <2>2, <2>3, <2>4, <3>1, <4>1 DEF Kept
      <4>2. CASE o = job.op /\ job'.at = "rewrite"
        BY <2>1, <2>3, <2>4, <3>1, <4>2 DEF Kept
      <4>3. CASE o = job.op /\ job'.at = "report"
        BY <1>0, <2>1, <2>3, <2>4, <3>1, <4>3 DEF ProjectTypes
      <4> QED
        BY <2>4, <4>1, <4>2, <4>3
    <3> QED
      BY <2>4, <3>1 DEF BuildsKept
  <2>6. OnItsWay' /\ FilesWritten' /\ Replaced' /\ RunsAsAsked'
    BY <1>0, <2>1, <2>4 DEF OnItsWay, FilesWritten, Replaced, RunsAsAsked
  <2> QED
    BY <1>0, <2>1, <2>2, <2>4, <2>5, <2>6 DEF ProjectInv, ProjectTypes
<1>12. CASE ComposeOperations!Rewrite
  <2>1. /\ job.at = "rewrite" /\ job.op \in Ops /\ job.res = "error" /\ job.commit \in Nat
        /\ UNCHANGED <<kinds, head, files, image, service, built>>
    BY <1>0, <1>12 DEF ComposeOperations!Rewrite, OnItsWay, ProjectTypes, Jobs
  <2>2. /\ job' \in Jobs /\ job'.at = "report" /\ job'.op = job.op /\ job'.res = job.res
        /\ job'.ready = job.ready /\ job'.began = job.began
    BY <1>12, JobGoes DEF ComposeOperations!Rewrite, JobSteps
  <2>3. /\ pin' \in [Ops -> Nat] /\ forgot' \in [Ops -> BOOLEAN]
        /\ \A o \in Ops \ {job.op} : pin'[o] = pin[o] /\ forgot'[o] = forgot[o]
        /\ \/ pin'[job.op] = job.commit /\ forgot'[job.op] = forgot[job.op]
           \/ forgot'[job.op]
    BY <1>0, <1>12, <2>1 DEF ComposeOperations!Rewrite, ProjectTypes
  <2>4. BuildsKept'
    BY <1>0, <2>1, <2>2, <2>3 DEF BuildsKept, Kept
  <2>5. OnItsWay' /\ FilesWritten' /\ Replaced' /\ RunsAsAsked'
    BY <1>0, <2>1, <2>2 DEF OnItsWay, FilesWritten, Replaced, RunsAsAsked
  <2> QED
    BY <1>0, <2>1, <2>2, <2>3, <2>4, <2>5 DEF ProjectInv, ProjectTypes
<1>13. CASE ComposeOperations!Pull
  <2>1. /\ job.at = "pull" /\ job.op \in Ops /\ kinds[job.op] = "redeploy"
        /\ UNCHANGED <<kinds, head, pin, files, image, service, built, forgot>>
    BY <1>0, <1>13 DEF ComposeOperations!Pull, OnItsWay
  <2>2. CASE ComposeOperations!Fails
    <3>1. job'.at \in {"clean", "report"}
      BY <2>2, JobEnds DEF ComposeOperations!Fails
    <3>2. BuildsKept'
      BY <1>0, <2>1, <3>1 DEF BuildsKept, Kept
    <3> QED
      BY <1>0, <2>1, <2>2, <3>2, Failed DEF ProjectInv, ProjectTypes
  <2>3. CASE job' = [job EXCEPT !.ready = TRUE, !.at = "down"]
    <3>1. job' \in Jobs /\ job'.ready = TRUE /\ job'.op = job.op /\ job'.at = "down"
      BY <1>0, <2>3 DEF ProjectTypes, Jobs, JobSteps
    <3>2. BuildsKept'
      BY <1>0, <2>1, <3>1 DEF BuildsKept, Kept
    <3>3. OnItsWay' /\ FilesWritten' /\ RunsAsAsked'
      BY <1>0, <2>1, <3>1 DEF OnItsWay, FilesWritten, RunsAsAsked
    <3>4. Replaced'
      BY <3>1 DEF Replaced
    <3> QED
      BY <1>0, <2>1, <3>1, <3>2, <3>3, <3>4 DEF ProjectInv, ProjectTypes
  <2> QED
    BY <1>13, <2>2, <2>3 DEF ComposeOperations!Pull
<1>14. CASE ComposeOperations!Down
  <2>1. /\ job.at = "down" /\ job.op \in Ops /\ kinds[job.op] \in {"down", "git down", "redeploy", "git redeploy"}
        /\ UNCHANGED <<kinds, head, pin, files, image, built, forgot>>
    BY <1>0, <1>14 DEF ComposeOperations!Down, OnItsWay
  <2>2. job.ready \/ kinds[job.op] \in {"down", "git down"}
    BY <1>0, <2>1 DEF Replaced
  <2>3. service' \in Runs
    <3>1. service' \in {service, ComposeOperations!Nothing}
      BY <1>14 DEF ComposeOperations!Down
    <3> QED
      BY <1>0, <3>1 DEF ProjectTypes, ComposeOperations!Nothing, Runs
  <2>4. CASE ComposeOperations!Fails
    <3>1. job'.at \in {"clean", "report"}
      BY <2>4, JobEnds DEF ComposeOperations!Fails
    <3>2. BuildsKept'
      BY <1>0, <2>1, <3>1 DEF BuildsKept, Kept
    <3>3. job' \in Jobs /\ OnItsWay' /\ FilesWritten' /\ Replaced' /\ RunsAsAsked'
      BY <2>1, <2>2, <2>4, Failed
    <3> QED
      BY <1>0, <2>1, <2>3, <3>2, <3>3 DEF ProjectInv, ProjectTypes
  <2>5. CASE kinds[job.op] \in {"down", "git down"} /\ ComposeOperations!Ends("ok")
    <3>1. /\ job' \in Jobs /\ job'.res = "ok" /\ job'.op = job.op
          /\ job'.at = (IF kinds[job.op] \in ComposeOperations!Git THEN "clean" ELSE "report")
      BY <2>5, JobEnds
    <3>2. BuildsKept'
      BY <1>0, <2>1, <3>1 DEF BuildsKept, Kept
    <3>3. OnItsWay' /\ FilesWritten' /\ Replaced' /\ RunsAsAsked'
      BY <1>0, <2>1, <2>5, <3>1 DEF OnItsWay, FilesWritten, Replaced, RunsAsAsked, ComposeOperations!Deploys
    <3> QED
      BY <1>0, <2>1, <2>3, <3>1, <3>2, <3>3 DEF ProjectInv, ProjectTypes
  <2>6. CASE kinds[job.op] \notin {"down", "git down"} /\ ComposeOperations!Goto("up")
    <3>1. /\ job' \in Jobs /\ job'.at = "up" /\ job'.op = job.op /\ job'.ready = job.ready
      BY <2>6, JobGoes DEF JobSteps
    <3>2. BuildsKept'
      BY <1>0, <2>1, <3>1 DEF BuildsKept, Kept
    <3>3. OnItsWay' /\ FilesWritten' /\ RunsAsAsked'
      BY <1>0, <2>1, <2>6, <3>1 DEF OnItsWay, FilesWritten, RunsAsAsked, ComposeOperations!Deploys
    <3>4. Replaced'
      BY <2>2, <2>6, <3>1 DEF Replaced
    <3> QED
      BY <1>0, <2>1, <2>3, <3>1, <3>2, <3>3, <3>4 DEF ProjectInv, ProjectTypes
  <2> QED
    BY <1>14, <2>4, <2>5, <2>6 DEF ComposeOperations!Down
<1>15. CASE ComposeOperations!Up
  <2>1. /\ job.at = "up" /\ job.op \in Ops /\ kinds[job.op] \in ComposeOperations!Deploys
        /\ files.compose = job.op
        /\ UNCHANGED <<kinds, head, pin, files, image, built, forgot>>
    BY <1>0, <1>15 DEF ComposeOperations!Up, OnItsWay, FilesWritten
  <2>2. job.ready \/ kinds[job.op] \notin {"redeploy", "git deploy", "git redeploy"}
    BY <1>0, <2>1 DEF Replaced
  <2>3. service' \in Runs
    BY <1>0, <1>15 DEF ComposeOperations!Up, ComposeOperations!Started, ProjectTypes, ComposeOperations!Nothing, Runs
  <2>4. CASE ComposeOperations!Fails
    <3>1. job'.at \in {"clean", "report"}
      BY <2>4, JobEnds DEF ComposeOperations!Fails
    <3>2. BuildsKept'
      BY <1>0, <2>1, <3>1 DEF BuildsKept, Kept
    <3>3. job' \in Jobs /\ OnItsWay' /\ FilesWritten' /\ Replaced' /\ RunsAsAsked'
      BY <2>1, <2>2, <2>4, Failed
    <3> QED
      BY <1>0, <2>1, <2>3, <3>2, <3>3 DEF ProjectInv, ProjectTypes
  <2>5. CASE service' = ComposeOperations!Started /\ ComposeOperations!Ends("ok")
    <3>1. /\ job' \in Jobs /\ job'.res = "ok" /\ job'.op = job.op /\ job'.ready = job.ready
          /\ job'.at = (IF kinds[job.op] \in ComposeOperations!Git THEN "clean" ELSE "report")
      BY <2>5, JobEnds
    <3>2. BuildsKept'
      BY <1>0, <2>1, <3>1 DEF BuildsKept, Kept
    <3>3. OnItsWay' /\ FilesWritten'
      BY <1>0, <2>1, <3>1 DEF OnItsWay, FilesWritten
    <3>4. Replaced'
      BY <2>1, <2>2, <3>1 DEF Replaced
    <3>5. RunsAsAsked'
      BY <2>1, <2>5, <3>1 DEF RunsAsAsked, ComposeOperations!Started
    <3> QED
      BY <1>0, <2>1, <2>3, <3>1, <3>2, <3>3, <3>4, <3>5 DEF ProjectInv, ProjectTypes
  <2> QED
    BY <1>15, <2>4, <2>5 DEF ComposeOperations!Up
<1>16. CASE ComposeOperations!ServiceAction
  <2>1. /\ job.at = "service" /\ job.op \in Ops /\ kinds[job.op] = "service"
        /\ UNCHANGED <<kinds, head, pin, files, image, built, forgot>>
    BY <1>0, <1>16 DEF ComposeOperations!ServiceAction, OnItsWay
  <2>2. service' \in Runs
    BY <1>0, <1>16 DEF ComposeOperations!ServiceAction, ComposeOperations!Started, ProjectTypes, ComposeOperations!Nothing, Runs
  <2>3. job' \in Jobs /\ job'.at = "report" /\ job'.op = job.op /\ job'.res \in {"ok", "error"}
    BY <1>16, <2>1, JobEnds DEF ComposeOperations!ServiceAction, ComposeOperations!Fails, ComposeOperations!Git
  <2>4. BuildsKept'
    BY <1>0, <2>1, <2>3 DEF BuildsKept, Kept
  <2>5. OnItsWay' /\ FilesWritten' /\ Replaced' /\ RunsAsAsked'
    BY <1>0, <2>1, <2>3 DEF OnItsWay, FilesWritten, Replaced, RunsAsAsked, ComposeOperations!Deploys
  <2> QED
    BY <1>0, <2>1, <2>2, <2>3, <2>4, <2>5 DEF ProjectInv, ProjectTypes
<1>17. ASSUME NEW o \in Ops, ComposeOperations!Retry(o) PROVE ProjectInv'
  BY <1>2, <1>17 DEF ComposeOperations!Retry
<1>18. CASE ComposeOperations!Push
  BY <1>2, <1>18 DEF ComposeOperations!Push
<1> QED
  BY <1>1, <1>3, <1>4, <1>5, <1>6, <1>7, <1>8, <1>9, <1>10, <1>11, <1>12, <1>13, <1>14, <1>15,
     <1>16, <1>17, <1>18 DEF ComposeOperations!Next

\* What is said of the operations of a project.
LEMMA ProjectInvSuffices == ProjectInv => ProjectKept
<1> SUFFICES ASSUME ProjectInv PROVE ProjectKept
  OBVIOUS
<1>1. ComposeOperations!OneCommit
  BY DEF ProjectInv, BuildsKept, ComposeOperations!OneCommit
<1>2. ComposeOperations!LiveFilesKept
  BY DEF ProjectInv, FilesWritten, ComposeOperations!LiveFilesKept
<1>3. ComposeOperations!RunsUntilReplaced
  BY DEF ProjectInv, Replaced, ComposeOperations!RunsUntilReplaced, ComposeOperations!At, ComposeOperations!op, ComposeOperations!Deploys
<1>4. ComposeOperations!CompletedMeansRunning
  BY DEF ProjectInv, RunsAsAsked, ComposeOperations!CompletedMeansRunning, ComposeOperations!At, ComposeOperations!op
<1> QED
  BY <1>1, <1>2, <1>3, <1>4 DEF ProjectKept

\* An operation builds one commit however often it is tried again, a preflight leaves the live
\* files alone, what runs stays until it can be replaced, and a success means that what was asked
\* for runs: executeDockerOperation and its commands, each of which may fail or be cut off.
THEOREM ProjectKeptHolds == MCSpec => []ProjectKept
<1>1. MCInit => ProjectInv
  BY ProjectInit DEF MCInit
<1>2. ProjectInv /\ [MCNext]_<<part, vars, projectVars, outpostVars, guestVars>> => ProjectInv'
  <2> SUFFICES ASSUME ProjectInv, [MCNext]_<<part, vars, projectVars, outpostVars, guestVars>>
               PROVE  ProjectInv'
    OBVIOUS
  <2>1. CASE ComposeOperations!Next
    BY <2>1, ProjectStep
  <2>2. CASE UNCHANGED projectVars
    <3>1. UNCHANGED <<kinds, head, pin, files, image, service, job, built, forgot>>
      BY <2>2 DEF projectVars
    <3>2. ProjectTypes' /\ OnItsWay'
      BY <3>1 DEF ProjectInv, ProjectTypes, OnItsWay
    <3>3. BuildsKept' /\ FilesWritten'
      BY <3>1 DEF ProjectInv, BuildsKept, Kept, FilesWritten
    <3>4. Replaced' /\ RunsAsAsked'
      BY <3>1 DEF ProjectInv, Replaced, RunsAsAsked
    <3> QED
      BY <3>2, <3>3, <3>4 DEF ProjectInv
  <2> QED
    BY <2>1, <2>2 DEF MCNext
<1> QED
  BY <1>1, <1>2, ProjectInvSuffices, PTL DEF MCSpec

-----------------------------------------------------------------------------
(* The outpost.                                                            *)

OutpostLeases == [ver : Nat, serial : Nat, signed : BOOLEAN]

\* The control plane has a lease that is newer than all others, and a last serial.
NewestLease ==
  /\ \E l \in issued : \A m \in issued : m = l \/ Outpost!Newer(l, m)
  /\ \E n \in 1..MaxLease : (\E l \in issued : l.serial = n) /\ \A l \in issued : l.serial <= n

CheckSteps == {"idle", "ask", "allowed", "refused"}

OutpostInv ==
  /\ issued \subseteq OutpostLeases /\ config \in OutpostLeases /\ applied \in OutpostLeases
  /\ loop \in [pc : {"idle", "claim", "apply", "report"}, current : Nat, answer : OutpostLeases]
  /\ check \in [Checks -> [pc : CheckSteps, lease : OutpostLeases]]
  /\ NewestLease
  /\ applied.ver <= config.ver

LEMMA LatestIsIssued == ASSUME OutpostInv PROVE Outpost!Latest \in OutpostLeases
<1>1. Outpost!Latest \in issued
  BY DEF OutpostInv, NewestLease, Outpost!Latest
<1> QED
  BY <1>1 DEF OutpostInv

LEMMA SerialIsLast ==
  ASSUME OutpostInv
  PROVE  /\ Outpost!Serial \in 1..MaxLease
         /\ \A l \in issued : l.serial <= Outpost!Serial
BY DEF OutpostInv, NewestLease, Outpost!Serial

LEMMA OutpostInit == Outpost!Init => OutpostInv
<1> SUFFICES ASSUME Outpost!Init PROVE OutpostInv
  OBVIOUS
<1> DEFINE first == [ver |-> 1, serial |-> 1, signed |-> TRUE]
<1>1. first \in OutpostLeases /\ Outpost!NoLease \in OutpostLeases /\ first.serial = 1
  BY DEF OutpostLeases, Outpost!NoLease
<1>2. issued = {first} /\ config = Outpost!NoLease /\ applied = Outpost!NoLease /\ loop = Outpost!Idle
  BY DEF Outpost!Init
<1>3. loop \in [pc : {"idle", "claim", "apply", "report"}, current : Nat, answer : OutpostLeases]
  BY <1>1, <1>2 DEF Outpost!Idle
<1> HIDE DEF first
<1>4. 1 \in 1..MaxLease
  BY OutpostAssumption DEF OutpostAssumption
<1>5. NewestLease
  BY <1>1, <1>2, <1>4 DEF NewestLease
<1> QED
  BY <1>1, <1>2, <1>3, <1>5 DEF OutpostInv, OutpostLeases, Outpost!Init, CheckSteps

\* A lease that is signed later has a later serial: it is the newest one, or the newest one stays.
LEMMA SignKeepsNewest ==
  ASSUME OutpostInv, Outpost!Sign
  PROVE  issued' \subseteq OutpostLeases /\ NewestLease'
<1>1. PICK v \in 1..Outpost!Latest.ver + 1 :
        issued' = issued \cup {[ver |-> v, serial |-> Outpost!Serial + 1, signed |-> TRUE]}
  BY DEF Outpost!Sign
<1>2. Outpost!Latest.ver \in Nat /\ Outpost!Serial \in Nat /\ Outpost!Serial < MaxLease
  BY LatestIsIssued, SerialIsLast, OutpostAssumption DEF Outpost!Sign, OutpostLeases, OutpostAssumption
<1> DEFINE new == [ver |-> v, serial |-> Outpost!Serial + 1, signed |-> TRUE]
<1>3. new \in OutpostLeases /\ new.serial = Outpost!Serial + 1 /\ issued' = issued \cup {new}
  BY <1>1, <1>2 DEF OutpostLeases
<1> HIDE DEF new
<1>4. \A l \in issued : l.serial \in Nat /\ l.ver \in Nat /\ l.serial < new.serial
  BY <1>2, <1>3, SerialIsLast DEF OutpostInv, OutpostLeases
<1>5. \E n \in 1..MaxLease : (\E l \in issued' : l.serial = n) /\ \A l \in issued' : l.serial <= n
  <2>1. Outpost!Serial + 1 \in 1..MaxLease
    BY <1>2, OutpostAssumption DEF OutpostAssumption
  <2> QED
    BY <1>2, <1>3, <1>4, <2>1
<1>6. PICK l \in issued : \A m \in issued : m = l \/ Outpost!Newer(l, m)
  BY DEF OutpostInv, NewestLease
<1>7. new.ver \in Nat /\ new.serial \in Nat
  BY <1>3 DEF OutpostLeases
<1>8. CASE new.ver >= l.ver
  <2>1. \A m \in issued : Outpost!Newer(new, m)
    BY <1>4, <1>6, <1>7, <1>8 DEF Outpost!Newer
  <2> QED
    BY <1>3, <1>5, <2>1 DEF NewestLease, OutpostInv
<1>9. CASE new.ver < l.ver
  <2>1. Outpost!Newer(l, new)
    BY <1>4, <1>7, <1>9 DEF Outpost!Newer
  <2> QED
    BY <1>3, <1>5, <1>6, <2>1 DEF NewestLease, OutpostInv
<1> QED
  BY <1>4, <1>7, <1>8, <1>9

LEMMA LoopTyped ==
  ASSUME OutpostInv, Outpost!Next
  PROVE  loop' \in [pc : {"idle", "claim", "apply", "report"}, current : Nat, answer : OutpostLeases]
<1> USE DEF OutpostInv
<1>1. Outpost!Idle \in [pc : {"idle", "claim", "apply", "report"}, current : Nat, answer : OutpostLeases]
  BY DEF Outpost!Idle, Outpost!NoLease, OutpostLeases
<1>2. config.ver \in Nat
  BY DEF OutpostLeases
<1>3. /\ [Outpost!Idle EXCEPT !.pc = "claim", !.current = config.ver]
           \in [pc : {"idle", "claim", "apply", "report"}, current : Nat, answer : OutpostLeases]
  BY <1>1, <1>2
<1>4. \A l \in OutpostLeases : 
         [loop EXCEPT !.pc = "apply", !.answer = l]
           \in [pc : {"idle", "claim", "apply", "report"}, current : Nat, answer : OutpostLeases]
  OBVIOUS
<1>5. CASE UNCHANGED loop
  BY <1>5
<1>6. CASE loop' = Outpost!Idle \/ loop' = [Outpost!Idle EXCEPT !.pc = "claim", !.current = config.ver]
  BY <1>1, <1>3, <1>6
<1>7. CASE Outpost!GoodAnswer
  BY <1>4, <1>7, LatestIsIssued DEF Outpost!GoodAnswer, Outpost!Answered
<1>8. CASE Outpost!BadAnswer
  <2>1. \A l \in issued, s \in BOOLEAN : [l EXCEPT !.signed = s] \in OutpostLeases
    BY DEF OutpostLeases
  <2> QED
    BY <1>4, <1>8, <2>1 DEF Outpost!BadAnswer, Outpost!Answered
<1>9. CASE Outpost!Apply
  <2>1. CASE loop' = Outpost!Idle
    BY <1>1, <2>1
  <2>2. CASE Outpost!Goto(IF loop.answer.ver # loop.current THEN "report" ELSE "idle")
    BY <2>2 DEF Outpost!Goto
  <2> QED
    BY <1>9, <2>1, <2>2 DEF Outpost!Apply
<1> QED
  BY <1>5, <1>6, <1>7, <1>8, <1>9 DEF Outpost!Next, Outpost!Sign, Outpost!Expire, Outpost!StartClaim,
     Outpost!NoAnswer, Outpost!ReportApplied, Outpost!Heartbeat, Outpost!Route, Outpost!CoreDecides,
     Outpost!Reply

\* What changes the configuration is newer than what it replaces.
LEMMA ConfigForward ==
  ASSUME OutpostInv, Outpost!Next
  PROVE  /\ config' = config \/ Outpost!Newer(config', config)
         /\ config' \in OutpostLeases
<1>1. CASE Outpost!Apply
  BY <1>1 DEF Outpost!Apply, Outpost!Acceptable, OutpostInv
<1>2. CASE UNCHANGED config
  BY <1>2 DEF OutpostInv
<1> QED
  BY <1>1, <1>2 DEF Outpost!Next, Outpost!Sign, Outpost!Expire, Outpost!StartClaim, Outpost!state,
     Outpost!GoodAnswer, Outpost!BadAnswer, Outpost!Answered,
     Outpost!NoAnswer, Outpost!ReportApplied, Outpost!Heartbeat, Outpost!Route, Outpost!CoreDecides,
     Outpost!Reply

\* A request is routed by the configuration in force, which has not expired.
LEMMA ChecksRouted ==
  ASSUME OutpostInv, Outpost!Next
  PROVE  /\ check' \in [Checks -> [pc : CheckSteps, lease : OutpostLeases]]
         /\ \A c \in Checks : check[c].pc = "idle" /\ check'[c].pc \in {"allowed", "ask"} =>
              check'[c].lease = config /\ config.serial > expired
<1> USE DEF OutpostInv, CheckSteps
<1>1. Outpost!NoLease \in OutpostLeases
  BY DEF OutpostLeases, Outpost!NoLease
<1>2. ASSUME NEW d \in Checks, Outpost!Route(d)
      PROVE  /\ check' \in [Checks -> [pc : CheckSteps, lease : OutpostLeases]]
             /\ \A c \in Checks : check[c].pc = "idle" /\ check'[c].pc \in {"allowed", "ask"} =>
                  check'[c].lease = config /\ config.serial > expired
  <2>1. CASE Outpost!Ready
    <3>1. PICK pc0 \in {"allowed", "ask"} : check' = [check EXCEPT ![d] = [pc |-> pc0, lease |-> config]]
      BY <1>2, <2>1 DEF Outpost!Route
    <3>2. config.serial > expired
      BY <2>1 DEF Outpost!Ready
    <3> QED
      BY <3>1, <3>2
  <2>2. CASE ~Outpost!Ready
    <3>1. check' = [check EXCEPT ![d] = [pc |-> "refused", lease |-> Outpost!NoLease]]
      BY <1>2, <2>2 DEF Outpost!Route
    <3> QED
      BY <1>1, <3>1
  <2> QED
    BY <2>1, <2>2
<1>3. ASSUME NEW d \in Checks, Outpost!CoreDecides(d)
      PROVE  /\ check' \in [Checks -> [pc : CheckSteps, lease : OutpostLeases]]
             /\ \A c \in Checks : check[c].pc # "idle" \/ check'[c].pc = "idle"
  <2>1. PICK pc0 \in {"allowed", "refused"} : check' = [check EXCEPT ![d].pc = pc0]
    BY <1>3 DEF Outpost!CoreDecides
  <2>2. check[d].pc = "ask"
    BY <1>3 DEF Outpost!CoreDecides
  <2> QED
    BY <2>1, <2>2
<1>4. ASSUME NEW d \in Checks, Outpost!Reply(d)
      PROVE  /\ check' \in [Checks -> [pc : CheckSteps, lease : OutpostLeases]]
             /\ \A c \in Checks : check'[c] = check[c] \/ check'[c].pc = "idle"
  BY <1>1, <1>4 DEF Outpost!Reply
<1>5. CASE UNCHANGED check
  BY <1>5
<1> QED
  BY <1>2, <1>3, <1>4, <1>5 DEF Outpost!Next, Outpost!Sign, Outpost!Expire, Outpost!StartClaim,
     Outpost!GoodAnswer, Outpost!BadAnswer, Outpost!Answered, Outpost!Apply,
     Outpost!NoAnswer, Outpost!ReportApplied, Outpost!Heartbeat

LEMMA OutpostStep == OutpostInv /\ Outpost!Next => OutpostInv'
<1> SUFFICES ASSUME OutpostInv, Outpost!Next PROVE OutpostInv'
  OBVIOUS
<1>1. issued' \subseteq OutpostLeases /\ NewestLease'
  <2>1. CASE Outpost!Sign
    BY <2>1, SignKeepsNewest
  <2>2. CASE UNCHANGED issued
    BY <2>2 DEF OutpostInv, NewestLease
  <2> QED
    BY <2>1, <2>2 DEF Outpost!Next, Outpost!Expire, Outpost!StartClaim,
       Outpost!GoodAnswer, Outpost!BadAnswer, Outpost!Answered, Outpost!Apply,
       Outpost!NoAnswer, Outpost!ReportApplied, Outpost!Heartbeat, Outpost!Route, Outpost!CoreDecides,
       Outpost!Reply
<1>2. config.ver \in Nat /\ config'.ver \in Nat /\ config'.ver >= config.ver /\ applied.ver \in Nat
  BY ConfigForward DEF OutpostInv, OutpostLeases, Outpost!Newer
<1>3. applied' \in {applied, config}
  BY DEF Outpost!Next, Outpost!Sign, Outpost!Expire, Outpost!StartClaim,
       Outpost!GoodAnswer, Outpost!BadAnswer, Outpost!Answered, Outpost!Apply,
       Outpost!NoAnswer, Outpost!ReportApplied, Outpost!Heartbeat, Outpost!Route, Outpost!CoreDecides,
       Outpost!Reply
<1>4. applied' \in OutpostLeases /\ applied'.ver <= config'.ver
  BY <1>2, <1>3 DEF OutpostInv
<1> QED
  BY <1>1, <1>4, LoopTyped, ConfigForward, ChecksRouted DEF OutpostInv

\* The configuration of the outpost only goes forward, and no request is routed by one that is
\* older than the one reported as applied, or expired: outpostRuntime.apply and the handler of
\* forward-auth checks.
THEOREM OutpostGuardedHolds == MCSpec => OutpostGuarded
<1>1. MCInit => OutpostInv
  BY OutpostInit DEF MCInit
<1>2. OutpostInv /\ [MCNext]_<<part, vars, projectVars, outpostVars, guestVars>> => OutpostInv'
  <2> SUFFICES ASSUME OutpostInv, [MCNext]_<<part, vars, projectVars, outpostVars, guestVars>>
               PROVE  OutpostInv'
    OBVIOUS
  <2>1. CASE Outpost!Next
    BY <2>1, OutpostStep
  <2>2. CASE UNCHANGED outpostVars
    BY <2>2 DEF outpostVars, OutpostInv, NewestLease
  <2> QED
    BY <2>1, <2>2 DEF MCNext
<1>3. OutpostInv /\ [MCNext]_<<part, vars, projectVars, outpostVars, guestVars>> =>
        [Outpost!Newer(config', config)]_config
  BY ConfigForward DEF MCNext, outpostVars
<1>4. OutpostInv /\ [MCNext]_<<part, vars, projectVars, outpostVars, guestVars>> =>
        [\A c \in Checks : check[c].pc = "idle" /\ check'[c].pc \in {"allowed", "ask"} =>
           check'[c].lease.ver >= applied.ver /\ check'[c].lease.serial > expired]_check
  <2> SUFFICES ASSUME OutpostInv, Outpost!Next, NEW c \in Checks,
                      check[c].pc = "idle", check'[c].pc \in {"allowed", "ask"}
               PROVE  check'[c].lease.ver >= applied.ver /\ check'[c].lease.serial > expired
    BY DEF MCNext, outpostVars
  <2>1. check'[c].lease = config /\ config.serial > expired
    BY ChecksRouted
  <2>2. config.ver \in Nat /\ applied.ver \in Nat /\ applied.ver <= config.ver
    BY DEF OutpostInv, OutpostLeases
  <2> QED
    BY <2>1, <2>2
<1> QED
  BY <1>1, <1>2, <1>3, <1>4, PTL DEF MCSpec, OutpostGuarded, Outpost!NeverOlder, Outpost!AppliedRoutes

=============================================================================
