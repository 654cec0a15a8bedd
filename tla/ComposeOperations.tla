-------------------------- MODULE ComposeOperations --------------------------
(***************************************************************************)
(* What a Docker operation does on the host: the files of its Compose      *)
(* project, the image it builds from Git, and the containers it starts and *)
(* stops.  One loop executes the operations of one project one by one; an  *)
(* operation that failed, or whose report was lost, may be offered again   *)
(* under its id.                                                           *)
(*                                                                         *)
(* Every command and every change of a file may fail, and one that was cut *)
(* off by the operation's deadline may have had its effect.                *)
(***************************************************************************)
EXTENDS Naturals

CONSTANTS
  Ops,       \* operations of the project
  OpKinds,   \* what they may be
  MaxHead,   \* commits of the branch that is built
  MaxRetry,  \* operations that are offered again
  MaxCrash   \* crashes of the runner

VARIABLES
  kind,     \* of each operation
  status,   \* of each operation in the control plane
  head,     \* the last commit of the branch
  pin,      \* the file resolved-commit of each operation, 0 if there is none
  files,    \* the operations that wrote compose.yaml and .env of the project
  image,    \* the image of the project: who built it, and of which commit
  service,  \* what the containers of the project were started from
  job,      \* the operation being executed
  built,    \* history: the commits that were built for each operation
  forgot,   \* history: its resolved-commit was lost, or given up with its success
  left      \* retries and crashes that are left

vars == <<kind, status, head, pin, files, image, service, job, built, forgot, left>>

None == "none"
\* An operation on a project that is built from Git builds its image first, also one that
\* only takes it down.
Git == {"git deploy", "git redeploy", "git down"}
Deploys == {"deploy", "redeploy", "git deploy", "git redeploy"}

Nothing == [by |-> None, commit |-> 0]
Idle == [op |-> None, at |-> "idle", commit |-> 0, res |-> None, ready |-> FALSE, began |-> Nothing]

Init ==
  /\ kind \in [Ops -> OpKinds]
  /\ status = [o \in Ops |-> "queued"]
  /\ head = 1
  /\ pin = [o \in Ops |-> 0]
  /\ files = [compose |-> None, env |-> None]
  /\ image = Nothing /\ service = Nothing
  /\ job = Idle
  /\ built = [o \in Ops |-> {}]
  /\ forgot = [o \in Ops |-> FALSE]
  /\ left = [retries |-> MaxRetry, crashes |-> MaxCrash]

op == job.op
host == <<files, image, service>>
past == <<built, forgot>>

At(l) == job.at = l
Goto(l) == job' = [job EXCEPT !.at = l]

\* After a failure, and at the end, the workspace of a Git build is cleaned.
Ends(res) == job' = [job EXCEPT !.res = res, !.at = IF kind[op] \in Git THEN "clean" ELSE "report"]
Fails == Ends("error")

-----------------------------------------------------------------------------
(* Around the runner.                                                      *)

Push ==
  /\ head < MaxHead
  /\ head' = head + 1
  /\ UNCHANGED <<kind, status, pin, host, job, past, left>>

Retry(o) ==
  /\ status[o] \in {"running", "failed"} /\ o # op /\ left.retries > 0
  /\ status' = [status EXCEPT ![o] = "queued"]
  /\ left' = [left EXCEPT !.retries = @ - 1]
  /\ UNCHANGED <<kind, head, pin, host, job, past>>

Crash ==
  /\ ~At("idle") /\ left.crashes > 0
  /\ left' = [left EXCEPT !.crashes = @ - 1]
  /\ forgot' = [forgot EXCEPT ![op] = @ \/ At("rewrite")]
  /\ job' = Idle
  /\ UNCHANGED <<kind, status, head, pin, host, built>>

\* The loop claims the next operation.  Its kind and its payload were checked, and the start
\* was confirmed, or it would not go on.
Claim(o) ==
  /\ At("idle") /\ status[o] = "queued"
  /\ status' = [status EXCEPT ![o] = "running"]
  /\ job' = [Idle EXCEPT !.op = o, !.at = IF kind[o] = "validate" THEN "validate" ELSE "compose",
                         !.began = service]
  /\ UNCHANGED <<kind, head, pin, host, past, left>>

\* The operation is reported, or its cancellation acknowledged, and the answer may be lost.
Report ==
  /\ At("report")
  /\ status' \in {[status EXCEPT ![op] = s] :
                    s \in {"running", "canceled", IF job.res = "ok" THEN "completed" ELSE "failed"}}
  /\ job' = Idle
  /\ UNCHANGED <<kind, head, pin, host, past, left>>

-----------------------------------------------------------------------------
(* The project's files.                                                    *)

\* Mutant: the project's directory serves a preflight too.
ValidateInPlace ==
  /\ At("validate")
  /\ files' = [compose |-> op, env |-> op]
  /\ Ends("ok") \/ Fails
  /\ UNCHANGED <<kind, status, head, pin, image, service, past, left>>

\* A preflight has a directory of its own, which is removed.
Validate ==
  /\ At("validate")
  /\ Ends("ok") \/ Fails
  /\ UNCHANGED <<kind, status, head, pin, host, past, left>>

\* A write that fails leaves an old file, a new one, or none that is whole.
WriteCompose ==
  /\ At("compose")
  /\ \/ files' = [files EXCEPT !.compose = op] /\ Goto("env")
     \/ files' \in {files, [files EXCEPT !.compose = None]}
        /\ job' = [job EXCEPT !.res = "error", !.at = "report"]
  /\ UNCHANGED <<kind, status, head, pin, image, service, past, left>>

\* The .env of an operation without one is removed.
WriteEnv ==
  /\ At("env")
  /\ \/ files' = [files EXCEPT !.env = op]
        /\ Goto(CASE kind[op] \in Git -> "fetch" [] kind[op] = "redeploy" -> "pull"
                  [] kind[op] = "deploy" -> "up" [] OTHER -> kind[op])
     \/ files' \in {files, [files EXCEPT !.env = None]}
        /\ job' = [job EXCEPT !.res = "error", !.at = "report"]
  /\ UNCHANGED <<kind, status, head, pin, image, service, past, left>>

-----------------------------------------------------------------------------
(* The build from Git.                                                     *)

\* Mutant: the branch is asked every time.
LatestCommit == head

\* The commit that was resolved first, or else the branch.
FetchRef == IF pin[op] # 0 THEN pin[op] ELSE head

Fetch ==
  /\ At("fetch")
  /\ job' = [job EXCEPT !.commit = FetchRef, !.at = "resolve"] \/ Fails
  /\ UNCHANGED <<kind, status, head, pin, host, past, left>>

\* The commit is written down before it is built.
Resolve ==
  /\ At("resolve")
  /\ \/ pin' = [pin EXCEPT ![op] = job.commit] /\ Goto("build") /\ UNCHANGED forgot
     \/ pin' \in {pin, [pin EXCEPT ![op] = 0]} /\ Fails
        /\ forgot' = [forgot EXCEPT ![op] = @ \/ pin'[op] # pin[op]]
  /\ UNCHANGED <<kind, status, head, host, built, left>>

AfterBuild == IF kind[op] = "git deploy" THEN "up" ELSE "down"

Builds ==
  /\ image' = [by |-> op, commit |-> job.commit]
  /\ built' = [built EXCEPT ![op] = @ \cup {job.commit}]

\* Mutant: a build that failed does not end the operation.
BuildAnyway ==
  /\ At("build")
  /\ \/ Builds /\ job' = [job EXCEPT !.ready = TRUE, !.at = AfterBuild]
     \/ UNCHANGED <<image, built>> /\ Goto(AfterBuild)
  /\ UNCHANGED <<kind, status, head, pin, files, service, forgot, left>>

Build ==
  /\ At("build")
  /\ \/ Builds /\ job' = [job EXCEPT !.ready = TRUE, !.at = AfterBuild]
     \/ (Builds \/ UNCHANGED <<image, built>>) /\ Fails
  /\ UNCHANGED <<kind, status, head, pin, files, service, forgot, left>>

\* cleanupGitBuildWorkspace: it is kept for the next attempt unless this one succeeded.
Keeps == job.res = "error" /\ pin[op] # 0

\* The whole directory is removed; an error is logged only, and the file may be gone then.
CleanWorkspace ==
  /\ At("clean")
  /\ \/ /\ pin' = [pin EXCEPT ![op] = 0]
        /\ job' = [job EXCEPT !.at = IF Keeps THEN "rewrite" ELSE "report", !.commit = pin[op]]
        /\ forgot' = [forgot EXCEPT ![op] = @ \/ job.res = "ok"]
     \/ /\ pin' \in {pin, [pin EXCEPT ![op] = 0]}
        /\ Goto("report")
        /\ forgot' = [forgot EXCEPT ![op] = TRUE]
  /\ UNCHANGED <<kind, status, head, host, built, left>>

Rewrite ==
  /\ At("rewrite")
  /\ Goto("report")
  /\ \/ pin' = [pin EXCEPT ![op] = job.commit] /\ UNCHANGED forgot
     \/ UNCHANGED pin /\ forgot' = [forgot EXCEPT ![op] = TRUE]
  /\ UNCHANGED <<kind, status, head, host, built, left>>

-----------------------------------------------------------------------------
(* The containers.                                                         *)

Pull ==
  /\ At("pull")
  /\ job' = [job EXCEPT !.ready = TRUE, !.at = "down"] \/ Fails
  /\ UNCHANGED <<kind, status, head, pin, host, past, left>>

Down ==
  /\ At("down")
  /\ \/ service' = Nothing /\ (IF kind[op] \in {"down", "git down"} THEN Ends("ok") ELSE Goto("up"))
     \/ service' \in {service, Nothing} /\ Fails
  /\ UNCHANGED <<kind, status, head, pin, files, image, past, left>>

Started == [by |-> files.compose, commit |-> IF kind[op] \in Git THEN image.commit ELSE 0]

\* Mutant: the result of "up" is not looked at.
UpAnyway ==
  /\ At("up")
  /\ service' \in {service, Nothing, Started}
  /\ Ends("ok")
  /\ UNCHANGED <<kind, status, head, pin, files, image, past, left>>

Up ==
  /\ At("up")
  /\ \/ service' = Started /\ Ends("ok")
     \/ service' \in {service, Nothing, Started} /\ Fails
  /\ UNCHANGED <<kind, status, head, pin, files, image, past, left>>

\* Start, restart, stop or the logs of one service, or another command on the project.
ServiceAction ==
  /\ At("service")
  /\ service' \in {service, Nothing, Started}
  /\ Ends("ok") \/ Fails
  /\ UNCHANGED <<kind, status, head, pin, files, image, past, left>>

Next ==
  \/ \E o \in Ops : Claim(o) \/ Retry(o)
  \/ Push \/ Crash \/ Report
  \/ Validate \/ WriteCompose \/ WriteEnv
  \/ Fetch \/ Resolve \/ Build \/ CleanWorkspace \/ Rewrite
  \/ Pull \/ Down \/ Up \/ ServiceAction

Spec == Init /\ [][Next]_vars

-----------------------------------------------------------------------------
\* However often an operation is tried again, it builds the commit that it resolved first,
\* unless a fault took the file it was kept in, or it had succeeded
\* ("git build checkout cleaned; resolved commit retained").
OneCommit == \A o \in Ops : forgot[o] \/ \A c, d \in built[o] : c = d

\* A preflight never replaces the files of the live project ("a preflight cannot replace the
\* live project's Compose or .env files before approval").
LiveFilesKept ==
  \A f \in {files.compose, files.env} \cap Ops : kind[f] # "validate"

\* What runs is not touched unless the image that is to replace it is there.
RunsUntilReplaced ==
  At("report") /\ kind[op] \in Deploys \ {"deploy"} /\ ~job.ready => service = job.began

\* A deployment that is going to be reported as completed runs what it asked for.
CompletedMeansRunning ==
  At("report") /\ job.res = "ok" /\ kind[op] \in Deploys =>
    service = [by |-> op, commit |-> IF kind[op] \in Git THEN image.commit ELSE 0]

=============================================================================
