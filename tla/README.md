# soha-agent: specifications

soha-agent is a process that sits next to a Kubernetes cluster, a Docker host
or a build machine and carries out what a control plane asks for: it claims
tasks and runs them as shell commands, container operations, builds, Helm
releases or calls to an agent runtime, serves a read and mutation API over the
cluster, and, on a personal machine, manages leased environments.

This directory holds TLA+ modules of the agent, TLC configurations that check
them on small instances, and TLAPS proofs of the main invariants of its core
for every instance. Paths below are relative to the repository (`src/`);
`runner.go` without a directory is `src/internal/agent/runner/runner.go`.
`PROJECT.json` maps each definition to the lines it models.

    tlc -workers 2 -config Tasks.cfg MCTasks
    tlapm ExecutionTaskProofs.tla

1. [The system](#the-system)
2. [How the modules fit together](#how-the-modules-fit-together)
3. [What the modules say](#what-the-modules-say)
4. [Runs, bounds and what they show](#runs-bounds-and-what-they-show)
5. [Fairness](#fairness)
6. [Proofs](#proofs)
7. [Where the code does not do what it says](#where-the-code-does-not-do-what-it-says)
8. [What is not modelled](#what-is-not-modelled)
9. [Plan](#plan)

## The system

Components, with the state each keeps, what it does, what is hard about it, and
what makes it correct.

| component | state | operations | hard parts | correct when |
|---|---|---|---|---|
| **polling loops and slots** (`runner.go` `loop`, `agentRuntimeLoop`, `dockerLoop`) | channel `executionSlots`, shared by the first two loops | tick, claim, hand over to a goroutine, release | claim answer lost; shutdown during a claim; two loops, one channel | a slot in use belongs to one claim or one piece of work, and all come back |
| **execution tasks** (`execute`, `executeTaskCommand`, monitors, `CancelActiveTask`) | per claim: task context, command, `stopReason` channel; shared: map `active` by task id | redeem secrets, prepare workspace, run commands, heartbeat, watch status, cancel, report | two monitors that nobody waits for race with the end of the command; cancellations from the API; callbacks that are lost and sent again; two attempts under one id | one verdict; a stop is reported as what it was; nothing starts after a stop; each claim ends |
| **execution workspaces** (`prepareWorkspace`, `ensureCheckout`) | a directory that tasks share and nobody removes | clone, fetch, check out, list artifacts, read the digest | leftovers of earlier tasks, a clone that was killed, a branch that moved | a task runs on what it fetched and reports its own digest |
| **Buildpacks runner** (`buildpacks*.go`) | `buildpacksBlocked`, the daemon's containers and cache, the workspace | check the daemon, trim, check out with submodules, build, verify, clean up, report | cleanup fails half way; crash forgets the block; deferred order; a tag that moves | the forced removal only meets the build's own containers; leftovers stop the runner; what is published is what was asked for |
| **Docker operations, agent runs, Hermes chat** (`executeDockerOperation`, `executeAgentRun`, `hermes_api.go`) | per piece of work: context, `stopReason`, the remote run | announce, execute, heartbeat, report, acknowledge a cancellation | cancellation between the last heartbeat and the report; lost answers; a remote run that must be asked to stop | an acknowledgement means the work stopped; a cancellation is answered |
| **Docker commands of an operation** (`docker_git.go`, `runner.go:1313`) | compose and environment files, the pinned commit, images, containers | validate, deploy, redeploy, down, service actions, Git build | every action of a Git project builds first; a retry after a crash | one commit per operation; what runs is kept until it can be replaced |
| **agent provider registry** (`provider_registry*.go`, `provider_readiness.go`) | current and previous snapshot, status per provider, run counts | fetch, probe, apply, roll back, acquire, release, acknowledge | snapshot replaced under runs; probes outside the lock; lost acknowledgements | counts exact; a run keeps its version; only proven revisions become active |
| **Helm, manifest, SSH tasks** (`helm.go`, `manifest.go`, `ssh_command.go`) | per task: context, stop and effect certainty | announce, apply, heartbeat, report or keep silent | lost start answer; stop that is not confirmed; cancel by one lost heartbeat | nothing is reported as stopped that may run; an effect is known or said to be unknown |
| **outpost** (`outpost.go`) | accepted configuration, its expiry, refusal flag | claim, apply, heartbeat, allow or refuse access | stale or rejected configurations; expiry | access only under an accepted, unexpired configuration |
| **agent process** (`cmd/agent`, `bootstrap`, `api/server.go`) | loops, HTTP server, collector | start, serve, shut down | the loops start before the rest is built; ten seconds to shut down | a program that leaves without an error has answered everyone |
| **session tunnel** (`session/session.go`) | connection, streams, a semaphore | connect, back off, serve streams | limit over connections; reconnect | the limit is kept and comes back |
| **SSH sessions, pod terminals and logs, port forwards, Docker runtime** (`api/routes_ssh.go`, `api/pod_terminal.go`, `kubernetes/pod_logs_*.go`, `kubernetes/port_forward.go`, `api/docker_runtime.go`) | registries; goroutines, pipes and commands per stream | stage, claim, stream, close | end against last output; a client that leaves; a goroutine nobody waits for | nothing leaks; the end is told after the output; streams end |
| **Kubernetes mutations, documents, Helm API** (`kubernetes/client.go`, `resource_creation.go`, `manifest.go`, `helm_mutation.go`) | none; the cluster's | read, check the owner, write; dry-run and create; install, upgrade, roll back | other writers in between; partial batches; lost answers | what others own or wrote is not undone; reports are true |
| **resource events, list cache, log queries** (`kubernetes/resource_events.go`, `list_cache.go`, `pod_logs_aggregate.go`) | bounded subscriptions; two flags per informer | publish, reset, subscribe; serve from cache; merge logs | several publishers, one full channel; flags that change; arrival order | a list is not older than a failure it knows of; a loss is announced; a page is complete or says it is not |
| **personal guest client** (`environment/personalguest/{client,renewal,state}.go`) | key, certificate, sequence, renewal in progress, all on disk | enroll, heartbeat, renew, confirm | crash between save and send; lost commit answer; expiry | a sequence number is never used twice; a guest does not lose its identity |
| **personal guest runtime, browser, data** (`personalguest/runtime*.go`, `data*.go`) | operations in flight, marks on disk, one page, one disk and its receipt | admit, dispatch, release; act, pause, fetch; format, mount, limit | release against admission; late effects of input; a crash during mkfs | an operation runs once and alone; the disk is formatted once |
| **Docker environments** (`environment/docker_*.go`) | leases in container names and labels, command fences, a volume | acquire, execute, release, delete, export, recover, collect | lost answer of `docker run`; fences of a crashed call; several agents | one writer per lease; a deletion is final; expired leases go |
| **environment runtime manager** (`environment/runtime.go`) | leases and active environments, a lock each | acquire, release, collect | the backend works under no lock; only tests construct it | somebody releases every environment |
| **Kubernetes views; most HTTP routes; configuration; domain types** | none of their own, or read once | translate | few | - |

How they interact: the loops hand claims to goroutines through the slot channel.
An execution task, a Docker operation and an agent run each share state with
their own heartbeat through a channel of capacity one and a cancelled context,
with the HTTP API through the map of active tasks, and with the control plane
through callbacks whose answers carry the control plane's status. Agent runs
hold a provider of the registry while they execute. A Buildpacks build blocks
the loop that claimed it. Execution tasks meet in their workspace, Docker
operations in their project's directory, environments in the Docker daemon, and
requests to the cluster in its objects. The session tunnel proxies to the HTTP
API, whose streams end with it. Shutdown is the end of one context that all share.
`PROJECT.json` lists under "hazards" what a test would hardly reach, by line.

## How the modules fit together

| run module | composes | part of the agent |
|---|---|---|
| `MCTasks` | `ExecutionTask` (which refines `TaskLifecycle`), `TaskWorkspaces`, `Buildpacks`, `BuildSources`, `SupervisedTask` | tasks of the task loop |
| `MCRemoteWork` | `RemoteWork`, `ComposeOperations`, `Outpost`, `GuestRuntime` | Docker operations, agent runs, chats, the outpost |
| `MCProviderRegistry` | `ProviderRegistry`, `EnvironmentLeases` | what is counted while others hold it |
| `MCAgent` | `RunnerSlots`, `SshSessions`, `SshStream`, `PodStreams`, `PortForwards`, `SessionTunnel`, `DockerRuntime`, `AgentProcess` | what the agent keeps open |
| `MCCluster` | `ClusterWrites`, `DocumentTasks`, `HelmReleases`, `ClusterReads`, `PodLogs` | requests to the cluster |
| `MCDockerEnvironment` | `DockerEnvironment` | environments in a Docker daemon |
| `MCGuest` | `GuestClient`, `GuestRuntime`, `GuestData`, `GuestBrowser` | a personal guest |
| `MCBuildpacks`, `MCWorkspaces`; `GuestClient` itself | one module each | findings |

The modules of one run share no state in the code, or only what one of them
takes from the other in one step (`ExecutionTask`'s `PrepareWorkspace` is all of
`TaskWorkspaces`'s preparation, `Buildpacks`'s steps "check", "checkout" and "build"
are the steps of `BuildSources`, `RemoteWork`'s execution of an operation is
`ComposeOperations`). A run module declares as constants what its parts take from the environment, has their values in its
.cfg, and has a variable `part`, chosen in its `Init`:
a behaviour exercises that part and the others stand still. This checks each
module as it would be checked alone, in one run; the properties of a run are
conjunctions of those that the modules state, and each module's comments say what
they mean. Interactions that do change what can happen are inside one module:
monitors, API and control plane in `ExecutionTask`, heartbeats in `RemoteWork` and
`SupervisedTask`, runs and rollout in `ProviderRegistry`, both loops in
`RunnerSlots`, agents and collector in `DockerEnvironment`, all writers of an object in
`ClusterWrites`.

`TaskLifecycle` is abstract: an attempt is offered, its process runs or does not, it
is reported at most once when nothing of it will run any more, and its status becomes
that report unless the control plane ended it. `ExecutionTask` implements it
(`KeepsLifecycle`; `process` is "a command is running", `report` is the verdict once
it is decided): TLC checks it and `ExecutionTaskProofs` proves it.

## What the modules say

A module's comment says what is outside it. In all of them a call to something outside
has the outcomes that the code can meet: it fails, it has its effect and its answer is lost,
it has its effect and is answered. Mutants, which a module defines before what they replace,
are not part of its specification.

### `ExecutionTask`

One claim is a process: `pc[c]` is the place of the goroutine of `execute`
(1 location per call that can block or be observed), `monitor[c]` the places of
`streamHeartbeats` and `watchRunnerStatus`, `stopReason[c]` the channel of
capacity one, `ctx[c]` the task context and `cut[c]` the command context below
it. `owner` and `stopSource` are the map `active`, which is keyed by task id:
two claims of a task share an entry. `cp`, `attempt` and `heard` are the control
plane: the status of each claim, the attempt whose callback token is valid, and
what it received.

- `Claim`, `Redeem`, `PrepareWorkspace`, `WorkspaceDone`, `CallbackStops` /
  `CallbackGoesOn`, `StartCommand`, `CommandReturns`, `StopWithoutReport`,
  `Decide` and the actions of the final callback are the main goroutine in the
  order of the code. `Return` is every way out, with the deferred unregister.
- The monitors take three steps after an answer that asks to stop, in the code's
  order: mark the active entry (the watcher only), offer the reason to the
  channel, cancel the command. They outlive the command: an answer that has
  arrived is still written into the entry (`lateWatch`).
- `CancelActiveTask` marks the entry and cancels the task in one step, as the
  code does under its lock.
- A running callback is a read of the control plane's status and its handling in
  one step: it changes nothing there, and an answer that grows old on its way
  behaves like an earlier answer.
- The final callback is tried up to `MaxAttempts` times and may be received
  without its answer arriving.

Not in the module: payloads, logs and environment variables; the directory of
the workspace (`TaskWorkspaces`); the local variables after a return, which are reset so that states that differ in nothing observable meet.

### `TaskWorkspaces`

`repo` is the clone in the workspace (origin, tracking and local branches, known commits),
`head` what is checked out, `file` whose digest `.soha-image-digest` holds. `Fetches` is
`git fetch --all --prune` from the origin that the clone has, whatever url the task
names; `Tip` is `git checkout -B`, with the fallback to a local branch. `List` is
`collectWorkspaceArtifacts`, before the commands, and `Digest` reads the file after
them if it was in the list. Tasks that name no path share a directory, of whatever
application (see the observations below). What a commit contains is its number.

### `Buildpacks`

One loop with one slot, one build at a time, a daemon that belongs to the
runner. `pc[t]` goes through `executeBuildpacksTask`, with the deferred calls in
the order in which Go runs them: containers, cache, workspace. `run[t]` is the
context that the monitors cancel, `ctx[t]` its parent. Cleanup steps run
under contexts that no cancellation reaches (`WithoutCancel` and 30 seconds) and
may fail after part of their effect. `Crash` forgets `blocked` and keeps the
containers; `Recover` is the operator.

Assumed: no process of a build survives the crash of the runner (it has a PID
namespace of its own, or the operator sees to it, `README.md:154`), and a killed
command leaves no request behind that the daemon carries out after the second
listing of `cleanupBuildpacksContainers`.

### `BuildSources`

One build from the inside. `step` is the place in `runBuildpacks`, `disk` and `from` are what
stands in the workspace and which source it came from, `environment` and `given` are the
secrets that the build and its phases have, `exported`, `tag` and `result` the
published image. Repositories are a function from commits to entries (`Tree`), which may be
files, directories, links or gitlinks. `SubmodulesMatch` is `validateBuildpacksSubmodules` with
`matchBuildpacksSubmodules`; `Evictions` is the order in which cache volumes go. Any command may
fail (`Fails`), others may move the tag (`TagMoves`).

### `SupervisedTask`

`executeHelmTask`, `executeManifestTask` and `executeSSHCommand` by their kind. `worker` are the
goroutines that ask the control plane, `run` the context that they cancel, `work` the effect
outside; an executor may give up waiting for work that was told to stop ("unstopped"), which is
why Helm then says nothing and a manifest task says that it failed. `stopped` is what the executor
returns of that (`result.Stopped`), and decides what is reported, whatever became of the work since. `effect` is what an SSH
command reports of itself; its `stopped` is set whether or not the signal reached the process.

### `RunnerSlots`

Above the tasks: the loops, the slot channel, claims that miss or are lost, and
the shutdown. Work in hand is one step here. Docker operations have a loop of
their own without slots, and are not in the module for that reason.

### `ProviderRegistry`

`current` and `previous` are revisions; a revision stands for its content
(`Lists`, `Drains`), as the code compares revision and digest. `active` and
`health` are the statuses. The goroutine of the loop is `sync`: fetch, one probe
of a provider at a time, `Apply` under the lock, then the probes of
`refreshProviderHealth` with `SetHealth` apart from the probe, and the
acknowledgement. Runs look a provider up (`AskCLI`, `AskChat`), acquire it and
release it in separate steps. Providers are probed in any order, where the code
sorts them. `Rollback` and `ApplyAgentProviderRegistrySnapshot` are exported and
only tests call them: `MaxRollbacks = 0` is the agent as it is built,
`MaxRollbacks > 0` the interface the registry offers. A fetch that fails is a
stuttering step.

### `EnvironmentLeases`

`RuntimeManager` with its `Manager`: `lease` and `active` are the two tables, each changed
under its lock in one step; a call's steps between them are those of the backend. An id may
come back, so that a release for one acquisition meets the entry of another: the code
drops it (`crossed` counts these apart).

### `RemoteWork`

One piece of work of one of three kinds. `pc` is the goroutine of
`executeDockerOperation` or `executeAgentRun`; `hb` is the heartbeat, whose
request and answer are one read of `cp` and whose reaction (offer the reason,
cancel the context) is two steps; `ext` is a chat's run at the remote agent. `tries`
is `withCallbackRetry`; an attempt may be received without its answer arriving.
The control plane's side is modelled from what the runner sends and expects: a
Docker operation waits in "canceling" for its acknowledgement, an agent run is
canceled at once and marked as pending. A submission whose answer is lost leaves
a remote run that nobody can stop ("orphan"), and a request to stop may fail
unnoticed ("stopLost"): both are the code's behaviour and no property hides them.

### `ComposeOperations`

The files, the pinned commit, the image and the service of one project, under operations that
`executeDockerOperation` runs one by one: who wrote a file stands for its content. A
retry keeps `resolved-commit` and removes what a failed build left. A command that was cut off
may have had its effect.

### `Outpost`

`config` is the configuration in force with its lease, `desired` what was last claimed. The
forward-auth checks are routed in one step and answered in another. The clock is the
number of leases that have expired.

### `GuestClient`

The client of a personal guest is sequential; the hard part is around it. `pc` is the
place in `Run`, `enroll`, `heartbeat` and `renew`; `disk` is the state file, and
`server` what the server knows of the guest. An answer and the save that follows it
are one step whose alternatives are success, and an end of the process before or after
the rename (`Save`): that is every crash between the two that can be told apart, since
the client holds nothing that is not in the file but its HTTP client (`via`) and the
count of failures. A request without an answer was received, was not, or arrives later
(`CallFails`, `late`), also in a later life of the process. `CommitBefore` passes by
the guest's clock (`clientOver`) and by the server's (`stage`) separately. Certificates
and bindings carry the number of the renewal that they answer.

The server is modelled from the fixtures of `client_test.go` and `renewal_test.go`: it
takes requests from the active certificate and commits from the new one, issues one
result for a request, and answers 410 when its time is over. Two things are assumed
that the fixtures do not need: it remembers the newest request, so that an older one
that arrives late is not issued again (without this, `HoldsAuthority` fails), and it is
honest, so that the checks of binding, workspace and trust in `acceptBinding` and
`receiveRenewal` never refuse. A read that arrives late changes nothing and is left out.
`renew` without a binding cannot be reached: a request is only prepared from a
heartbeat, and `enroll` renews only what is in the file.

`faulty` becomes FALSE once, and is not read from the code: from then on there are
no lost answers, failed saves, crashes or expiries. It states the premise of
`Recovers`.

### `GuestRuntime`, `GuestBrowser`, `GuestData`

`GuestRuntime` has one process per connection to the broker. `marks` are the dispatched
operations, which are files and outlive a crash; `Active` is the map of operations, guarded by
the lock; a release cancels the operations of its lease, waits, and takes the lock. The
stop of a container is a command with a timeout of its own whose result nobody reads: a
failed one makes an `orphan`. `GuestBrowser` is the page behind its pipe: `op` is the
operation in progress with its number, `ended` are the operations whose context is over, `sent` the inputs that are in the
browser, each with the operation that sent it and the control, generation and owner that it was allowed by, so that an
effect after a handover can be told from one before it. `fetch` are the paused requests: `Pause` receives one with the
operation that is registered then, and `Fetch` starts later in a goroutine of its own, for that operation, which may have been
answered meanwhile. `GuestData` is the disk: `disk`, `mounted`, `limited`,
`workspace` are the kernel's, `receipt` the file; `stray` is an `mkfs` that outlived its
command. A crash may come between any two steps, a boot forgets mounts and limits.

### `DockerEnvironment`

`box` and `fence` are the containers of a lease and of its command, `vol` the volume with its lock
and tombstone, `procs` the command processes in a container. Each agent has one request at a time
(`wk`), and the collector is one more worker. A command of the Docker CLI is a step that may lose
its answer; a crash leaves its command running (`Lost`). Leaving out an agent's mutex adds
behaviours.

### `ClusterWrites`, `DocumentTasks`, `HelmReleases`

`ClusterWrites` is one object with an identity, a version, an owner and who wrote each
of its fields, and requests of each kind that the client offers: what they read, which check they make
and whether the write carries what was read. Others write, take over, delete and recreate it. A Pod is deleted whoever
owns it, also when the caller names the identity it has seen (`Pods`). `UpdateNode` writes the labels and
the taints of a node that was read; the cordon of a drain is a `Switch`, and its evictions are not modelled.
`DocumentTasks` is a batch of documents: dry run of all, then the creations, or a manifest
task's preflight, apply and observe, or those of a GitOps application. A document names its object under a version of the API:
the request takes two documents for duplicates if name and version are the same, the cluster if the name is.
`HelmReleases` has one release with its revisions. How the library runs an install or an upgrade (`RunWithContext`), and the
guards `RequireUnmanaged` and `GuardValuesUpgradeRevision`, are outside `src/` and taken from their use: an upgrade compares the
release that it is given with the stored one, a rollback and a deletion do not, and an install that
went well is answered though its revision is gone.

### `ClusterReads`, `PodLogs`

`ClusterReads` has a kind's true version, the informer's store, its two flags, and the bounded
buffer of a subscriber with the several goroutines that publish to it. `PodLogs` is
`QueryPodLogs`: sources from pods and containers, a few workers, a merge by time with a limit of
entries and of bytes. Entries are <<time, pod, container>>. A source is read from a time on, or its last lines
(`query.Tail`, or 200 if the query says neither: `DefaultTail`), of which those that match are kept.

### `SshSessions`, `SshStream`, `PodStreams`, `PortForwards`, `SessionTunnel`, `DockerRuntime`, `AgentProcess`

`SshSessions` is the registry, `SshStream` the four goroutines of one stream between websocket
and shell. `PodStreams` has the log stream, whose sources share a bounded channel, and the
terminal, whose input goes through a pipe without a buffer. `PortForwards` is a forward from
its request to its end, with tunnels through it. `SessionTunnel` counts streams over all
connections. `DockerRuntime` is one request with its directory, command and two readers.
`AgentProcess` is `main.run` of the agent with the server, the collector and the shutdown,
and the two loops of the personal guest.

## Runs, bounds and what they show

| run | distinct states | question |
|---|---|---|
| `tasks` | 228,106 | does a task tell one true story, implement the lifecycle, make what was asked for, and end? |
| `remote_work` | 215,890 | is the control plane answered truly, and is what runs on the host kept? |
| `provider_registry` | 2,283,533 | are counts, versions and environments kept under those who hold them? |
| `agent` | 44,040 | does what the agent opens end, and is its end told after its output? |
| `cluster` | 2,200,021 | do requests respect the other writers of a cluster, and are answers true? |
| `docker_environment` | 381,346 | do two agents over one daemon keep an owner's environment and data? |
| `guest` | 1,467,182 | does a personal guest keep its identity, its data and one operation at a time? |
| `buildpacks_canceled` | violated | does "canceled" mean that the cleanup was confirmed? |
| `remote_work_chat` | violated | is the cancellation of a chat always answered? |
| `guest_commit` | violated | does a renewal complete whose commit was received and not answered? |
| `environment_never_started` | violated | is a container that was created and never started collected? |
| `digest_not_reported` | violated | is the digest reported that a task has written? |

Why these bounds:

- *`tasks`.* Two commands are the least for which a stop must keep the next from starting and for
  which a late watcher of the first meets the second; two attempts of a callback are the least for
  which one is received twice. Two tasks and one push let the second find what the first left, and
  the branch moved or gone. Two builds are the least for which one meets what another left; one
  crash forgets the block once. The sources are an application with a submodule that is at one
  commit a directory and at another a link, listed in either order and at paths below each other.
- *`remote_work`.* One piece of work of each kind. Two operations of a project in five pairs in
  which one leaves something to the other, two commits at the branch, one retry and one crash. Three
  leases with two bad answers let one expire, one be rejected and one follow. One operation of a
  guest whose grant is withdrawn.
- *`provider_registry`.* Three revisions let a provider stay, change its version and leave; two runs
  let a count differ from a flag; two rollbacks go there and back. Two callers and three
  acquisitions under two ids let an id come back while the collector and a release are at it.
- *`agent`.* Two slots and two loops let each loop fill the channel alone or share it. Three streams
  are one more than the limit; two connections let a stream outlive its own. Buffers of one and two
  chunks fill up.
- *`cluster`.* Two callers and one more writer; two identities let an object be replaced. Three
  documents let one fail between two; three revisions of a release. A buffer of two events loses
  one; two publishers meet. Two pods with three times and pages of three entries and five bytes
  meet every limit; a tail of two lines leaves one out; two workers answer in any order. Two versions of the API
let two documents be one object.
- *`docker_environment`.* Two agents, two leases that write for one owner, one crash: the second
  lease meets what the first left.
- *`guest`.* Two renewals are the least for which an old request meets a new one; three heartbeats let a
  number be refused, saved again and used up; one late request at a time is enough for each
  kind to arrive after what came later. Two connections with an operation and a release of its
  lease, of another, a probe or a second command; three launches and one crash. Three operations on
  the page are the least for which it is acquired, acted on and handed on, so that an input may be late. Four faults of the disk's commands.

The actions that only a larger constant would reach are none: the runs fire every action and
alternative of every next-state relation.

What each property is for (the conjuncts of a composed one stand in the modules):

- `OneVerdict` - resent callbacks never tell two stories. `CanceledOnlyIfAsked` (in both modules that
  have it) - a deadline or a failure is never reported as a cancellation. `CancelIsReported` - an
  accepted local cancellation is the verdict. `NothingStartsAfterStop` - the reason is in the channel
  before its effect is seen, and a stop is final. `KeepsLifecycle` - the refinement.
- `BuildsContained`, `NoClaimWhileBlocked` - a build removes only its own containers, is over only when it
  has none, and what it leaves behind, also over a crash, stops the runner; it builds the commits
  that are bound, gives no secret to the code that it builds, and reports its own image.
- `VerdictIsTrue` - no stop is reported that is not confirmed, no effect is denied; a task ran on what it
  fetched, and a digest that it reports is its own. `WorkEnds` - claims, builds and unwanted work end.
- `AckMeansStopped`, `ControlPlaneAnswered` - an acknowledgement is neither early nor forgotten, a
  rejected configuration is replaced, a withdrawn grant ends its operation. `ProjectKept` - one commit
  per operation, no preflight in the live files, what runs stays until it can be replaced.
  `OutpostGuarded` - the configuration only goes forward, in what is reported and in what is routed.
- `CountsExact`, `RunningVersionKept`, `LastKnownGood` - the drain protocol. `LeasesAccounted` -
  somebody releases every environment.
- `SlotsAccounted`, `Drains`, `NothingLeaks`, `OutputComplete`, `StreamsEnd` - what is open is accounted for,
  complete when its end is told, and ends.
- `OwnedUntouched`, `NoLostUpdate`, `ActsOnWhatWasSeen` - a write after a read, among others.
  `DocumentsReported` - a batch says what it did, and stops halfway only if it was disturbed or names one object twice under
  two versions; a manifest task that ends well leaves no document out. `ReleasesGuarded` - an install is answered with what is
  deployed, or its own revision was taken from it; values change in the revision that was read; a delivery's release is rolled back or
  deleted only if it became one after the check. `ReadsAreTrue` - a list is no older than a failure it knows of, a loss is
  announced, and a page of logs that is not marked has every line that matches of the last lines of each source.
- `DataSafe`, `NeverReplayed`, `StopsItsOwn`, `Collected` - a deletion is final, a command whose outcome is
  unknown is not run again, a forced removal was made for that lease, what is overdue is collected.
- `FreshSequence` - a number is saved before it is sent and never sent twice, also after the state file is lost.
  `SavedStateOpens` - `openState` accepts what any crash leaves. `HoldsAuthority` - the guest
  never drops the certificate that the server has made active, or may still make active. `Recovers` - when
  the faults end the guest sends its heartbeats up to the last number, unless its identity ended, its file
  was lost, or its commit was not answered in time (finding 3). `OperationsContained`,
  `DataKept`, `PageHeld` - an operation runs once and alone, the disk is formatted once, and what an
  input left in the browser is gone when its operation is answered and before the page has another control.

Some properties except what the code leaves open, by a history variable that counts it apart: tasks that
were in one workspace at the same time (`mixed`), overlapping publications (`overlapped`), environments whose
preparation failed or whose id a release for another one met (`unknown`, `crossed`), containers of a guest whose stop
failed (`orphans`), a pinned commit that a fault removed (`forgot`). Input that is stuck in a
pipe is named `InputStuck`. Attempts that share an entry (`SoleAttempt`) and a Helm heartbeat that was `missed` are set apart in the
same way. The observations below say what happens then, and where an exception is a hazard as a whole, the hazard has a note in
`PROJECT.json` and no property.

Every property has a mutant in `PROJECT.json`, and a composed one has mutants of several of its modules: a change of a
mapped definition that a plausible bug would make, under which the run finds the property violated.

Deadlock is not checked: each part ends when the work that it offers is done, after a shutdown or at a bound.

## Fairness

- *Main goroutines* (`MainStep`, `TaskStep`, `RunnerStep`, `SyncStep`, `ClientStep`, the goroutines of streams; weak):
  HTTP requests have a timeout of 15 seconds, git and cleanup commands have theirs.
- *A command returns* only once its context is done (weak): a shell command may run for
  ever, and the kill of its process group (`command_process_unix.go`) ends `cmd.Run`. A descendant
  that leaves the group and keeps the output pipe open would defeat this; there is
  no `WaitDelay`, and on systems other than Unix no group is killed.
- *Deadline* (weak): `executionTaskContext` always sets one, 30 minutes by default.
  Docker operations have 1800 seconds and runs 600.
- *A select takes one of its ready cases at random* (strong, `LoopsStop`), and does not take the tick for ever.
- *Answers that are asked for over and over arrive* (strong): the acknowledgement of a rollout
  (only needed in `ProviderRegistry`'s own specification), the status that a worker of a supervised task asks for, the good
  answer to the outpost's claim, the commands of the environment collector.
- *A connection that is gone cannot be read* (weak): a reader returns after its client left. *A forwarder heeds
  its stop channel* (weak), as client-go's does.
- *A process that ended is started again* by what supervises the guest, and *the server's time passes* (weak). Of the guest's
  clock nothing is assumed.
- Nothing is assumed of the control plane otherwise, of the operator, of cancellations, of what a
  command or a client does, and nothing of the heartbeats of an execution task: their next tick may never come.

## Proofs

TLAPS checks, for every value of the constants that the modules' assumptions
allow:

| module | theorems | inductive invariant |
|---|---|---|
| `ExecutionTaskProofs` | `TypeCorrect`, `OneVerdictHolds`, `StopIsNotAFailureHolds`, `CanceledOnlyIfAskedHolds`, `ActiveViewExactHolds`, `NothingStartsAfterStopHolds` | types, where a verdict exists, where a cut or a stop reason can exist, who owns an entry |
| | `CancelIsReportedHolds` | the above with `WatchIsTrue`, `CancelKept` |
| | `LifecycleKept` | the above (`MappingInv`: what the mapping needs) |
| | `BuildsContainedHolds`, `NoClaimWhileBlockedHolds` | `BuildInv`: `BuildTypes`, `OneAtATime`, `GateRead`, `DaemonKnown`, `WorkspaceKnown`, `LeftoversAccounted`; of the sources `SourceInv`, `ImageInv`, `CacheInv` |
| | `VerdictIsTrueHolds` | `WorkInv`: `WorkTypes`, `OneClones`, `AloneAtWork`, `OnTrack`; `SupInv`: `SupTypes`, `AskersAtWork`, `CancelsExcused`, `ClusterWork`, `RemoteProcess` |
| `AgentProofs` | `TypeCorrect`, `SlotsAccountedHolds`, `WithinCapacityHolds` | `TypeOK`, `SlotsAccounted` |
| | `NothingLeaksHolds` | `LeakInv`: `SshInv`, `ForwardInv`, `TunnelInv`, `TidyInv`, `WithinVolumes`, `ProgramInv` |
| | `OutputCompleteHolds` | `OutputInv`: `ShellInv`, `LogInv`, `AnswerInv` |
| `ProviderRegistryProofs` | `TypeCorrect`, `CountsExactHolds`, `RunningVersionKeptHolds`, `LastKnownGoodHolds`, `ReportsNeverGoBackHolds` | `TypeOK`, `CountsExact`, `RunningVersionKept`, `LastKnownGood`, `AckIsProven` |
| | `LeasesAccountedHolds` | `LeasesInv`: `LeaseTypes`, `AcquirerAlone`, `ReleasedIsGone`, `EntryHasLease`, `EntryOrStore` |
| `RemoteWorkProofs` | `TypeCorrect`, `AckMeansStoppedHolds`, `CanceledOnlyIfAskedHolds` | `TypeOK`, `RemoteStopped`, `AckIsLast`, `CancelWasAsked` |
| | `ProjectKeptHolds` | `ProjectInv`: `ProjectTypes`, `OnItsWay`, `BuildsKept`, `FilesWritten`, `Replaced`, `RunsAsAsked` |
| | `OutpostGuardedHolds` | `OutpostInv`, `NewestLease` |
| `GuestClientProofs` | `TypeCorrect`, `FreshSequenceHolds`, `SavedStateOpensHolds`, `HoldsAuthorityHolds` | `Good` (what a state file needs for a client to start with it), `Places` (what the running client knows) |
| | `OperationsContainedHolds` | `RuntimeInv`: `BegunIsMarked`, `RunsAlone`, `Supervised`, `ReleasedStays` |
| | `DataKeptHolds`, `PageHeldHolds` | `DataInv`: `Locked`, `ReceiptAhead`, `DataWhole`; `PageInv`: `PageTypes`, `SentWaits`, `ActsInControl`, `FetchesFit` |
| `ClusterWritesProofs` | `TypeCorrect`, `OwnedUntouchedHolds`, `NoLostUpdateHolds`, `ActsOnWhatWasSeenHolds` | types, `Identities`, `Places`, `Copies` (what a request has read) |
| | `ReleasesGuardedHolds`, `DocumentsReportedHolds` | `HelmInv`: `HelmTypes`, `HelmReads`, `HelmOwns`; `DocInv`: `DocPhases`, `DocHalfway`, `DocFree`, `DocTold`, `DocReports` |
| | `ReadsAreTrueHolds` | `ListInv`: `ReadBounds`, `ReadFloors`; `StreamInv`; `LogsInv`: `LogTypes`, `LogEmpty`, `LogMerged`, `LogCuts`, `LogQueue`, `LogCount`, `LogCovered`, `LogSaid` |
| `DockerEnvironmentProofs` | `TypeCorrect`, `DataSafeHolds`, `NeverReplayedHolds`, `StopsItsOwnHolds` | `World`: `TypeOK`, `UnknownFenced`, `FencesOfContainers`, `ProcessesSupervised`, `DataOrTombstone`, `TombstoneStays`, `DataGuarded`; `RequestFits` of each worker |
| `FiniteOrders` | lemmas only | - |

Every invariant and every action property of the passing runs is stated by a theorem, and so is
the refinement. A property of a run module is proved of that module's `Spec`, whose parts are
proved one by one: a part's steps are the steps of its module, or leave the module's variables alone.

The arguments, and why the invariants have to be stronger than what they show:

- *ExecutionTask.* Types alone are not inductive: the final callback adds the verdict to
  what the control plane heard, so that there must be a verdict when it is sent
  (`VerdictWhenConcluded`). A cut command is never a failure because a cut
  implies that the reason is in the channel, or was drained, or the claim is past
  the decision that reads it; each monitor's place says how far it got. The
  map is exact because an entry has an owner that is registered, and `Return`
  deletes whatever is there.
- *RunnerSlots* (in `AgentProofs`). `SlotsAccounted` is inductive with the types. Cardinalities of the two sets
  change by one in each action. `WithinCapacity` follows.
- *ProviderRegistry.* A run that holds a provider is counted, a counted provider
  blocks a change of its version, so the version stays; and while it
  stays listed, its count is carried over. Each needs the other two.
  `LastKnownGood` needs that the acknowledgement on its way carries a proven
  revision (`AckIsProven`). `ReportsNeverGoBack` assumes `MaxRollbacks = 0`
  in the theorem: with rollbacks an older revision is reported, as it should be.
- *RemoteWork.* An acknowledgement is only sent from two places, both after the
  executor returned; the executor does not return while a known remote run has
  not been asked to stop (`RemoteStopped`).
- *GuestClient.* `HoldsAuthority` is lost when a commit that arrives late makes a
  certificate active that the guest has dropped. So every commit on its way that the
  server would still grant is about the result in the file (`Candidate`), and a
  result is dropped only when the server's newest request is another one or past its time (`IsPast`);
  this needs that certificates become active in the order of their requests (`InOrder`).
  `FreshSequence` must survive the loss of the file: a guest that may enroll again
  under its certificate has sent nothing but enrollments (`Enrolling`, `Unused`). All
  of it is kept by any request that arrives at any time (`Sendable`, `Received`).
- *ExecutionTask, `CancelIsReported`.* From the moment that `CancelActiveTask` accepts it, a cancellation is on its
  way at every place of the claim: in the context and in the entry, then in the verdict, unless the
  control plane ended the claim (`CancelKept`). A monitor's answer that comes late could overwrite the entry, but
  while the task has one attempt it says "stop" only if the control plane has ended it (`WatchIsTrue`).
- *TaskLifecycle.* Under the invariant of `ExecutionTask` each of its steps is a step of the
  lifecycle or leaves it as it is: a command starts only while no verdict is decided, the
  decision comes when no command runs, and only a callback with a verdict changes a status to it.
- *ClusterWrites.* What a request has read stands for the object: an identity is given
  out once and each write makes another version, so as long as both are the same the object is
  what was read (`Copies`), and the checks that the request made of its copy hold of
  the object that the server lets it write (`FencedIsRead`). All three properties follow from
  what any write does (`EveryWrite`).
- *HelmReleases, DocumentTasks.* While an install waits for the revision that it has made, that revision, if it is still there, is of its
  chart (`HelmOwns`); what an upgrade, a rollback or a deletion has read belongs to no delivery, and an upgrade's expected
  revision, if it has one, is the one it read (`HelmReads`). While documents are created the ones before the next have been
  and the others have not (`DocHalfway`); a document that passed its dry run has a free
  name until it is created, unless somebody else disturbed the request or another of its documents has that name
  under another version (`DocFree`).
- *ClusterReads.* What a list is going to read is recent enough before it reads (`ReadFloors`); after a lost event
  some publisher has still to announce the loss (`StreamInv`).
- *PodLogs.* At any time some finite set of entries has been merged, and all that was read is this
  set and what waits to be merged (`LogMerged`). While the set fits into the byte budget, the page is its
  first entries in their order, and the first of more are the first of these and of what joins them
  (`FirstsJoined` in `FiniteOrders`). A source that is neither waiting nor being read has given its contents or is told
  to have failed, and none is counted twice (`LogCovered`, `LogQueue`, `LogCount`); a cut is in the page or on its
  way to it (`LogCuts`), and what was not cut has all that matches of the lines that its container gave (`LogSaid`).
- *TaskWorkspaces.* What a task fetched is what it checks out, what is checked out is what its commands read, and what it
  publishes is in the file, as long as nobody else is at work in the directory (`OnTrack`, `AloneAtWork`).
- *SupervisedTask.* Whatever says "canceled" - the context, a worker's answer, an error, the verdict - has somebody who
  asked (`CancelsExcused`). What goes on has an executor that waits for it or is reported as
  not stopped, as its `stopped` says (`ClusterWork`); of a process on another host its record never says less than was done (`RemoteProcess`).
- *Buildpacks.* The one slot is with the loop or with one task (`OneAtATime`), so nobody else
  starts a container between the check of the daemon and the cleanup, and nobody blocks the
  runner behind the gate (`GateRead`). `OverMeansStopped` needs to know at each place of a build
  what may be in the daemon and in the workspace (`DaemonKnown`, `WorkspaceKnown`), and
  `LeftoversBlock` who it may belong to.
- *BuildSources.* Checkouts are made parents first, in the order of their paths, so that what is in place stays in place
  (`SourceInv`). What the analysis approved is what is exported, and what is withheld from the
  builder never gets into its environment (`ImageInv`). The cache of a build has its size checked before the build (`CacheInv`).
- *EnvironmentLeases.* An acquisition is its caller's alone until it is stored, and from then on an entry leads to it
  (`AcquirerAlone`, `EntryOrStore`); who marks a lease has released the environment (`ReleasedIsGone`).
- *ComposeOperations.* The commit of an operation is in its file, or with the runner that writes the file again
  (`BuildsKept`); each place of the sequence of commands knows which files are in the project and what runs
  (`FilesWritten`, `Replaced`, `RunsAsAsked`).
- *Outpost.* Leases are ordered, and one that is issued is newer than all others (`NewestLease`), so an answer is never
  ahead of the control plane and what is applied is never ahead of what is configured.
- *GuestRuntime.* An operation that was begun has its mark (`BegunIsMarked`), two at work are not both more than a release
  (`RunsAlone`), and a container that runs has a connection that will stop it (`Supervised`).
- *GuestData.* The receipt is ahead of the disk (`ReceiptAhead`), and who holds the lock knows it (`Locked`): a format is begun only where there
  has been none.
- *GuestBrowser.* What is in the browser was sent by the operation in progress, which waits for the reply (`SentWaits`), and an
  operation that acts has the page's control, generation and owner (`ActsInControl`): nothing else changes them before it has been
  answered or the page is closed. Fetches are counted, and a request that was received between operations has none to be
  fetched for (`FetchesFit`).
- *What the agent keeps open.* Each kind has an invariant of its own that says at which places of its goroutines something is
  open and who will close it: sessions and half-open ones count against one limit (`SshInv`), a forward without its request is
  stopped or handed on (`ForwardInv`), tokens are the streams that are carried (`TunnelInv`), the handler's deferred calls leave
  neither directory nor command (`TidyInv`), a path is inside a volume whatever it is joined from
  (`WithinVolumes`). For what a client is told: a shell's exit follows the end of its pipe (`ShellInv`), the lines that were read are
  those shown and those queued (`LogInv`), and what a container's command wrote is told, in the pipe or in a goroutine's hand (`AnswerInv`).
- *DockerEnvironment.* A container on its way to the lock finds the data or the tombstone (`DataOrTombstone`), and a tombstone
  stays. The fence of a command of unknown outcome belongs to nobody until its container is removed
  (`UnknownFenced`), so no other command passes it; a request's place fits the lease that it is for (`RequestFits`).
- *FiniteOrders.* A finite ordered set has a rank for each member, and its members in their order are the sequence of their ranks
  (`RankedList`). The lemmas on ranks carry what `PodLogs` and `BuildSources` sort.

The assumptions on constants are named, and TLC evaluates them in the runs:

- `ClaimsAssumption`, `SlotsAssumption`, `RegistryAssumption`, `RemoteWorkAssumption`, `GuestAssumption`, `ClusterWritesAssumption`,
  `DockerEnvironmentAssumption`, in the modules: markers such as `NoClaim` are no members of the sets they stand beside, limits are numbers, functions have
  their domains. Nothing bounds how many claims, tasks, commands, loops, providers, revisions, attempts,
  requests, agents, objects or builds there are; runs are finitely many, since they are counted.
- `KindsAssumption`, `WorkspaceAssumption`, `SourcesAssumption` (in `MCTasks`), `ProjectAssumption`, `OutpostAssumption` (`MCRemoteWork`), `SshAssumption`,
  `TunnelAssumption`, `LogAssumption`, `PathsAssumption` (`MCAgent`), `DocumentsAssumption`, `HelmAssumption`, `ReadsAssumption`, `LogsAssumption`
  (`MCCluster`), `BrowserAssumption` (`MCGuest`), in the run modules for the modules that they compose: limits are numbers, what is counted is finite, kinds are those
  of the code, paths are sequences, the times of a log are finitely many and have a last one. `SourcesAssumption` says besides that the members of `Caches`, the states a
  build's daemon may be found in, have the same volumes of others, which is what "somebody else's volume" refers to.

The provers need two things in a certain form. Induction over numbers is by the first counterexample (`NoFirst`), because the
library's theorems take a predicate as a parameter. What the code sorts is defined by rank (`InOrder` in `PodLogs`,
`ParentsFirst` in `BuildSources`): the community modules' `SortSeq` is one operator of TLC's to the provers, of which nothing follows.

Only model-checked: liveness (`WorkEnds`, `Drains`, `StreamsEnd`, `ControlPlaneAnswered`, `Collected`,
`Recovers`), which needs ENABLED and is out of the prover's reach. The five findings are runs of TLC and have no theorem: they show a counterexample.

## Where the code does not do what it says

1. **A canceled build may leave its workspace behind** (`buildpacks.go:77`). A
   failed workspace cleanup is joined to the build's error, and the cancellation
   then replaces that error: the task is reported as canceled with
   credentials and source still on disk. `README.md:154` says that an unconfirmed
   cleanup does not report a successful cancellation. Run `buildpacks_canceled`.
2. **The cancellation of a chat may go unanswered** (`hermes_api.go:280`).
   `finishAgentChatRun` keeps silent when the task context is canceled, since whoever
   canceled it has been acknowledged. When the heartbeat cancels it after
   `drainStopReason` found nothing, nobody has. Run `remote_work_chat`; the other
   kinds' final report is answered with the cancellation.
3. **A renewal may strand the guest** (`renewal.go:33`). The server has received the
   commit, the answer is lost, and the guest comes back after `CommitBefore`, five minutes
   at most. `confirmExpiredRenewal` then asks with the old certificate, which the
   server no longer takes: 401, "pending guest renewal expiry is unconfirmed", at
   every start, while the state file holds the active certificate. The test of the lost
   commit (`renewal_test.go:136`) restarts within the five minutes. Run `guest_commit`.
4. **A container that never started is not collected** (`docker_recovery.go:18`). The collector lists
   ended containers only; one that `docker run` created and did not start keeps the name of the owner's
   writer, and the volume cannot be deleted. Run `environment_never_started`.
5. **A digest is not reported by the task that made it** (`runner.go:668`). The files are listed before the
   commands run, so that the file that a publish command writes is "missing" in the first build, and
   `imageDigest` is left out. Run `digest_not_reported`.

Observations, of what the models show without a run of its own:

- *Workspaces.* `fmt.Sprint` of a missing value is `<nil>`, which `firstNonEmpty` takes
  (`runner.go:1930`): tasks that name no path share the directory `<nil>`, of whatever application; a workspace
  without a `commandDir` looks for a directory of that name and fails. A clone of another url is
  fetched from its old origin; a branch that is deleted at the origin is built from an earlier task's copy; a clone that
  was killed before it had its origin makes every later checkout fail.
- *Execution tasks.* The deferred unregister of one attempt removes the entry of another of the same task, whose accepted
  cancellation is then reported as a failure. Shutdown waits for no task in hand; a task that is
  claimed before the session is refused is abandoned (`bootstrap/app.go:64`).
- *Personal guest.* A crash between `Mkdir` and `Chown` leaves a workspace that every later start refuses
  (`data_linux.go:110`). The launcher is answered before the operation is unregistered, so
  that the next one may be refused (`runtime.go:196`). A paused request whose operation ended while it
  was fetched is never answered.
- *Outpost.* An answer that repeats the lease in force is rejected, and stops all access until a
  newer lease.
- *SSH commands.* The final report says `stopped` though the process may go on (`ssh_command.go:131`); only `effect` tells.
- *Streams.* A forward whose `ForwardPorts` ends stays listed as active. The pause before a reconnection
  never becomes shorter again. `AcceptStream` does not heed the context. The Docker terminal loses the tail of its output
  (`docker_runtime.go:246`). A log that is followed makes every shutdown time out after ten seconds
  and exit with 1.
- *Cluster.* A batch that names one object under two versions of its API passes the dry run and stops halfway
  (`resource_creation.go:130`). An install is "already satisfied" though its values differ (`helm_mutation.go:313`), and answered as
  deployed though its release was deleted while it was installed (`helm_mutation.go:86`). A rollback and a deletion check the owner before
  they act and not again (`helm_mutation.go:170`), so that a release that became a delivery's in between is changed. The
  error of a rollback hides a rollback that was made. A query of logs that says no time and no tail reads the last 200 lines of each
  container and filters those (`pod_logs_aggregate.go:492`): a page that is not marked may lack older lines that match. Which lines fit the byte budget of a page of logs depends on
  the order in which sources answered. A manifest field that is desired as null is reported as drift for ever. Revisions
  of a Helm release are sorted as text.

## What is not modelled

Pure translation (Kubernetes views, most HTTP handlers, compact lists), configuration, which is
read once and whose values are constants here, domain types and logging; the effects of the
kernel (namespaces, quotas beyond whether they are set); cryptography, which is whether a
signature is good; byte streams and the contents of payloads and logs; the text of a chat's stream, its redaction and
its tool grants; the preflight of a Docker host and the probe of its quotas. `PROJECT.json` gives the reason
for each component. Within what is modelled, the command of a provider that is resolved before the provider is acquired
(`runner.go:1183`) is listed as a hazard without a property: `ProviderRegistry` keeps versions and not
commands.

## Plan

| step | what | to show |
|---|---|---|
| done | the modules above, and proofs of all their safety properties | above |
| 1 | the command of a provider in `ProviderRegistry` | which version's command a run executes |
| 2 | `TaskLifecycle` refined by `RemoteWork` and `SupervisedTask`, with a proof | the same promise for every kind of work |
| 3 | the stream of a chat | what is published is in order and complete |
