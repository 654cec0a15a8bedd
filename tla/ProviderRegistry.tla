-------------------------- MODULE ProviderRegistry --------------------------
(***************************************************************************)
(* DynamicAgentProviderRegistry: the catalog of agent providers that the   *)
(* control plane rolls out, and the runs that hold a provider while it is  *)
(* replaced.                                                               *)
(*                                                                         *)
(* One goroutine, agentProviderRegistryLoop, fetches the snapshot the      *)
(* control plane desires, probes every provider in it, applies it, probes  *)
(* the providers now active and acknowledges.  Meanwhile runs acquire and  *)
(* release providers.  Rollback is part of the registry's interface, but   *)
(* nothing in the agent calls it yet.  A step is what one of these does    *)
(* under the registry's lock, or one probe outside it.                     *)
(***************************************************************************)
EXTENDS Integers, FiniteSets

CONSTANTS
  Provider, Version,
  Run,            \* agent runs that may be going on at the same time
  None,           \* no version: a provider that a catalog does not list
  MaxRevision,    \* the last revision the control plane publishes
  Lists,          \* Lists[k][p]: the version of p that revision k lists, or None
  Drains,         \* Drains[k]: the providers that revision k marks as draining
  Refused,        \* revisions that are not valid, or target other runners
  Unsteady,       \* <<provider, version>> pairs whose runtime comes and goes
  MaxRollbacks    \* bound on the rollbacks of a behaviour

Revision == 1..MaxRevision
Builtin == 1      \* DefaultAgentProviderRegistry, active from New on

ASSUME RegistryAssumption ==
  /\ IsFiniteSet(Run)
  /\ None \notin Version
  /\ MaxRevision \in Nat \ {0}
  /\ Lists \in [Revision -> [Provider -> Version \cup {None}]]
  /\ Drains \in [Revision -> SUBSET Provider]
  /\ Refused \subseteq Revision \ {Builtin}
  /\ Unsteady \subseteq Provider \X Version
  /\ MaxRollbacks \in Nat

VARIABLES
  desired,     \* the revision the control plane answers a fetch with
  reported,    \* the active revision it was last told of, 0 before the first time
  down,        \* the pairs of Unsteady whose probe fails now
  current, previous,   \* the active revision, the one a rollback returns to or 0
  active, health,      \* statuses: of each listed provider
  sync,        \* the registry goroutine
  run,         \* what each run is doing, with which provider and version
  conformed,   \* history: revisions whose every provider passed its probe
  rollbacks    \* rollbacks so far

registry == <<current, previous, active, health>>
vars == <<desired, reported, down, registry, sync, run, conformed, rollbacks>>

Listed(k) == {p \in Provider : Lists[k][p] # None}
Pairs(k) == {<<p, Lists[k][p]>> : p \in Listed(k)}
Holding(p) == {r \in Run : run[r].pc = "running" /\ run[r].provider = p}

-----------------------------------------------------------------------------
Idle == [pc |-> "idle", revision |-> 0, todo |-> {}, on |-> <<None, None>>,
         ok |-> TRUE, active |-> 0]
Free == [pc |-> "idle", provider |-> None, version |-> None, pin |-> 0]

Init ==
  /\ desired = Builtin /\ reported = 0 /\ down = {}
  /\ current = Builtin /\ previous = 0
  /\ active = [p \in Provider |-> 0]
  /\ health = [p \in Provider |-> "healthy"]
  /\ sync = Idle
  /\ run = [r \in Run |-> Free]
  /\ conformed = {}
  /\ rollbacks = 0

-----------------------------------------------------------------------------
(* The registry's operations.                                              *)

\* Mutant: only a provider that the next snapshot drops is kept.
BlockedByDrop(k) == \E p \in Provider : active[p] # 0 /\ Lists[k][p] = None

\* activeRunTransitionBlockerLocked: a provider in use changes its version.
Blocked(k) == \E p \in Provider : active[p] # 0 /\ Lists[k][p] # Lists[current][p]

\* Mutant: the status is built anew, without the runs it counted.
ActivateAnew(k) ==
  /\ current' = k
  /\ active' = [p \in Provider |-> 0]
  /\ health' = [p \in Provider |->
       IF Lists[k][p] = Lists[current][p] THEN health[p] ELSE "healthy"]

\* activateLocked: a status outlives the snapshot as long as its provider is
\* listed; its health is that of the version it was observed of.
Activate(k) ==
  /\ current' = k
  /\ active' = [p \in Provider |-> IF p \in Listed(k) THEN active[p] ELSE 0]
  /\ health' = [p \in Provider |->
       IF Lists[k][p] = Lists[current][p] THEN health[p] ELSE "healthy"]

\* Acquire's conditions; v is None for any version, pin is 0 for any revision.
Admits(p, v, pin) ==
  /\ pin # 0 => pin = current
  /\ p \in Listed(current)
  /\ v # None => v = Lists[current][p]
  /\ p \notin Drains[current]
  /\ health[p] = "healthy"

\* Mutant: Rollback swaps the revisions whether or not there is a previous one.
RollbackToNothing ==
  /\ rollbacks < MaxRollbacks
  /\ current' = previous /\ previous' = current
  /\ rollbacks' = rollbacks + 1
  /\ UNCHANGED <<desired, reported, down, active, health, sync, run, conformed>>

\* Rollback swaps the two revisions, under the same condition as Apply.
Rollback ==
  /\ rollbacks < MaxRollbacks
  /\ previous # 0 /\ ~Blocked(previous)
  /\ Activate(previous)
  /\ previous' = current
  /\ rollbacks' = rollbacks + 1
  /\ UNCHANGED <<desired, reported, down, sync, run, conformed>>

-----------------------------------------------------------------------------
(* The goroutine of agentProviderRegistryLoop.  A failed fetch leaves every-  *)
(* thing as it was until the next tick.                                       *)

\* The snapshot arrives; one that is refused is answered without a probe.
Fetch ==
  /\ sync.pc = "idle"
  /\ sync' = IF desired \in Refused
             THEN [Idle EXCEPT !.pc = "list", !.active = current]
             ELSE [Idle EXCEPT !.pc = "conform", !.revision = desired, !.todo = Pairs(desired)]
  /\ UNCHANGED <<desired, reported, down, registry, run, conformed, rollbacks>>

\* runProviderConformance: one provider of the snapshot is probed.
Conform(pair) ==
  /\ sync.pc = "conform" /\ pair \in sync.todo
  /\ sync' = [sync EXCEPT !.todo = @ \ {pair}, !.ok = @ /\ pair \notin down]
  /\ UNCHANGED <<desired, reported, down, registry, run, conformed, rollbacks>>

Accepts(k) == k > current /\ ~Blocked(k)

\* Mutant: the failed probes are reported, and the snapshot applied all the same.
ApplyUnproven ==
  /\ sync.pc = "conform" /\ sync.todo = {}
  /\ conformed' = IF sync.ok THEN conformed \cup {sync.revision} ELSE conformed
  /\ IF Accepts(sync.revision)
     THEN Activate(sync.revision) /\ previous' = current
     ELSE UNCHANGED registry
  /\ sync' = [Idle EXCEPT !.pc = "list", !.active = current']
  /\ UNCHANGED <<desired, reported, down, run, rollbacks>>

\* Mutant: the acknowledgement tells the revision that was desired.
ApplyAndBoast ==
  /\ sync.pc = "conform" /\ sync.todo = {}
  /\ conformed' = IF sync.ok THEN conformed \cup {sync.revision} ELSE conformed
  /\ IF sync.ok /\ Accepts(sync.revision)
     THEN Activate(sync.revision) /\ previous' = current
     ELSE UNCHANGED registry
  /\ sync' = [Idle EXCEPT !.pc = "list", !.active = sync.revision]
  /\ UNCHANGED <<desired, reported, down, run, rollbacks>>

\* ApplyDesired, from the end of the probes on.
Apply ==
  /\ sync.pc = "conform" /\ sync.todo = {}
  /\ conformed' = IF sync.ok THEN conformed \cup {sync.revision} ELSE conformed
  /\ IF sync.ok /\ Accepts(sync.revision)
     THEN Activate(sync.revision) /\ previous' = current
     ELSE UNCHANGED registry
  /\ sync' = [Idle EXCEPT !.pc = "list", !.active = current']
  /\ UNCHANGED <<desired, reported, down, run, rollbacks>>

\* refreshProviderHealth takes the statuses of the providers active now ...
ListStatuses ==
  /\ sync.pc = "list"
  /\ sync' = [sync EXCEPT !.pc = "refresh", !.todo = Pairs(current)]
  /\ UNCHANGED <<desired, reported, down, registry, run, conformed, rollbacks>>

\* ... probes each, unless its version is no longer the active one ...
Probe(pair) ==
  /\ sync.pc = "refresh" /\ pair \in sync.todo
  /\ sync' = IF pair \in Pairs(current)
             THEN [sync EXCEPT !.pc = "set", !.on = pair, !.ok = pair \notin down]
             ELSE [sync EXCEPT !.todo = @ \ {pair}]
  /\ UNCHANGED <<desired, reported, down, registry, run, conformed, rollbacks>>

\* ... and records what the probe found.  SetHealth looks the provider up by its
\* name alone: a rollback may have replaced the version that was probed.
SetHealth ==
  /\ sync.pc = "set"
  /\ health' = IF sync.on[1] \in Listed(current)
               THEN [health EXCEPT ![sync.on[1]] = IF sync.ok THEN "healthy" ELSE "unhealthy"]
               ELSE health
  /\ sync' = [sync EXCEPT !.pc = "refresh", !.todo = @ \ {sync.on}, !.on = Idle.on,
                        !.ok = TRUE]
  /\ UNCHANGED <<desired, reported, down, current, previous, active, run, conformed, rollbacks>>

\* sendAgentProviderRegistryAck is tried once; the next tick starts all over.
AckReceived ==
  /\ sync.pc = "refresh" /\ sync.todo = {}
  /\ reported' = sync.active
  /\ sync' = Idle
  /\ UNCHANGED <<desired, down, registry, run, conformed, rollbacks>>

AckLost ==
  /\ sync.pc = "refresh" /\ sync.todo = {}
  /\ sync' = Idle
  /\ UNCHANGED <<desired, reported, down, registry, run, conformed, rollbacks>>

-----------------------------------------------------------------------------
(* Runs.  Between the look-up of the provider and Acquire, and between Acquire *)
(* and the run's end, the registry may take any step.                         *)

\* resolveAgentProviderExecutor: a provider that no snapshot lists is run from
\* the configuration, and never counted.
AskCLI(r, p) ==
  /\ run[r] = Free
  /\ run' = [run EXCEPT ![r] =
       [pc |-> IF p \in Listed(current) THEN "resolved" ELSE "untracked",
        provider |-> p, version |-> None, pin |-> 0]]
  /\ UNCHANGED <<desired, reported, down, registry, sync, conformed, rollbacks>>

\* executeChatProviderRun: the control plane pinned a version and a revision when
\* it created the run; a pin to another version than the active one is refused.
AskChat(r, p, k) ==
  /\ run[r] = Free
  /\ p \in Listed(current)
  /\ Lists[k][p] = Lists[current][p]
  /\ run' = [run EXCEPT ![r] =
       [pc |-> "resolved", provider |-> p, version |-> Lists[k][p], pin |-> k]]
  /\ UNCHANGED <<desired, reported, down, registry, sync, conformed, rollbacks>>

\* Acquire counts the run, or refuses it.
Acquire(r) ==
  /\ run[r].pc = "resolved"
  /\ LET p == run[r].provider
         admitted == Admits(p, run[r].version, run[r].pin)
     IN  /\ run' = [run EXCEPT ![r] =
              IF admitted THEN [@ EXCEPT !.pc = "running", !.version = Lists[current][p]] ELSE Free]
         /\ active' = IF admitted THEN [active EXCEPT ![p] = @ + 1] ELSE active
  /\ UNCHANGED <<desired, reported, down, current, previous, health, sync, conformed, rollbacks>>

\* Mutant: a run that ends while its provider drains is not taken off the count.
FinishUnlessDraining(r) ==
  /\ run[r].pc \in {"running", "untracked"}
  /\ LET p == run[r].provider
     IN  active' = IF run[r].pc = "running" /\ p \in Listed(current) /\ active[p] > 0
                      /\ p \notin Drains[current]
                   THEN [active EXCEPT ![p] = @ - 1] ELSE active
  /\ run' = [run EXCEPT ![r] = Free]
  /\ UNCHANGED <<desired, reported, down, current, previous, health, sync, conformed, rollbacks>>

\* The executor returns, within the run's timeout; Release is deferred.
Finish(r) ==
  /\ run[r].pc \in {"running", "untracked"}
  /\ LET p == run[r].provider
     IN  active' = IF run[r].pc = "running" /\ p \in Listed(current) /\ active[p] > 0
                   THEN [active EXCEPT ![p] = @ - 1] ELSE active
  /\ run' = [run EXCEPT ![r] = Free]
  /\ UNCHANGED <<desired, reported, down, current, previous, health, sync, conformed, rollbacks>>

-----------------------------------------------------------------------------
(* Outside the agent.                                                         *)

\* The control plane may go back to an earlier revision.
Publish(k) ==
  /\ k # desired
  /\ desired' = k
  /\ UNCHANGED <<reported, down, registry, sync, run, conformed, rollbacks>>

\* A command is installed or removed, a remote endpoint answers or does not.
Flap(pair) ==
  /\ down' = IF pair \in down THEN down \ {pair} ELSE down \cup {pair}
  /\ UNCHANGED <<desired, reported, registry, sync, run, conformed, rollbacks>>

SyncStep ==
  \/ Fetch
  \/ \E pair \in sync.todo : Conform(pair) \/ Probe(pair)
  \/ Apply \/ ListStatuses \/ SetHealth
  \/ AckReceived \/ AckLost

RunStep(r) == Acquire(r) \/ Finish(r)

Next ==
  \/ SyncStep
  \/ \E r \in Run :
       \/ RunStep(r)
       \/ \E p \in Provider : AskCLI(r, p)
       \/ \E p \in Provider, k \in Revision : AskChat(r, p, k)
  \/ Rollback
  \/ \E k \in Revision : Publish(k)
  \/ \E pair \in Unsteady : Flap(pair)

\* The goroutine goes on at every tick, a probe ends within five seconds and a run
\* within its timeout.  An acknowledgement that is sent over and over arrives.
Fairness ==
  /\ WF_vars(SyncStep)
  /\ SF_vars(AckReceived)
  /\ \A r \in Run : WF_vars(RunStep(r))

Spec == Init /\ [][Next]_vars /\ Fairness

-----------------------------------------------------------------------------
\* The types, and the agreement of the goroutine's fields with its place.
TypeOK ==
  /\ desired \in Revision /\ reported \in {0} \cup Revision
  /\ down \subseteq Unsteady
  /\ current \in Revision /\ previous \in {0} \cup Revision
  /\ active \in [Provider -> Nat]
  /\ health \in [Provider -> {"healthy", "unhealthy"}]
  /\ sync \in [pc : {"idle", "conform", "list", "refresh", "set"},
                revision : {0} \cup Revision,
                todo : SUBSET (Provider \X Version),
                on : {<<None, None>>} \cup (Provider \X Version),
                ok : BOOLEAN, active : {0} \cup Revision]
  /\ sync.pc = "conform" => sync.revision \in Revision
  /\ sync.pc \in {"list", "refresh", "set"} => sync.active \in Revision
  /\ sync.pc = "set" => sync.on \in Provider \X Version
  /\ run \in [Run -> [pc : {"idle", "resolved", "running", "untracked"},
                       provider : Provider \cup {None},
                       version : Version \cup {None}, pin : {0} \cup Revision]]
  /\ \A r \in Run : run[r].pc # "idle" => run[r].provider \in Provider
  /\ conformed \subseteq Revision
  /\ rollbacks \in 0..MaxRollbacks

\* ActiveRuns is what a drain waits for: it is the number of runs that hold the
\* provider, however snapshots, rollbacks and runs interleave.
CountsExact == \A p \in Provider : active[p] = Cardinality(Holding(p))

\* A provider is not replaced under the runs that hold it ("drain before replacing
\* version"): the version a run acquired stays the active one until it ends.
RunningVersionKept ==
  \A r \in Run : run[r].pc = "running" =>
    /\ run[r].provider \in Listed(current)
    /\ run[r].version = Lists[current][run[r].provider]

\* Rejected snapshots never replace the last-known-good revision: what is active, what
\* a rollback returns to and what the control plane was told are proven revisions.
LastKnownGood ==
  {current, previous, reported} \subseteq {0, Builtin} \cup conformed

\* Without rollbacks the control plane never hears of an older revision than before,
\* whichever snapshots it publishes.
ReportsNeverGoBack == [][reported' >= reported]_vars

\* A rollout ends: once the control plane settles on its last revision, the revision's
\* providers pass their probes, and those it replaces are draining, it is told that
\* the revision is active.
Settled == desired = MaxRevision /\ down \cap Pairs(MaxRevision) = {}
Drained == \A p \in Provider : Lists[MaxRevision][p] # Lists[current][p] => p \in Drains[current]
RolloutReported == <>[](Settled /\ Drained) => <>(reported = MaxRevision)

=============================================================================
