------------------------------- MODULE MCTasks --------------------------------
(***************************************************************************)
(* The tasks that the runner carries out: an execution task with two       *)
(* commands; the workspace of two tasks, while somebody pushes to their    *)
(* repositories; two Buildpacks builds, the second of which meets what the *)
(* first left behind, and a crash at any point; what one build checks out, *)
(* runs and publishes; and a supervised task of each kind.  They share no  *)
(* state: a behaviour exercises the part that "part" names, and the others *)
(* stand still.                                                            *)
(*                                                                         *)
(* The sources: "app" has a submodule "lib" in a directory at one commit,  *)
(* and a link instead of the directory at the other; "lib" has a file at   *)
(* one commit and a gitlink that it does not declare at the other.         *)
(***************************************************************************)
EXTENDS ExecutionTask, Sequences, TLC

CONSTANTS
  c1, t1,
  Builds,                                                 \* tasks of TaskWorkspaces and Buildpacks
  Urls, Branches, Default, Wanted, MaxPushes,             \* of TaskWorkspaces
  MaxCrashes,                                             \* of Buildpacks
  Kinds,                                                  \* of SupervisedTask
  SourceCommits, Names, Tree, Modules, Lists, NeedsKey,   \* of BuildSources
  CacheNames, Caches, CacheLimit

ASSUME WorkspaceAssumption ==
  /\ Default \in Branches /\ "none" \notin Branches /\ "commit" \notin Branches
  /\ \A s \in Wanted : s.url \in Urls \cup {"none"}
ASSUME KindsAssumption == Kinds \subseteq {"helm", "manifest", "ssh"}
ASSUME SourcesAssumption ==
  /\ Names \subseteq Nat /\ SourceCommits \cap {"none", "file", "dir", "link"} = {}
  /\ \A l \in Lists : l \in Seq({l[i] : i \in DOMAIN l})
  /\ CacheLimit \in Nat /\ Caches # {}
  /\ \A v \in Caches : v = [n \in DOMAIN v |-> v[n]]
  /\ \A v, w \in Caches : DOMAIN v \ CacheNames \subseteq DOMAIN w

OneClaim == {c1}
OneTask == {t1}
OneClaimOf == c1 :> t1
TwoCommands == c1 :> 2

Entries == <<"app", "c1">> :> <<"c1", "dir">> @@ <<"app", "c2">> :> <<"c1", "link">>
        @@ <<"lib", "c1">> :> <<"file", "none">> @@ <<"lib", "c2">> :> <<"none", "c2">>
Declared == <<"app", "c1">> :> {[path |-> 1, url |-> "lib"]} @@ <<"app", "c2">> :> {[path |-> 1, url |-> "lib"]}
         @@ <<"lib", "c1">> :> {} @@ <<"lib", "c2">> :> {}
From(repo, ref, path, subs) == [repo |-> repo, ref |-> ref, path |-> path, submodules |-> subs]
Checkouts ==
  {<<From("app", "c1", <<>>, TRUE)>>, <<From("app", "branch", <<>>, TRUE)>>, <<From("lib", "c2", <<>>, TRUE)>>}
  \cup {<<From("lib", l, p, l = "c1"), From("app", "c1", <<>>, subs)>> :
          l \in {"c1", "c2"}, p \in {<<1>>, <<2>>, <<2, 1>>, <<0>>}, subs \in BOOLEAN}
  \cup {<<From("lib", l, p, FALSE), From("app", "c2", q, FALSE)>> :
          l \in {"c1", "c2"}, p \in {<<2>>, <<2, 1>>}, q \in {<<>>, <<2>>}}
  \cup {<<From("lib", "c1", <<2, 1>>, FALSE), From("lib", "c2", p, FALSE), From("app", "c1", <<2>>, TRUE)>> :
          p \in {<<1>>, <<2, 1>>, <<2, 2>>}}
Volume(size, known) == [size |-> size, known |-> known]
Volumes == {[build |-> v, other |-> Volume(3, FALSE)] :
              v \in {Volume(0, TRUE), Volume(1, FALSE), Volume(1, TRUE), Volume(2, TRUE)}}

Asks(url, ref, dir, publishes) == [url |-> url, ref |-> ref, dir |-> dir, publishes |-> publishes]
WorkspaceSpecs ==
  {Asks("u", "main", "none", TRUE), Asks("u", "dev", "none", FALSE), Asks("u", "commit", "none", FALSE),
   Asks("v", "main", "unnamed", TRUE), Asks("none", "none", "none", TRUE)}

VARIABLES
  part,
  spec, wPc, branches, pushes, repo, head, used, file, listed, report, saw, wAsked, mixed,
  bLoop, slot, blocked, containers, bPc, bCtx, bRun, bErr, unconfirmed, left, reported,
  stopAsked, crashes,
  kind, sCp, mine, sAsked, missed, sPc, sCtx, run, worker, work, err, stopped, effect, sVerdict,
  runtime, frozen, secrets, list, step, todo, environment, disk, from, cache, phase, analyzed, given,
  exported, sbom, tag, result

bVars == <<bLoop, slot, blocked, containers, bPc, bCtx, bRun, bErr, unconfirmed, left, reported,
           stopAsked, crashes>>
sVars == <<kind, sCp, mine, sAsked, missed, sPc, sCtx, run, worker, work, err, stopped, effect, sVerdict>>
oVars == <<runtime, frozen, secrets, list, step, todo, environment, disk, from, cache, phase, analyzed,
           given, exported, sbom, tag, result>>
wVars == <<spec, wPc, branches, pushes, repo, head, used, file, listed, report, saw, wAsked, mixed>>

TaskWorkspaces == INSTANCE TaskWorkspaces WITH Tasks <- Builds, Specs <- Wanted,
  pc <- wPc, remote <- branches, asked <- wAsked
Buildpacks == INSTANCE Buildpacks WITH Tasks <- Builds,
  loop <- bLoop, pc <- bPc, ctx <- bCtx, run <- bRun, err <- bErr
SupervisedTask == INSTANCE SupervisedTask WITH cp <- sCp, asked <- sAsked, pc <- sPc, ctx <- sCtx,
  verdict <- sVerdict
BuildSources == INSTANCE BuildSources WITH Commits <- SourceCommits

MCInit ==
  /\ part \in {"claim", "workspace", "build", "sources", "supervised"}
  /\ Init /\ Buildpacks!Init
  /\ TaskWorkspaces!Init
  /\ IF part = "workspace"
     THEN LET first == CHOOSE t \in Builds : TRUE IN spec[first].publishes /\ spec[first].dir = "none"
     ELSE \A t \in DOMAIN spec : spec[t] = Asks("none", "none", "none", TRUE)
  /\ IF part = "supervised" THEN SupervisedTask!Init
     ELSE /\ kind = "ssh" /\ sCp = "running" /\ mine = TRUE /\ sAsked = FALSE /\ missed = FALSE
          /\ sPc = "over" /\ sCtx = "live" /\ run = "live"
          /\ worker = [w \in SupervisedTask!Workers |-> "off"] /\ work = "none"
          /\ err = "none" /\ stopped = TRUE /\ effect = "not_started" /\ sVerdict = "none"
  /\ IF part = "sources" THEN BuildSources!Init
     ELSE /\ runtime = "podman" /\ frozen = "configured" /\ secrets = {} /\ list = <<>>
          /\ step = "over" /\ todo = <<>> /\ environment = {} /\ disk = <<>> /\ from = <<>>
          /\ cache = CHOOSE volumes \in Caches : TRUE
          /\ phase = 0 /\ analyzed = "none" /\ given = {} /\ exported = "none" /\ sbom = "none"
          /\ tag = "none" /\ result = "none"

MCNext ==
  /\ UNCHANGED part
  /\ \/ part = "claim" /\ Next /\ UNCHANGED <<bVars, sVars, oVars, wVars>>
     \/ part = "workspace" /\ TaskWorkspaces!Next /\ UNCHANGED <<vars, bVars, sVars, oVars>>
     \/ part = "build" /\ Buildpacks!Next /\ UNCHANGED <<vars, sVars, oVars, wVars>>
     \/ part = "sources" /\ BuildSources!Next /\ UNCHANGED <<vars, bVars, sVars, wVars>>
     \/ part = "supervised" /\ SupervisedTask!Next /\ UNCHANGED <<vars, bVars, oVars, wVars>>

\* No fair action is enabled in the states in which the idle parts stand.
MCSpec ==
  /\ MCInit /\ [][MCNext]_<<part, vars, bVars, sVars, oVars, wVars>>
  /\ Fairness /\ Buildpacks!Fairness /\ SupervisedTask!Fairness

-----------------------------------------------------------------------------
\* A build removes no container but its own, one that was reported as over has stopped, and
\* what a build leaves behind blocks the runner (Buildpacks).  What it builds are the commits
\* that the task names, on the run image that was approved, without the secrets of the sources
\* and of the registry, within the limit of the cache (BuildSources).
BuildsContained ==
  /\ Buildpacks!BuildOwnsDaemon /\ Buildpacks!OverMeansStopped /\ Buildpacks!LeftoversBlock
  /\ BuildSources!SourcesAsBound /\ BuildSources!ImageAsApproved /\ BuildSources!CacheKept

\* Nothing is claimed while it is blocked (Buildpacks).
NoClaimWhileBlocked == Buildpacks!NoClaimWhileBlocked

\* What is said of a supervised task is true: that it stopped, what its effect was, and why it
\* was canceled (SupervisedTask).  So is what an execution task says of its build: it ran on what
\* it fetched, and a digest that it reports is its own (TaskWorkspaces).
VerdictIsTrue ==
  /\ TaskWorkspaces!RunsWhatWasFetched /\ TaskWorkspaces!ReportsOwnDigest
  /\ SupervisedTask!StopConfirmed /\ SupervisedTask!EffectIsTrue /\ SupervisedTask!CanceledOnlyIfAsked

\* Claims and builds end, and so does supervised work that nobody wants any more.
WorkEnds ==
  /\ EveryClaimEnds
  /\ Buildpacks!EveryBuildEnds
  /\ SupervisedTask!DroppedWorkStops

=============================================================================
