---------------------------- MODULE BuildSources ----------------------------
(***************************************************************************)
(* One Buildpacks build from the inside: what the steps "check",           *)
(* "checkout" and "build" of Buildpacks do.  The cache of the daemon is    *)
(* trimmed, the sources are checked out at the commits that the task       *)
(* names, parents before the submodules inside them, the lifecycle runs    *)
(* (the command pack, or one container per phase under Podman), and the    *)
(* image that was published is compared with the report.                   *)
(*                                                                         *)
(* Outside: what the repositories hold (Tree, Modules), what a phase       *)
(* leaves in /layers, and the registry, where others push as well.  Any    *)
(* command may fail.  A symbolic link of a source points out of it.        *)
(***************************************************************************)
EXTENDS Naturals, Sequences, SequencesExt, FiniteSetsExt

CONSTANTS
  Commits,
  Names,       \* names of a directory: numbers, in the order of the strings
  Tree,        \* Tree[repo, commit][name]: none, file, dir, link, or the commit of a gitlink
  Modules,     \* Modules[repo, commit]: what .gitmodules declares, [path, url]
  Lists,       \* the lists of checkouts a task may bring
  NeedsKey,    \* repositories that are reached by SSH
  CacheNames,  \* volumes with the name of a cache; the daemon may keep others
  Caches,      \* what may be in the volumes: [size, known] for each name
  CacheLimit

VARIABLES
  runtime,     \* pack or podman
  frozen,      \* the toolchain the task was frozen with: the runner's own or another
  secrets,     \* aliases of the secrets that the task's lease grants
  list,        \* the checkouts of the task
  step,        \* where runBuildpacks is
  todo,        \* the checkouts that are still to be made
  environment, \* secrets in the environment of the build
  disk,        \* what stands at each path of the source
  from,        \* what was checked out there
  cache,       \* the volumes of the daemon
  phase,       \* phases of the lifecycle that have exited
  analyzed,    \* the run image in /layers/analyzed.toml
  given,       \* [image, secret]: what the containers of an image were given
  exported,    \* the run image below the image that was published
  sbom,        \* the files of the bill of materials
  tag,         \* whose image stands in the registry under the task's tag
  result       \* the image that the build reports

vars == <<runtime, frozen, secrets, list, step, todo, environment, disk, from, cache, phase, analyzed, given,
          exported, sbom, tag, result>>
buildVars == <<phase, analyzed, given, exported, sbom, tag, result>>

None == <<>>
Root == <<>>
Paths == {Root} \cup {<<n>> : n \in Names} \cup {<<n, m>> : n, m \in Names}
Under(p) == {Append(p, n) : n \in Names} \cap Paths

GitKey == {"GIT_SSH_KEY", "GIT_KNOWN_HOSTS"}
Withheld == GitKey \cup {"REGISTRY_AUTH"}

Init ==
  /\ runtime \in {"pack", "podman"}
  /\ frozen \in {"configured", "another"}
  /\ secrets \in {{}, {"TOKEN"}, Withheld \cup {"TOKEN"}}
  /\ list \in Lists
  /\ step = "validate" /\ todo = <<>>
  /\ environment = {} /\ disk = [p \in Paths |-> "none"]
  /\ from = [p \in Paths |-> None]
  /\ cache \in Caches
  /\ phase = 0 /\ analyzed = "none" /\ given = {} /\ exported = "none"
  /\ sbom = "none" /\ tag = "none" /\ result = "none"

\* A build that fails after the callback has its cache trimmed, one that fails before has not.
Fails ==
  /\ step \notin {"trim", "over"}
  /\ step' = IF step \in {"pack", "phases", "verify"} THEN "trim" ELSE "over"
  /\ UNCHANGED <<runtime, frozen, secrets, list, todo, environment, disk, from, cache, buildVars>>

\* Mutant: the task is built with what the runner has now.
BuildsAnything == TRUE

\* The task was frozen with this runtime, these images and this platform.
Frozen == frozen = "configured"

\* validateBuildpacksTask: the runner is ready for the application; it does not fall back on
\* another toolchain than the one that the task was frozen with.
Validate ==
  /\ step = "validate" /\ Frozen
  /\ step' = "cache"
  /\ UNCHANGED <<runtime, frozen, secrets, list, todo, environment, disk, from, cache, buildVars>>

-----------------------------------------------------------------------------
(* The cache of the daemon.                                                *)

Owned(volumes) == CacheNames \cap DOMAIN volumes

Size(volumes) == MapThenSumSet(LAMBDA v : volumes[v].size, Owned(volumes))

\* Mutant: what the daemon keeps beside the cache is counted and evicted too.
EvictAll(volumes) == IF Size(volumes) <= CacheLimit THEN {} ELSE DOMAIN volumes

\* All of the cache goes together; volumes of another name are left alone.
Evictions(volumes) == IF Size(volumes) <= CacheLimit THEN {} ELSE Owned(volumes)

\* The size of each volume of the cache is known, and nothing mounts it.
Sized(volumes) == \A v \in Owned(volumes) : volumes[v].known

\* trimBuildpacksCache, before the sources and after the build; Podman keeps no cache.
TrimCache ==
  /\ step \in {"cache", "trim"}
  /\ IF runtime = "podman" THEN UNCHANGED cache
     ELSE /\ Sized(cache)
          /\ cache' = [v \in DOMAIN cache \ Evictions(cache) |-> cache[v]]
  /\ step' = IF step = "cache" THEN "workspace" ELSE "over"
  /\ UNCHANGED <<runtime, frozen, secrets, list, todo, environment, disk, from, buildVars>>

\* A size is unknown, or the volumes were not removed: the runner is blocked (Buildpacks).
TrimFails ==
  /\ step = "trim" /\ runtime = "pack"
  /\ \E gone \in SUBSET Evictions(cache) : cache' = [v \in DOMAIN cache \ gone |-> cache[v]]
  /\ step' = "over"
  /\ UNCHANGED <<runtime, frozen, secrets, list, todo, environment, disk, from, buildVars>>

-----------------------------------------------------------------------------
(* The sources.                                                            *)

\* createBuildpacksWorkspace: new and private, and removed at once if it cannot be completed.
MakeWorkspace ==
  /\ step = "workspace"
  /\ disk' = [disk EXCEPT ![Root] = "empty"]
  /\ step' = "environment"
  /\ UNCHANGED <<runtime, frozen, secrets, list, todo, environment, from, cache, buildVars>>

\* Mutant: every secret of the lease goes into the environment.
AllSecrets == secrets

\* The secrets of the sources and of the registry are not for the build.
BuildSecrets == secrets \ Withheld

\* prepareBuildpacksEnvironment.
PrepareEnvironment ==
  /\ step = "environment"
  /\ environment' = BuildSecrets
  /\ step' = "list"
  /\ UNCHANGED <<runtime, frozen, secrets, list, todo, disk, from, cache, buildVars>>

\* The order of the strings: a directory before what is in it.
Before(p, q) ==
  \/ p # q /\ IsPrefix(p, q)
  \/ \E i \in DOMAIN p \cap DOMAIN q : SubSeq(p, 1, i - 1) = SubSeq(q, 1, i - 1) /\ p[i] < q[i]

\* buildpacksCheckouts: fixed commits, paths inside, none twice; parents come first.
Accepted(checkouts) ==
  /\ \A i \in DOMAIN checkouts : checkouts[i].ref \in Commits /\ checkouts[i].path \in Paths
  /\ \A i, j \in DOMAIN checkouts : checkouts[i].path = checkouts[j].path => i = j

\* As many come before a checkout as its place says.
ParentsFirst(checkouts) ==
  [i \in 1..Cardinality(checkouts) |->
    CHOOSE c \in checkouts : Cardinality({d \in checkouts : Before(d.path, c.path)}) = i - 1]

ListSources ==
  /\ step = "list" /\ Accepted(list)
  /\ todo' = ParentsFirst(ToSet(list))
  /\ step' = "sources"
  /\ UNCHANGED <<runtime, frozen, secrets, list, environment, disk, from, cache, buildVars>>

\* buildpacksGitEnvironment: without its key a repository is not asked for.
MayAsk(repo) == repo \in NeedsKey => GitKey \subseteq secrets

\* What stands on the way is a directory, and nothing is in it yet.
Free(path) ==
  /\ \A i \in 0..Len(path) - 1 : disk[SubSeq(path, 1, i)] \in {"none", "empty", "full"}
  /\ disk[path] \in {"none", "empty"}

Links(source) == {n \in Names : Tree[source][n] \in Commits}

\* Mutant: the commit of the gitlink is not compared.
BoundAnyhow(parent, m) ==
  \E i \in DOMAIN list : list[i].path = Append(parent.path, m.path) /\ list[i].repo = m.url

\* The submodule stands in the list with its path, its repository and the commit of the gitlink.
Bound(parent, m) ==
  \E i \in DOMAIN list :
    /\ list[i].path = Append(parent.path, m.path) /\ list[i].repo = m.url
    /\ list[i].ref = Tree[parent.repo, parent.ref][m.path]

\* Every gitlink is declared once, and what is declared is a gitlink.
SubmodulesMatch(parent) ==
  LET links == Links(<<parent.repo, parent.ref>>)
      modules == Modules[parent.repo, parent.ref]
  IN  links # {} =>
        /\ \A m \in modules : m.path \in links /\ Bound(parent, m)
        /\ \A n \in links : \E m \in modules : m.path = n
        /\ \A m1, m2 \in modules : m1.path = m2.path => m1 = m2

\* Mutant: what was fetched is not compared with what was asked for.
AnyCommit(commit, ref) == TRUE

\* git rev-parse HEAD: the name of a tag object is fetched as the commit that it names.
SameCommit(commit, ref) == commit = ref

\* What a checkout at "path" leaves there: the parents, the files, and an empty directory for
\* each gitlink.
Written(path, source) ==
  [p \in Paths |->
    IF p = path THEN "full"
    ELSE IF IsPrefix(p, path) THEN "full"
    ELSE IF p \in Under(path)
    THEN LET entry == Tree[source][Last(p)]
         IN  CASE entry \in Commits -> "empty" [] entry = "dir" -> "full" [] OTHER -> entry
    ELSE disk[p]]

Checkout ==
  /\ step = "sources" /\ todo # <<>>
  /\ LET c == Head(todo)
     IN  /\ Free(c.path) /\ MayAsk(c.repo)
         /\ \E commit \in Commits :
              /\ SameCommit(commit, c.ref)
              /\ disk' = Written(c.path, <<c.repo, commit>>)
              /\ from' = [from EXCEPT ![c.path] = <<c.repo, commit>>]
         /\ c.submodules => SubmodulesMatch(c)
  /\ todo' = Tail(todo)
  /\ UNCHANGED <<runtime, frozen, secrets, list, step, environment, cache, buildVars>>

\* The directory to build is one, inside the source; the control plane has confirmed the start.
StartBuild ==
  /\ step = "sources" /\ todo = <<>>
  /\ \E path \in Paths : disk[path] \in {"empty", "full"}
  /\ step' = IF runtime = "podman" THEN "phases" ELSE "pack"
  /\ UNCHANGED <<runtime, frozen, secrets, list, todo, environment, disk, from, cache, buildVars>>

-----------------------------------------------------------------------------
(* The build and its result.                                               *)

Phases == <<"analyzer", "detector", "restorer", "builder", "exporter">>
RunImages == {"approved", "other"}

\* The phases that talk to the registry run from the lifecycle image.
Registry(name) == name \in {"analyzer", "restorer", "exporter"}
Image(name) == IF Registry(name) THEN "lifecycle" ELSE "builder"

\* Mutant: the file is only read after the phase that writes it.
CheckedOnce(name, file) == name = "analyzer" => file = "approved"

\* validateBuildpacksAnalyzed, after each phase but the last: buildpacks can write the file too.
AnalyzedKept(name, file) == name # "exporter" => file = "approved"

\* The container of the next phase has run and exited.
RunPhase ==
  /\ step = "phases" /\ phase < Len(Phases)
  /\ LET name == Phases[phase + 1]
     IN  /\ given' = given \cup {Image(name)} \X
              (IF Registry(name) THEN secrets \cap {"REGISTRY_AUTH"} ELSE environment)
         /\ analyzed' \in
              (IF name = "analyzer" \/ Image(name) = "builder" THEN RunImages ELSE {analyzed})
         /\ AnalyzedKept(name, analyzed')
         /\ IF name = "exporter"
            THEN exported' = analyzed /\ tag' = "ours" /\ sbom' \in {"none", "files", "excessive"}
            ELSE UNCHANGED <<exported, tag, sbom>>
  /\ phase' = phase + 1
  /\ UNCHANGED <<runtime, frozen, secrets, list, step, todo, environment, disk, from, cache, result>>

\* All phases have exited: the bill of materials is checked and kept.
PhasesDone ==
  /\ step = "phases" /\ phase = Len(Phases) /\ sbom = "files"
  /\ step' = "verify"
  /\ UNCHANGED <<runtime, frozen, secrets, list, todo, environment, disk, from, cache, buildVars>>

\* pack publishes on the run image it is given, with credentials of its own, and fills the cache.
Pack ==
  /\ step = "pack"
  /\ exported' = "approved" /\ tag' = "ours"
  /\ given' = {"builder"} \X environment
  /\ sbom' \in {"none", "files", "excessive"}
  /\ cache' \in {cache} \cup {[cache EXCEPT ![v].size = @ + 1] : v \in Owned(cache)}
  /\ step' = "verify"
  /\ UNCHANGED <<runtime, frozen, secrets, list, todo, environment, disk, from, phase, analyzed, result>>

\* Somebody else pushes to the tag.
TagMoves ==
  /\ step \in {"pack", "phases", "verify"}
  /\ tag' = "theirs"
  /\ UNCHANGED <<runtime, frozen, secrets, list, step, todo, environment, disk, from, cache, phase, analyzed, given,
                 exported, sbom, result>>

\* Mutant: the digest is what stands under the tag.
TrustsTag == TRUE

\* verifyBuildpacksImage.
TagIsReported == tag = "ours"

\* buildpacksResult: the report and the registry agree, and the files are within their limits.
Verify ==
  /\ step = "verify" /\ TagIsReported /\ sbom = "files"
  /\ result' = tag
  /\ step' = "trim"
  /\ UNCHANGED <<runtime, frozen, secrets, list, todo, environment, disk, from, cache, phase, analyzed, given,
                 exported, sbom, tag>>

Next ==
  \/ Validate \/ TrimCache \/ TrimFails \/ Fails
  \/ MakeWorkspace \/ PrepareEnvironment \/ ListSources \/ Checkout \/ StartBuild
  \/ RunPhase \/ PhasesDone \/ Pack \/ TagMoves \/ Verify

Spec == Init /\ [][Next]_vars

-----------------------------------------------------------------------------
Building == step \in {"pack", "phases", "verify", "trim"}

\* What is built are the commits that the task names, unmixed: each stands where it was bound
\* to, and so does every submodule that a parent was asked to have.
SourcesAsBound ==
  Building =>
    \A i \in DOMAIN list :
      LET c == list[i] source == <<c.repo, c.ref>>
      IN  /\ from[c.path] = source
          /\ \A p \in Under(c.path) :
               Tree[source][Last(p)] \in {"file", "dir", "link"} =>
                 disk[p] = (IF Tree[source][Last(p)] = "dir" THEN "full" ELSE Tree[source][Last(p)])
          /\ c.submodules =>
               \A n \in Links(source) \cap {Last(p) : p \in Under(c.path)} :
                 from[Append(c.path, n)][2] = Tree[source][n]

\* What is published stands on the run image that the task was frozen with, the build's code never had
\* the secrets of the sources or of the registry, and what is reported is what this build published.
ImageAsApproved ==
  /\ exported # "none" => exported = "approved" /\ frozen = "configured"
  /\ given \cap ({"builder"} \X Withheld) = {}
  /\ result # "none" => result = "ours" /\ exported = "approved" /\ sbom = "files"

\* A build starts within the limit of the cache, and the volumes of others stay.
CacheKept ==
  /\ step \in {"workspace", "environment", "list", "sources"} /\ runtime = "pack" => Size(cache) <= CacheLimit
  /\ \A volumes \in Caches : DOMAIN volumes \ DOMAIN cache \subseteq CacheNames

=============================================================================
