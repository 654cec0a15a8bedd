--------------------------- MODULE TaskWorkspaces ---------------------------
(***************************************************************************)
(* A workspace that execution tasks share, one after the other or at the   *)
(* same time: nothing removes it.  Tasks that name the same path share it, *)
(* and so do all that name none, of whatever application: the text of a    *)
(* missing value is "<nil>", which is not empty, so that neither the       *)
(* application's name nor the task's is ever taken.  A task clones the     *)
(* repository or fetches into the clone that it finds, checks out what it  *)
(* was asked for, lists the files that it will report, and runs its        *)
(* commands.                                                               *)
(*                                                                         *)
(* Git is outside: a clone that fails is removed, one that is killed stays *)
(* as it is.  What the commands write is not under version control, so     *)
(* that no checkout removes it.                                            *)
(***************************************************************************)
EXTENDS Naturals

CONSTANTS
  Tasks, Urls, Branches,
  Default,      \* the branch that a clone checks out
  Specs,        \* [url, ref, dir, publishes]: url, ref and dir may be given as none, or not
                \* be given at all (a dir), which is a name; ref is a branch or a commit
  MaxPushes     \* bound: commits pushed to the repositories

None == 0
Commits == 1..(MaxPushes + 1)

VARIABLES
  spec,      \* what each task was asked for
  pc,        \* queued, cloning, fetch, checkout, list, run, publish, finish; over or completed
  remote,    \* remote[url][branch]: the commit there, or none
  pushes,    \* commits made
  repo,      \* the clone: present, its origin, tracking and local branches, known commits
  head,      \* what is checked out
  used,      \* something stands in the workspace beside the clone
  file,      \* whose digest .soha-image-digest holds
  listed,    \* what each task found in the file's place when it listed its artifacts
  report,    \* the digest that a completed task reports, by who wrote it
  saw,       \* the commits that a task's commands ran on
  asked,     \* history: what stood under the task's branch when it fetched
  mixed      \* history: tasks during which another one was at work

clone == <<repo, head, used, file>>
history == <<saw, asked, mixed>>
vars == <<spec, pc, remote, pushes, clone, listed, report, history>>

Nowhere == [b \in Branches |-> None]
NoRepo == [present |-> FALSE, origin |-> "none", tracking |-> Nowhere, local |-> Nowhere, known |-> {}]

Init ==
  /\ spec \in [Tasks -> Specs]
  /\ pc = [t \in Tasks |-> "queued"]
  /\ remote = [u \in Urls |-> [b \in Branches |-> 1]] /\ pushes = 1
  /\ repo = NoRepo /\ head = None /\ used = FALSE /\ file = "none"
  /\ listed = [t \in Tasks |-> "none"] /\ report = listed
  /\ saw = [t \in Tasks |-> {}] /\ asked = [t \in Tasks |-> None] /\ mixed = {}

Goto(t, l) == pc' = [pc EXCEPT ![t] = l]
Ended == {"over", "completed"}
AtWork == {t \in Tasks : pc[t] \notin {"queued"} \cup Ended}

-----------------------------------------------------------------------------
(* prepareWorkspace and ensureCheckout.                                    *)

\* A directory that is not a clone and not empty cannot be cloned into; git says so.
Start(t) ==
  /\ pc[t] = "queued"
  /\ mixed' = IF AtWork = {} THEN mixed ELSE mixed \cup AtWork \cup {t}
  /\ \/ spec[t].url = "none" /\ Goto(t, "list") /\ UNCHANGED repo
     \/ spec[t].url # "none" /\ repo.present /\ Goto(t, "fetch") /\ UNCHANGED repo
     \/ /\ spec[t].url # "none" /\ ~repo.present
        /\ IF used THEN Goto(t, "over") /\ UNCHANGED repo
           ELSE Goto(t, "cloning") /\ repo' = [NoRepo EXCEPT !.present = TRUE, !.origin = spec[t].url]
  /\ UNCHANGED <<spec, remote, pushes, head, used, file, listed, report, saw, asked>>

Seen(origin) == {remote[origin][b] : b \in Branches} \ {None}

CloneEnds(t) ==
  /\ pc[t] = "cloning"
  /\ \/ /\ repo' = [repo EXCEPT !.tracking = remote[repo.origin], !.known = @ \cup Seen(repo.origin),
                      !.local = [Nowhere EXCEPT ![Default] = remote[repo.origin][Default]]]
        /\ head' = remote[repo.origin][Default]
        /\ Goto(t, "fetch") /\ UNCHANGED <<used, file>>
     \/ repo' = NoRepo /\ head' = None /\ used' = FALSE /\ file' = "none" /\ Goto(t, "over")
  /\ UNCHANGED <<spec, remote, pushes, listed, report, history>>

\* Mutant: a clone that is there is not fetched into.
FetchesNothing == UNCHANGED repo

\* git fetch --all --tags --prune, from the origin that the clone has.
Fetches ==
  IF repo.origin = "none" THEN UNCHANGED repo
  ELSE repo' = [repo EXCEPT !.tracking = remote[repo.origin], !.known = @ \cup Seen(repo.origin)]

Fetch(t) ==
  /\ pc[t] = "fetch" /\ repo.present
  /\ Fetches
  /\ asked' = [asked EXCEPT ![t] = IF spec[t].ref \in Branches THEN remote[spec[t].url][spec[t].ref]
                                   ELSE None]
  /\ Goto(t, IF spec[t].ref = "none" THEN "list" ELSE "checkout")
  /\ UNCHANGED <<spec, remote, pushes, head, used, file, listed, report, saw, mixed>>

\* Mutant: a branch that is there is checked out as it stands.
LocalFirst(b) == IF repo.local[b] # None THEN repo.local[b] ELSE repo.tracking[b]

\* git checkout -B: the local branch is moved to where the origin's is.  If the origin has none,
\* the local branch that an earlier task left is taken.
Tip(b) == IF repo.tracking[b] # None THEN repo.tracking[b] ELSE repo.local[b]

Checkout(t) ==
  /\ pc[t] = "checkout" /\ repo.present
  /\ \/ \E b \in Branches :
          /\ spec[t].ref = b /\ Tip(b) # None
          /\ head' = Tip(b) /\ repo' = [repo EXCEPT !.local[b] = Tip(b)]
     \/ /\ spec[t].ref = "commit" /\ 1 \in repo.known
        /\ head' = 1 /\ UNCHANGED repo
  /\ Goto(t, "list")
  /\ UNCHANGED <<spec, remote, pushes, used, file, listed, report, history>>

\* The directory of the commands must be there: the one that was not given is called "<nil>".
\* collectWorkspaceArtifacts is called here, before any command.
List(t) ==
  /\ pc[t] = "list" /\ spec[t].dir = "none"
  /\ listed' = [listed EXCEPT ![t] = file]
  /\ Goto(t, "run")
  /\ UNCHANGED <<spec, remote, pushes, clone, report, history>>

-----------------------------------------------------------------------------
(* The commands and the report.                                            *)

Run(t) ==
  /\ pc[t] = "run"
  /\ saw' = [saw EXCEPT ![t] = @ \cup {head}] /\ used' = TRUE
  /\ Goto(t, IF spec[t].publishes THEN "publish" ELSE "finish")
  /\ UNCHANGED <<spec, remote, pushes, repo, head, file, listed, report, asked, mixed>>

\* The command that writes the digest of the image.
Publish(t) ==
  /\ pc[t] = "publish"
  /\ saw' = [saw EXCEPT ![t] = @ \cup {head}] /\ file' = t
  /\ Goto(t, "finish")
  /\ UNCHANGED <<spec, remote, pushes, repo, head, used, listed, report, asked, mixed>>

\* Mutant: the file is read when it is listed.
ReadWhenListed(t) == listed[t]

\* imageDigestFromWorkspaceArtifacts: the list decides, and the file is read now.
Digest(t) == IF listed[t] = "none" THEN "none" ELSE file

Finish(t) ==
  /\ pc[t] = "finish"
  /\ report' = [report EXCEPT ![t] = Digest(t)]
  /\ Goto(t, "completed")
  /\ UNCHANGED <<spec, remote, pushes, clone, listed, history>>

\* A command fails, or the task is stopped; a clone that is killed stays where it is, and may
\* not have its origin yet.
Fails(t) ==
  /\ t \in AtWork
  /\ \/ UNCHANGED repo
     \/ pc[t] = "cloning" /\ repo' = [repo EXCEPT !.origin = "none"]
  /\ Goto(t, "over")
  /\ UNCHANGED <<spec, remote, pushes, head, used, file, listed, report, history>>

\* Somebody pushes to a branch, or deletes it.
Push(u, b) ==
  /\ pushes <= MaxPushes
  /\ pushes' = pushes + 1
  /\ \E c \in {None, pushes + 1} : remote' = [remote EXCEPT ![u][b] = c]
  /\ UNCHANGED <<spec, pc, clone, listed, report, history>>

Next ==
  \/ \E t \in Tasks :
       \/ Start(t) \/ CloneEnds(t) \/ Fetch(t) \/ Checkout(t) \/ List(t)
       \/ Run(t) \/ Publish(t) \/ Finish(t) \/ Fails(t)
  \/ \E u \in Urls, b \in Branches : Push(u, b)

Spec == Init /\ [][Next]_vars

-----------------------------------------------------------------------------
\* A task that had the workspace to itself runs on what its branch was when it fetched, whatever
\* earlier tasks left there; the exceptions are a clone of another repository and a branch that
\* the origin does not have any more.
RunsWhatWasFetched ==
  \A t \in Tasks \ mixed :
    asked[t] # None /\ repo.origin = spec[t].url /\ t \in AtWork => saw[t] \subseteq {asked[t]}

\* The digest that such a task reports is its own, if it wrote one.
ReportsOwnDigest ==
  \A t \in Tasks \ mixed : spec[t].publishes => report[t] \in {"none", t}

\* A task that wrote a digest and completed reports one ("docker image inspect app:v1 >
\* .soha-image-digest" is the publish stage of a task, says its test).
DigestReported ==
  \A t \in Tasks \ mixed : pc[t] = "completed" /\ spec[t].publishes => report[t] # "none"

=============================================================================
