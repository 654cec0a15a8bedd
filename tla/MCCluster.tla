------------------------------ MODULE MCCluster ------------------------------
(***************************************************************************)
(* The requests to a cluster.  Its parts share no state, so that one run   *)
(* checks them side by side: a behaviour exercises the part that "part"    *)
(* names, and the others stand still.                                      *)
(***************************************************************************)
EXTENDS ClusterWrites, Sequences, FiniteSets, TLC

CONSTANTS
  a, b,
  NDocs, ObjectNames, Versions, MaxOther,  \* of DocumentTasks
  Charts, MaxRev,                    \* of HelmReleases
  InfKinds, MaxSeen, Buffer,         \* of ClusterReads
  NPods, DefaultTail, Times, Long, MaxEntries, MaxSources, Budget, LogWorkers   \* of PodLogs

ASSUME DocumentsAssumption == NDocs \in Nat \ {0}
ASSUME HelmAssumption == MaxRev \in Nat
ASSUME ReadsAssumption == Buffer \in Nat \ {0} /\ MaxSeen \in Nat
ASSUME LogsAssumption ==
  /\ NPods \in Nat /\ DefaultTail \in Nat /\ MaxEntries \in Nat /\ MaxSources \in Nat /\ Budget \in Nat
  /\ Times \subseteq Nat /\ IsFiniteSet(Times) /\ \E last \in Times : \A t \in Times : t <= last

Two == {a, b}
AllKinds ==
  {"workload", "labels", "node", "switch", "data", "rollback", "edit", "edit observed",
   "delete", "delete observed", "delete pod", "delete observed pod", "create"}
Symmetry == Permutations(Callers)

VARIABLES
  part,
  live, task, at, dry, item, inv, diag, error, wrote, others, disturbed,
  release, call,
  truth, store, told, healthy, failedAt, stopped, publishing, buf, lost, overlapped, list,
  pods, query, todo, reading, results, contents, page

docVars == <<live, task, at, dry, item, inv, diag, error, wrote, others, disturbed>>
helmVars == <<release, call>>
readVars == <<truth, store, told, healthy, failedAt, stopped, publishing, buf, lost, overlapped, list>>
logVars == <<pods, query, todo, reading, results, contents, page>>

DocumentTasks == INSTANCE DocumentTasks WITH Docs <- 1..NDocs, Names <- ObjectNames
HelmReleases == INSTANCE HelmReleases WITH Requests <- Callers
ClusterReads == INSTANCE ClusterReads
PodLogs == INSTANCE PodLogs

MCInit ==
  /\ part \in {"writes", "documents", "helm", "reads", "logs"}
  /\ Init /\ HelmReleases!Init /\ ClusterReads!Init
  /\ IF part = "documents" THEN DocumentTasks!Init
     ELSE live = <<>> /\ task = <<>> /\ at = <<>> /\ dry = <<>> /\ item = <<>> /\ inv = {}
          /\ diag = {} /\ error = FALSE /\ wrote = {} /\ others = 0 /\ disturbed = FALSE
  /\ IF part = "logs" THEN PodLogs!Init
     ELSE pods = <<>> /\ query = <<>> /\ todo = <<>> /\ reading = {} /\ results = <<>>
          /\ contents = <<>> /\ page = <<>>

MCNext ==
  /\ UNCHANGED part
  /\ \/ part = "writes" /\ Next /\ UNCHANGED <<docVars, helmVars, readVars, logVars>>
     \/ part = "documents" /\ DocumentTasks!Next /\ UNCHANGED <<vars, helmVars, readVars, logVars>>
     \/ part = "helm" /\ HelmReleases!Next /\ UNCHANGED <<vars, docVars, readVars, logVars>>
     \/ part = "reads" /\ ClusterReads!Next /\ UNCHANGED <<vars, docVars, helmVars, logVars>>
     \/ part = "logs" /\ PodLogs!Next /\ UNCHANGED <<vars, docVars, helmVars, readVars>>

MCSpec == MCInit /\ [][MCNext]_<<part, vars, docVars, helmVars, readVars, logVars>>

-----------------------------------------------------------------------------
\* A creation and a manifest task report what they did, stop halfway only when they were
\* disturbed, and leave nothing out of the inventory unsaid (DocumentTasks).
DocumentsReported ==
  part = "documents" =>
    /\ DocumentTasks!ReportIsTrue
    /\ DocumentTasks!PartialOnlyIfDisturbed
    /\ DocumentTasks!InventoryComplete

\* An install is answered only with what is deployed, unless its own revision was taken away;
\* values change in the revision that was read, never under a delivery, and a delivery's release is
\* rolled back or deleted only if it became one after the request had looked (HelmReleases).
ReleasesGuarded ==
  HelmReleases!InstallIsTrue /\ HelmReleases!ValuesGuarded /\ HelmReleases!DeliveriesKept

\* A list is no older than the failure of its informer's watch, and a subscriber that lost
\* events is told (ClusterReads).  A page of logs has the first entries of all that was read,
\* and one that is not marked has all that matches of the last lines of every source (PodLogs).
ReadsAreTrue ==
  /\ ClusterReads!ListsAreTrue /\ ClusterReads!LossIsAnnounced
  /\ part = "logs" => PodLogs!PageIsTheFirst /\ PodLogs!CompleteUnlessMarked

=============================================================================
