---------------------------- MODULE DocumentTasks ----------------------------
(***************************************************************************)
(* A request that carries several documents: the creation of resources,    *)
(* after a dry run of all of them, and the manifest tasks that dry-run,    *)
(* apply or observe rendered documents, or hand one to a GitOps            *)
(* application.                                                            *)
(*                                                                         *)
(* The cluster is one object per name.  Others create, change and delete   *)
(* objects while the request is being served; a call may be refused, or    *)
(* take effect and lose its answer.                                        *)
(***************************************************************************)
EXTENDS Naturals, FiniteSets

CONSTANTS
  Docs,       \* the documents of a request, in their order: 1 .. n
  Names,      \* names of objects
  Versions,   \* API versions, or spellings, under which a reference may name an object
  MaxOther    \* steps of others that are considered

VARIABLES
  live,    \* the object of each name: absent, of others, or as a document wants it
  task,    \* the request: its action, the object each document is for and the version it is named
           \* under, the documents that are invalid
  at,      \* where it stands: the phase, and the document that is next
  dry,     \* the dry run of each document
  item,    \* creation: the result of each document
  inv,     \* manifest: documents in the inventory of the result
  diag,    \* manifest: documents with a diagnostic
  error,   \* manifest: it ends with an error, its own or that of its context
  wrote,   \* documents that were written
  others,  \* steps of others
  disturbed  \* the cluster refused or lost a call, or someone else wrote

vars == <<live, task, at, dry, item, inv, diag, error, wrote, others, disturbed>>

Last == Cardinality(Docs)
Creations == {"create preflight", "create"}
Manifests == {"preflight", "apply", "observe"}
GitOps == {"gitops preflight", "gitops apply", "gitops observe"}

Init ==
  /\ live \in [Names -> {"absent", "other"}]
  /\ task \in [action : Creations \cup Manifests \cup GitOps, name : [Docs -> Names],
               version : [Docs -> Versions], invalid : SUBSET Docs]
  /\ task.version[1] = CHOOSE v \in Versions : TRUE  \* only which of them are equal matters
  /\ task.action \notin Creations => \A d \in Docs : task.version[d] = task.version[1]
  /\ at = [phase |-> "prepare", doc |-> 1]
  /\ dry = [d \in Docs |-> "skipped"]
  /\ item = [d \in Docs |-> "none"]
  /\ inv = {} /\ diag = {} /\ error = FALSE /\ wrote = {}
  /\ others = 0 /\ disturbed = FALSE

Object(d) == live[task.name[d]]
Goto(phase, d) == at' = [phase |-> phase, doc |-> d]
NextDoc(phase, end) == IF at.doc = Last THEN Goto(end, 1) ELSE Goto(phase, at.doc + 1)

-----------------------------------------------------------------------------
(* Creation.                                                               *)

\* Mutant: a name that occurs twice is left to the cluster.
RefusedIfInvalid(d) == d \in task.invalid

\* A document whose content is not what its envelope says, or whose reference reads as that of an
\* earlier one.  The same object under another version of its API is not recognised.
Refused(d) ==
  \/ d \in task.invalid
  \/ \E e \in Docs \ task.invalid :
       e < d /\ task.name[e] = task.name[d] /\ task.version[e] = task.version[d]

\* The discovery of the cluster's resources may fail: no document is prepared then.
Prepare ==
  /\ at.phase = "prepare" /\ task.action \in Creations
  /\ \/ dry' = [d \in Docs |-> IF Refused(d) THEN "failed" ELSE "skipped"]
        /\ UNCHANGED disturbed
     \/ dry' = [d \in Docs |-> "failed"] /\ disturbed' = TRUE
  /\ Goto("dry run", 1)
  /\ UNCHANGED <<live, task, item, inv, diag, error, wrote, others>>

\* Every document gets its dry run, also after another one's failed.
DryRun ==
  /\ at.phase = "dry run" /\ task.action \in Creations
  /\ IF dry[at.doc] = "failed"
     THEN UNCHANGED <<dry, disturbed>>
     ELSE \/ /\ dry' = [dry EXCEPT ![at.doc] = IF Object(at.doc) = "absent" THEN "passed" ELSE "failed"]
             /\ UNCHANGED disturbed
          \/ dry' = [dry EXCEPT ![at.doc] = "failed"] /\ disturbed' = TRUE
  /\ NextDoc("dry run", "dry done")
  /\ UNCHANGED <<live, task, item, inv, diag, error, wrote, others>>

\* Mutant: the dry run of the last document decides.
LastPassed == dry[Last] = "passed"

Ready == \A d \in Docs : dry[d] = "passed"

\* The result before anything is created; it is the answer unless all documents are ready.
Preflighted ==
  /\ at.phase = "dry done"
  /\ item' = [d \in Docs |-> IF dry[d] = "failed" THEN "failed" ELSE "not started"]
  /\ IF task.action = "create" /\ Ready THEN Goto("create", 1) ELSE Goto("done", 1)
  /\ UNCHANGED <<live, task, dry, inv, diag, error, wrote, others, disturbed>>

Put(d) ==
  /\ live' = [live EXCEPT ![task.name[d]] = "desired"]
  /\ wrote' = wrote \cup {d}

Created ==
  /\ at.phase = "create" /\ Object(at.doc) = "absent"
  /\ Put(at.doc)
  /\ item' = [item EXCEPT ![at.doc] = "succeeded"]
  /\ NextDoc("create", "done")
  /\ UNCHANGED <<task, dry, inv, diag, error, others, disturbed>>

\* Mutant: the result stays what the dry run left.
LeavesResult == UNCHANGED item

SetFailed == item' = [item EXCEPT ![at.doc] = "failed"]

\* The name is taken, the cluster refuses, or its answer is lost: the rest is not started.
CreateFails ==
  /\ at.phase = "create"
  /\ \/ Object(at.doc) # "absent" /\ UNCHANGED <<live, wrote, disturbed>>
     \/ disturbed' = TRUE /\ UNCHANGED <<live, wrote>>
     \/ disturbed' = TRUE /\ Object(at.doc) = "absent" /\ Put(at.doc)
  /\ SetFailed
  /\ Goto("done", 1)
  /\ UNCHANGED <<task, dry, inv, diag, error, others>>

BatchStatus ==
  LET succeeded == {d \in Docs : item[d] = "succeeded"}
  IN CASE succeeded = Docs -> "succeeded" [] succeeded = {} -> "failed" [] OTHER -> "partial"

-----------------------------------------------------------------------------
(* Manifest tasks: every document is tried, whatever became of the others.  *)

Diagnosed == diag' = diag \cup {at.doc} /\ UNCHANGED inv
Inventoried == inv' = inv \cup {at.doc} /\ UNCHANGED diag

\* The diagnostics are the error of all but a dry run, whose answer they are.
Fails == error' = (task.action # "preflight" /\ diag' # {})

\* The discovery of the cluster's resources may fail.
Begin ==
  /\ at.phase = "prepare" /\ task.action \in Manifests
  /\ \/ Goto("each", 1) /\ UNCHANGED error
     \/ Goto("done", 1) /\ error' = TRUE
  /\ UNCHANGED <<live, task, dry, item, inv, diag, wrote, others, disturbed>>

\* A dry run tells what would be refused, and leaves no inventory.
PatchDryRun ==
  /\ at.phase = "each" /\ task.action = "preflight"
  /\ \/ at.doc \notin task.invalid /\ UNCHANGED <<inv, diag>>
     \/ Diagnosed
  /\ Fails
  /\ NextDoc("each", "done")
  /\ UNCHANGED <<live, task, dry, item, wrote, others, disturbed>>

\* The document is applied; or it is invalid or refused, or the answer is lost.
PatchDocument ==
  /\ at.phase = "each" /\ task.action = "apply"
  /\ \/ at.doc \notin task.invalid /\ Put(at.doc) /\ (Inventoried \/ Diagnosed)
     \/ Diagnosed /\ UNCHANGED <<live, wrote>>
  /\ Fails
  /\ NextDoc("each", "done")
  /\ UNCHANGED <<task, dry, item, others, disturbed>>

\* Mutant: a document that cannot be read is passed over.
PassedOver == UNCHANGED <<inv, diag>>

Unobserved == Diagnosed

\* The live object is read and compared; its health may be unavailable.
Observe ==
  /\ at.phase = "each" /\ task.action = "observe"
  /\ \/ /\ at.doc \notin task.invalid /\ Object(at.doc) # "absent"
        /\ inv' = inv \cup {at.doc}
        /\ diag' = diag \/ diag' = diag \cup {at.doc}
     \/ Unobserved
  /\ Fails
  /\ NextDoc("each", "done")
  /\ UNCHANGED <<live, task, dry, item, wrote, others, disturbed>>

\* A GitOps task is one valid application; its other documents are the application's.
OneApplication == task.invalid = {}

\* What cannot be prepared, or needs a discovery that fails, is an error without a diagnostic; a dry
\* run has its diagnostic as its answer, and no error.
GitOpsEarly ==
  /\ at.phase = "prepare" /\ task.action \in GitOps
  /\ \/ error' = TRUE /\ UNCHANGED diag
     \/ OneApplication /\ task.action = "gitops preflight" /\ diag' \in {{}, {1}} /\ UNCHANGED error
  /\ Goto("done", 1)
  /\ UNCHANGED <<live, task, dry, item, inv, wrote, others, disturbed>>

\* The application alone is written or read, which may fail and still show what is there; the tool
\* behind it makes the resources, which are listed as they are observed.  Without an application,
\* and when the context is over, nothing is listed: the context's end is then the runner's error.
ExecuteGitOps ==
  /\ at.phase = "prepare" /\ task.action \in {"gitops apply", "gitops observe"} /\ OneApplication
  /\ (task.action = "gitops apply" /\ Put(1)) \/ UNCHANGED <<live, wrote>>
  /\ \E failed, found, over, unobserved \in BOOLEAN :
       /\ ~failed => found
       /\ found => live'[task.name[1]] # "absent" /\ ~(failed /\ task.action = "gitops observe")
       /\ IF found /\ ~over
          THEN \E seen \in SUBSET {d \in Docs \ {1} : Object(d) # "absent"} : inv' = {1} \cup seen
          ELSE ~unobserved /\ UNCHANGED inv
       /\ diag' = IF failed \/ unobserved THEN {1} ELSE {}
       /\ error' = (failed \/ over \/ unobserved)
  /\ Goto("done", 1)
  /\ UNCHANGED <<task, dry, item, others, disturbed>>

-----------------------------------------------------------------------------
OthersWrite ==
  /\ others < MaxOther /\ at.phase # "done"
  /\ \E n \in Names, o \in {"absent", "other"} : live[n] # o /\ live' = [live EXCEPT ![n] = o]
  /\ others' = others + 1 /\ disturbed' = TRUE
  /\ UNCHANGED <<task, at, dry, item, inv, diag, error, wrote>>

Next ==
  \/ Prepare \/ DryRun \/ Preflighted \/ Created \/ CreateFails
  \/ Begin \/ PatchDryRun \/ PatchDocument \/ Observe \/ GitOpsEarly \/ ExecuteGitOps
  \/ OthersWrite

Spec == Init /\ [][Next]_vars

-----------------------------------------------------------------------------
Done == at.phase = "done"

\* Nothing is created unless the dry run of every document passed
\* (TestCreateResourcesPreflightsAllDocumentsBeforeWriting), and the result says what was
\* done: what succeeded was created, what was not started was not touched, and of the
\* failed documents at most one was created, when its answer was lost.
ReportIsTrue ==
  /\ task.action \in Creations /\ wrote # {} => task.action = "create" /\ \A d \in Docs : dry[d] = "passed"
  /\ Done /\ task.action \in Creations =>
       /\ \A d \in Docs : item[d] = "succeeded" => d \in wrote
       /\ \A d \in Docs : item[d] = "not started" => d \notin wrote
       /\ Cardinality({d \in wrote : item[d] = "failed"}) <= 1

\* Two documents are one object to the cluster, and two to the request.
Twice ==
  \E d, e \in Docs : task.name[d] = task.name[e] /\ task.version[d] # task.version[e]

\* A batch stops halfway only when the cluster refused something it had let through, someone else
\* wrote, or two of its documents are one object under two versions, which the check for duplicates
\* does not recognise: any other request, checked as a whole, is created as a whole.
PartialOnlyIfDisturbed ==
  Done /\ task.action = "create" /\ (\A d \in Docs : dry[d] = "passed") =>
    BatchStatus = "succeeded" \/ disturbed \/ Twice

\* A manifest task that ends without an error has every document in its inventory, or its
\* application, and what it applied was written
\* (TestExecuteManifestTaskObserveFailsWhenResourceIsUnavailable).
InventoryComplete ==
  /\ Done /\ ~error /\ task.action \in {"apply", "observe"} => inv = Docs
  /\ Done /\ ~error /\ task.action \in {"gitops apply", "gitops observe"} => 1 \in inv
  /\ task.action = "apply" => inv \subseteq wrote
  /\ task.action \in {"preflight", "observe", "gitops preflight", "gitops observe"} => wrote = {}
  /\ task.action = "gitops apply" => wrote \subseteq {1}

=============================================================================
