---------------------------- MODULE ClusterWrites ----------------------------
(***************************************************************************)
(* The mutations that the agent's HTTP API makes on the objects of a       *)
(* cluster: read, check the owner, change, write.                          *)
(*                                                                         *)
(* One object and the requests that change it, among the other writers of  *)
(* a cluster: controllers and people, a delivery tool that takes it over,  *)
(* someone who deletes it and creates another of that name.  What the API  *)
(* server and the shared contracts library do is taken from how the code   *)
(* and its tests use them: a write carries the identity and version that   *)
(* were read, and the server refuses it when they are not the current ones.*)
(***************************************************************************)
EXTENDS Naturals

CONSTANTS
  Callers,     \* requests in progress
  Kinds,       \* what they may ask for
  MaxUid,      \* objects that ever have the name
  MaxVersion   \* writes

ASSUME ClusterWritesAssumption ==
  /\ Kinds \subseteq {"workload", "labels", "node", "switch", "data", "rollback", "edit",
                      "edit observed", "delete", "delete observed", "delete pod",
                      "delete observed pod", "create"}
  /\ MaxUid \in Nat \ {0} /\ MaxVersion \in Nat \ {0}

VARIABLES
  obj,    \* the object: who wrote each of its fields last, and whether a delivery tool owns it
  req,    \* the requests
  uids    \* identities that were given out

vars == <<obj, req, uids>>

None == "none"
Other == "other"
Fields == {"spec", "taints", "meta"}
Observed == {"edit observed", "delete observed", "delete observed pod"}
Pods == {"delete pod", "delete observed pod"}

Absent == [uid |-> 0, version |-> 0, owned |-> FALSE, by |-> [f \in Fields |-> None]]
Exists == obj.uid # 0

Unseen == [uid |-> 0, version |-> 0]
Idle == [pc |-> "idle", kind |-> None, seen |-> Unseen, copy |-> Absent]

Init ==
  /\ obj = [uid |-> 1, version |-> 1, owned |-> FALSE, by |-> [f \in Fields |-> Other]]
  /\ req = [c \in Callers |-> Idle]
  /\ uids = 1

Goto(c, pc) == req' = [req EXCEPT ![c].pc = pc]
Answer(c) == req' = [req EXCEPT ![c] = Idle]

-----------------------------------------------------------------------------
(* A request.  One that is about an object the caller saw carries the      *)
(* identity and the version that it had then.                              *)

Ask(c, kind) ==
  /\ req[c].pc = "idle"
  /\ req' = [req EXCEPT ![c] =
       [pc |-> IF kind = "create" THEN "write" ELSE "get", kind |-> kind, copy |-> Absent,
        seen |-> IF kind \in Observed THEN [uid |-> obj.uid, version |-> obj.version] ELSE Unseen]]
  /\ UNCHANGED <<obj, uids>>

\* The deadline of five seconds, or an error of the server, before the write.
Fails(c) ==
  /\ req[c].pc \in {"get", "list", "write"}
  /\ Answer(c)
  /\ UNCHANGED <<obj, uids>>

\* ValidateDirectManifestOwner: what a delivery tool owns is not edited.  A Pod may be
\* deleted whoever owns it, observed or not: its controller makes another.
MayChange(c) == req[c].kind \in Pods \/ ~obj.owned

\* Mutant: an observed request is held to the object that was just read.
BoundToCurrent(c) == TRUE

\* An edit of an observed object names its identity and version, a deletion its identity.
IsWhatWasSeen(c) ==
  /\ req[c].kind \in Observed => obj.uid = req[c].seen.uid
  /\ req[c].kind = "edit observed" => obj.version = req[c].seen.version

Get(c) ==
  /\ req[c].pc = "get"
  /\ IF Exists /\ MayChange(c) /\ IsWhatWasSeen(c)
     THEN req' = [req EXCEPT ![c].pc = IF req[c].kind = "rollback" THEN "list" ELSE "write",
                             ![c].copy = obj]
     ELSE Answer(c)
  /\ UNCHANGED <<obj, uids>>

\* RollbackDeployment: the replica set that the identity just read owns gives the template.
ListRevisions(c) ==
  /\ req[c].pc = "list"
  /\ Goto(c, "write") \/ Answer(c)
  /\ UNCHANGED <<obj, uids>>

\* Mutant: the version is cleared before the write, as CreateCustomResourceYAML does.
Unfenced(c) == Exists

\* The write carries the identity and the version that were read.
Fenced(c) == obj.uid = req[c].copy.uid /\ obj.version = req[c].copy.version

\* The object that was read, with the fields changed, is written whole; or the server
\* refuses, and the caller is told of a conflict.
WriteBack(c, fields) ==
  /\ IF Fenced(c) /\ obj.version < MaxVersion
     THEN obj' = [req[c].copy EXCEPT !.version = obj.version + 1,
                    !.by = [f \in Fields |-> IF f \in fields THEN c ELSE @[f]]]
     ELSE UNCHANGED obj
  /\ Answer(c)
  /\ UNCHANGED uids

Asked(c, kind) == req[c].pc = "write" /\ req[c].kind = kind

\* A workload is scaled or restarted, or gets another image.
UpdateWorkload(c) == Asked(c, "workload") /\ WriteBack(c, {"spec"})

\* The labels and annotations of a namespace.
UpdateLabels(c) == Asked(c, "labels") /\ WriteBack(c, {"meta"})

\* The labels of a node, and all of its taints; a taint that is not valid ends the request.
UpdateNode(c) == Asked(c, "node") /\ WriteBack(c, {"meta", "taints"})

\* A node is cordoned, a cron job suspended, or the opposite.
Switch(c) == Asked(c, "switch") /\ WriteBack(c, {"spec"})

\* The data of a config map or a secret; one that is immutable stays as it is.
UpdateData(c) ==
  /\ Asked(c, "data")
  /\ WriteBack(c, {"spec"}) \/ (Answer(c) /\ UNCHANGED <<obj, uids>>)

\* The template of the revision replaces that of the deployment.
Rollback(c) == Asked(c, "rollback") /\ WriteBack(c, {"spec"})

\* ApplyResourceEdit: the fields of the edit, applied by the server without force; a dry
\* run, or a field that another manager owns, changes nothing.
ApplyEdit(c) ==
  /\ Asked(c, "edit") \/ Asked(c, "edit observed")
  /\ \/ /\ Fenced(c) /\ obj.version < MaxVersion
        /\ obj' = [obj EXCEPT !.version = @ + 1,
                     !.by = [f \in Fields |-> c]]
     \/ UNCHANGED obj
  /\ Answer(c)
  /\ UNCHANGED uids

Delete(c) ==
  /\ \E kind \in Pods \cup {"delete", "delete observed"} : Asked(c, kind)
  /\ obj' = IF Fenced(c) THEN Absent ELSE obj
  /\ Answer(c)
  /\ UNCHANGED uids

\* A new object, unless the name is taken or the input claims a delivery tool's ownership.
Create(c) ==
  /\ Asked(c, "create")
  /\ IF ~Exists /\ uids < MaxUid
     THEN /\ uids' = uids + 1
          /\ obj' = [uid |-> uids', version |-> 1, owned |-> FALSE, by |-> [f \in Fields |-> c]]
     ELSE UNCHANGED <<obj, uids>>
  /\ Answer(c)

-----------------------------------------------------------------------------
(* The others.                                                             *)

OtherWrites ==
  /\ Exists /\ obj.version < MaxVersion
  /\ \E field \in Fields : obj' = [obj EXCEPT !.version = @ + 1, !.by[field] = Other]
  /\ UNCHANGED <<req, uids>>

OwnerChanges ==
  /\ Exists /\ obj.version < MaxVersion
  /\ obj' = [obj EXCEPT !.version = @ + 1, !.owned = ~@]
  /\ UNCHANGED <<req, uids>>

OtherDeletes ==
  /\ Exists
  /\ obj' = Absent
  /\ UNCHANGED <<req, uids>>

OtherCreates ==
  /\ ~Exists /\ uids < MaxUid
  /\ uids' = uids + 1
  /\ \E owned \in BOOLEAN :
       obj' = [uid |-> uids', version |-> 1, owned |-> owned, by |-> [f \in Fields |-> Other]]
  /\ UNCHANGED req

CallerStep(c) ==
  \/ Get(c) \/ ListRevisions(c) \/ Fails(c)
  \/ UpdateWorkload(c) \/ UpdateLabels(c) \/ UpdateNode(c) \/ Switch(c) \/ UpdateData(c)
  \/ Rollback(c) \/ ApplyEdit(c) \/ Delete(c) \/ Create(c)

Next ==
  \/ \E c \in Callers : CallerStep(c) \/ \E kind \in Kinds : Ask(c, kind)
  \/ OtherWrites \/ OwnerChanges \/ OtherDeletes \/ OtherCreates

Spec == Init /\ [][Next]_vars

-----------------------------------------------------------------------------
Objects ==
  [uid : 0..MaxUid, version : 0..MaxVersion, owned : BOOLEAN,
   by : [Fields -> Callers \cup {None, Other}]]

\* The types.
TypeOK ==
  /\ obj \in Objects
  /\ req \in [Callers -> [pc : {"idle", "get", "list", "write"}, kind : Kinds \cup {None},
                          seen : [uid : 0..MaxUid, version : 0..MaxVersion], copy : Objects]]
  /\ uids \in 1..MaxUid

\* What a request is to change.
Changes(c) ==
  CASE req[c].kind \in {"edit", "edit observed"} -> Fields
    [] req[c].kind = "labels" -> {"meta"}
    [] req[c].kind = "node" -> {"meta", "taints"}
    [] OTHER -> {"spec"}

\* A request writes the object in this step.
Writes(c) == req[c].pc = "write" /\ req'[c].pc = "idle" /\ obj' # obj

\* Nothing that a delivery tool owns at the moment of the write is changed or deleted, also
\* when it was taken over after it was checked ("externally managed or being deleted; use
\* its delivery owner", writeError); a Pod alone may be deleted.
OwnedUntouched ==
  [][\A c \in Callers : Writes(c) /\ req[c].kind \notin Pods => ~obj.owned]_vars

\* A request changes what it was asked to change in the object that it read, and undoes
\* nothing that anyone wrote in between.
NoLostUpdate ==
  [][\A c \in Callers : Writes(c) /\ Exists /\ obj'.uid # 0 =>
       /\ obj'.uid = obj.uid /\ obj'.owned = obj.owned
       /\ \A f \in Fields \ Changes(c) : obj'.by[f] = obj.by[f]]_vars

\* What the caller confirmed is what is changed or deleted: not another object of that
\* name, and for an edit not a later version of it ("resource changed; refresh and try
\* again").
ActsOnWhatWasSeen ==
  [][\A c \in Callers : Writes(c) /\ req[c].kind \in Observed =>
       /\ obj.uid = req[c].seen.uid
       /\ req[c].kind = "edit observed" => obj.version = req[c].seen.version]_vars

=============================================================================
