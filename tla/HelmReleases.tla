---------------------------- MODULE HelmReleases ----------------------------
(***************************************************************************)
(* The Helm requests of the agent's HTTP API on one release name: install  *)
(* a chart, update the values, roll back, delete.                          *)
(*                                                                         *)
(* What the Helm library and the two guards of the shared contracts do is  *)
(* taken from how the code uses them: an upgrade is refused unless the     *)
(* release is still the one that was read, and a release that              *)
(* belongs to a delivery is not rolled back or deleted.  Other people and  *)
(* deliveries use Helm on the same name.                                   *)
(***************************************************************************)
EXTENDS Naturals

CONSTANTS
  Requests,   \* requests in progress
  Charts,     \* charts, each with its version
  MaxRev      \* revisions of the release

VARIABLES
  release,   \* the last revision of the release, 0 if there is none; "by" the request in progress
  call       \* the requests

vars == <<release, call>>

None == "none"
Nothing == [rev |-> 0, chart |-> None, status |-> None, managed |-> FALSE, by |-> None]
Idle == [pc |-> "idle", chart |-> None, expected |-> 0, read |-> Nothing, answer |-> None]

Init ==
  /\ release = Nothing
  /\ call = [c \in Requests |-> Idle]

Goto(c, pc) == call' = [call EXCEPT ![c].pc = pc]
Answer(c, answer) == call' = [call EXCEPT ![c] = [Idle EXCEPT !.answer = answer, !.chart = call[c].chart]]
Fail(c) == Answer(c, "error") /\ UNCHANGED release

-----------------------------------------------------------------------------
\* The payload is checked before anything is read: an install names its chart, version and
\* release, a conditional update the revision it is for, a rollback a positive one.
AskInstall(c, chart) ==
  /\ call[c].pc = "idle"
  /\ call' = [call EXCEPT ![c] = [Idle EXCEPT !.pc = "look", !.chart = chart]]
  /\ UNCHANGED release

AskValues(c, expected) ==
  /\ call[c].pc = "idle"
  /\ call' = [call EXCEPT ![c] = [Idle EXCEPT !.pc = "get", !.expected = expected]]
  /\ UNCHANGED release

AskOther(c) ==
  /\ call[c].pc = "idle"
  /\ call' \in {[call EXCEPT ![c] = [Idle EXCEPT !.pc = pc]] : pc \in {"rollback", "delete"}}
  /\ UNCHANGED release

\* Mutant: the chart alone decides, whatever became of it.
SameChart(c) == release.chart = call[c].chart

\* The release that is there is what the request asks for.
Satisfies(c) == release.status = "deployed" /\ release.chart = call[c].chart

\* An install that was made already is not made again: its retry is answered with the
\* release.  Another release of that name is not touched.
Look(c) ==
  /\ call[c].pc = "look"
  /\ IF release.rev = 0
     THEN Goto(c, "install")
     ELSE Answer(c, IF Satisfies(c) THEN "installed" ELSE "error")
  /\ UNCHANGED release

\* The chart is located and loaded, and the release recorded as pending; or the name was
\* taken meanwhile, and it is looked at again.
StartInstall(c) ==
  /\ call[c].pc = "install"
  /\ IF release.rev = 0
     THEN /\ release' = [Nothing EXCEPT !.rev = 1, !.chart = call[c].chart, !.status = "pending", !.by = c]
          /\ Goto(c, "installing")
     ELSE /\ Answer(c, IF Satisfies(c) THEN "installed" ELSE "error")
          /\ UNCHANGED release

\* The revision the request has made is still there.
Its(c) == release.status = "pending" /\ release.by = c

\* Helm records how the revision ended, unless it was deleted meanwhile.
Becomes(c, status) ==
  release' = IF Its(c) THEN [release EXCEPT !.status = status, !.by = None] ELSE release

\* The library does not say whether its record was still there: an install that went well is answered
\* with what was installed, also when the revision was deleted or another took its place.
InstallEnds(c) ==
  /\ call[c].pc = "installing"
  /\ \/ Becomes(c, "deployed") /\ Answer(c, "installed")
     \/ Becomes(c, "failed") /\ Answer(c, "error")

-----------------------------------------------------------------------------
\* Mutant: the owner label is not looked at.
AnyRelease == release.rev # 0

\* There is a release, and it does not belong to a delivery.
Unmanaged == release.rev # 0 /\ ~release.managed

\* What the request has looked at is kept, for what it does next.
Seen(c, pc) == call' = [call EXCEPT ![c].pc = pc, ![c].read = release]

\* A release of a delivery, or another revision than the expected one, is left alone.
MayUpgrade(c) ==
  /\ Unmanaged
  /\ call[c].expected # 0 => call[c].expected = release.rev

GetRelease(c) ==
  /\ call[c].pc = "get"
  /\ IF MayUpgrade(c) THEN Seen(c, "upgrade") ELSE Answer(c, "error")
  /\ UNCHANGED release

\* Mutant: the revision is compared once, when it is read.
ReadOnce(c) == TRUE

\* GuardValuesUpgradeRevision, given what was read: the upgrade itself compares again.
StillRead(c) == [release EXCEPT !.status = call[c].read.status, !.by = call[c].read.by] = call[c].read

\* Another operation that is pending makes the upgrade fail.
StartUpgrade(c) ==
  /\ call[c].pc = "upgrade"
  /\ IF StillRead(c) /\ release.status \notin {"pending", None} /\ release.rev < MaxRev
     THEN /\ release' = [release EXCEPT !.rev = @ + 1, !.status = "pending", !.by = c]
          /\ Goto(c, "upgrading")
     ELSE Fail(c)

UpgradeEnds(c) ==
  /\ call[c].pc = "upgrading"
  /\ \/ Becomes(c, "deployed") /\ Answer(c, "updated")
     \/ Becomes(c, "failed") /\ Answer(c, "error")

\* RequireUnmanaged, before a rollback and before a deletion: nothing compares again later.
CheckOwner(c) ==
  /\ call[c].pc \in {"rollback", "delete"}
  /\ IF Unmanaged THEN Seen(c, IF call[c].pc = "rollback" THEN "roll" ELSE "remove")
     ELSE Answer(c, "error")
  /\ UNCHANGED release

\* The rollback is a new revision of what is there now, with the chart and the labels of the revision
\* it goes back to, also when another operation is pending.
RollbackRelease(c) ==
  /\ call[c].pc = "roll"
  /\ IF release.rev # 0 /\ release.rev < MaxRev
     THEN /\ \E chart \in Charts, managed \in BOOLEAN :
               release' = [rev |-> release.rev + 1, chart |-> chart, status |-> "pending",
                           managed |-> managed, by |-> c]
          /\ Goto(c, "rolling")
     ELSE Fail(c)

\* The detail is read after it, so that an error may hide a rollback that was made.
RollbackEnds(c) ==
  /\ call[c].pc = "rolling"
  /\ \/ Becomes(c, "deployed") /\ (Answer(c, "rolled back") \/ Answer(c, "error"))
     \/ Becomes(c, "failed") /\ Answer(c, "error")

RollbackDryRun(c) ==
  /\ call[c].pc = "roll"
  /\ Answer(c, "valid") \/ Answer(c, "error")
  /\ UNCHANGED release

\* What is there now is deleted, whatever its status; a deletion that breaks off leaves it undeployed.
DeleteRelease(c) ==
  /\ call[c].pc = "remove"
  /\ IF release.rev # 0
     THEN \/ release' = Nothing /\ Answer(c, "deleted")
          \/ release' = [release EXCEPT !.status = "failed", !.by = None] /\ Answer(c, "error")
     ELSE Fail(c)

\* The client goes away, or the cluster or the chart repository does not answer.
Breaks(c) ==
  /\ call[c].pc \in {"look", "install", "get", "upgrade", "rollback", "roll", "delete", "remove"}
  /\ Fail(c)

-----------------------------------------------------------------------------
OthersInstall ==
  /\ release.rev = 0
  /\ \E chart \in Charts, managed \in BOOLEAN :
       release' = [rev |-> 1, chart |-> chart, status |-> "deployed", managed |-> managed, by |-> None]
  /\ UNCHANGED call

OthersUpgrade ==
  /\ release.status \in {"deployed", "failed"} /\ release.rev < MaxRev
  /\ \E chart \in Charts, managed \in BOOLEAN, status \in {"deployed", "failed"} :
       release' = [rev |-> release.rev + 1, chart |-> chart, status |-> status, managed |-> managed,
                   by |-> None]
  /\ UNCHANGED call

OthersDelete ==
  /\ release.rev # 0
  /\ release' = Nothing
  /\ UNCHANGED call

Next ==
  \/ \E c \in Requests :
       \/ \E chart \in Charts : AskInstall(c, chart)
       \/ \E expected \in 0..MaxRev : AskValues(c, expected)
       \/ AskOther(c) \/ Look(c) \/ StartInstall(c) \/ InstallEnds(c)
       \/ GetRelease(c) \/ StartUpgrade(c) \/ UpgradeEnds(c)
       \/ CheckOwner(c) \/ RollbackRelease(c) \/ RollbackEnds(c) \/ RollbackDryRun(c)
       \/ DeleteRelease(c) \/ Breaks(c)
  \/ OthersInstall \/ OthersUpgrade \/ OthersDelete

Spec == Init /\ [][Next]_vars

-----------------------------------------------------------------------------
\* An install is answered with a release only if that is deployed, with the chart and version that
\* were asked for, also when another request, or an earlier try, made it ("install request already
\* satisfied"); or if somebody deleted or replaced the request's own revision while it was being
\* installed, which the answer does not tell.
InstallIsTrue ==
  [][\A c \in Requests : call'[c].answer = "installed" /\ call[c].pc # "idle" =>
       \/ release'.status = "deployed" /\ release'.chart = call[c].chart
       \/ call[c].pc = "installing" /\ ~Its(c)]_vars

\* The values of a release change in the revision that the caller expected and that was
\* read, and never under a delivery ("application Helm releases require a delivery plan to
\* change values").
ValuesGuarded ==
  [][\A c \in Requests : call[c].pc = "upgrade" /\ call'[c].pc = "upgrading" =>
       /\ ~release.managed
       /\ release.chart = call[c].read.chart
       /\ call[c].expected \in {0, release.rev}]_vars

\* A release of a delivery is rolled back or deleted only by a request that looked when it was
\* another one, or belonged to nobody yet.
DeliveriesKept ==
  [][\A c \in Requests : call[c].pc \in {"roll", "remove"} /\ call'[c] # call[c] /\ release' # release =>
       ~release.managed \/ release # call[c].read]_vars

=============================================================================
