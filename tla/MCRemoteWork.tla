---------------------------- MODULE MCRemoteWork ----------------------------
(***************************************************************************)
(* The work that the control plane gives to the runner besides execution   *)
(* tasks: one piece of work of any of three kinds, what the Docker         *)
(* operations of one project do on the host, the outpost, and, for the     *)
(* withdrawal of its grant, an operation of a personal guest.  These share *)
(* no state, so that one run checks them side by side: a behaviour         *)
(* exercises the part that "part" names, and the others stand still.       *)
(***************************************************************************)
EXTENDS RemoteWork, TLC

CONSTANTS
  Parts,
  Ops, OpKinds, Projects, MaxHead, MaxRetry, MaxCrash,  \* of ComposeOperations
  Checks, MaxLease, MaxBad                              \* of Outpost

ASSUME ProjectAssumption ==
  /\ "none" \notin Ops
  /\ OpKinds \subseteq {"validate", "deploy", "redeploy", "down", "service",
                        "git deploy", "git redeploy", "git down"}

ASSUME OutpostAssumption == MaxLease \in Nat \ {0}

AllKinds == {"docker", "provider", "chat"}
JustChat == {"chat"}
AllParts == {"work", "project", "outpost", "guest"}
JustWork == {"work"}

VARIABLES
  part,
  \* ComposeOperations
  kinds, status, head, pin, files, image, service, job, built, forgot, left,
  \* Outpost
  issued, expired, config, rejected, contact, desired, loop, check, applied, bad,
  \* GuestRuntime
  request, granted, conn, marks, container, proof, launches, crashes, runs, released, orphans

projectVars == <<kinds, status, head, pin, files, image, service, job, built, forgot, left>>
outpostVars == <<issued, expired, config, rejected, contact, desired, loop, check, applied, bad>>
guestVars ==
  <<request, granted, conn, marks, container, proof, launches, crashes, runs, released, orphans>>

\* Two operations of one project; "o1" is claimed first or second.
TwoOps == {"o1", "o2"}
Pairs == {<<"git deploy", "validate">>, <<"git redeploy", "deploy">>, <<"redeploy", "git down">>,
          <<"git deploy", "service">>, <<"down", "git redeploy">>}
PairsOfKinds == {"o1" :> p[1] @@ "o2" :> p[2] : p \in Pairs}
KindsOfPairs == UNION {{p[1], p[2]} : p \in Pairs}

ComposeOperations == INSTANCE ComposeOperations WITH kind <- kinds
Outpost == INSTANCE Outpost

GuestRuntime == INSTANCE GuestRuntime WITH Workers <- {"w1"}, Ops <- {"a"},
  Requests <- {"a" :> [kind |-> k, lease |-> "l"] : k \in {"docker", "probe"}}, MaxLaunch <- 2, MaxCrashes <- 0

MCInit ==
  /\ part \in Parts
  /\ Init /\ Outpost!Init /\ GuestRuntime!Init /\ ComposeOperations!Init
  /\ IF part = "project" THEN kinds \in Projects ELSE \A o \in Ops : kinds[o] = "down"
  /\ part # "work" => kind = "chat"
  /\ part # "guest" => request["a"].kind = "docker"

MCNext ==
  /\ UNCHANGED part
  /\ \/ part = "work" /\ Next /\ UNCHANGED <<projectVars, outpostVars, guestVars>>
     \/ part = "project" /\ ComposeOperations!Next /\ UNCHANGED <<vars, outpostVars, guestVars>>
     \/ part = "outpost" /\ Outpost!Next /\ UNCHANGED <<vars, projectVars, guestVars>>
     \/ part = "guest" /\ GuestRuntime!Next /\ UNCHANGED <<vars, projectVars, outpostVars>>

\* The fairness of each part, where it is the part; that of GuestRuntime has nothing to do while
\* it stands idle.
MCSpec ==
  /\ MCInit /\ [][MCNext]_<<part, vars, projectVars, outpostVars, guestVars>>
  /\ WF_vars(part = "work" /\ RunnerStep)
  /\ WF_outpostVars(part = "outpost" /\ Outpost!StartClaim)
  /\ WF_outpostVars(Outpost!Apply) /\ WF_outpostVars(Outpost!ReportApplied)
  /\ SF_outpostVars(Outpost!GoodAnswer)
  /\ GuestRuntime!Fairness

-----------------------------------------------------------------------------
\* An operation builds one commit however often it is tried again, a preflight leaves the live
\* files alone, what runs stays until it can be replaced, and a success means that what was asked
\* for runs (ComposeOperations).
ProjectKept ==
  /\ ComposeOperations!OneCommit /\ ComposeOperations!LiveFilesKept
  /\ ComposeOperations!RunsUntilReplaced /\ ComposeOperations!CompletedMeansRunning

\* The configuration of the outpost only goes forward, and no request is routed by one that is
\* older than the one reported as applied, or expired (Outpost).
OutpostGuarded == Outpost!NeverOlder /\ Outpost!AppliedRoutes

\* A cancellation is answered, a rejected configuration is made up for by the next lease, and an
\* operation of a guest ends when its grant is withdrawn (RemoteWork, Outpost, GuestRuntime).
ControlPlaneAnswered == CancelAnswered /\ Outpost!RejectionEnds /\ GuestRuntime!WithdrawnEnds

=============================================================================
