------------------------------- MODULE MCGuest -------------------------------
(***************************************************************************)
(* A personal guest: its client, with one renewal that may fail and one    *)
(* more, and three heartbeats; its runtime, its browser and its data disk. *)
(* They share no state, so that one run checks them side by side: a        *)
(* behaviour exercises the part that "part" names, and the others stand    *)
(* still.                                                                  *)
(***************************************************************************)
EXTENDS GuestClient, FiniteSets, TLC

CONSTANTS
  Workers, Ops, Wanted, MaxLaunch, MaxCrashes,                       \* of GuestRuntime
  Procs, Plans, Devices, MaxFaults,                                  \* of GuestData
  Controls, Owners, MaxGeneration, MaxOps, Paused, MaxFetching       \* of GuestBrowser

ASSUME BrowserAssumption == IsFiniteSet(Paused) /\ MaxFetching \in Nat /\ MaxGeneration \in Nat

Wants(kind, lease) == [kind |-> kind, lease |-> lease]
DockerAnd(kind) == "a" :> Wants("docker", "l") @@ "b" :> Wants(kind, "l")

\* A container and the release of its lease; a container and a probe, which makes one as well; a
\* probe and the release of another lease; two commands.
TwoRequests ==
  {DockerAnd("release"), DockerAnd("probe"),
   "a" :> Wants("probe", "l") @@ "b" :> Wants("release", "k"),
   "a" :> Wants("command", "l") @@ "b" :> Wants("command", "l")}

VARIABLES
  part,
  \* GuestRuntime
  request, granted, conn, marks, container, proof, launches, crashes, runs, released, orphans,
  \* GuestData
  blocks, mounted, limited, workspace, receipt, plans, proc, holder, stray, formats, data, faults,
  \* GuestBrowser
  page, op, ended, sent, fetch, actions

runtimeVars ==
  <<request, granted, conn, marks, container, proof, launches, crashes, runs, released, orphans>>
dataVars ==
  <<blocks, mounted, limited, workspace, receipt, plans, proc, holder, stray, formats, data, faults>>
pageVars == <<page, op, ended, sent, fetch, actions>>

GuestRuntime == INSTANCE GuestRuntime WITH Requests <- Wanted
GuestData == INSTANCE GuestData WITH granted <- plans, disk <- blocks
GuestBrowser == INSTANCE GuestBrowser WITH count <- actions

MCInit ==
  /\ part \in {"client", "runtime", "data", "page"}
  /\ Init /\ GuestRuntime!Init /\ GuestData!Init /\ GuestBrowser!Init
  /\ part # "runtime" => request = (CHOOSE r \in Wanted : TRUE)
  /\ part # "data" => blocks = [fs |-> "blank", dev |-> CHOOSE d \in Devices : TRUE]

MCNext ==
  /\ UNCHANGED part
  /\ \/ part = "client" /\ Next /\ UNCHANGED <<runtimeVars, dataVars, pageVars>>
     \/ part = "runtime" /\ GuestRuntime!Next /\ UNCHANGED <<vars, dataVars, pageVars>>
     \/ part = "data" /\ GuestData!Next /\ UNCHANGED <<vars, runtimeVars, pageVars>>
     \/ part = "page" /\ GuestBrowser!Next /\ UNCHANGED <<vars, runtimeVars, dataVars>>

\* The fairness of the client, where it is the part.
MCSpec ==
  /\ MCInit /\ [][MCNext]_<<part, vars, runtimeVars, dataVars, pageVars>>
  /\ WF_vars(part = "client" /\ ClientStep) /\ WF_vars(part = "client" /\ ServerClock)

-----------------------------------------------------------------------------
\* No operation of a guest is begun twice, none runs beside another, and what a release has
\* waited for is over, its container as well (GuestRuntime).
OperationsContained ==
  GuestRuntime!BegunOnce /\ GuestRuntime!Alone /\ GuestRuntime!ReleasedIsOver

\* The disk of a guest is formatted once and never over data, and is ready only in its place and
\* with its limits (GuestData).
DataKept ==
  GuestData!FormatsOnce /\ GuestData!ReadyMeansLimited /\ GuestData!CompleteMeansFormatted

\* What was sent to the page has no effect after its operation, or after its control was handed
\* on, and its requests are fetched for operations that were in progress (GuestBrowser).
PageHeld ==
  GuestBrowser!NothingLate /\ GuestBrowser!NothingStale /\ GuestBrowser!FetchedForOperations

=============================================================================
