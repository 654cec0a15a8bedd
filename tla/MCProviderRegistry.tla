------------------------- MODULE MCProviderRegistry --------------------------
(***************************************************************************)
(* What the agent counts while others hold it: the providers of agent      *)
(* runs, and the leases of environments.  The builtin provider p1 drains,  *)
(* is replaced and leaves the catalog, while p2 joins it and leaves again; *)
(* runs may hold them.  Two callers acquire and release environments under *)
(* two ids, and a collector comes between.  The two share no state: a      *)
(* behaviour exercises the part that "part" names.                         *)
(***************************************************************************)
EXTENDS ProviderRegistry, TLC

CONSTANTS
  p1, p2, v1, v2, r1, r2,
  Callers, LeaseIds, MaxAcquire, Batch   \* of EnvironmentLeases

BothProviders == {p1, p2}
BothVersions == {v1, v2}
TwoRuns == {r1, r2}
\* The third revision replaces p1, and drops p2, before p2 has drained.
ThreeLists == << p1 :> v1 @@ p2 :> None, p1 :> v1 @@ p2 :> v1, p1 :> v2 @@ p2 :> None >>
FirstDrains == << {}, {p1}, {} >>
NothingRefused == {}
NewVersionUnsteady == { <<p1, v2>> }
TwoRunsSymmetry == Permutations(TwoRuns)

VARIABLES part, lease, marked, held, sandbox, expired, call, acquired, unknown, crossed

leaseVars == <<lease, marked, held, sandbox, expired, call, acquired, unknown, crossed>>

Leases == INSTANCE EnvironmentLeases WITH
  Ids <- LeaseIds, released <- marked, active <- held, count <- acquired

MCInit == part \in {"providers", "leases"} /\ Init /\ Leases!Init

MCNext ==
  /\ UNCHANGED part
  /\ \/ part = "providers" /\ Next /\ UNCHANGED leaseVars
     \/ part = "leases" /\ Leases!Next /\ UNCHANGED vars

MCSpec == MCInit /\ [][MCNext]_<<part, vars, leaseVars>>

-----------------------------------------------------------------------------
\* Somebody will release every environment that exists, and a lease that is marked as released
\* has none (EnvironmentLeases).
LeasesAccounted == Leases!Accounted /\ Leases!ReleasedMeansGone

=============================================================================
