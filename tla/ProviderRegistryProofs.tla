----------------------- MODULE ProviderRegistryProofs -----------------------
(***************************************************************************)
(* The provider registry for any catalogs, any number of runs and of       *)
(* rollbacks, and the leases of environments for any callers, ids and      *)
(* number of acquisitions.                                                 *)
(***************************************************************************)
EXTENDS MCProviderRegistry, FiniteSetTheorems, TLAPS

\* What the goroutine is about to acknowledge is the builtin catalog or a proven one.
AckIsProven ==
  sync.pc \in {"list", "refresh", "set"} => sync.active \in {Builtin} \cup conformed

IInv == TypeOK /\ CountsExact /\ RunningVersionKept /\ LastKnownGood /\ AckIsProven

-----------------------------------------------------------------------------
(* What the helpers denote.                                                *)

LEMMA PairsTyped ==
  ASSUME NEW k \in Revision
  PROVE  /\ Pairs(k) \subseteq Provider \X Version
         /\ Listed(k) \subseteq Provider
BY RegistryAssumption DEF RegistryAssumption, Pairs, Listed

LEMMA BuiltinIsRevision == Builtin \in Revision
BY RegistryAssumption DEF RegistryAssumption, Builtin, Revision

LEMMA RevisionsAreNumbers == ASSUME NEW k \in Revision PROVE k \in Nat /\ k # 0
BY RegistryAssumption DEF RegistryAssumption, Revision

LEMMA HoldingFinite ==
  ASSUME NEW p
  PROVE  /\ IsFiniteSet(Holding(p)) /\ Cardinality(Holding(p)) \in Nat
         /\ Cardinality(Holding(p)) = 0 <=> Holding(p) = {}
<1>1. IsFiniteSet(Holding(p))
  BY RegistryAssumption, FS_Subset DEF RegistryAssumption, Holding
<1> QED
  BY <1>1, FS_CardinalityType, FS_EmptySet

\* A provider that a snapshot may replace is held by no run.
LEMMA UnblockedIsKept ==
  ASSUME IInv, NEW k \in Revision, ~Blocked(k), NEW r \in Run, run[r].pc = "running"
  PROVE  Lists[k][run[r].provider] = Lists[current][run[r].provider]
<1> DEFINE p == run[r].provider
<1>1. p \in Provider /\ r \in Holding(p)
  BY DEF IInv, TypeOK, Holding
<1>2. active[p] # 0
  BY <1>1, HoldingFinite DEF IInv, CountsExact
<1> QED
  BY <1>1, <1>2 DEF Blocked

\* Activating another snapshot keeps the counts and the versions of the runs.
LEMMA ActivateKeeps ==
  ASSUME IInv, NEW k \in Revision, ~Blocked(k), Activate(k), run' = run
  PROVE  /\ active' \in [Provider -> Nat]
         /\ health' \in [Provider -> {"healthy", "unhealthy"}]
         /\ CountsExact' /\ RunningVersionKept'
<1>1. active' \in [Provider -> Nat] /\ health' \in [Provider -> {"healthy", "unhealthy"}]
  BY DEF Activate, IInv, TypeOK
<1>2. RunningVersionKept'
  <2> SUFFICES ASSUME NEW r \in Run, run[r].pc = "running"
               PROVE  /\ run[r].provider \in Listed(k)
                      /\ run[r].version = Lists[k][run[r].provider]
    BY DEF Activate, RunningVersionKept, Listed
  <2>1. /\ run[r].provider \in Listed(current)
        /\ run[r].version = Lists[current][run[r].provider]
    BY DEF IInv, RunningVersionKept
  <2> QED
    BY <2>1, UnblockedIsKept DEF Listed
<1>3. CountsExact'
  <2> SUFFICES ASSUME NEW p \in Provider PROVE active'[p] = Cardinality(Holding(p)')
    BY DEF CountsExact
  <2>1. Holding(p)' = Holding(p)
    BY DEF Holding
  <2>2. active[p] = Cardinality(Holding(p))
    BY DEF IInv, CountsExact
  <2>3. CASE p \in Listed(k)
    BY <2>1, <2>2, <2>3 DEF Activate
  <2>4. CASE p \notin Listed(k)
    <3>1. active'[p] = 0
      BY <2>4 DEF Activate
    <3>2. Holding(p) = {}
      <4> SUFFICES ASSUME NEW r \in Holding(p) PROVE FALSE
        OBVIOUS
      <4>1. r \in Run /\ run[r].pc = "running" /\ run[r].provider = p
        BY DEF Holding
      <4>2. p \in Listed(current)
        BY <4>1 DEF IInv, RunningVersionKept
      <4> QED
        BY <2>4, <4>1, <4>2, UnblockedIsKept DEF Listed
    <3> QED
      BY <2>1, <3>1, <3>2, HoldingFinite
  <2> QED
    BY <2>3, <2>4
<1> QED
  BY <1>1, <1>2, <1>3

\* Steps that change neither the registry nor a run keep the two facts about runs.
LEMMA UntouchedRuns ==
  ASSUME IInv, run' = run, active' = active, current' = current
  PROVE  CountsExact' /\ RunningVersionKept'
BY DEF IInv, CountsExact, RunningVersionKept, Holding, Listed

\* A run that does not run before and after a step is not counted.
LEMMA UncountedRun ==
  ASSUME IInv, NEW r \in Run, NEW f, run' = [run EXCEPT ![r] = f],
         run[r].pc # "running", f.pc # "running",
         active' = active, current' = current
  PROVE  CountsExact' /\ RunningVersionKept'
<1>1. \A s \in Run : run'[s].pc = "running" <=> run[s].pc = "running"
  BY DEF IInv, TypeOK
<1>2. \A s \in Run : run'[s].pc = "running" => run'[s] = run[s]
  BY <1>1 DEF IInv, TypeOK
<1>3. \A p \in Provider : Holding(p)' = Holding(p)
  BY <1>1, <1>2 DEF Holding
<1>4. CountsExact'
  BY <1>3 DEF IInv, CountsExact
<1>5. RunningVersionKept'
  BY <1>2 DEF IInv, RunningVersionKept, Listed
<1> QED
  BY <1>4, <1>5

-----------------------------------------------------------------------------
LEMMA InitInv == Init => IInv
<1> SUFFICES ASSUME Init PROVE IInv
  OBVIOUS
<1> USE BuiltinIsRevision, RegistryAssumption DEF Init, Idle, Free, RegistryAssumption
<1>1. TypeOK
  BY DEF TypeOK
<1>2. CountsExact
  <2> SUFFICES ASSUME NEW p \in Provider PROVE Cardinality(Holding(p)) = 0
    BY DEF CountsExact
  <2>1. Holding(p) = {}
    BY DEF Holding
  <2> QED
    BY <2>1, HoldingFinite
<1>3. RunningVersionKept /\ LastKnownGood /\ AckIsProven
  BY DEF RunningVersionKept, LastKnownGood, AckIsProven
<1> QED
  BY <1>1, <1>2, <1>3 DEF IInv

\* The goroutine's steps that leave the registry alone.
LEMMA QuietSyncKeepsInv ==
  ASSUME IInv,
         \/ Fetch \/ ListStatuses \/ AckReceived \/ AckLost
         \/ \E pair \in sync.todo : Conform(pair) \/ Probe(pair)
  PROVE  IInv'
<1> USE RegistryAssumption DEF RegistryAssumption, registry, Idle
<1>0. CountsExact' /\ RunningVersionKept'
  <2>1. run' = run /\ active' = active /\ current' = current
    BY DEF Fetch, ListStatuses, AckReceived, AckLost, Conform, Probe
  <2> QED
    BY <2>1, UntouchedRuns
<1>1. CASE Fetch
  <2>1. desired \in Revision /\ Pairs(desired) \subseteq Provider \X Version
    BY PairsTyped DEF IInv, TypeOK
  <2>2. TypeOK'
    BY <1>1, <2>1 DEF Fetch, IInv, TypeOK
  <2>3. LastKnownGood' /\ AckIsProven'
    BY <1>1, RevisionsAreNumbers DEF Fetch, IInv, TypeOK, LastKnownGood, AckIsProven
  <2> QED
    BY <1>0, <2>2, <2>3 DEF IInv
<1>2. CASE ListStatuses
  <2>1. Pairs(current) \subseteq Provider \X Version
    BY PairsTyped DEF IInv, TypeOK
  <2> QED
    BY <1>0, <1>2, <2>1 DEF ListStatuses, IInv, TypeOK, LastKnownGood, AckIsProven
<1>3. CASE AckReceived
  BY <1>0, <1>3 DEF AckReceived, IInv, TypeOK, LastKnownGood, AckIsProven
<1>4. CASE AckLost
  BY <1>0, <1>4 DEF AckLost, IInv, TypeOK, LastKnownGood, AckIsProven
<1>5. ASSUME NEW pair \in sync.todo, Conform(pair) PROVE IInv'
  BY <1>0, <1>5 DEF Conform, IInv, TypeOK, LastKnownGood, AckIsProven
<1>6. ASSUME NEW pair \in sync.todo, Probe(pair) PROVE IInv'
  BY <1>0, <1>6 DEF Probe, IInv, TypeOK, LastKnownGood, AckIsProven
<1> QED
  BY <1>1, <1>2, <1>3, <1>4, <1>5, <1>6

\* The steps that write the registry's catalogs or health.
LEMMA RegistryKeepsInv ==
  ASSUME IInv, Apply \/ SetHealth \/ Rollback
  PROVE  IInv'
<1> USE RegistryAssumption DEF RegistryAssumption, registry, Idle
<1>1. CASE Apply
  <2>1. CASE sync.ok /\ Accepts(sync.revision)
    <3>1. /\ sync.revision \in Revision /\ ~Blocked(sync.revision)
          /\ Activate(sync.revision) /\ run' = run
      BY <1>1, <2>1 DEF Apply, Accepts, IInv, TypeOK
    <3>2. /\ active' \in [Provider -> Nat]
          /\ health' \in [Provider -> {"healthy", "unhealthy"}]
          /\ CountsExact' /\ RunningVersionKept'
      BY <3>1, ActivateKeeps
    <3>3. current' = sync.revision /\ previous' = current /\ current \in Revision
      BY <1>1, <2>1, <3>1 DEF Apply, Activate, IInv, TypeOK
    <3>4. TypeOK'
      BY <1>1, <3>1, <3>2, <3>3 DEF Apply, IInv, TypeOK
    <3>5. LastKnownGood' /\ AckIsProven'
      BY <1>1, <2>1, <3>3 DEF Apply, IInv, LastKnownGood, AckIsProven
    <3> QED
      BY <3>2, <3>4, <3>5 DEF IInv
  <2>2. CASE ~(sync.ok /\ Accepts(sync.revision))
    <3>1. /\ UNCHANGED <<current, previous, active, health, run>>
          /\ sync' = [[Idle EXCEPT !.pc = "list"] EXCEPT !.active = current]
      BY <1>1, <2>2 DEF Apply
    <3>2. CountsExact' /\ RunningVersionKept'
      BY <3>1, UntouchedRuns
    <3>3. TypeOK'
      BY <1>1, <3>1 DEF Apply, IInv, TypeOK
    <3>4. LastKnownGood' /\ AckIsProven'
      BY <1>1, <3>1, RevisionsAreNumbers DEF Apply, IInv, TypeOK, LastKnownGood, AckIsProven
    <3> QED
      BY <3>2, <3>3, <3>4 DEF IInv
  <2> QED
    BY <2>1, <2>2
<1>2. CASE SetHealth
  <2>1. CountsExact' /\ RunningVersionKept'
    <3>1. run' = run /\ active' = active /\ current' = current
      BY <1>2 DEF SetHealth
    <3> QED
      BY <3>1, UntouchedRuns
  <2>2. health' \in [Provider -> {"healthy", "unhealthy"}]
    BY <1>2 DEF SetHealth, IInv, TypeOK
  <2>3. TypeOK'
    BY <1>2, <2>2 DEF SetHealth, IInv, TypeOK
  <2> QED
    BY <1>2, <2>1, <2>3 DEF SetHealth, IInv, LastKnownGood, AckIsProven
<1>3. CASE Rollback
  <2>1. /\ previous \in Revision /\ ~Blocked(previous)
        /\ Activate(previous) /\ run' = run
    BY <1>3 DEF Rollback, IInv, TypeOK
  <2>2. /\ active' \in [Provider -> Nat]
        /\ health' \in [Provider -> {"healthy", "unhealthy"}]
        /\ CountsExact' /\ RunningVersionKept'
    BY <2>1, ActivateKeeps
  <2>3. current' = previous /\ previous' = current /\ current \in Revision
    BY <1>3, <2>1 DEF Rollback, Activate, IInv, TypeOK
  <2>4. TypeOK'
    BY <1>3, <2>1, <2>2, <2>3 DEF Rollback, IInv, TypeOK
  <2>5. LastKnownGood' /\ AckIsProven'
    BY <1>3, <2>3 DEF Rollback, IInv, LastKnownGood, AckIsProven
  <2> QED
    BY <2>2, <2>4, <2>5 DEF IInv
<1> QED
  BY <1>1, <1>2, <1>3

\* A run that is admitted joins the holders of its provider, and the count.
LEMMA AcquireKeepsInv ==
  ASSUME IInv, NEW r \in Run, Acquire(r)
  PROVE  IInv'
<1>0. PICK p \in Provider : p = run[r].provider
  BY DEF Acquire, IInv, TypeOK
<1> DEFINE admitted == Admits(p, run[r].version, run[r].pin)
           f == IF admitted
                THEN [run[r] EXCEPT !.pc = "running", !.version = Lists[current][p]] ELSE Free
<1> USE RegistryAssumption DEF RegistryAssumption
<1>1. /\ run[r].pc = "resolved" /\ p = run[r].provider
      /\ run' = [run EXCEPT ![r] = f]
      /\ current' = current
  BY <1>0 DEF Acquire
<1>2. LastKnownGood' /\ AckIsProven'
  BY DEF Acquire, IInv, LastKnownGood, AckIsProven
<1>3. CASE ~admitted
  <2>1. run' = [run EXCEPT ![r] = Free] /\ active' = active
    BY <1>0, <1>3 DEF Acquire
  <2>2. CountsExact' /\ RunningVersionKept'
    <3>1. Free.pc # "running"
      BY DEF Free
    <3> QED
      BY <1>1, <2>1, <3>1, UncountedRun
  <2>3. TypeOK'
    BY <1>1, <2>1 DEF Acquire, IInv, TypeOK, Free
  <2> QED
    BY <1>2, <2>2, <2>3 DEF IInv
<1>4. CASE admitted
  <2>1. /\ f = [run[r] EXCEPT !.pc = "running", !.version = Lists[current][p]]
        /\ active' = [active EXCEPT ![p] = @ + 1]
        /\ p \in Listed(current)
    BY <1>0, <1>4 DEF Acquire, Admits
  <2>2. Lists[current][p] \in Version
    BY <1>1, <2>1 DEF IInv, TypeOK, Listed
  <2>3. TypeOK'
    <3>1. active' \in [Provider -> Nat]
      BY <1>1, <2>1 DEF IInv, TypeOK
    <3>2. f \in [pc : {"idle", "resolved", "running", "untracked"},
                 provider : Provider \cup {None},
                 version : Version \cup {None}, pin : {0} \cup Revision]
      BY <1>1, <2>1, <2>2 DEF IInv, TypeOK
    <3>3. f.provider \in Provider
      BY <1>1, <2>1 DEF IInv, TypeOK
    <3> HIDE DEF f
    <3> QED
      BY <1>1, <3>1, <3>2, <3>3 DEF Acquire, IInv, TypeOK
  <2>4. f.pc = "running" /\ f.provider = p /\ f.version = Lists[current][p]
    BY <1>1, <2>1 DEF IInv, TypeOK
  <2> HIDE DEF f
  <2>5. Holding(p)' = Holding(p) \cup {r} /\ r \notin Holding(p)
    BY <1>1, <2>4 DEF Holding, IInv, TypeOK
  <2>6. \A q \in Provider \ {p} : Holding(q)' = Holding(q)
    BY <1>1, <2>4 DEF Holding, IInv, TypeOK
  <2>7. CountsExact'
    <3> SUFFICES ASSUME NEW q \in Provider PROVE active'[q] = Cardinality(Holding(q)')
      BY DEF CountsExact
    <3>1. CASE q = p
      <4>1. Cardinality(Holding(p) \cup {r}) = Cardinality(Holding(p)) + 1
        BY <2>5, HoldingFinite, FS_AddElement
      <4>2. active'[p] = active[p] + 1
        BY <2>1 DEF IInv, TypeOK
      <4> QED
        BY <2>5, <3>1, <4>1, <4>2 DEF IInv, CountsExact
    <3>2. CASE q # p
      BY <1>1, <2>1, <2>6, <3>2 DEF IInv, TypeOK, CountsExact
    <3> QED
      BY <3>1, <3>2
  <2>8. RunningVersionKept'
    BY <1>1, <2>1, <2>4 DEF RunningVersionKept, IInv, TypeOK, Listed
  <2> QED
    BY <1>2, <2>3, <2>7, <2>8 DEF IInv
<1> QED
  BY <1>3, <1>4

\* A run that ends leaves the holders, and Release finds the status it counted in.
LEMMA FinishKeepsInv ==
  ASSUME IInv, NEW r \in Run, Finish(r)
  PROVE  IInv'
<1>0. PICK p \in Provider : p = run[r].provider
  BY DEF Finish, IInv, TypeOK
<1> USE RegistryAssumption DEF RegistryAssumption
<1>1. /\ run[r].pc \in {"running", "untracked"} /\ p = run[r].provider
      /\ run' = [run EXCEPT ![r] = Free]
      /\ current' = current
  BY <1>0 DEF Finish
<1>2. LastKnownGood' /\ AckIsProven'
  BY DEF Finish, IInv, LastKnownGood, AckIsProven
<1>3. CASE run[r].pc = "untracked"
  <2>1. active' = active
    BY <1>3 DEF Finish
  <2>2. CountsExact' /\ RunningVersionKept'
    <3>1. Free.pc # "running" /\ run[r].pc # "running"
      BY <1>3 DEF Free
    <3> QED
      BY <1>1, <2>1, <3>1, UncountedRun
  <2>3. TypeOK'
    BY <1>1, <2>1 DEF Finish, IInv, TypeOK, Free
  <2> QED
    BY <1>2, <2>2, <2>3 DEF IInv
<1>4. CASE run[r].pc = "running"
  <2>1. r \in Holding(p) /\ p \in Listed(current)
    BY <1>1, <1>4 DEF IInv, RunningVersionKept, Holding
  <2>2. active[p] \in Nat /\ active[p] = Cardinality(Holding(p)) /\ active[p] > 0
    BY <1>1, <2>1, HoldingFinite DEF IInv, TypeOK, CountsExact
  <2>3. active' = [active EXCEPT ![p] = @ - 1]
    BY <1>0, <1>4, <2>1, <2>2 DEF Finish
  <2>4. TypeOK'
    <3>1. active' \in [Provider -> Nat]
      BY <1>1, <2>2, <2>3 DEF IInv, TypeOK
    <3> QED
      BY <1>1, <3>1 DEF Finish, IInv, TypeOK, Free
  <2>5. Holding(p)' = Holding(p) \ {r}
    BY <1>1 DEF Holding, IInv, TypeOK, Free
  <2>6. \A q \in Provider \ {p} : Holding(q)' = Holding(q)
    BY <1>1, <1>4 DEF Holding, IInv, TypeOK, Free
  <2>7. CountsExact'
    <3> SUFFICES ASSUME NEW q \in Provider PROVE active'[q] = Cardinality(Holding(q)')
      BY DEF CountsExact
    <3>1. CASE q = p
      <4>1. Cardinality(Holding(p) \ {r}) = Cardinality(Holding(p)) - 1
        BY <2>1, HoldingFinite, FS_RemoveElement
      <4>2. active'[p] = active[p] - 1
        BY <2>2, <2>3 DEF IInv, TypeOK
      <4> QED
        BY <2>2, <2>5, <3>1, <4>1, <4>2
    <3>2. CASE q # p
      BY <1>1, <2>3, <2>6, <3>2 DEF IInv, TypeOK, CountsExact
    <3> QED
      BY <3>1, <3>2
  <2>8. RunningVersionKept'
    BY <1>1 DEF RunningVersionKept, IInv, TypeOK, Listed, Free
  <2> QED
    BY <1>2, <2>4, <2>7, <2>8 DEF IInv
<1> QED
  BY <1>1, <1>3, <1>4

\* A run that looks its provider up holds nothing yet.
LEMMA AskKeepsInv ==
  ASSUME IInv, NEW r \in Run, NEW p \in Provider,
         AskCLI(r, p) \/ \E k \in Revision : AskChat(r, p, k)
  PROVE  IInv'
<1> USE RegistryAssumption DEF RegistryAssumption
<1>1. PICK f \in [pc : {"resolved", "untracked"}, provider : Provider,
                  version : Version \cup {None}, pin : {0} \cup Revision] :
        run' = [run EXCEPT ![r] = f]
  <2>1. CASE AskCLI(r, p)
    <3>1. PICK place \in {"resolved", "untracked"} :
            place = IF p \in Listed(current) THEN "resolved" ELSE "untracked"
      OBVIOUS
    <3>2. run' = [run EXCEPT ![r] =
            [pc |-> place, provider |-> p, version |-> None, pin |-> 0]]
      BY <2>1, <3>1 DEF AskCLI
    <3>3. [pc |-> place, provider |-> p, version |-> None, pin |-> 0] \in
            [pc : {"resolved", "untracked"}, provider : Provider,
             version : Version \cup {None}, pin : {0} \cup Revision]
      OBVIOUS
    <3> QED
      BY <3>2, <3>3
  <2>2. ASSUME NEW k \in Revision, AskChat(r, p, k)
        PROVE  \E f \in [pc : {"resolved", "untracked"}, provider : Provider,
                          version : Version \cup {None}, pin : {0} \cup Revision] :
                 run' = [run EXCEPT ![r] = f]
    <3>1. Lists[k][p] \in Version \cup {None}
      OBVIOUS
    <3>2. [pc |-> "resolved", provider |-> p, version |-> Lists[k][p], pin |-> k] \in
            [pc : {"resolved", "untracked"}, provider : Provider,
             version : Version \cup {None}, pin : {0} \cup Revision]
      BY <3>1
    <3> QED
      BY <2>2, <3>2 DEF AskChat
  <2> QED
    BY <2>1, <2>2
<1>2. /\ run[r].pc = "idle"
      /\ UNCHANGED <<desired, reported, down, registry, sync, conformed, rollbacks>>
  BY DEF AskCLI, AskChat, Free
<1>3. CountsExact' /\ RunningVersionKept'
  BY <1>1, <1>2, UncountedRun DEF registry
<1>4. TypeOK'
  BY <1>1, <1>2 DEF IInv, TypeOK, registry
<1> QED
  BY <1>2, <1>3, <1>4 DEF IInv, LastKnownGood, AckIsProven, registry

LEMMA OutsideKeepsInv ==
  ASSUME IInv,
         \/ \E k \in Revision : Publish(k)
         \/ \E pair \in Unsteady : Flap(pair)
         \/ UNCHANGED vars
  PROVE  IInv'
<1>1. CountsExact' /\ RunningVersionKept'
  <2>1. run' = run /\ active' = active /\ current' = current
    BY DEF Publish, Flap, vars, registry
  <2> QED
    BY <2>1, UntouchedRuns
<1>2. TypeOK'
  BY DEF Publish, Flap, vars, registry, IInv, TypeOK
<1>3. LastKnownGood' /\ AckIsProven'
  BY DEF Publish, Flap, vars, registry, IInv, LastKnownGood, AckIsProven
<1> QED
  BY <1>1, <1>2, <1>3 DEF IInv

-----------------------------------------------------------------------------
\* The inductive invariant: counts need the versions to be kept, and the other way round.
THEOREM IInvHolds == Spec => []IInv
<1>1. IInv /\ [Next]_vars => IInv'
  <2> SUFFICES ASSUME IInv, [Next]_vars PROVE IInv'
    OBVIOUS
  <2>1. CASE SyncStep
    BY <2>1, QuietSyncKeepsInv, RegistryKeepsInv DEF SyncStep
  <2>2. ASSUME NEW r \in Run, RunStep(r) PROVE IInv'
    BY <2>2, AcquireKeepsInv, FinishKeepsInv DEF RunStep
  <2>3. ASSUME NEW r \in Run, NEW p \in Provider, AskCLI(r, p) PROVE IInv'
    BY <2>3, AskKeepsInv
  <2>6. ASSUME NEW r \in Run, NEW p \in Provider, NEW k \in Revision, AskChat(r, p, k)
        PROVE  IInv'
    BY <2>6, AskKeepsInv
  <2>4. CASE Rollback
    BY <2>4, RegistryKeepsInv
  <2>5. ASSUME NEW k \in Revision, Publish(k) PROVE IInv'
    BY <2>5, OutsideKeepsInv
  <2>7. ASSUME NEW pair \in Unsteady, Flap(pair) PROVE IInv'
    BY <2>7, OutsideKeepsInv
  <2>8. CASE UNCHANGED vars
    BY <2>8, OutsideKeepsInv
  <2> QED
    BY <2>1, <2>2, <2>3, <2>4, <2>5, <2>6, <2>7, <2>8 DEF Next
<1> QED
  BY <1>1, InitInv, PTL DEF Spec

\* No step leaves the types, for any catalogs.
THEOREM TypeCorrect == Spec => []TypeOK
BY IInvHolds, PTL DEF IInv

\* ActiveRuns of activateLocked, Acquire and Release is the number of runs in hand.
THEOREM CountsExactHolds == Spec => []CountsExact
BY IInvHolds, PTL DEF IInv

\* No snapshot and no rollback replaces a version that a run holds.
THEOREM RunningVersionKeptHolds == Spec => []RunningVersionKept
BY IInvHolds, PTL DEF IInv

\* Rejected snapshots never become active, never the target of a rollback, and are
\* never reported as active.
THEOREM LastKnownGoodHolds == Spec => []LastKnownGood
BY IInvHolds, PTL DEF IInv

-----------------------------------------------------------------------------
\* Without rollbacks, the goroutine alone moves the active revision, and forward.
Forward ==
  /\ reported <= current
  /\ sync.pc \in {"list", "refresh", "set"} => sync.active = current

\* The control plane is never told of an older revision than before.
THEOREM ReportsNeverGoBackHolds ==
  ASSUME MaxRollbacks = 0
  PROVE  Spec => ReportsNeverGoBack
<1>1. Init => Forward
  BY DEF Init, Forward, Idle, Builtin
<1>2. IInv /\ Forward /\ [Next]_vars => Forward' /\ reported' >= reported
  <2> SUFFICES ASSUME IInv, Forward, [Next]_vars
               PROVE  Forward' /\ reported' >= reported
    OBVIOUS
  <2>1. reported \in Nat /\ current \in Nat /\ (sync.revision \in Revision => sync.revision \in Nat)
    BY RevisionsAreNumbers DEF IInv, TypeOK
  <2>2. CASE Apply
    BY <2>1, <2>2 DEF Apply, Accepts, Activate, Forward, IInv, TypeOK, registry, Idle
  <2>3. CASE SyncStep /\ ~Apply
    <3> USE DEF Forward, IInv, TypeOK, registry, Idle
    <3>1. CASE Fetch
      BY <2>1, <3>1 DEF Fetch
    <3>2. ASSUME NEW pair \in sync.todo, Conform(pair) PROVE Forward' /\ reported' >= reported
      BY <2>1, <3>2 DEF Conform
    <3>3. ASSUME NEW pair \in sync.todo, Probe(pair) PROVE Forward' /\ reported' >= reported
      BY <2>1, <3>3 DEF Probe
    <3>4. CASE ListStatuses
      BY <2>1, <3>4 DEF ListStatuses
    <3>5. CASE SetHealth
      BY <2>1, <3>5 DEF SetHealth
    <3>6. CASE AckReceived
      BY <2>1, <3>6 DEF AckReceived
    <3>7. CASE AckLost
      BY <2>1, <3>7 DEF AckLost
    <3> QED
      BY <2>3, <3>1, <3>2, <3>3, <3>4, <3>5, <3>6, <3>7 DEF SyncStep
  <2>4. CASE ~SyncStep
    <3>1. ~Rollback
      BY DEF Rollback, IInv, TypeOK
    <3>2. UNCHANGED <<reported, current, sync>>
      BY <2>4, <3>1 DEF Next, RunStep, Acquire, Finish, AskCLI, AskChat, Publish, Flap,
        registry, vars
    <3> QED
      BY <2>1, <3>2 DEF Forward
  <2> QED
    BY <2>2, <2>3, <2>4
<1>3. IInv /\ Forward /\ [Next]_vars => [reported' >= reported]_vars
  BY <1>2
<1> QED
  BY <1>1, <1>2, <1>3, IInvHolds, PTL DEF Spec, ReportsNeverGoBack

-----------------------------------------------------------------------------
(* The leases of environments                                              *)

LeasePcs == {"idle", "prepare", "store", "stop", "mark", "drop", "collect", "forget"}

LeaseCalls == [pc : LeasePcs, id : LeaseIds \cup {"none"}, num : Nat, rest : SUBSET LeaseIds, gc : BOOLEAN]

LeaseTypes ==
  /\ acquired \in Nat
  /\ lease \in [LeaseIds -> 0..acquired] /\ held \in [LeaseIds -> 0..acquired]
  /\ sandbox \subseteq 1..acquired /\ marked \subseteq 0..acquired
  /\ call \in [Callers -> LeaseCalls]
  /\ \A c \in Callers :
       /\ call[c].num <= acquired
       /\ call[c].pc \in {"prepare", "store", "stop", "mark", "drop", "forget"} => call[c].id \in LeaseIds

\* The environments that nobody else may have touched.
Own == sandbox \ (unknown \cup crossed)

\* An acquisition is its caller's alone until it is stored; its id stands for it, and it is not
\* marked as released, unless a release for another one has changed that.
AcquirerAlone ==
  \A c \in Callers : call[c].pc \in {"prepare", "store"} =>
    LET n == call[c].num IN
      /\ n # 0
      /\ \A d \in Callers \ {c} : call[d].num # n
      /\ \A i \in LeaseIds : held[i] # n
      /\ lease[call[c].id] = n \/ n \in crossed
      /\ call[c].pc = "prepare" => n \notin marked \/ n \in crossed

\* What has been released in the backend is not there any more.
ReleasedIsGone ==
  \A c \in Callers : call[c].pc \in {"mark", "drop", "forget"} => call[c].num \notin sandbox

\* The entry of an environment and the lease of its id say the same.
EntryHasLease == \A i \in LeaseIds : held[i] \in Own => lease[i] = held[i]

\* There is an entry for an environment from the moment that its caller stores it.
EntryOrStore ==
  \A n \in Own :
    \/ \E i \in LeaseIds : held[i] = n
    \/ \E c \in Callers : call[c].num = n /\ call[c].pc = "store"

LeasesInv ==
  /\ LeaseTypes /\ AcquirerAlone /\ ReleasedIsGone /\ EntryHasLease /\ EntryOrStore
  /\ Own \cap marked = {}

LEMMA LeasesInit == Leases!Init => LeasesInv
BY DEF Leases!Init, Leases!Idle, Leases!Call, LeasesInv, LeaseTypes, LeaseCalls, LeasePcs, AcquirerAlone,
       ReleasedIsGone, EntryHasLease, EntryOrStore, Own

\* A call moves to a step of the program, and the others stay.
CallMoves(c) == call' \in [Callers -> LeaseCalls] /\ \A d \in Callers \ {c} : call'[d] = call[d]

LEMMA LeaseGoto ==
  ASSUME LeasesInv, NEW c \in Callers, NEW pc \in LeasePcs, Leases!Goto(c, pc)
  PROVE  /\ CallMoves(c)
         /\ call'[c].pc = pc /\ call'[c].id = call[c].id /\ call'[c].num = call[c].num
BY DEF LeasesInv, LeaseTypes, LeaseCalls, Leases!Goto, CallMoves

LEMMA LeaseDone ==
  ASSUME LeasesInv, NEW c \in Callers, Leases!Done(c)
  PROVE  CallMoves(c) /\ call'[c].pc = "idle" /\ call'[c].num = 0
BY DEF LeasesInv, LeaseTypes, LeaseCalls, LeasePcs, Leases!Done, Leases!Idle, Leases!Call, CallMoves

LEMMA LeaseCollects ==
  ASSUME LeasesInv, NEW c \in Callers, Leases!Collects(c)
  PROVE  /\ CallMoves(c) /\ call'[c].pc \in {"idle", "collect"}
         /\ call'[c].num \in {0, call[c].num}
BY LeaseGoto, LeaseDone DEF Leases!Collects, LeasePcs

\* A caller that is not about to store leaves the entries as they account for the environments.
LEMMA EntriesStay ==
  ASSUME EntryOrStore, NEW c \in Callers, CallMoves(c), call[c].pc # "store",
         held' = held, sandbox' \subseteq sandbox, unknown \subseteq unknown', crossed \subseteq crossed'
  PROVE  EntryOrStore'
<1>1. Own' \subseteq Own
  BY DEF Own
<1> SUFFICES ASSUME NEW n \in Own
             PROVE  \/ \E i \in LeaseIds : held'[i] = n
                    \/ \E d \in Callers : call'[d].num = n /\ call'[d].pc = "store"
  BY <1>1 DEF EntryOrStore
<1>2. ASSUME NEW d \in Callers, call[d].num = n, call[d].pc = "store"
      PROVE  \E e \in Callers : call'[e].num = n /\ call'[e].pc = "store"
  BY <1>2 DEF CallMoves
<1> QED
  BY <1>2 DEF EntryOrStore

LEMMA LeasesStep == LeasesInv /\ Leases!Next => LeasesInv'
<1> SUFFICES ASSUME LeasesInv, Leases!Next PROVE LeasesInv'
  OBVIOUS
<1> USE DEF LeasesInv, LeaseTypes, LeasePcs, AcquirerAlone, ReleasedIsGone, EntryHasLease,
            EntryOrStore, Own, Leases!Crosses, CallMoves
<1>1. ASSUME NEW c \in Callers, NEW i \in LeaseIds, Leases!Acquire(c, i) PROVE LeasesInv'
  <2>1. /\ CallMoves(c) /\ call'[c].pc = "prepare" /\ call'[c].id = i /\ call'[c].num = acquired + 1
    <3>1. call' = [call EXCEPT ![c] = [pc |-> "prepare", id |-> i, num |-> acquired + 1,
                                       rest |-> {}, gc |-> FALSE]]
      BY <1>1 DEF Leases!Acquire, Leases!Idle, Leases!Call
    <3>2. [pc |-> "prepare", id |-> i, num |-> acquired + 1, rest |-> {}, gc |-> FALSE] \in LeaseCalls
      BY DEF LeaseCalls
    <3> QED
      BY <3>1, <3>2
  <2>2. /\ lease' = [lease EXCEPT ![i] = acquired + 1] /\ lease[i] = 0 /\ acquired' = acquired + 1
        /\ UNCHANGED <<marked, held, sandbox, unknown, crossed>>
    BY <1>1 DEF Leases!Acquire
  <2>3. LeaseTypes'
    <3>1. acquired' \in Nat /\ lease' \in [LeaseIds -> 0..acquired'] /\ held' \in [LeaseIds -> 0..acquired']
      BY <2>2
    <3>2. sandbox' \subseteq 1..acquired' /\ marked' \subseteq 0..acquired'
      BY <2>2
    <3>3. \A d \in Callers : call'[d].num <= acquired'
      <4>1. \A d \in Callers : call[d].num \in Nat /\ call[d].num <= acquired
        BY DEF LeaseCalls
      <4> QED
        BY <2>1, <2>2, <4>1
    <3>4. \A d \in Callers :
            call'[d].pc \in {"prepare", "store", "stop", "mark", "drop", "forget"} => call'[d].id \in LeaseIds
      BY <2>1
    <3> QED
      BY <2>1, <3>1, <3>2, <3>3, <3>4
  <2>4. AcquirerAlone'
    <3>1. \A d \in Callers : call[d].num # acquired + 1
      BY DEF LeaseCalls
    <3>2. /\ \A j \in LeaseIds : held[j] # acquired + 1
          /\ acquired + 1 \notin marked /\ acquired + 1 # 0
      OBVIOUS
    <3> QED
      BY <2>1, <2>2, <3>1, <3>2
  <2>5. ReleasedIsGone' /\ EntryHasLease'
    BY <2>1, <2>2
  <2>6. call[c].pc = "idle"
    BY <1>1 DEF Leases!Acquire
  <2>7. EntryOrStore'
    BY <2>1, <2>2, <2>6, EntriesStay
  <2> QED
    BY <2>2, <2>3, <2>4, <2>5, <2>7
<1>2. ASSUME NEW c \in Callers, NEW i \in LeaseIds, Leases!Release(c, i) PROVE LeasesInv'
  <2>1. /\ CallMoves(c) /\ call'[c].pc = "stop" /\ call'[c].id = i /\ call'[c].num = held[i]
    <3>1. call' = [call EXCEPT ![c] = [pc |-> "stop", id |-> i, num |-> held[i],
                                       rest |-> {}, gc |-> FALSE]]
      BY <1>2 DEF Leases!Release, Leases!Idle, Leases!Call
    <3>2. [pc |-> "stop", id |-> i, num |-> held[i], rest |-> {}, gc |-> FALSE] \in LeaseCalls
      BY DEF LeaseCalls
    <3> QED
      BY <3>1, <3>2
  <2>2. UNCHANGED <<lease, marked, held, sandbox, acquired, unknown, crossed>> /\ call[c].pc = "idle"
    BY <1>2 DEF Leases!Release
  <2> QED
    BY <2>1, <2>2
<1>3. ASSUME NEW c \in Callers, Leases!Prepare(c) PROVE LeasesInv'
  <2>1. CallMoves(c) /\ call'[c].pc = "store" /\ call'[c].id = call[c].id /\ call'[c].num = call[c].num
    BY <1>3, LeaseGoto DEF Leases!Prepare
  <2>2. /\ UNCHANGED <<lease, marked, held, acquired, unknown, crossed>> /\ call[c].pc = "prepare"
        /\ sandbox' = sandbox \cup {call[c].num} /\ call[c].num \in 1..acquired
    BY <1>3 DEF Leases!Prepare, LeaseCalls
  <2>3. LeaseTypes'
    BY <2>1, <2>2
  <2>4. AcquirerAlone'
    BY <2>1, <2>2
  <2>5. ReleasedIsGone'
    BY <2>1, <2>2
  <2>6. EntryHasLease'
    BY <2>1, <2>2
  <2>7. EntryOrStore'
    BY <2>1, <2>2
  <2>8. (Own \cap marked = {})'
    BY <2>1, <2>2
  <2> QED
    BY <2>3, <2>4, <2>5, <2>6, <2>7, <2>8
<1>4. ASSUME NEW c \in Callers, Leases!PrepareFails(c) PROVE LeasesInv'
  <2>1. CallMoves(c) /\ call'[c].pc = "idle" /\ call'[c].num = 0
    BY <1>4, LeaseDone DEF Leases!PrepareFails
  <2>2. /\ UNCHANGED <<marked, held, acquired>> /\ call[c].pc = "prepare"
        /\ lease' = [lease EXCEPT ![call[c].id] = 0] /\ unknown' = unknown \cup {call[c].num}
        /\ crossed' = crossed \cup ({lease[call[c].id]} \ {0, call[c].num})
        /\ sandbox' \in {sandbox, sandbox \cup {call[c].num}} /\ call[c].num \in 1..acquired
    BY <1>4 DEF Leases!PrepareFails, LeaseCalls
  <2> QED
    BY <2>1, <2>2
<1>5. ASSUME NEW c \in Callers, Leases!Store(c) PROVE LeasesInv'
  <2>1. CallMoves(c) /\ call'[c].pc = "idle" /\ call'[c].num = 0
    BY <1>5, LeaseDone DEF Leases!Store
  <2>2. /\ UNCHANGED <<lease, marked, sandbox, acquired, unknown>> /\ call[c].pc = "store"
        /\ held' = [held EXCEPT ![call[c].id] = call[c].num]
        /\ crossed' = crossed \cup (IF call[c].num \in crossed THEN {held[call[c].id]} \ {0} ELSE {})
        /\ call[c].num \in 1..acquired
    BY <1>5 DEF Leases!Store, LeaseCalls
  <2>3. held[call[c].id] \notin sandbox \ (unknown \cup crossed')
    BY <2>2
  <2>4. LeaseTypes' /\ AcquirerAlone' /\ ReleasedIsGone'
    BY <2>1, <2>2
  <2>5. EntryHasLease'
    BY <2>1, <2>2, <2>3
  <2>6. EntryOrStore'
    <3> SUFFICES ASSUME NEW n \in Own'
                 PROVE  \/ \E j \in LeaseIds : held'[j] = n
                        \/ \E d \in Callers : call'[d].num = n /\ call'[d].pc = "store"
      OBVIOUS
    <3>1. n \in Own
      BY <2>2
    <3>2. CASE \E j \in LeaseIds : held[j] = n
      BY <2>2, <2>3, <3>2
    <3>3. ASSUME NEW d \in Callers, call[d].num = n, call[d].pc = "store"
          PROVE  \/ \E j \in LeaseIds : held'[j] = n
                 \/ \E e \in Callers : call'[e].num = n /\ call'[e].pc = "store"
      BY <2>1, <2>2, <3>3
    <3> QED
      BY <3>1, <3>2, <3>3
  <2> QED
    BY <2>2, <2>4, <2>5, <2>6
<1>6. ASSUME NEW c \in Callers, Leases!BackendReleases(c) PROVE LeasesInv'
  <2>1. CallMoves(c) /\ call'[c].pc = "mark" /\ call'[c].id = call[c].id /\ call'[c].num = call[c].num
    BY <1>6, LeaseGoto DEF Leases!BackendReleases
  <2>2. /\ UNCHANGED <<lease, marked, held, acquired, unknown, crossed>> /\ call[c].pc = "stop"
        /\ sandbox' = sandbox \ {call[c].num}
    BY <1>6 DEF Leases!BackendReleases
  <2>3. LeaseTypes'
    BY <2>1, <2>2
  <2>6. AcquirerAlone'
    <3>1. \A d \in Callers : call'[d].num = call[d].num
      BY <2>1
    <3> QED
      BY <2>1, <2>2, <3>1
  <2>4. ReleasedIsGone' /\ EntryHasLease'
    BY <2>1, <2>2
  <2>5. EntryOrStore'
    BY <2>1, <2>2, EntriesStay
  <2> QED
    BY <2>2, <2>3, <2>4, <2>5, <2>6
<1>7. ASSUME NEW c \in Callers, Leases!BackendFails(c) PROVE LeasesInv'
  <2>1. CallMoves(c) /\ call'[c].pc \in {"idle", "collect"} /\ call'[c].num \in {0, call[c].num}
    BY <1>7, LeaseCollects DEF Leases!BackendFails
  <2>2. /\ UNCHANGED <<lease, marked, held, acquired, unknown, crossed>> /\ call[c].pc = "stop"
        /\ sandbox' \in {sandbox, sandbox \ {call[c].num}}
    BY <1>7 DEF Leases!BackendFails
  <2> QED
    BY <2>1, <2>2
<1>8. ASSUME NEW c \in Callers, Leases!Mark(c) PROVE LeasesInv'
  <2>1. /\ UNCHANGED <<lease, held, sandbox, acquired, unknown>> /\ call[c].pc = "mark"
        /\ crossed' = crossed \cup ({lease[call[c].id]} \ {0, call[c].num})
    BY <1>8 DEF Leases!Mark
  <2>2. CASE lease[call[c].id] = 0 /\ Leases!Collects(c) /\ UNCHANGED marked
    <3>1. CallMoves(c) /\ call'[c].pc \in {"idle", "collect"} /\ call'[c].num \in {0, call[c].num}
      BY <2>2, LeaseCollects
    <3> QED
      BY <2>1, <2>2, <3>1
  <2>3. CASE marked' = marked \cup {lease[call[c].id]} /\ Leases!Goto(c, "drop")
    <3>1. CallMoves(c) /\ call'[c].pc = "drop" /\ call'[c].id = call[c].id /\ call'[c].num = call[c].num
      BY <2>3, LeaseGoto
    <3>2. call[c].id \in LeaseIds /\ call[c].num \notin sandbox /\ lease[call[c].id] \in 0..acquired
      BY <2>1
    <3>3. LeaseTypes'
      BY <2>1, <2>3, <3>1, <3>2
    <3>4. AcquirerAlone'
      <4> SUFFICES ASSUME NEW d \in Callers, call'[d].pc \in {"prepare", "store"}
                   PROVE  LET n == call'[d].num IN
                            /\ n # 0
                            /\ \A e \in Callers \ {d} : call'[e].num # n
                            /\ \A i \in LeaseIds : held'[i] # n
                            /\ lease'[call'[d].id] = n \/ n \in crossed'
                            /\ call'[d].pc = "prepare" => n \notin marked' \/ n \in crossed'
        OBVIOUS
      <4>1. d # c /\ call'[d] = call[d] /\ \A e \in Callers : call'[e].num = call[e].num
        BY <3>1
      <4> QED
        BY <2>1, <2>3, <4>1
    <3>5. ReleasedIsGone' /\ EntryHasLease'
      BY <2>1, <3>1
    <3>6. EntryOrStore'
      BY <2>1, <3>1, EntriesStay
    <3>7. (Own \cap marked = {})'
      BY <2>1, <2>3, <3>2
    <3> QED
      BY <3>3, <3>4, <3>5, <3>6, <3>7
  <2> QED
    BY <1>8, <2>2, <2>3 DEF Leases!Mark
<1>9. ASSUME NEW c \in Callers, Leases!Drop(c) PROVE LeasesInv'
  <2>1. /\ UNCHANGED <<lease, marked, sandbox, acquired, unknown>> /\ call[c].pc = "drop"
        /\ crossed' = crossed \cup ({held[call[c].id]} \ {0, call[c].num})
        /\ held' = [held EXCEPT ![call[c].id] = 0]
    BY <1>9 DEF Leases!Drop
  <2>2. /\ CallMoves(c) /\ call'[c].pc \in {"idle", "forget"}
        /\ call'[c].pc = "forget" => call'[c].id = call[c].id /\ call'[c].num = call[c].num
        /\ call'[c].num \in {0, call[c].num}
    BY <1>9, LeaseGoto, LeaseDone DEF Leases!Drop
  <2>3. LeaseTypes' /\ AcquirerAlone' /\ ReleasedIsGone'
    BY <2>1, <2>2
  <2> QED
    BY <2>1, <2>2, <2>3
<1>10. ASSUME NEW c \in Callers, Leases!GC(c) PROVE LeasesInv'
  <2>1. /\ CallMoves(c) /\ call'[c].pc = "collect" /\ call'[c].num = 0
        /\ UNCHANGED <<lease, marked, held, sandbox, acquired, unknown, crossed>>
        /\ call[c].pc = "idle"
    <3>1. PICK ids \in SUBSET LeaseIds :
            call' = [call EXCEPT ![c] = [pc |-> "collect", id |-> "none", num |-> 0,
                                         rest |-> ids, gc |-> TRUE]]
      BY <1>10 DEF Leases!GC, Leases!Idle, Leases!Call
    <3>2. [pc |-> "collect", id |-> "none", num |-> 0, rest |-> ids, gc |-> TRUE] \in LeaseCalls
      BY DEF LeaseCalls
    <3> QED
      BY <1>10, <3>1, <3>2 DEF Leases!GC
  <2> QED
    BY <2>1
<1>11. ASSUME NEW c \in Callers, Leases!Collect(c) PROVE LeasesInv'
  <2>1. UNCHANGED <<lease, marked, held, sandbox, acquired, unknown, crossed>> /\ call[c].pc = "collect"
    BY <1>11 DEF Leases!Collect
  <2>2. CASE Leases!Done(c)
    <3>1. CallMoves(c) /\ call'[c].pc = "idle" /\ call'[c].num = 0
      BY <2>2, LeaseDone
    <3> QED
      BY <2>1, <3>1
  <2>3. ASSUME NEW i \in call[c].rest,
               call' = [call EXCEPT ![c].pc = IF held[i] # 0 THEN "stop"
                                              ELSE IF lease[i] # 0 THEN "forget" ELSE "collect",
                                    ![c].id = i, ![c].num = held[i], ![c].rest = @ \ {i}]
        PROVE  LeasesInv'
    <3>1. i \in LeaseIds /\ call[c] \in LeaseCalls
      BY <2>3 DEF LeaseCalls
    <3>2. /\ CallMoves(c) /\ call'[c].pc \in {"stop", "forget", "collect"}
          /\ (call'[c].pc # "stop" => held[i] = 0) /\ call'[c].id = i /\ call'[c].num = held[i]
      BY <2>3, <3>1 DEF LeaseCalls
    <3> QED
      BY <2>1, <3>1, <3>2
  <2> QED
    BY <1>11, <2>2, <2>3 DEF Leases!Collect
<1>12. ASSUME NEW c \in Callers, Leases!Forget(c) PROVE LeasesInv'
  <2>1. /\ UNCHANGED <<held, marked, sandbox, acquired, unknown>> /\ call[c].pc = "forget"
        /\ crossed' = crossed \cup ({lease[call[c].id]} \ {0, call[c].num})
        /\ lease' = [lease EXCEPT ![call[c].id] = 0]
    BY <1>12 DEF Leases!Forget
  <2>2. /\ CallMoves(c) /\ call'[c].pc = "collect" /\ call'[c].num = call[c].num
    BY <1>12, LeaseGoto DEF Leases!Forget
  <2>3. LeaseTypes' /\ ReleasedIsGone'
    BY <2>1, <2>2
  <2>4. AcquirerAlone'
    BY <2>1, <2>2
  <2> QED
    BY <2>1, <2>2, <2>3, <2>4
<1>13. ASSUME NEW n \in 1..MaxAcquire, Leases!Expire(n) PROVE LeasesInv'
  BY <1>13 DEF Leases!Expire
<1> HIDE DEF LeasesInv
<1> QED
  BY <1>1, <1>2, <1>3, <1>4, <1>5, <1>6, <1>7, <1>8, <1>9, <1>10, <1>11, <1>12, <1>13 DEF Leases!Next

\* Somebody will release every environment that exists, and a lease that is marked as released
\* has none: RuntimeManager.Acquire and Release (runtime.go), which hold no lock while the backend works.
THEOREM LeasesAccountedHolds == MCSpec => []LeasesAccounted
<1>1. MCInit => LeasesInv
  BY LeasesInit DEF MCInit
<1>2. LeasesInv /\ [MCNext]_<<part, vars, leaseVars>> => LeasesInv'
  <2> SUFFICES ASSUME LeasesInv, [MCNext]_<<part, vars, leaseVars>>
               PROVE  LeasesInv'
    OBVIOUS
  <2>1. CASE Leases!Next
    BY <2>1, LeasesStep
  <2>2. CASE UNCHANGED leaseVars
    BY <2>2 DEF leaseVars, LeasesInv, LeaseTypes, AcquirerAlone, ReleasedIsGone, EntryHasLease,
                EntryOrStore, Own
  <2> QED
    BY <2>1, <2>2 DEF MCNext
<1>3. LeasesInv => LeasesAccounted
  <2> SUFFICES ASSUME LeasesInv PROVE LeasesAccounted
    OBVIOUS
  <2>1. Leases!Accounted
    BY DEF LeasesInv, EntryOrStore, Own, Leases!Accounted
  <2>2. Leases!ReleasedMeansGone
    BY DEF LeasesInv, Own, Leases!ReleasedMeansGone
  <2> QED
    BY <2>1, <2>2 DEF LeasesAccounted
<1> QED
  BY <1>1, <1>2, <1>3, PTL DEF MCSpec

=============================================================================
