-------------------------- MODULE EnvironmentLeases --------------------------
(***************************************************************************)
(* RuntimeManager and its Manager of leases: environments that several     *)
(* callers acquire and release under the id of a lease, and the collector  *)
(* of those that have expired.  The table of leases and the table of       *)
(* active environments have a lock each, and none is held while the        *)
(* backend works.                                                          *)
(*                                                                         *)
(* The id of a lease may come back once the lease is forgotten; every      *)
(* acquisition has a number of its own.                                    *)
(***************************************************************************)
EXTENDS Naturals, FiniteSets

CONSTANTS
  Callers,    \* goroutines that acquire, release and collect
  Ids,        \* ids of leases
  MaxAcquire, \* acquisitions
  Batch       \* GCBatchLimit

VARIABLES
  lease,     \* Manager.leases: the acquisition that each id stands for, 0 if there is none
  released,  \* the acquisitions whose lease was marked as released
  active,    \* RuntimeManager.active, 0 if there is no entry
  sandbox,   \* the environments that exist in the backend
  expired,   \* the acquisitions whose time is over
  call,      \* the callers
  count,     \* acquisitions so far
  unknown,   \* history: the preparation failed, and may have had its effect
  crossed    \* history: its entry or its lease was changed by a release for another one of its id

vars == <<lease, released, active, sandbox, expired, call, count, unknown, crossed>>

Call(pc, i, num) == [pc |-> pc, id |-> i, num |-> num, rest |-> {}, gc |-> FALSE]
Idle == Call("idle", "none", 0)

Init ==
  /\ lease = [i \in Ids |-> 0] /\ active = [i \in Ids |-> 0]
  /\ released = {} /\ sandbox = {} /\ expired = {} /\ unknown = {} /\ crossed = {}
  /\ call = [c \in Callers |-> Idle]
  /\ count = 0

Goto(c, pc) == call' = [call EXCEPT ![c].pc = pc]
Done(c) == call' = [call EXCEPT ![c] = Idle]

\* What the id stands for by now is not what the call is for.
Crosses(c, table) == crossed' = crossed \cup ({table[call[c].id]} \ {0, call[c].num})

-----------------------------------------------------------------------------
(* Acquire.                                                                *)

\* Mutant: an id may be acquired again while its lease is there.
AcquireAgain(c, i) ==
  /\ call[c].pc = "idle" /\ count < MaxAcquire
  /\ count' = count + 1
  /\ lease' = [lease EXCEPT ![i] = count']
  /\ call' = [call EXCEPT ![c] = Call("prepare", i, count')]
  /\ UNCHANGED <<released, active, sandbox, expired, unknown, crossed>>

\* The spec and the lease are valid, and the id is free.
Acquire(c, i) ==
  /\ call[c].pc = "idle" /\ count < MaxAcquire /\ lease[i] = 0
  /\ count' = count + 1
  /\ lease' = [lease EXCEPT ![i] = count']
  /\ call' = [call EXCEPT ![c] = Call("prepare", i, count')]
  /\ UNCHANGED <<released, active, sandbox, expired, unknown, crossed>>

Prepare(c) ==
  /\ call[c].pc = "prepare"
  /\ sandbox' = sandbox \cup {call[c].num}
  /\ Goto(c, "store")
  /\ UNCHANGED <<lease, released, active, expired, count, unknown, crossed>>

\* The lease is forgotten, whatever the backend has done; a handle that is empty cannot be
\* released with success.
PrepareFails(c) ==
  /\ call[c].pc = "prepare"
  /\ sandbox' \in {sandbox, sandbox \cup {call[c].num}}
  /\ unknown' = unknown \cup {call[c].num}
  /\ lease' = [lease EXCEPT ![call[c].id] = 0]
  /\ Crosses(c, lease)
  /\ Done(c)
  /\ UNCHANGED <<released, active, expired, count>>

Store(c) ==
  /\ call[c].pc = "store"
  /\ active' = [active EXCEPT ![call[c].id] = call[c].num]
  /\ crossed' = crossed \cup (IF call[c].num \in crossed THEN {active[call[c].id]} \ {0} ELSE {})
  /\ Done(c)
  /\ UNCHANGED <<lease, released, sandbox, expired, count, unknown>>

-----------------------------------------------------------------------------
(* Release.                                                                *)

\* Without an entry there is nothing to do: the lease is answered as it is.
Release(c, i) ==
  /\ call[c].pc = "idle" /\ active[i] # 0
  /\ call' = [call EXCEPT ![c] = Call("stop", i, active[i])]
  /\ UNCHANGED <<lease, released, active, sandbox, expired, count, unknown, crossed>>

BackendReleases(c) ==
  /\ call[c].pc = "stop"
  /\ sandbox' = sandbox \ {call[c].num}
  /\ Goto(c, "mark")
  /\ UNCHANGED <<lease, released, active, expired, count, unknown, crossed>>

\* Mutant: a release that failed forgets the environment too.
ForgetsAnyway(c) ==
  /\ call[c].pc = "stop"
  /\ sandbox' \in {sandbox, sandbox \ {call[c].num}}
  /\ Goto(c, "mark")
  /\ UNCHANGED <<lease, released, active, expired, count, unknown, crossed>>

Collects(c) == IF call[c].gc THEN Goto(c, "collect") ELSE Done(c)

\* The entry stays, to be released again.
BackendFails(c) ==
  /\ call[c].pc = "stop"
  /\ sandbox' \in {sandbox, sandbox \ {call[c].num}}
  /\ Collects(c)
  /\ UNCHANGED <<lease, released, active, expired, count, unknown, crossed>>

\* A lease that is gone is an error, and the entry stays.
Mark(c) ==
  /\ call[c].pc = "mark"
  /\ IF lease[call[c].id] = 0
     THEN Collects(c) /\ UNCHANGED released
     ELSE released' = released \cup {lease[call[c].id]} /\ Goto(c, "drop")
  /\ Crosses(c, lease)
  /\ UNCHANGED <<lease, active, sandbox, expired, count, unknown>>

Drop(c) ==
  /\ call[c].pc = "drop"
  /\ active' = [active EXCEPT ![call[c].id] = 0]
  /\ Crosses(c, active)
  /\ IF call[c].gc THEN Goto(c, "forget") ELSE Done(c)
  /\ UNCHANGED <<lease, released, sandbox, expired, count, unknown>>

-----------------------------------------------------------------------------
(* The collector.                                                          *)

Expire(n) ==
  /\ n \in 1..count \ expired
  /\ expired' = expired \cup {n}
  /\ UNCHANGED <<lease, released, active, sandbox, call, count, unknown, crossed>>

\* gcCandidates: a batch of the entries that have expired.
GC(c) ==
  /\ call[c].pc = "idle"
  /\ \E ids \in SUBSET {i \in Ids : active[i] \in expired} :
       /\ ids # {} /\ Cardinality(ids) <= Batch
       /\ Cardinality(ids) < Batch => \A i \in Ids \ ids : active[i] \notin expired
       /\ call' = [call EXCEPT ![c] = [pc |-> "collect", id |-> "none", num |-> 0, rest |-> ids, gc |-> TRUE]]
  /\ UNCHANGED <<lease, released, active, sandbox, expired, count, unknown, crossed>>

\* Each is released by its id, which may stand for something else by now.
Collect(c) ==
  /\ call[c].pc = "collect"
  /\ IF call[c].rest = {}
     THEN Done(c)
     ELSE \E i \in call[c].rest :
            call' = [call EXCEPT ![c].pc = IF active[i] # 0 THEN "stop"
                                           ELSE IF lease[i] # 0 THEN "forget" ELSE "collect",
                                 ![c].id = i, ![c].num = active[i], ![c].rest = @ \ {i}]
  /\ UNCHANGED <<lease, released, active, sandbox, expired, count, unknown, crossed>>

\* The lease of what was released is forgotten, and its id is free.
Forget(c) ==
  /\ call[c].pc = "forget"
  /\ lease' = [lease EXCEPT ![call[c].id] = 0]
  /\ Crosses(c, lease)
  /\ Goto(c, "collect")
  /\ UNCHANGED <<released, active, sandbox, expired, count, unknown>>

Next ==
  \/ \E c \in Callers :
       \/ \E i \in Ids : Acquire(c, i) \/ Release(c, i)
       \/ Prepare(c) \/ PrepareFails(c) \/ Store(c)
       \/ BackendReleases(c) \/ BackendFails(c) \/ Mark(c) \/ Drop(c)
       \/ GC(c) \/ Collect(c) \/ Forget(c)
  \/ \E n \in 1..MaxAcquire : Expire(n)

Spec == Init /\ [][Next]_vars

-----------------------------------------------------------------------------
\* Somebody will still release every environment: it has its entry, or a caller is at it.
\* What a failed preparation has left is for the backend to find, and a release for one lease
\* of an id may drop the entry of another.
Accounted ==
  \A n \in sandbox \ (unknown \cup crossed) :
    \/ \E i \in Ids : active[i] = n
    \/ \E c \in Callers : call[c].num = n /\ call[c].pc \in {"store", "stop"}

\* The lease of an environment that exists is not marked as released, unless by a release for
\* another one of its id.
ReleasedMeansGone == sandbox \cap released \subseteq unknown \cup crossed

=============================================================================
