------------------------- MODULE ClusterWritesProofs -------------------------
(***************************************************************************)
(* Proofs about the requests to a cluster, each for any number of requests *)
(* and any bounds: the types and the action properties of ClusterWrites,   *)
(* and what MCCluster states of releases (HelmReleases), of requests with  *)
(* several documents (DocumentTasks), of informers (ClusterReads) and of   *)
(* pages of logs (PodLogs).                                                *)
(***************************************************************************)
EXTENDS MCCluster, FiniteOrders, TLAPS

-----------------------------------------------------------------------------
(* The inductive invariant                                                 *)

\* An identity is given out once, and a name without an object has nothing.
Identities ==
  /\ obj.uid <= uids
  /\ obj.uid = 0 => obj = Absent

\* Where a request of each kind can be.
Places ==
  \A c \in Callers :
    /\ req[c].pc = "list" => req[c].kind = "rollback"
    /\ req[c].pc # "idle" => req[c].kind # None
    /\ req[c].pc \in {"get", "list"} => req[c].kind # "create"

\* A request that is going to write has read the object.
Holds(c) == req[c].pc \in {"list", "write"} /\ req[c].kind # "create"

\* What it has read stands for the object as long as identity and version are the same.
StandsFor(c) ==
  /\ req[c].copy.uid \in 1..uids
  /\ obj.uid = req[c].copy.uid =>
       /\ req[c].copy.version <= obj.version
       /\ req[c].copy.version = obj.version => obj = req[c].copy

\* It passed the checks.
Passed(c) ==
  /\ req[c].kind \in Pods \/ req[c].copy.owned = FALSE
  /\ req[c].kind \in Observed => req[c].copy.uid = req[c].seen.uid
  /\ req[c].kind = "edit observed" => req[c].copy.version = req[c].seen.version

CopyIsTrue(c) == StandsFor(c) /\ Passed(c)

Copies == \A c \in Callers : Holds(c) => CopyIsTrue(c)

IInv == TypeOK /\ Identities /\ Places /\ Copies

-----------------------------------------------------------------------------
(* The types                                                               *)

\* The records of a request and of an object.
Requests ==
  [pc : {"idle", "get", "list", "write"}, kind : Kinds \cup {None},
   seen : [uid : 0..MaxUid, version : 0..MaxVersion], copy : Objects]

LEMMA Bounds == MaxUid \in Nat /\ MaxVersion \in Nat /\ MaxUid # 0 /\ MaxVersion # 0
BY ClusterWritesAssumption DEF ClusterWritesAssumption

\* An object whose fields were written by one writer.
LEMMA FreshIsObject ==
  ASSUME NEW uid \in 0..MaxUid, NEW version \in 0..MaxVersion, NEW owned \in BOOLEAN,
         NEW w \in Callers \cup {None, Other}
  PROVE  [uid |-> uid, version |-> version, owned |-> owned, by |-> [f \in Fields |-> w]] \in Objects
BY DEF Objects

LEMMA AbsentIsObject == Absent \in Objects
<1>1. 0 \in 0..MaxUid /\ 0 \in 0..MaxVersion
  BY Bounds
<1> QED
  BY <1>1, FreshIsObject DEF Absent

LEMMA IdleIsRequest == Idle \in Requests
<1>1. 0 \in 0..MaxUid /\ 0 \in 0..MaxVersion
  BY Bounds
<1> QED
  BY <1>1, AbsentIsObject DEF Idle, Unseen, Requests

LEMMA InitIInv == Init => IInv
<1> SUFFICES ASSUME Init PROVE IInv
  OBVIOUS
<1>1. 1 \in 0..MaxUid /\ 1 \in 0..MaxVersion /\ 1 \in 1..MaxUid
  BY Bounds
<1>2. obj \in Objects
  BY <1>1, FreshIsObject DEF Init
<1>3. req \in [Callers -> Requests]
  BY IdleIsRequest DEF Init
<1>4. TypeOK
  BY <1>1, <1>2, <1>3 DEF Init, TypeOK, Requests
<1>5. Identities
  BY DEF Init, Identities
<1>6. Places /\ Copies
  BY DEF Init, Places, Copies, Holds, Idle
<1> QED
  BY <1>4, <1>5, <1>6 DEF IInv

-----------------------------------------------------------------------------
(* How an object moves on, and what a request that does not act keeps      *)

\* Nothing happens to the object, it is written, it goes, or another one takes its name.
Same == obj' = obj /\ uids' = uids
Written == obj'.uid = obj.uid /\ obj'.version = obj.version + 1 /\ uids' = uids
Gone == obj' = Absent /\ uids' = uids
Replaced == obj'.uid = uids + 1 /\ uids' = uids + 1
Moves == Same \/ (Written /\ Exists) \/ Gone \/ Replaced

LEMMA Kept ==
  ASSUME TypeOK, Moves, NEW c \in Callers, CopyIsTrue(c), req'[c] = req[c]
  PROVE  CopyIsTrue(c)'
<1>1. uids \in Nat /\ uids' \in Nat /\ uids <= uids'
  BY Bounds DEF TypeOK, Moves, Same, Written, Gone, Replaced
<1>2. obj.uid \in Nat /\ obj.version \in Nat
  BY Bounds DEF TypeOK, Objects
<1>3. req[c].copy.version \in Nat /\ req[c].copy.uid \in Nat
  BY Bounds DEF TypeOK, Objects
<1>4. StandsFor(c) /\ Passed(c)
  BY DEF CopyIsTrue
<1>5. /\ 1 <= req[c].copy.uid /\ req[c].copy.uid <= uids
      /\ obj.uid = req[c].copy.uid =>
           /\ req[c].copy.version <= obj.version
           /\ req[c].copy.version = obj.version => obj = req[c].copy
  BY <1>1, <1>3, <1>4 DEF StandsFor
<1>6. ASSUME obj'.uid = req[c].copy.uid
      PROVE  /\ req[c].copy.version <= obj'.version
             /\ req[c].copy.version = obj'.version => obj' = req[c].copy
  <2>1. CASE Same
    BY <1>6, <1>5, <2>1 DEF Same
  <2>2. CASE Written
    BY <1>2, <1>3, <1>6, <1>5, <2>2 DEF Written
  <2>3. CASE Gone
    <3>1. obj'.uid = 0
      BY <2>3 DEF Gone, Absent
    <3> QED
      BY <1>3, <1>6, <1>5, <3>1
  <2>4. CASE Replaced
    BY <1>1, <1>3, <1>6, <1>5, <2>4 DEF Replaced
  <2> QED
    BY <2>1, <2>2, <2>3, <2>4 DEF Moves
<1>7. req[c].copy.uid \in 1..uids'
  BY <1>1, <1>3, <1>5
<1>8. StandsFor(c)'
  BY <1>6, <1>7 DEF StandsFor
<1>9. Passed(c)'
  BY <1>4 DEF Passed
<1> QED
  BY <1>8, <1>9 DEF CopyIsTrue

\* A request that is answered leaves the others as they are.
LEMMA Answered ==
  ASSUME IInv, Moves, NEW c \in Callers, Answer(c)
  PROVE  Places' /\ Copies' /\ req' \in [Callers -> Requests]
<1>1. req \in [Callers -> Requests]
  BY DEF IInv, TypeOK, Requests
<1>2. req'[c] = Idle /\ \A d \in Callers \ {c} : req'[d] = req[d]
  BY <1>1 DEF Answer
<1>3. req' \in [Callers -> Requests]
  BY <1>1, IdleIsRequest DEF Answer
<1>4. Places'
  BY <1>2 DEF IInv, Places, Idle
<1>5. ASSUME NEW d \in Callers, Holds(d)' PROVE CopyIsTrue(d)'
  <2>1. d # c
    BY <1>2, <1>5 DEF Holds, Idle
  <2>2. req'[d] = req[d] /\ Holds(d)
    BY <1>2, <1>5, <2>1 DEF Holds
  <2> QED
    BY <2>2, Kept DEF IInv, Copies
<1> QED
  BY <1>3, <1>4, <1>5 DEF Copies

\* So does one of the others.
LEMMA NotAsked ==
  ASSUME IInv, Moves, req' = req
  PROVE  Places' /\ Copies' /\ req' \in [Callers -> Requests]
<1>1. Places'
  BY DEF IInv, Places
<1>2. ASSUME NEW d \in Callers, Holds(d)' PROVE CopyIsTrue(d)'
  BY <1>2, Kept DEF IInv, Copies, Holds
<1>3. req' \in [Callers -> Requests]
  BY DEF IInv, TypeOK, Requests
<1> QED
  BY <1>1, <1>2, <1>3 DEF Copies

\* A write that the server accepts finds the object that was read.
LEMMA FencedIsRead ==
  ASSUME IInv, NEW c \in Callers, req[c].pc = "write", req[c].kind # "create", Fenced(c)
  PROVE  obj = req[c].copy /\ Exists /\ Passed(c)
<1>1. StandsFor(c) /\ Passed(c)
  BY DEF IInv, Copies, Holds, CopyIsTrue
<1>2. obj.uid = req[c].copy.uid /\ obj.version = req[c].copy.version
  BY DEF Fenced
<1>3. req[c].copy.uid \in 1..uids /\ obj = req[c].copy
  BY <1>1, <1>2 DEF StandsFor
<1>4. obj.uid # 0
  BY <1>2, <1>3
<1> QED
  BY <1>1, <1>3, <1>4 DEF Exists

-----------------------------------------------------------------------------
(* Every step keeps the invariant                                          *)

LEMMA Steps == IInv /\ [Next]_vars => IInv'
<1> SUFFICES ASSUME IInv, [Next]_vars PROVE IInv'
  OBVIOUS
<1>1. /\ obj \in Objects /\ req \in [Callers -> Requests] /\ uids \in 1..MaxUid
      /\ uids \in Nat /\ obj.uid \in Nat /\ obj.version \in Nat
  BY Bounds DEF IInv, TypeOK, Requests, Objects
<1>2. ASSUME obj' \in Objects, uids' \in 1..MaxUid, Identities',
             Places', Copies', req' \in [Callers -> Requests]
      PROVE  IInv'
  BY <1>2 DEF IInv, TypeOK, Requests
<1>3. ASSUME Same PROVE obj' \in Objects /\ uids' \in 1..MaxUid /\ Identities' /\ Moves
  BY <1>1, <1>3 DEF Same, Moves, IInv, Identities
<1>4. ASSUME Written, Exists, obj' \in Objects
      PROVE  uids' \in 1..MaxUid /\ Identities' /\ Moves
  BY <1>1, <1>4 DEF Written, Exists, Moves, IInv, Identities
<1>5. ASSUME Gone PROVE obj' \in Objects /\ uids' \in 1..MaxUid /\ Identities' /\ Moves
  <2>1. obj'.uid = 0
    BY <1>5 DEF Gone, Absent
  <2> QED
    BY <1>1, <1>5, <2>1, AbsentIsObject DEF Gone, Moves, Identities
<1>6. ASSUME Replaced, uids < MaxUid, obj' \in Objects
      PROVE  uids' \in 1..MaxUid /\ Identities' /\ Moves
  <2>1. uids' \in 1..MaxUid /\ obj'.uid <= uids' /\ obj'.uid # 0
    BY <1>1, <1>6, Bounds DEF Replaced
  <2> QED
    BY <1>6, <2>1 DEF Moves, Identities
\* A new object of one writer.
<1>7. ASSUME NEW w \in Callers \cup {None, Other}, NEW owned \in BOOLEAN, uids < MaxUid, uids' = uids + 1,
             obj' = [uid |-> uids', version |-> 1, owned |-> owned, by |-> [f \in Fields |-> w]]
      PROVE  Replaced /\ obj' \in Objects
  <2>1. uids' \in 0..MaxUid /\ 1 \in 0..MaxVersion
    BY <1>1, <1>7, Bounds
  <2> QED
    BY <1>7, <2>1, FreshIsObject DEF Replaced
\* An object that was written to.
<1>8. ASSUME NEW o \in Objects, NEW by \in [Fields -> Callers \cup {None, Other}], NEW owned \in BOOLEAN,
             o.uid = obj.uid, obj.version < MaxVersion, uids' = uids,
             obj' = [uid |-> o.uid, version |-> obj.version + 1, owned |-> owned, by |-> by]
      PROVE  Written /\ obj' \in Objects
  <2>1. obj.version + 1 \in 0..MaxVersion /\ o.uid \in 0..MaxUid
    BY <1>1, <1>8, Bounds DEF Objects
  <2> QED
    BY <1>8, <2>1 DEF Written, Objects
<1>9. ASSUME NEW c \in Callers, NEW kind \in Kinds, Ask(c, kind) PROVE IInv'
  <2>1. Same
    BY <1>9 DEF Ask, Same
  <2> DEFINE r == [pc |-> IF kind = "create" THEN "write" ELSE "get", kind |-> kind, copy |-> Absent,
                   seen |-> IF kind \in Observed THEN [uid |-> obj.uid, version |-> obj.version] ELSE Unseen]
  <2>2. 0 \in 0..MaxUid /\ 0 \in 0..MaxVersion /\ obj.uid \in 0..MaxUid /\ obj.version \in 0..MaxVersion
    BY <1>1, Bounds DEF Objects
  <2>3. r \in Requests
    BY <2>2, AbsentIsObject DEF Requests, Unseen
  <2>4. /\ req' \in [Callers -> Requests] /\ req'[c] = r
        /\ \A d \in Callers \ {c} : req'[d] = req[d]
    BY <1>1, <1>9, <2>3 DEF Ask
  <2>5. kind # None
    BY ClusterWritesAssumption DEF ClusterWritesAssumption, None
  <2>6. Places'
    BY <2>4, <2>5 DEF IInv, Places
  <2>7. ASSUME NEW d \in Callers, Holds(d)' PROVE CopyIsTrue(d)'
    <3>1. d # c
      BY <2>4, <2>7 DEF Holds
    <3>2. req'[d] = req[d] /\ Holds(d)
      BY <2>4, <2>7, <3>1 DEF Holds
    <3> QED
      BY <1>3, <2>1, <3>2, Kept DEF IInv, Copies
  <2> QED
    BY <1>2, <1>3, <2>1, <2>4, <2>6, <2>7 DEF Copies
<1>10. ASSUME NEW c \in Callers, Same, Answer(c) PROVE IInv'
  BY <1>2, <1>3, <1>10, Answered
<1>11. ASSUME NEW c \in Callers, Get(c) PROVE IInv'
  <2>1. Same
    BY <1>11 DEF Get, Same
  <2>2. CASE Exists /\ MayChange(c) /\ IsWhatWasSeen(c)
    <3> DEFINE r == [req[c] EXCEPT !.pc = IF req[c].kind = "rollback" THEN "list" ELSE "write", !.copy = obj]
    <3>1. req' = [req EXCEPT ![c] = r]
      BY <1>11, <2>2 DEF Get
    <3>2. r \in Requests
      BY <1>1 DEF Requests
    <3>3. /\ req' \in [Callers -> Requests] /\ req'[c] = r
          /\ \A d \in Callers \ {c} : req'[d] = req[d]
      BY <1>1, <3>1, <3>2
    <3>4. /\ r.pc = IF req[c].kind = "rollback" THEN "list" ELSE "write"
          /\ r.kind = req[c].kind /\ r.seen = req[c].seen /\ r.copy = obj
      BY <1>1 DEF Requests
    <3>5. req[c].kind # None /\ req[c].kind # "create"
      BY <1>11 DEF Get, IInv, Places
    <3>6. Places'
      <4>1. /\ req'[c].kind = req[c].kind /\ req'[c].pc \in {"list", "write"}
            /\ req'[c].pc = "list" => req[c].kind = "rollback"
        BY <3>3, <3>4
      <4> QED
        <5>1. ASSUME NEW d \in Callers
              PROVE  /\ req'[d].pc = "list" => req'[d].kind = "rollback"
                     /\ req'[d].pc # "idle" => req'[d].kind # None
                     /\ req'[d].pc \in {"get", "list"} => req'[d].kind # "create"
          <6>1. CASE d = c
            BY <3>5, <4>1, <6>1
          <6>2. CASE d # c
            BY <3>3, <6>2 DEF IInv, Places
          <6> QED
            BY <6>1, <6>2
        <5> QED
          BY <5>1 DEF Places
    <3>7. CopyIsTrue(c)'
      <4>1. obj.uid \in 1..uids
        BY <1>1, <2>2 DEF Exists, IInv, Identities
      <4>2. /\ req[c].kind \in Pods \/ ~obj.owned
            /\ req[c].kind \in Observed => obj.uid = req[c].seen.uid
            /\ req[c].kind = "edit observed" => obj.version = req[c].seen.version
        BY <2>2 DEF MayChange, IsWhatWasSeen
      <4>3. /\ req'[c].copy = obj /\ req'[c].kind = req[c].kind /\ req'[c].seen = req[c].seen
            /\ obj' = obj /\ uids' = uids
        BY <2>1, <3>3, <3>4 DEF Same
      <4> QED
        <5>1. StandsFor(c)'
          BY <1>1, <4>1, <4>3 DEF StandsFor
        <5>2. Passed(c)'
          BY <1>1, <4>2, <4>3 DEF Passed, Objects
        <5> QED
          BY <5>1, <5>2 DEF CopyIsTrue
    <3>8. ASSUME NEW d \in Callers, Holds(d)' PROVE CopyIsTrue(d)'
      <4>1. CASE d = c
        BY <3>7, <4>1
      <4>2. CASE d # c
        <5>1. req'[d] = req[d] /\ Holds(d)
          BY <3>3, <3>8, <4>2 DEF Holds
        <5> QED
          BY <1>3, <2>1, <5>1, Kept DEF IInv, Copies
      <4> QED
        BY <4>1, <4>2
    <3> QED
      BY <1>2, <1>3, <2>1, <3>3, <3>6, <3>8 DEF Copies
  <2>3. CASE ~(Exists /\ MayChange(c) /\ IsWhatWasSeen(c))
    BY <1>10, <1>11, <2>1, <2>3 DEF Get
  <2> QED
    BY <2>2, <2>3
<1>12. ASSUME NEW c \in Callers, ListRevisions(c) PROVE IInv'
  <2>1. Same
    BY <1>12 DEF ListRevisions, Same
  <2>2. CASE Goto(c, "write")
    <3>1. [req[c] EXCEPT !.pc = "write"] \in Requests
      BY <1>1 DEF Requests
    <3>2. /\ req' \in [Callers -> Requests]
          /\ req'[c].pc = "write" /\ req'[c].kind = req[c].kind
          /\ req'[c].seen = req[c].seen /\ req'[c].copy = req[c].copy
          /\ \A d \in Callers \ {c} : req'[d] = req[d]
      BY <1>1, <2>2, <3>1 DEF Goto, Requests
    <3>3. req[c].pc = "list" /\ req[c].kind = "rollback"
      BY <1>12 DEF ListRevisions, IInv, Places
    <3>4. Places'
      BY <3>2, <3>3 DEF IInv, Places, None
    <3>5. ASSUME NEW d \in Callers, Holds(d)' PROVE CopyIsTrue(d)'
      <4>1. CASE d = c
        <5>1. CopyIsTrue(c)
          BY <3>3 DEF IInv, Copies, Holds
        <5> QED
          <6>1. StandsFor(c)'
            BY <2>1, <3>2, <5>1 DEF CopyIsTrue, StandsFor, Same
          <6>2. Passed(c)'
            BY <3>2, <5>1 DEF CopyIsTrue, Passed
          <6> QED
            BY <4>1, <6>1, <6>2 DEF CopyIsTrue
      <4>2. CASE d # c
        <5>1. req'[d] = req[d] /\ Holds(d)
          BY <3>2, <3>5, <4>2 DEF Holds
        <5> QED
          BY <1>3, <2>1, <5>1, Kept DEF IInv, Copies
      <4> QED
        BY <4>1, <4>2
    <3> QED
      BY <1>2, <1>3, <2>1, <3>2, <3>4, <3>5 DEF Copies
  <2> QED
    BY <1>10, <1>12, <2>1, <2>2 DEF ListRevisions
\* What a request writes into the object that it read.
<1>13. ASSUME NEW c \in Callers, NEW fields \in SUBSET Fields, WriteBack(c, fields),
              req[c].pc = "write", req[c].kind # "create"
       PROVE  IInv'
  <2>1. CASE Fenced(c) /\ obj.version < MaxVersion
    <3> DEFINE o == req[c].copy
               by == [f \in Fields |-> IF f \in fields THEN c ELSE o.by[f]]
    <3>1. o = obj /\ o \in Objects /\ Exists
      BY <1>1, <1>13, <2>1, FencedIsRead
    <3>2. by \in [Fields -> Callers \cup {None, Other}] /\ o.owned \in BOOLEAN
      BY <3>1 DEF Objects
    <3>3. obj' = [uid |-> o.uid, version |-> obj.version + 1, owned |-> o.owned, by |-> by]
      BY <1>13, <2>1, <3>1 DEF WriteBack, Objects
    <3>4. uids' = uids /\ o.uid = obj.uid /\ Answer(c)
      BY <1>13, <3>1 DEF WriteBack
    <3> HIDE DEF o, by
    <3>5. Written /\ obj' \in Objects
      BY <1>8, <2>1, <3>1, <3>2, <3>3, <3>4
    <3>6. uids' \in 1..MaxUid /\ Identities' /\ Moves
      BY <1>4, <3>1, <3>5
    <3> QED
      BY <1>2, <1>13, <3>4, <3>5, <3>6, Answered
  <2>2. CASE ~(Fenced(c) /\ obj.version < MaxVersion)
    BY <1>10, <1>13, <2>2 DEF WriteBack, Same
  <2> QED
    BY <2>1, <2>2
<1>14. ASSUME NEW c \in Callers, ApplyEdit(c) PROVE IInv'
  <2>1. req[c].pc = "write" /\ req[c].kind # "create" /\ Answer(c) /\ uids' = uids
    BY <1>14 DEF ApplyEdit, Asked
  <2>2. CASE obj' = obj
    BY <1>10, <2>1, <2>2 DEF Same
  <2>3. CASE Fenced(c) /\ obj.version < MaxVersion
             /\ obj' = [obj EXCEPT !.version = @ + 1, !.by = [f \in Fields |-> c]]
    <3> DEFINE by == [f \in Fields |-> c]
    <3>1. by \in [Fields -> Callers \cup {None, Other}] /\ obj.owned \in BOOLEAN
      BY <1>1 DEF Objects
    <3>2. obj' = [uid |-> obj.uid, version |-> obj.version + 1, owned |-> obj.owned, by |-> by]
      BY <1>1, <2>3 DEF Objects
    <3> HIDE DEF by
    <3>3. Written /\ obj' \in Objects
      BY <1>1, <1>8, <2>1, <2>3, <3>1, <3>2
    <3>4. Exists
      BY <2>1, <2>3, FencedIsRead
    <3>5. uids' \in 1..MaxUid /\ Identities' /\ Moves
      BY <1>4, <3>3, <3>4
    <3> QED
      BY <1>2, <2>1, <3>3, <3>5, Answered
  <2> QED
    BY <1>14, <2>2, <2>3 DEF ApplyEdit
<1>15. ASSUME NEW c \in Callers, Delete(c) PROVE IInv'
  <2>1. (Same \/ Gone) /\ Answer(c)
    BY <1>15 DEF Delete, Same, Gone
  <2> QED
    BY <1>2, <1>5, <1>10, <2>1, Answered
<1>16. ASSUME NEW c \in Callers, Create(c) PROVE IInv'
  <2>1. CASE ~Exists /\ uids < MaxUid
    <3>1. /\ uids' = uids + 1 /\ Answer(c)
          /\ obj' = [uid |-> uids', version |-> 1, owned |-> FALSE, by |-> [f \in Fields |-> c]]
      BY <1>16, <2>1 DEF Create
    <3>2. Replaced /\ obj' \in Objects
      BY <1>7, <2>1, <3>1
    <3>3. uids' \in 1..MaxUid /\ Identities' /\ Moves
      BY <1>6, <2>1, <3>2
    <3> QED
      BY <1>2, <3>1, <3>2, <3>3, Answered
  <2>2. CASE ~(~Exists /\ uids < MaxUid)
    BY <1>10, <1>16, <2>2 DEF Create, Same
  <2> QED
    BY <2>1, <2>2
\* The steps of the others, each of which moves the object on.
<1>17. ASSUME Moves, req' = req, obj' \in Objects, uids' \in 1..MaxUid, Identities' PROVE IInv'
  BY <1>2, <1>17, NotAsked
<1>18. ASSUME OtherWrites PROVE IInv'
  <2> PICK field \in Fields : obj' = [obj EXCEPT !.version = @ + 1, !.by[field] = Other]
    BY <1>18 DEF OtherWrites
  <2> DEFINE by == [obj.by EXCEPT ![field] = Other]
  <2>1. by \in [Fields -> Callers \cup {None, Other}] /\ obj.owned \in BOOLEAN
    BY <1>1 DEF Objects
  <2>2. obj' = [uid |-> obj.uid, version |-> obj.version + 1, owned |-> obj.owned, by |-> by]
    BY <1>1 DEF Objects
  <2> HIDE DEF by
  <2>3. Exists /\ obj.version < MaxVersion /\ req' = req /\ uids' = uids
    BY <1>18 DEF OtherWrites
  <2>4. Written /\ obj' \in Objects
    BY <1>1, <1>8, <2>1, <2>2, <2>3
  <2> QED
    BY <1>4, <1>17, <2>3, <2>4
<1>19. ASSUME OwnerChanges PROVE IInv'
  <2>1. obj.by \in [Fields -> Callers \cup {None, Other}] /\ (~obj.owned) \in BOOLEAN
    BY <1>1 DEF Objects
  <2>2. obj' = [uid |-> obj.uid, version |-> obj.version + 1, owned |-> ~obj.owned, by |-> obj.by]
    BY <1>1, <1>19 DEF OwnerChanges, Objects
  <2>3. Exists /\ obj.version < MaxVersion /\ req' = req /\ uids' = uids
    BY <1>19 DEF OwnerChanges
  <2>4. Written /\ obj' \in Objects
    BY <1>1, <1>8, <2>1, <2>2, <2>3
  <2> QED
    BY <1>4, <1>17, <2>3, <2>4
<1>20. ASSUME OtherDeletes PROVE IInv'
  BY <1>5, <1>17, <1>20 DEF OtherDeletes, Gone
<1>21. ASSUME OtherCreates PROVE IInv'
  <2> PICK owned \in BOOLEAN :
        obj' = [uid |-> uids', version |-> 1, owned |-> owned, by |-> [f \in Fields |-> Other]]
    BY <1>21 DEF OtherCreates
  <2>1. uids < MaxUid /\ uids' = uids + 1 /\ req' = req
    BY <1>21 DEF OtherCreates
  <2>2. Replaced /\ obj' \in Objects
    BY <1>7, <2>1
  <2> QED
    BY <1>6, <1>17, <2>1, <2>2
<1>22. ASSUME NEW c \in Callers, CallerStep(c) PROVE IInv'
  <2>1. CASE Fails(c)
    BY <1>10, <1>22, <2>1 DEF Fails, Same
  <2>2. CASE UpdateWorkload(c)
    BY <1>13, <2>2 DEF UpdateWorkload, Asked, Fields
  <2>3. CASE UpdateLabels(c)
    BY <1>13, <2>3 DEF UpdateLabels, Asked, Fields
  <2>4. CASE Switch(c)
    BY <1>13, <2>4 DEF Switch, Asked, Fields
  <2>5. CASE UpdateData(c)
    BY <1>10, <1>13, <2>5 DEF UpdateData, Asked, Fields, Same
  <2>6. CASE Rollback(c)
    BY <1>13, <2>6 DEF Rollback, Asked, Fields
  <2>7. CASE UpdateNode(c)
    BY <1>13, <2>7 DEF UpdateNode, Asked, Fields
  <2> QED
    BY <1>11, <1>12, <1>14, <1>15, <1>16, <1>22, <2>1, <2>2, <2>3, <2>4, <2>5, <2>6, <2>7
    DEF CallerStep
<1>23. CASE UNCHANGED vars
  BY <1>3, <1>17, <1>23 DEF vars, Same
<1> QED
  BY <1>9, <1>18, <1>19, <1>20, <1>21, <1>22, <1>23 DEF Next

-----------------------------------------------------------------------------
(* What a write does                                                       *)

\* The object keeps its identity, its owner and every field that the request is not about.
KeepsTheRest(c) ==
  /\ obj'.uid = obj.uid /\ obj'.owned = obj.owned
  /\ \A f \in Fields \ Changes(c) : obj'.by[f] = obj.by[f]

\* A request that writes has read what it writes to, or makes an object where there was none.
WritesWhatItRead(c) ==
  \/ req[c].kind = "create" /\ obj = Absent
  \/ /\ req[c].kind # "create" /\ obj = req[c].copy /\ Passed(c)
     /\ obj' = Absent \/ KeepsTheRest(c)

LEMMA WriteBackKeeps ==
  ASSUME IInv, NEW c \in Callers, req[c].pc = "write", req[c].kind # "create",
         NEW fields \in SUBSET Changes(c), WriteBack(c, fields), obj' # obj
  PROVE  WritesWhatItRead(c)
<1>1. Fenced(c) /\ obj' = [req[c].copy EXCEPT !.version = obj.version + 1,
                             !.by = [f \in Fields |-> IF f \in fields THEN c ELSE @[f]]]
  BY DEF WriteBack
<1>2. obj = req[c].copy /\ Passed(c) /\ obj \in Objects
  BY <1>1, FencedIsRead DEF IInv, TypeOK
<1>3. KeepsTheRest(c)
  BY <1>1, <1>2 DEF KeepsTheRest, Objects
<1> QED
  BY <1>2, <1>3 DEF WritesWhatItRead

LEMMA EveryWrite ==
  ASSUME IInv, [Next]_vars, NEW c \in Callers, Writes(c)
  PROVE  WritesWhatItRead(c)
<1>1. req[c].pc = "write" /\ req'[c].pc = "idle" /\ obj' # obj /\ req'[c] # req[c] /\ req' # req
  BY DEF Writes
<1>2. req \in [Callers -> Requests]
  BY DEF IInv, TypeOK, Requests
\* Only the request's own step answers it.
<1>3. CallerStep(c)
  <2>1. ASSUME NEW d \in Callers, CallerStep(d) PROVE d = c
    <3>1. CASE Answer(d)
      BY <1>1, <1>2, <3>1 DEF Answer
    <3>2. CASE UNCHANGED obj
      BY <1>1, <3>2
    <3> QED
      BY <2>1, <3>1, <3>2 DEF CallerStep, Get, ListRevisions, Fails, UpdateWorkload, UpdateLabels,
        UpdateNode, Switch, UpdateData, Rollback, WriteBack, ApplyEdit, Delete, Create
  <2> QED
    BY <1>1, <2>1 DEF Next, vars, Ask, OtherWrites, OwnerChanges, OtherDeletes, OtherCreates
<1>4. CASE UpdateWorkload(c) \/ Switch(c) \/ Rollback(c) \/ UpdateData(c)
  <2>1. /\ req[c].kind \in {"workload", "switch", "rollback", "data"}
        /\ WriteBack(c, {"spec"})
    BY <1>1, <1>4 DEF UpdateWorkload, Switch, Rollback, UpdateData, Asked
  <2>2. {"spec"} \in SUBSET Changes(c)
    BY <2>1 DEF Changes
  <2> QED
    BY <1>1, <2>1, <2>2, WriteBackKeeps
<1>5. CASE UpdateLabels(c)
  <2>1. req[c].kind = "labels" /\ WriteBack(c, {"meta"})
    BY <1>5 DEF UpdateLabels, Asked
  <2>2. {"meta"} \in SUBSET Changes(c)
    BY <2>1 DEF Changes
  <2> QED
    BY <1>1, <2>1, <2>2, WriteBackKeeps
<1>6. CASE ApplyEdit(c)
  <2>1. /\ req[c].kind \in {"edit", "edit observed"} /\ Fenced(c)
        /\ obj' = [obj EXCEPT !.version = @ + 1, !.by = [f \in Fields |-> c]]
    BY <1>1, <1>6 DEF ApplyEdit, Asked
  <2>2. obj = req[c].copy /\ Passed(c) /\ obj \in Objects
    BY <1>1, <2>1, FencedIsRead DEF IInv, TypeOK
  <2>3. KeepsTheRest(c)
    BY <2>1, <2>2 DEF KeepsTheRest, Changes, Objects
  <2> QED
    BY <2>1, <2>2, <2>3 DEF WritesWhatItRead
<1>7. CASE Delete(c)
  <2>1. req[c].kind # "create" /\ Fenced(c) /\ obj' = Absent
    BY <1>1, <1>7 DEF Delete, Asked, Pods
  <2> QED
    BY <1>1, <2>1, FencedIsRead DEF WritesWhatItRead
<1>8. CASE Create(c)
  BY <1>1, <1>8 DEF Create, Asked, Exists, IInv, Identities, WritesWhatItRead
<1>9. CASE UpdateNode(c)
  <2>1. req[c].kind = "node" /\ WriteBack(c, {"meta", "taints"})
    BY <1>9 DEF UpdateNode, Asked
  <2>2. {"meta", "taints"} \in SUBSET Changes(c)
    BY <2>1 DEF Changes
  <2> QED
    BY <1>1, <2>1, <2>2, WriteBackKeeps
<1> QED
  BY <1>1, <1>3, <1>4, <1>5, <1>6, <1>7, <1>8, <1>9 DEF CallerStep, Get, ListRevisions, Fails

-----------------------------------------------------------------------------
(* The theorems                                                            *)

\* The invariant holds in every reachable state.
LEMMA Invariant == Spec => []IInv
  BY InitIInv, Steps, PTL DEF Spec

\* The types of the object and of the requests, for any number of either.
THEOREM TypeCorrect == Spec => []TypeOK
<1>1. IInv => TypeOK
  BY DEF IInv
<1> QED
  BY <1>1, Invariant, PTL

\* No request changes or deletes what a delivery tool owns at the moment of the write, a
\* Pod's deletion apart: ValidateDirectManifestOwner is about the version that is written.
THEOREM OwnedUntouchedHolds == Spec => OwnedUntouched
<1>1. ASSUME IInv, [Next]_vars, NEW c \in Callers, Writes(c), req[c].kind \notin Pods
      PROVE  ~obj.owned
  <2>1. CASE obj = Absent
    BY <2>1 DEF Absent
  <2>2. CASE obj = req[c].copy /\ Passed(c)
    <3>1. obj.owned = FALSE
      BY <1>1, <2>2 DEF Passed
    <3> QED
      BY <3>1
  <2> QED
    BY <1>1, <2>1, <2>2, EveryWrite DEF WritesWhatItRead
<1>2. IInv /\ [Next]_vars => [\A c \in Callers : Writes(c) /\ req[c].kind \notin Pods => ~obj.owned]_vars
  BY <1>1
<1> QED
  BY <1>2, Invariant, PTL DEF Spec, OwnedUntouched

\* What the writers in between have written is kept: a request that finds another version
\* than it read writes nothing.
THEOREM NoLostUpdateHolds == Spec => NoLostUpdate
<1>1. ASSUME IInv, [Next]_vars, NEW c \in Callers, Writes(c), Exists, obj'.uid # 0
      PROVE  KeepsTheRest(c)
  BY <1>1, EveryWrite DEF WritesWhatItRead, Absent, Exists
<1>2. IInv /\ [Next]_vars =>
        [\A c \in Callers : Writes(c) /\ Exists /\ obj'.uid # 0 =>
           /\ obj'.uid = obj.uid /\ obj'.owned = obj.owned
           /\ \A f \in Fields \ Changes(c) : obj'.by[f] = obj.by[f]]_vars
  BY <1>1 DEF KeepsTheRest
<1> QED
  BY <1>2, Invariant, PTL DEF Spec, NoLostUpdate

\* A caller who named the object it saw changes that object and no other of its name.
THEOREM ActsOnWhatWasSeenHolds == Spec => ActsOnWhatWasSeen
<1>1. ASSUME IInv, [Next]_vars, NEW c \in Callers, Writes(c), req[c].kind \in Observed
      PROVE  /\ obj.uid = req[c].seen.uid
             /\ req[c].kind = "edit observed" => obj.version = req[c].seen.version
  <2>1. obj = req[c].copy /\ Passed(c)
    BY <1>1, EveryWrite DEF WritesWhatItRead, Observed
  <2> QED
    BY <1>1, <2>1 DEF Passed
<1>2. IInv /\ [Next]_vars =>
        [\A c \in Callers : Writes(c) /\ req[c].kind \in Observed =>
           /\ obj.uid = req[c].seen.uid
           /\ req[c].kind = "edit observed" => obj.version = req[c].seen.version]_vars
  BY <1>1
<1> QED
  BY <1>2, Invariant, PTL DEF Spec, ActsOnWhatWasSeen

-----------------------------------------------------------------------------
(* The releases.                                                           *)

Releases ==
  [rev : Nat, chart : Charts \cup {"none"}, status : {"none", "pending", "deployed", "failed"},
   managed : BOOLEAN, by : Callers \cup {"none"}]
HelmSteps ==
  {"idle", "look", "install", "installing", "get", "upgrade", "upgrading", "rollback", "roll", "rolling",
   "delete", "remove"}
HelmAnswers == {"none", "installed", "updated", "rolled back", "valid", "deleted", "error"}
HelmCalls ==
  [pc : HelmSteps, chart : Charts \cup {"none"}, expected : Nat, read : Releases, answer : HelmAnswers]

HelmTypes == release \in Releases /\ call \in [Callers -> HelmCalls]

\* A request that is in progress has no answer yet; what it has read belongs to no delivery,
\* and is what an update expected.
HelmReads ==
  \A c \in Callers :
    /\ call[c].pc # "idle" => call[c].answer = "none"
    /\ call[c].pc \in {"upgrade", "roll", "remove"} => call[c].read.managed = FALSE
    /\ call[c].pc = "upgrade" => call[c].expected = 0 \/ call[c].expected = call[c].read.rev

\* The revision that an install has made is of the chart that was asked for.
HelmOwns ==
  \A c \in Callers : call[c].pc = "installing" /\ HelmReleases!Its(c) => release.chart = call[c].chart

HelmInv == HelmTypes /\ HelmReads /\ HelmOwns

\* The requests besides c stay as they are.
HelmMoves(c) ==
  /\ call' \in [Callers -> HelmCalls]
  /\ \A d \in Callers \ {c} : call'[d] = call[d]

LEMMA HelmConstants ==
  /\ HelmReleases!Nothing \in Releases /\ HelmReleases!Nothing.status = "none"
  /\ HelmReleases!Idle \in HelmCalls /\ HelmReleases!Idle.pc = "idle" /\ HelmReleases!Idle.answer = "none"
BY DEF HelmReleases!Nothing, HelmReleases!Idle, Releases, HelmCalls, HelmSteps, HelmAnswers, HelmReleases!None

LEMMA HelmInit == HelmReleases!Init => HelmInv
BY HelmConstants DEF HelmReleases!Init, HelmInv, HelmTypes, HelmReads, HelmOwns

\* A request begins.
LEMMA HelmAsks ==
  ASSUME HelmInv, NEW c \in Callers, NEW new \in HelmCalls, call' = [call EXCEPT ![c] = new]
  PROVE  HelmMoves(c) /\ call'[c] = new
BY DEF HelmMoves, HelmInv, HelmTypes

LEMMA HelmGoto ==
  ASSUME HelmInv, NEW c \in Callers, NEW pc0 \in HelmSteps, HelmReleases!Goto(c, pc0)
  PROVE  /\ HelmMoves(c) /\ call'[c].pc = pc0 /\ call'[c].answer = call[c].answer
         /\ call'[c].chart = call[c].chart
BY DEF HelmInv, HelmTypes, HelmCalls, HelmReleases!Goto, HelmMoves

LEMMA HelmAnswer ==
  ASSUME HelmInv, NEW c \in Callers, NEW an \in HelmAnswers, HelmReleases!Answer(c, an)
  PROVE  HelmMoves(c) /\ call'[c].pc = "idle" /\ call'[c].answer = an
<1> DEFINE new == [HelmReleases!Idle EXCEPT !.answer = an, !.chart = call[c].chart]
<1>1. call \in [Callers -> HelmCalls] /\ call[c].chart \in Charts \cup {"none"}
  BY DEF HelmInv, HelmTypes, HelmCalls
<1>2. new \in HelmCalls /\ new.pc = "idle" /\ new.answer = an
  BY <1>1, HelmConstants DEF HelmCalls
<1> HIDE DEF new
<1>3. call' = [call EXCEPT ![c] = new]
  BY DEF new, HelmReleases!Answer
<1> QED
  BY <1>1, <1>2, <1>3 DEF HelmMoves

\* A request that ends or goes on before it has a revision: the release stays.
LEMMA HelmStays ==
  ASSUME HelmInv, NEW c \in Callers, HelmMoves(c), UNCHANGED release,
         call'[c].pc \notin {"installing", "upgrade", "roll", "remove"},
         call'[c].pc # "idle" => call'[c].answer = "none"
  PROVE  HelmInv'
<1>1. HelmTypes' /\ HelmReads'
  BY DEF HelmInv, HelmTypes, HelmReads, HelmMoves
<1>2. HelmOwns'
  BY DEF HelmInv, HelmOwns, HelmMoves, HelmReleases!Its
<1> QED
  BY <1>1, <1>2 DEF HelmInv

\* The release changes, and is not pending for any request but c, which ends or has a new revision.
LEMMA HelmChanges ==
  ASSUME HelmInv, NEW c \in Callers, HelmMoves(c), release' \in Releases,
         release'.status = "pending" => release'.by = c,
         call'[c].pc \in {"idle", "upgrading", "rolling"}, call'[c].pc # "idle" => call'[c].answer = "none"
  PROVE  HelmInv'
<1>1. HelmTypes' /\ HelmReads'
  BY DEF HelmInv, HelmTypes, HelmReads, HelmMoves
<1>2. HelmOwns'
  BY DEF HelmInv, HelmOwns, HelmMoves, HelmReleases!Its
<1> QED
  BY <1>1, <1>2 DEF HelmInv

LEMMA HelmBecomes ==
  ASSUME HelmInv, NEW c \in Callers, NEW s \in {"deployed", "failed"}, HelmReleases!Becomes(c, s)
  PROVE  /\ release' \in Releases /\ release'.chart = release.chart
         /\ HelmReleases!Its(c) => release'.status = s
         /\ ~HelmReleases!Its(c) => release' = release
<1>1. release \in Releases
  BY DEF HelmInv, HelmTypes
<1>2. CASE HelmReleases!Its(c)
  <2>1. release' = [release EXCEPT !.status = s, !.by = "none"]
    BY <1>2 DEF HelmReleases!Becomes, HelmReleases!None
  <2> QED
    BY <1>1, <1>2, <2>1 DEF Releases
<1>3. CASE ~HelmReleases!Its(c)
  BY <1>1, <1>3 DEF HelmReleases!Becomes
<1> QED
  BY <1>2, <1>3

LEMMA HelmEnds ==
  ASSUME HelmInv, NEW c \in Callers, NEW s \in {"deployed", "failed"}, NEW an \in HelmAnswers,
         HelmReleases!Becomes(c, s), HelmReleases!Answer(c, an)
  PROVE  HelmInv'
<1>1. CASE HelmReleases!Its(c)
  BY <1>1, HelmBecomes, HelmAnswer, HelmChanges
<1>2. CASE ~HelmReleases!Its(c)
  BY <1>2, HelmBecomes, HelmAnswer, HelmStays
<1> QED
  BY <1>1, <1>2

LEMMA HelmFails ==
  ASSUME HelmInv, NEW c \in Callers, HelmReleases!Fail(c)
  PROVE  HelmInv' /\ call'[c].pc = "idle" /\ call'[c].answer = "error" /\ HelmMoves(c)
BY HelmAnswer, HelmStays DEF HelmReleases!Fail, HelmAnswers

\* What one step of request c shows: the answers of the others stay.
HelmTrue(c) ==
  /\ call'[c].answer = "installed" =>
       \/ release'.status = "deployed" /\ release'.chart = call[c].chart
       \/ call[c].pc = "installing" /\ ~HelmReleases!Its(c)
  /\ call[c].pc = "upgrade" /\ call'[c].pc = "upgrading" =>
       /\ release.managed = FALSE /\ release.chart = call[c].read.chart
       /\ call[c].expected = 0 \/ call[c].expected = release.rev
  /\ call[c].pc \in {"roll", "remove"} /\ release' # release =>
       release.managed = FALSE \/ release # call[c].read
  /\ HelmMoves(c)

\* What every step shows.
HelmStepTrue ==
  /\ HelmInv'
  /\ UNCHANGED call \/ \E c \in Callers : (call[c].pc = "idle" /\ HelmMoves(c)) \/ HelmTrue(c)

LEMMA HelmRequests == HelmInv /\ HelmReleases!Next => HelmStepTrue
<1> SUFFICES ASSUME HelmInv, HelmReleases!Next PROVE HelmStepTrue
  OBVIOUS
<1>0. HelmTypes /\ HelmReads /\ HelmOwns /\ release \in Releases
  BY DEF HelmInv, HelmTypes
<1> USE DEF HelmStepTrue
<1>1. ASSUME NEW c \in Callers, NEW new \in HelmCalls, new.pc \in {"look", "get", "rollback", "delete"},
             new.answer = "none", call[c].pc = "idle", call' = [call EXCEPT ![c] = new], UNCHANGED release
      PROVE  HelmStepTrue
  BY <1>1, HelmAsks, HelmStays
<1>2. ASSUME NEW c \in Callers, NEW chart \in Charts, HelmReleases!AskInstall(c, chart) PROVE HelmStepTrue
  <2> DEFINE new == [HelmReleases!Idle EXCEPT !.pc = "look", !.chart = chart]
  <2>1. call[c].pc = "idle" /\ UNCHANGED release /\ call' = [call EXCEPT ![c] = new]
    BY <1>2 DEF HelmReleases!AskInstall
  <2>2. new \in HelmCalls /\ new.pc = "look" /\ new.answer = "none"
    BY HelmConstants DEF HelmCalls, HelmSteps
  <2> QED
    BY <1>1, <2>1, <2>2
<1>3. ASSUME NEW c \in Callers, HelmReleases!AskOther(c) \/ \E n \in 0..MaxRev : HelmReleases!AskValues(c, n) PROVE HelmStepTrue
  <2>1. call[c].pc = "idle" /\ UNCHANGED release
    BY <1>3 DEF HelmReleases!AskOther, HelmReleases!AskValues
  <2>2. ASSUME NEW n \in 0..MaxRev, HelmReleases!AskValues(c, n) PROVE HelmStepTrue
    <3> DEFINE new == [HelmReleases!Idle EXCEPT !.pc = "get", !.expected = n]
    <3>1. call' = [call EXCEPT ![c] = new]
      BY <2>2 DEF HelmReleases!AskValues
    <3>2. n \in Nat
      BY HelmAssumption
    <3>3. new \in HelmCalls /\ new.pc = "get" /\ new.answer = "none"
      BY <3>2, HelmConstants DEF HelmCalls, HelmSteps
    <3> QED
      BY <1>1, <2>1, <3>1, <3>3
  <2>3. ASSUME NEW pc0 \in {"rollback", "delete"}, call' = [call EXCEPT ![c] = [HelmReleases!Idle EXCEPT !.pc = pc0]]
        PROVE  HelmStepTrue
    <3> DEFINE new == [HelmReleases!Idle EXCEPT !.pc = pc0]
    <3>1. new \in HelmCalls /\ new.pc = pc0 /\ new.answer = "none"
      BY HelmConstants DEF HelmCalls, HelmSteps
    <3> QED
      BY <1>1, <2>1, <2>3, <3>1
  <2> QED
    BY <1>3, <2>2, <2>3 DEF HelmReleases!AskOther
<1>4. ASSUME NEW c \in Callers, HelmReleases!Satisfies(c), UNCHANGED release, HelmReleases!Answer(c, "installed")
      PROVE  HelmStepTrue
  <2>1. HelmMoves(c) /\ call'[c].pc = "idle"
    BY <1>4, HelmAnswer DEF HelmAnswers
  <2>2. HelmTrue(c)
    BY <1>4, <2>1 DEF HelmTrue, HelmReleases!Satisfies
  <2> QED
    BY <1>4, <2>1, <2>2, HelmStays
<1>5. ASSUME NEW c \in Callers, HelmReleases!Fail(c) PROVE HelmStepTrue
  <2>1. HelmTrue(c)
    BY <1>5, HelmFails DEF HelmTrue, HelmReleases!Fail
  <2> QED
    BY <1>5, <2>1, HelmFails
<1>6. ASSUME NEW c \in Callers, HelmReleases!Look(c) PROVE HelmStepTrue
  <2>1. CASE HelmReleases!Goto(c, "install") /\ UNCHANGED release
    <3>1. HelmMoves(c) /\ call'[c].pc = "install" /\ call'[c].answer = "none"
      BY <1>0, <1>6, <2>1, HelmGoto DEF HelmSteps, HelmReads, HelmReleases!Look
    <3>2. HelmTrue(c)
      BY <2>1, <3>1 DEF HelmTrue
    <3> QED
      BY <2>1, <3>1, <3>2, HelmStays
  <2> QED
    BY <1>4, <1>5, <1>6, <2>1 DEF HelmReleases!Look, HelmReleases!Fail
<1>7. ASSUME NEW c \in Callers, HelmReleases!StartInstall(c) PROVE HelmStepTrue
  <2>1. CASE /\ release' = [HelmReleases!Nothing EXCEPT !.rev = 1, !.chart = call[c].chart,
                              !.status = "pending", !.by = c]
             /\ HelmReleases!Goto(c, "installing")
    <3>1. /\ HelmMoves(c) /\ call'[c].pc = "installing" /\ call'[c].answer = "none"
          /\ call'[c].chart = call[c].chart
      BY <1>0, <1>7, <2>1, HelmGoto DEF HelmSteps, HelmReads, HelmReleases!StartInstall
    <3>2. call[c].chart \in Charts \cup {"none"}
      BY <1>0 DEF HelmTypes, HelmCalls
    <3>3. release' \in Releases /\ release'.chart = call[c].chart /\ release'.by = c
      BY <2>1, <3>2, HelmConstants DEF Releases
    <3>4. HelmTypes' /\ HelmReads'
      BY <1>0, <3>1, <3>3 DEF HelmTypes, HelmReads, HelmMoves
    <3>5. HelmOwns'
      BY <3>1, <3>3 DEF HelmOwns, HelmReleases!Its
    <3>6. HelmTrue(c)
      BY <3>1, <1>7 DEF HelmTrue, HelmReleases!StartInstall
    <3> QED
      BY <3>4, <3>5, <3>6 DEF HelmInv
  <2> QED
    BY <1>4, <1>5, <1>7, <2>1 DEF HelmReleases!StartInstall, HelmReleases!Fail
<1>8. ASSUME NEW c \in Callers, HelmReleases!InstallEnds(c) PROVE HelmStepTrue
  <2>1. call[c].pc = "installing"
    BY <1>8 DEF HelmReleases!InstallEnds
  <2>2. CASE HelmReleases!Becomes(c, "deployed") /\ HelmReleases!Answer(c, "installed")
    <3>1. HelmMoves(c) /\ HelmInv' /\ call'[c].pc = "idle"
      BY <2>2, HelmAnswer, HelmEnds DEF HelmAnswers
    <3>2. HelmReleases!Its(c) => release'.status = "deployed" /\ release'.chart = call[c].chart
      BY <1>0, <2>1, <2>2, HelmBecomes DEF HelmOwns
    <3> QED
      BY <2>1, <3>1, <3>2 DEF HelmTrue
  <2>3. CASE HelmReleases!Becomes(c, "failed") /\ HelmReleases!Answer(c, "error")
    <3>1. HelmMoves(c) /\ HelmInv' /\ call'[c].answer = "error" /\ call'[c].pc = "idle"
      BY <2>3, HelmAnswer, HelmEnds DEF HelmAnswers
    <3> QED
      BY <2>1, <3>1 DEF HelmTrue
  <2> QED
    BY <1>8, <2>2, <2>3 DEF HelmReleases!InstallEnds
<1>9. ASSUME NEW c \in Callers, HelmReleases!GetRelease(c) \/ HelmReleases!CheckOwner(c) PROVE HelmStepTrue
  <2>1. UNCHANGED release /\ call[c].pc \in {"get", "rollback", "delete"} /\ call[c].answer = "none"
    BY <1>0, <1>9 DEF HelmReads, HelmReleases!GetRelease, HelmReleases!CheckOwner
  <2>2. ASSUME NEW pc0 \in {"upgrade", "roll", "remove"}, HelmReleases!Seen(c, pc0), HelmReleases!Unmanaged,
               pc0 = "upgrade" => HelmReleases!MayUpgrade(c)
        PROVE  HelmStepTrue
    <3>1. call \in [Callers -> HelmCalls] /\ call[c] \in HelmCalls
      BY <1>0 DEF HelmTypes
    <3> DEFINE new == [call[c] EXCEPT !.pc = pc0, !.read = release]
    <3>2. call' = [call EXCEPT ![c] = new]
      BY <2>2, <3>1 DEF HelmReleases!Seen
    <3>3. /\ new \in HelmCalls /\ new.pc = pc0 /\ new.read = release /\ new.answer = call[c].answer
          /\ new.expected = call[c].expected
      BY <1>0, <2>2, <3>1 DEF HelmCalls, HelmSteps
    <3> HIDE DEF new
    <3>4. HelmMoves(c) /\ call'[c] = new
      BY <3>1, <3>2, <3>3 DEF HelmMoves
    <3>5. release.managed = FALSE /\ (pc0 = "upgrade" => call[c].expected = 0 \/ call[c].expected = release.rev)
      BY <1>0, <2>2 DEF HelmReleases!MayUpgrade, HelmReleases!Unmanaged, Releases
    <3>6. HelmTypes' /\ HelmReads'
      BY <1>0, <2>1, <3>3, <3>4, <3>5 DEF HelmTypes, HelmReads, HelmMoves
    <3>7. HelmOwns'
      BY <1>0, <2>1, <2>2, <3>3, <3>4 DEF HelmOwns, HelmMoves, HelmReleases!Its
    <3>8. HelmTrue(c)
      BY <2>1, <3>3, <3>4 DEF HelmTrue
    <3> QED
      BY <3>6, <3>7, <3>8 DEF HelmInv
  <2>3. \/ HelmReleases!Answer(c, "error")
        \/ HelmReleases!MayUpgrade(c) /\ HelmReleases!Seen(c, "upgrade")
        \/ HelmReleases!Unmanaged /\ (HelmReleases!Seen(c, "roll") \/ HelmReleases!Seen(c, "remove"))
    BY <1>9 DEF HelmReleases!GetRelease, HelmReleases!CheckOwner
  <2> QED
    BY <1>5, <2>1, <2>2, <2>3 DEF HelmReleases!Fail, HelmReleases!MayUpgrade
<1>10. ASSUME NEW c \in Callers, HelmReleases!StartUpgrade(c) PROVE HelmStepTrue
  <2>1. CASE /\ HelmReleases!StillRead(c)
             /\ release' = [release EXCEPT !.rev = @ + 1, !.status = "pending", !.by = c]
             /\ HelmReleases!Goto(c, "upgrading")
    <3>1. /\ HelmMoves(c) /\ call'[c].pc = "upgrading" /\ call'[c].answer = "none"
          /\ call[c].pc = "upgrade"
      BY <1>0, <1>10, <2>1, HelmGoto DEF HelmSteps, HelmReads, HelmReleases!StartUpgrade
    <3> DEFINE next == release.rev + 1
    <3>7. next \in Nat /\ release' = [release EXCEPT !.rev = next, !.status = "pending", !.by = c]
      BY <1>0, <2>1 DEF Releases
    <3> HIDE DEF next
    <3>2. release' \in Releases /\ release'.by = c
      BY <1>0, <3>7 DEF Releases
    <3>3. HelmInv'
      BY <3>1, <3>2, HelmChanges
    <3> DEFINE was == [release EXCEPT !.status = call[c].read.status, !.by = call[c].read.by]
    <3>4. was = call[c].read
      BY <2>1 DEF HelmReleases!StillRead
    <3>5. was.managed = release.managed /\ was.chart = release.chart /\ was.rev = release.rev
      BY <1>0 DEF Releases
    <3>6. HelmTrue(c)
      BY <1>0, <3>1, <3>4, <3>5 DEF HelmTrue, HelmReads
    <3> QED
      BY <3>3, <3>6
  <2> QED
    BY <1>5, <1>10, <2>1 DEF HelmReleases!StartUpgrade
<1>11. ASSUME NEW c \in Callers, HelmReleases!UpgradeEnds(c) \/ HelmReleases!RollbackEnds(c) PROVE HelmStepTrue
  <2>1. PICK s \in {"deployed", "failed"}, an \in {"updated", "rolled back", "error"} :
          HelmReleases!Becomes(c, s) /\ HelmReleases!Answer(c, an)
    BY <1>11 DEF HelmReleases!UpgradeEnds, HelmReleases!RollbackEnds
  <2>2. HelmMoves(c) /\ HelmInv' /\ call'[c].answer = an /\ call'[c].pc = "idle"
    BY <2>1, HelmAnswer, HelmEnds DEF HelmAnswers
  <2>3. call[c].pc \in {"upgrading", "rolling"}
    BY <1>11 DEF HelmReleases!UpgradeEnds, HelmReleases!RollbackEnds
  <2> QED
    BY <2>1, <2>2, <2>3 DEF HelmTrue
<1>16. release.rev + 1 \in Nat
  BY <1>0 DEF Releases
<1>17. ASSUME NEW c \in Callers, call[c].pc \in {"roll", "remove"}
       PROVE  release.managed = FALSE \/ release # call[c].read
  BY <1>0, <1>17 DEF HelmReads, Releases
<1>12. ASSUME NEW c \in Callers, HelmReleases!RollbackRelease(c) PROVE HelmStepTrue
  <2>1. call[c].pc = "roll" /\ call[c].answer = "none"
    BY <1>0, <1>12 DEF HelmReads, HelmReleases!RollbackRelease
  <2>2. ASSUME NEW chart \in Charts, NEW managed \in BOOLEAN, HelmReleases!Goto(c, "rolling"),
               release' = [rev |-> release.rev + 1, chart |-> chart, status |-> "pending",
                           managed |-> managed, by |-> c]
        PROVE  HelmStepTrue
    <3>1. HelmMoves(c) /\ call'[c].pc = "rolling" /\ call'[c].answer = "none"
      BY <2>1, <2>2, HelmGoto DEF HelmSteps
    <3>2. release' \in Releases /\ release'.by = c
      BY <1>16, <2>2 DEF Releases
    <3>3. HelmInv'
      BY <3>1, <3>2, HelmChanges
    <3> QED
      BY <1>17, <2>1, <3>1, <3>3 DEF HelmTrue
  <2> QED
    BY <1>5, <1>12, <2>2 DEF HelmReleases!RollbackRelease
<1>18. ASSUME NEW c \in Callers, HelmReleases!DeleteRelease(c) PROVE HelmStepTrue
  <2>1. call[c].pc = "remove"
    BY <1>18 DEF HelmReleases!DeleteRelease
  <2>2. ASSUME NEW an \in {"deleted", "error"}, HelmReleases!Answer(c, an),
               \/ release' = HelmReleases!Nothing
               \/ release' = [release EXCEPT !.status = "failed", !.by = HelmReleases!None]
        PROVE  HelmStepTrue
    <3>1. HelmMoves(c) /\ call'[c].answer = an /\ call'[c].pc = "idle"
      BY <2>2, HelmAnswer DEF HelmAnswers
    <3>2. release' \in Releases /\ release'.status # "pending"
      BY <1>0, <2>2, HelmConstants DEF Releases, HelmReleases!None
    <3> QED
      BY <1>17, <2>1, <2>2, <3>1, <3>2, HelmChanges DEF HelmTrue
  <2> QED
    BY <1>5, <1>18, <2>2 DEF HelmReleases!DeleteRelease
<1>13. ASSUME NEW c \in Callers, HelmReleases!RollbackDryRun(c) PROVE HelmStepTrue
  <2>1. PICK an \in {"valid", "error"} : HelmReleases!Answer(c, an) /\ UNCHANGED release
    BY <1>13 DEF HelmReleases!RollbackDryRun
  <2>2. HelmMoves(c) /\ call'[c].answer = an /\ call'[c].pc = "idle"
    BY <2>1, HelmAnswer DEF HelmAnswers
  <2> QED
    BY <2>1, <2>2, HelmStays DEF HelmTrue
<1>14. ASSUME NEW c \in Callers, HelmReleases!Breaks(c) PROVE HelmStepTrue
  BY <1>5, <1>14 DEF HelmReleases!Breaks
<1>15. CASE HelmReleases!OthersInstall \/ HelmReleases!OthersUpgrade \/ HelmReleases!OthersDelete
  <2>1. UNCHANGED call
    BY <1>15 DEF HelmReleases!OthersInstall, HelmReleases!OthersUpgrade, HelmReleases!OthersDelete
  <2>2. release' \in Releases /\ release'.status # "pending"
    <3>1. CASE HelmReleases!OthersInstall
      <4>1. PICK ch \in Charts, managed \in BOOLEAN :
              release' = [rev |-> 1, chart |-> ch, status |-> "deployed", managed |-> managed, by |-> "none"]
        BY <3>1 DEF HelmReleases!OthersInstall, HelmReleases!None
      <4> QED
        BY <4>1 DEF Releases
    <3>2. CASE HelmReleases!OthersUpgrade
      <4>1. PICK ch \in Charts, managed \in BOOLEAN, s \in {"deployed", "failed"} :
              release' = [rev |-> release.rev + 1, chart |-> ch, status |-> s, managed |-> managed, by |-> "none"]
        BY <3>2 DEF HelmReleases!OthersUpgrade, HelmReleases!None
      <4>2. release.rev + 1 \in Nat
        BY <1>0 DEF Releases
      <4> QED
        BY <4>1, <4>2 DEF Releases
    <3>3. CASE HelmReleases!OthersDelete
      BY <3>3, HelmConstants DEF HelmReleases!OthersDelete
    <3> QED
      BY <1>15, <3>1, <3>2, <3>3
  <2>3. HelmInv'
    BY <1>0, <2>1, <2>2 DEF HelmInv, HelmTypes, HelmReads, HelmOwns, HelmReleases!Its
  <2> QED
    BY <2>1, <2>3
<1> HIDE DEF HelmStepTrue
<1> QED
  BY <1>2, <1>3, <1>6, <1>7, <1>8, <1>9, <1>10, <1>11, <1>12, <1>13, <1>14, <1>15, <1>18 DEF HelmReleases!Next

\* An install that is answered with a release has it deployed with the chart that was asked for,
\* unless the revision it made itself was taken away while it was at it; values change in the
\* revision that was read and expected, never under a delivery; and a delivery's release is rolled
\* back or deleted only if it was another when the request looked: for any number of requests,
\* charts and revisions, whatever others do on the same name.
THEOREM ReleasesGuardedHolds == MCSpec => ReleasesGuarded
<1> DEFINE View == <<part, vars, docVars, helmVars, readVars, logVars>>
           Installed(c) ==
             call'[c].answer = "installed" /\ call[c].pc # "idle" =>
               \/ release'.status = "deployed" /\ release'.chart = call[c].chart
               \/ call[c].pc = "installing" /\ ~HelmReleases!Its(c)
           Updated(c) ==
             call[c].pc = "upgrade" /\ call'[c].pc = "upgrading" =>
               /\ ~release.managed
               /\ release.chart = call[c].read.chart
               /\ call[c].expected \in {0, release.rev}
           Removed(c) ==
             call[c].pc \in {"roll", "remove"} /\ call'[c] # call[c] /\ release' # release =>
               ~release.managed \/ release # call[c].read
<1>1. MCInit => HelmInv
  BY HelmInit DEF MCInit
<1>2. HelmInv /\ [MCNext]_View => HelmInv'
  <2> SUFFICES ASSUME HelmInv, [MCNext]_View PROVE HelmInv'
    OBVIOUS
  <2>1. CASE HelmReleases!Next
    BY <2>1, HelmRequests DEF HelmStepTrue
  <2>2. CASE UNCHANGED helmVars
    BY <2>2 DEF helmVars, HelmInv, HelmTypes, HelmReads, HelmOwns, HelmReleases!Its
  <2> QED
    BY <2>1, <2>2 DEF MCNext
<1>3. HelmInv /\ [MCNext]_View =>
        /\ [\A c \in Callers : Installed(c)]_helmVars
        /\ [\A c \in Callers : Updated(c)]_helmVars
        /\ [\A c \in Callers : Removed(c)]_helmVars
  <2> SUFFICES ASSUME HelmInv, HelmReleases!Next, NEW c \in Callers
               PROVE  Installed(c) /\ Updated(c) /\ Removed(c)
    BY DEF MCNext
  <2>1. CASE UNCHANGED call
    BY <2>1 DEF HelmInv, HelmReads
  <2>2. ASSUME NEW d \in Callers, (call[d].pc = "idle" /\ HelmMoves(d)) \/ HelmTrue(d)
        PROVE  Installed(c) /\ Updated(c) /\ Removed(c)
    <3>1. call[c].pc # "idle" => call[c].answer = "none"
      BY DEF HelmInv, HelmReads
    <3>2. CASE c # d
      BY <2>2, <3>1, <3>2 DEF HelmTrue, HelmMoves
    <3>3. CASE c = d
      BY <2>2, <3>1, <3>3 DEF HelmTrue
    <3> QED
      BY <3>2, <3>3
  <2> QED
    BY <2>1, <2>2, HelmRequests DEF HelmStepTrue
<1> QED
  BY <1>1, <1>2, <1>3, PTL DEF MCSpec, ReleasesGuarded, HelmReleases!InstallIsTrue, HelmReleases!ValuesGuarded,
       HelmReleases!DeliveriesKept, helmVars, HelmReleases!vars

-----------------------------------------------------------------------------
(* Requests of several documents.                                          *)

Docs == 1..NDocs

DocTypes ==
  /\ live \in [ObjectNames -> {"absent", "other", "desired"}]
  /\ task.action \in DocumentTasks!Creations \cup DocumentTasks!Manifests \cup DocumentTasks!GitOps
  /\ task.name \in [Docs -> ObjectNames]
  /\ at.phase \in {"prepare", "dry run", "dry done", "create", "each", "done"} /\ at.doc \in Docs
  /\ dry \in [Docs -> {"skipped", "passed", "failed"}]
  /\ item \in [Docs -> {"none", "failed", "not started", "succeeded"}]
  /\ inv \subseteq Docs /\ wrote \subseteq Docs

\* Which phases a request goes through, and that it begins with nothing done.
DocPhases ==
  /\ at.phase \in {"dry run", "dry done"} => task.action \in DocumentTasks!Creations
  /\ at.phase = "create" => task.action = "create"
  /\ at.phase = "each" => task.action \in DocumentTasks!Manifests
  /\ at.phase = "prepare" => inv = {} /\ diag = {}
  /\ at.phase \in {"prepare", "dry run", "dry done"} => wrote = {}

\* While documents are created, the ones before the next have been and the others have not.
DocHalfway ==
  at.phase = "create" =>
    /\ DocumentTasks!Ready
    /\ \A d \in Docs : d \in wrote <=> d < at.doc
    /\ \A d \in Docs : item[d] = IF d < at.doc THEN "succeeded" ELSE "not started"

\* The document has had its dry run and is not created.
DocDue(d) ==
  \/ at.phase = "dry run" /\ d < at.doc
  \/ at.phase = "dry done"
  \/ at.phase = "create" /\ d >= at.doc

\* What the dry run lets through is not refused for what the request says; undisturbed, and if
\* no object is named twice, the name of a document that passed and is not created is free.
DocFree ==
  /\ at.phase \in {"dry run", "dry done", "create"} =>
       \A d \in Docs : dry[d] # "failed" => ~DocumentTasks!Refused(d)
  /\ ~disturbed /\ ~DocumentTasks!Twice =>
       \A d \in Docs : DocDue(d) /\ dry[d] = "passed" => DocumentTasks!Object(d) = "absent"

\* Every document that has had its turn is in the inventory or has a diagnostic.
DocTold ==
  at.phase = "each" /\ task.action \in {"apply", "observe"} =>
    \A d \in Docs : d < at.doc => d \in inv \/ d \in diag

DocReports ==
  /\ DocumentTasks!ReportIsTrue
  /\ DocumentTasks!PartialOnlyIfDisturbed
  /\ DocumentTasks!InventoryComplete

DocInv == DocTypes /\ DocPhases /\ DocHalfway /\ DocFree /\ DocTold /\ DocReports

LEMMA DocCardinality ==
  ASSUME NEW S
  PROVE  DocumentTasks!Cardinality(S) = Cardinality(S)
BY Zenon DEF DocumentTasks!Cardinality, Cardinality

LEMMA DocLast == DocumentTasks!Last = NDocs /\ NDocs \in Nat \ {0} /\ 1 \in Docs
<1>1. Cardinality(1..NDocs) = IF 1 > NDocs THEN 0 ELSE NDocs - 1 + 1
  BY DocumentsAssumption, FS_Interval
<1> QED
  BY <1>1, DocCardinality, DocumentsAssumption DEF DocumentTasks!Last, Docs

LEMMA DocNumbers == NDocs \in Nat /\ \A d \in Docs : d \in Nat /\ 1 <= d /\ d <= NDocs
BY DocumentsAssumption DEF Docs

\* The next document, or the end of the phase after the last one.
LEMMA DocNext ==
  ASSUME NEW p, NEW q, at.doc \in Docs, DocumentTasks!NextDoc(p, q)
  PROVE  /\ at.doc = NDocs => at'.phase = q /\ at'.doc = 1
         /\ at.doc # NDocs => at'.phase = p /\ at'.doc = at.doc + 1
         /\ at'.doc \in Docs
BY DocLast DEF DocumentTasks!NextDoc, DocumentTasks!Goto, Docs

LEMMA DocGoto ==
  ASSUME NEW p, NEW d, DocumentTasks!Goto(p, d)
  PROVE  at'.phase = p /\ at'.doc = d
BY DEF DocumentTasks!Goto

LEMMA DocPut ==
  ASSUME DocTypes, NEW d \in Docs, DocumentTasks!Put(d)
  PROVE  /\ live' \in [ObjectNames -> {"absent", "other", "desired"}]
         /\ wrote' = wrote \cup {d} /\ wrote' \subseteq Docs
         /\ \A n \in ObjectNames : n # task.name[d] => live'[n] = live[n]
BY DEF DocTypes, DocumentTasks!Put

\* A manifest task need only account for its documents.
LEMMA DocManifest ==
  ASSUME DocTypes', task'.action \in DocumentTasks!Manifests \cup DocumentTasks!GitOps,
         at'.phase \in {"each", "done"}, at'.phase = "each" => task'.action \in DocumentTasks!Manifests,
         DocTold', DocumentTasks!InventoryComplete'
  PROVE  DocInv'
<1>1. DocHalfway' /\ DocFree' /\ DocPhases'
  BY DEF DocHalfway, DocFree, DocDue, DocPhases
<1>2. DocumentTasks!ReportIsTrue' /\ DocumentTasks!PartialOnlyIfDisturbed'
  BY DEF DocumentTasks!ReportIsTrue, DocumentTasks!PartialOnlyIfDisturbed, DocumentTasks!Creations,
     DocumentTasks!Manifests, DocumentTasks!GitOps
<1> QED
  BY <1>1, <1>2 DEF DocInv, DocReports

\* Before a creation ends it need only be on its way.
LEMMA DocCreation ==
  ASSUME DocTypes', task'.action \in DocumentTasks!Creations,
         at'.phase \in {"dry run", "dry done", "create"}, at'.phase = "create" => task'.action = "create",
         at'.phase # "create" => wrote' = {}, DocHalfway', DocFree'
  PROVE  DocInv'
<1>1. DocTold' /\ DocumentTasks!InventoryComplete'
  BY DEF DocTold, DocumentTasks!InventoryComplete, DocumentTasks!Creations
<1>2. DocPhases'
  BY DEF DocPhases
<1>3. DocumentTasks!PartialOnlyIfDisturbed'
  BY DEF DocumentTasks!PartialOnlyIfDisturbed, DocumentTasks!Done
<1>4. DocumentTasks!ReportIsTrue'
  BY DEF DocumentTasks!ReportIsTrue, DocumentTasks!Done, DocHalfway, DocumentTasks!Ready, Docs
<1> QED
  BY <1>1, <1>2, <1>3, <1>4 DEF DocInv, DocReports

\* A creation that ends must have reported.
LEMMA DocCreationEnds ==
  ASSUME DocTypes', task'.action \in DocumentTasks!Creations, at'.phase = "done",
         DocumentTasks!ReportIsTrue', DocumentTasks!PartialOnlyIfDisturbed'
  PROVE  DocInv'
<1>1. DocTold' /\ DocumentTasks!InventoryComplete'
  BY DEF DocTold, DocumentTasks!InventoryComplete, DocumentTasks!Creations
<1>2. DocPhases' /\ DocHalfway' /\ DocFree'
  BY DEF DocPhases, DocHalfway, DocFree, DocDue
<1> QED
  BY <1>1, <1>2 DEF DocInv, DocReports

LEMMA DocStarts == DocumentTasks!Init => DocInv
<1> SUFFICES ASSUME DocumentTasks!Init PROVE DocInv
  OBVIOUS
<1>1. DocTypes /\ at.phase = "prepare"
  BY DocLast DEF DocumentTasks!Init, DocTypes, Docs
<1>2. DocPhases
  BY <1>1 DEF DocumentTasks!Init, DocPhases
<1>3. DocHalfway /\ DocFree /\ DocTold
  BY <1>1 DEF DocHalfway, DocFree, DocTold, DocDue
<1>4. DocReports
  BY <1>1 DEF DocumentTasks!Init, DocReports, DocumentTasks!ReportIsTrue,
     DocumentTasks!PartialOnlyIfDisturbed, DocumentTasks!InventoryComplete, DocumentTasks!Done
<1> QED
  BY <1>1, <1>2, <1>3, <1>4 DEF DocInv

LEMMA DocCreationSteps ==
  ASSUME DocInv,
         DocumentTasks!Prepare \/ DocumentTasks!DryRun \/ DocumentTasks!Preflighted
           \/ DocumentTasks!Created \/ DocumentTasks!CreateFails
  PROVE  DocInv'
<1>0. /\ DocTypes /\ DocPhases /\ DocHalfway /\ DocFree
      /\ NDocs \in Nat \ {0} /\ 1 \in Docs
  BY DocLast DEF DocInv
<1>1. CASE DocumentTasks!Prepare
  <2>1. /\ UNCHANGED <<live, task, item, inv, wrote>> /\ wrote = {}
        /\ task.action \in DocumentTasks!Creations /\ at'.phase = "dry run" /\ at'.doc = 1
        /\ dry' \in [Docs -> {"skipped", "failed"}]
        /\ \A d \in Docs : dry'[d] # "failed" => ~DocumentTasks!Refused(d)
    BY <1>0, <1>1, DocGoto DEF DocumentTasks!Prepare, DocPhases, Docs
  <2>2. DocTypes'
    BY <1>0, <2>1 DEF DocTypes
  <2>3. DocHalfway' /\ DocFree'
    BY <1>0, <2>1 DEF DocHalfway, DocFree, DocDue, DocumentTasks!Refused, DocTypes, Docs
  <2> QED
    BY <2>1, <2>2, <2>3, DocCreation
<1>2. CASE DocumentTasks!DryRun
  <2>1. /\ UNCHANGED <<live, task, item, inv, wrote>> /\ wrote = {} /\ at.doc \in Docs
        /\ task.action \in DocumentTasks!Creations /\ at.phase = "dry run"
        /\ at.doc = NDocs => at'.phase = "dry done" /\ at'.doc = 1
        /\ at.doc # NDocs => at'.phase = "dry run" /\ at'.doc = at.doc + 1
        /\ at'.doc \in Docs
    BY <1>0, <1>2, DocNext DEF DocumentTasks!DryRun, DocPhases, DocTypes
  <2>2. /\ dry' \in [Docs -> {"skipped", "passed", "failed"}]
        /\ \A d \in Docs \ {at.doc} : dry'[d] = dry[d]
        /\ dry[at.doc] = "failed" => dry'[at.doc] = "failed"
        /\ dry'[at.doc] = "passed" /\ ~disturbed' => DocumentTasks!Object(at.doc) = "absent"
        /\ ~disturbed' => ~disturbed
    BY <1>0, <1>2, <2>1 DEF DocumentTasks!DryRun, DocTypes
  <2>3. DocTypes'
    BY <1>0, <2>1, <2>2 DEF DocTypes
  <2>4. ASSUME NEW d \in Docs, DocDue(d)' PROVE DocDue(d) \/ d = at.doc
    <3>3. d \in Nat /\ at.doc \in Nat /\ NDocs \in Nat /\ d <= NDocs
      BY <2>1, DocNumbers
    <3>1. CASE at.doc = NDocs
      <4>1. d < at.doc \/ d = at.doc
        BY <3>1, <3>3
      <4> QED
        BY <2>1, <4>1 DEF DocDue
    <3>2. CASE at.doc # NDocs
      <4>1. d < at.doc + 1
        BY <2>1, <2>4, <3>2 DEF DocDue
      <4>2. d < at.doc \/ d = at.doc
        BY <3>3, <4>1
      <4> QED
        BY <2>1, <4>2 DEF DocDue
    <3> QED
      BY <3>1, <3>2
  <2>5. at'.phase \in {"dry run", "dry done"}
    BY <2>1
  <2>6. DocHalfway'
    BY <2>5 DEF DocHalfway
  <2>7. ASSUME NEW d \in Docs
        PROVE  /\ dry'[d] # "failed" => ~DocumentTasks!Refused(d)'
               /\ ~disturbed' /\ ~DocumentTasks!Twice' /\ DocDue(d)' /\ dry'[d] = "passed" =>
                    DocumentTasks!Object(d)' = "absent"
    <3>1. /\ DocumentTasks!Refused(d)' = DocumentTasks!Refused(d) /\ DocumentTasks!Object(d)' = DocumentTasks!Object(d)
          /\ DocumentTasks!Twice' = DocumentTasks!Twice
      BY <2>1 DEF DocumentTasks!Refused, DocumentTasks!Object, DocumentTasks!Twice
    <3>2. dry[d] # "failed" => ~DocumentTasks!Refused(d)
      BY <1>0, <2>1 DEF DocFree
    <3>3. ~disturbed /\ ~DocumentTasks!Twice /\ DocDue(d) /\ dry[d] = "passed" => DocumentTasks!Object(d) = "absent"
      BY <1>0 DEF DocFree
    <3>4. CASE d = at.doc
      BY <2>2, <3>1, <3>2, <3>4
    <3>5. CASE d # at.doc
      BY <2>2, <2>4, <3>1, <3>2, <3>3, <3>5
    <3> QED
      BY <3>4, <3>5
  <2>8. DocFree'
    BY <2>7 DEF DocFree
  <2> QED
    BY <2>1, <2>3, <2>5, <2>6, <2>8, DocCreation
<1>3. CASE DocumentTasks!Preflighted
  <2>1. /\ UNCHANGED <<live, task, dry, inv, wrote, disturbed>> /\ wrote = {} /\ at'.doc = 1
        /\ task.action \in DocumentTasks!Creations /\ at.phase = "dry done"
        /\ IF task.action = "create" /\ DocumentTasks!Ready THEN at'.phase = "create" ELSE at'.phase = "done"
    BY <1>0, <1>3, DocGoto DEF DocumentTasks!Preflighted, DocPhases
  <2>2. /\ item' \in [Docs -> {"failed", "not started"}]
        /\ \A d \in Docs : item'[d] = "failed" => dry[d] = "failed"
    BY <1>3 DEF DocumentTasks!Preflighted, Docs
  <2>3. DocTypes'
    BY <1>0, <2>1, <2>2 DEF DocTypes
  <2>4. CASE at'.phase = "create"
    <3>1. task.action = "create" /\ DocumentTasks!Ready /\ \A d \in Docs : dry[d] = "passed"
      BY <2>1, <2>4 DEF DocumentTasks!Ready, Docs
    <3>5. \A d \in Docs : ~(d < 1)
      BY DocNumbers
    <3>4. \A d \in Docs : ~(d < at'.doc) /\ d \notin wrote' /\ item'[d] = "not started"
      BY <2>1, <2>2, <3>1, <3>5
    <3>2. DocHalfway'
      BY <2>1, <3>1, <3>4 DEF DocHalfway, DocumentTasks!Ready
    <3>3. DocFree'
      BY <1>0, <2>1, <2>4 DEF DocFree, DocDue, DocumentTasks!Refused, DocumentTasks!Object, DocumentTasks!Twice
    <3> QED
      BY <2>1, <2>3, <2>4, <3>1, <3>2, <3>3, DocCreation
  <2>5. CASE at'.phase = "done" /\ ~(task.action = "create" /\ DocumentTasks!Ready)
    <3>1. DocumentTasks!PartialOnlyIfDisturbed'
      BY <2>1, <2>5 DEF DocumentTasks!PartialOnlyIfDisturbed, DocumentTasks!Ready
    <3>2. Cardinality({d \in wrote' : item'[d] = "failed"}) <= 1
      <4>1. {d \in wrote' : item'[d] = "failed"} = {}
        BY <2>1
      <4> QED
        BY <4>1, FS_EmptySet
    <3>3. DocumentTasks!ReportIsTrue'
      BY <2>1, <2>2, <3>2, DocCardinality DEF DocumentTasks!ReportIsTrue, Docs
    <3> QED
      BY <2>1, <2>3, <2>5, <3>1, <3>3, DocCreationEnds
  <2> QED
    BY <2>1, <2>4, <2>5
<1>4. CASE DocumentTasks!Created \/ DocumentTasks!CreateFails
  <2>1. /\ UNCHANGED <<task, dry, inv>> /\ at.phase = "create" /\ task.action = "create" /\ at.doc \in Docs
        /\ task.action \in DocumentTasks!Creations /\ DocumentTasks!Ready
        /\ \A d \in Docs : dry[d] = "passed" /\ ~DocumentTasks!Refused(d)
        /\ \A d \in Docs : d \in wrote <=> d < at.doc
        /\ \A d \in Docs : item[d] = IF d < at.doc THEN "succeeded" ELSE "not started"
    BY <1>0, <1>4 DEF DocumentTasks!Created, DocumentTasks!CreateFails, DocPhases, DocTypes, DocHalfway, DocFree,
       DocumentTasks!Ready, DocumentTasks!Creations, Docs
  <2>5. at.doc \in Nat /\ at.doc <= NDocs /\ \A d \in Docs : d \in Nat /\ d <= NDocs
    BY <2>1, DocNumbers
  <2>6. DocumentTasks!Twice' = DocumentTasks!Twice
    BY <2>1 DEF DocumentTasks!Twice
  <2>2. ASSUME NEW d \in Docs, d # at.doc, ~DocumentTasks!Twice PROVE task.name[d] # task.name[at.doc]
    <3>4. d \in Nat /\ at.doc \in Nat
      BY <2>5
    <3>3. d < at.doc \/ at.doc < d
      BY <2>2, <3>4
    <3>1. d \in 1..NDocs /\ at.doc \in 1..NDocs /\ (d < at.doc \/ at.doc < d)
      BY <2>1, <2>2, <3>3 DEF Docs
    <3>2. ~DocumentTasks!Refused(d) /\ ~DocumentTasks!Refused(at.doc)
      BY <2>1
    <3>5. task.name[d] = task.name[at.doc] => task.version[d] = task.version[at.doc]
      BY <2>2, <3>1 DEF DocumentTasks!Twice
    <3> QED
      BY <3>1, <3>2, <3>5 DEF DocumentTasks!Refused
  <2>3. CASE DocumentTasks!Created
    <3>1. /\ UNCHANGED disturbed
          /\ at.doc = NDocs => at'.phase = "done" /\ at'.doc = 1
          /\ at.doc # NDocs => at'.phase = "create" /\ at'.doc = at.doc + 1
          /\ at'.doc \in Docs
      BY <2>1, <2>3, DocNext DEF DocumentTasks!Created
    <3>2. /\ live' \in [ObjectNames -> {"absent", "other", "desired"}]
          /\ wrote' = wrote \cup {at.doc} /\ wrote' \subseteq Docs
          /\ \A n \in ObjectNames : n # task.name[at.doc] => live'[n] = live[n]
      BY <1>0, <2>1, <2>3, DocPut DEF DocumentTasks!Created
    <3>3. /\ item' \in [Docs -> {"none", "failed", "not started", "succeeded"}]
          /\ item'[at.doc] = "succeeded" /\ \A d \in Docs \ {at.doc} : item'[d] = item[d]
      BY <1>0, <2>1, <2>3 DEF DocumentTasks!Created, DocTypes
    <3>4. DocTypes'
      BY <1>0, <2>1, <3>1, <3>2, <3>3 DEF DocTypes
    <3>5. CASE at.doc # NDocs
      <4>5. at'.phase = "create" /\ at'.doc = at.doc + 1
        BY <3>1, <3>5
      <4>6. ASSUME NEW d \in Docs
            PROVE  /\ d \in wrote' <=> d < at'.doc
                   /\ item'[d] = IF d < at'.doc THEN "succeeded" ELSE "not started"
        <5>1. d < at'.doc <=> d < at.doc \/ d = at.doc
          BY <2>5, <4>5
        <5>2. d \in wrote <=> d < at.doc
          BY <2>1
        <5>3. item[d] = IF d < at.doc THEN "succeeded" ELSE "not started"
          BY <2>1
        <5> QED
          BY <3>2, <3>3, <5>1, <5>2, <5>3
      <4>7. DocumentTasks!Ready'
        BY <2>1 DEF DocumentTasks!Ready
      <4>1. DocHalfway'
        BY <4>6, <4>7 DEF DocHalfway
      <4>2. ASSUME NEW d \in Docs, DocDue(d)' PROVE DocDue(d) /\ d # at.doc
        <5>1. d >= at.doc + 1
          BY <4>2, <4>5 DEF DocDue
        <5>2. d \in Nat /\ at.doc \in Nat
          BY <2>5
        <5>3. d >= at.doc /\ d # at.doc
          BY <5>1, <5>2
        <5> QED
          BY <2>1, <5>3 DEF DocDue
      <4>3. ~DocumentTasks!Twice =>
              \A d \in Docs : d # at.doc => DocumentTasks!Object(d)' = DocumentTasks!Object(d)
        BY <1>0, <2>1, <2>2, <3>2 DEF DocumentTasks!Object, DocTypes
      <4>4. DocFree'
        BY <1>0, <2>1, <2>6, <3>1, <3>5, <4>2, <4>3 DEF DocFree, DocumentTasks!Refused
      <4> QED
        BY <2>1, <3>1, <3>4, <3>5, <4>1, <4>4, DocCreation
    <3>6. CASE at.doc = NDocs
      <4>1. ASSUME NEW d \in Docs PROVE item'[d] = "succeeded" /\ d \in wrote'
        <5>1. d < at.doc \/ d = at.doc
          BY <1>0, <2>5, <3>6
        <5>2. CASE d < at.doc
          BY <2>1, <2>5, <3>2, <3>3, <5>2
        <5> QED
          BY <3>2, <3>3, <5>1, <5>2
      <4>2. DocumentTasks!BatchStatus' = "succeeded"
        <5>1. {d \in 1..NDocs : item'[d] = "succeeded"} = 1..NDocs /\ 1..NDocs # {}
          BY <1>0, <4>1 DEF Docs
        <5> QED
          BY <5>1 DEF DocumentTasks!BatchStatus
      <4>3. DocumentTasks!PartialOnlyIfDisturbed'
        BY <4>2 DEF DocumentTasks!PartialOnlyIfDisturbed
      <4>4. Cardinality({d \in wrote' : item'[d] = "failed"}) <= 1
        <5>1. {d \in wrote' : item'[d] = "failed"} = {}
          BY <3>2, <4>1
        <5> QED
          BY <5>1, FS_EmptySet
      <4>5. DocumentTasks!ReportIsTrue'
        BY <2>1, <4>1, <4>4, DocCardinality DEF DocumentTasks!ReportIsTrue, Docs
      <4> QED
        BY <2>1, <3>1, <3>4, <3>6, <4>3, <4>5, DocCreationEnds
    <3> QED
      BY <3>5, <3>6
  <2>4. CASE DocumentTasks!CreateFails
    <3>1. at'.phase = "done" /\ at'.doc = 1
      BY <2>4, DocGoto DEF DocumentTasks!CreateFails
    <3>2. /\ live' \in [ObjectNames -> {"absent", "other", "desired"}]
          /\ wrote' \in {wrote, wrote \cup {at.doc}} /\ wrote' \subseteq Docs
          /\ (DocumentTasks!Object(at.doc) # "absent" /\ UNCHANGED disturbed) \/ disturbed' = TRUE
      <4>1. CASE UNCHANGED <<live, wrote>>
        BY <1>0, <2>4, <4>1 DEF DocumentTasks!CreateFails, DocTypes
      <4>2. CASE DocumentTasks!Put(at.doc)
        BY <1>0, <2>1, <2>4, <4>2, DocPut DEF DocumentTasks!CreateFails
      <4> QED
        BY <2>4, <4>1, <4>2 DEF DocumentTasks!CreateFails
    <3>3. /\ item' \in [Docs -> {"none", "failed", "not started", "succeeded"}]
          /\ item'[at.doc] = "failed" /\ \A d \in Docs \ {at.doc} : item'[d] = item[d]
      BY <1>0, <2>1, <2>4 DEF DocumentTasks!CreateFails, DocumentTasks!SetFailed, DocTypes
    <3>4. DocTypes'
      BY <1>0, <2>1, <3>1, <3>2, <3>3 DEF DocTypes
    <3>5. disturbed' \/ DocumentTasks!Twice'
      <4>1. ~disturbed /\ ~DocumentTasks!Twice => DocumentTasks!Object(at.doc) = "absent"
        <5>2. at.doc >= at.doc
          BY <2>5
        <5>1. DocDue(at.doc) /\ dry[at.doc] = "passed"
          BY <2>1, <5>2 DEF DocDue
        <5> QED
          BY <1>0, <2>1, <5>1 DEF DocFree
      <4>2. CASE DocumentTasks!Object(at.doc) # "absent" /\ UNCHANGED disturbed
        BY <2>6, <4>1, <4>2
      <4> QED
        BY <3>2, <4>2
    <3>6. DocumentTasks!PartialOnlyIfDisturbed'
      BY <3>5 DEF DocumentTasks!PartialOnlyIfDisturbed
    <3>7. Cardinality({d \in wrote' : item'[d] = "failed"}) <= 1
      <4>1. {d \in wrote' : item'[d] = "failed"} \in {{}, {at.doc}}
        <5>1. {d \in wrote' : item'[d] = "failed"} \subseteq {at.doc}
          BY <1>0, <2>1, <3>2, <3>3
        <5> QED
          BY <5>1
      <4>2. Cardinality({}) = 0 /\ Cardinality({at.doc}) = 1
        BY FS_EmptySet, FS_Singleton
      <4> QED
        BY <4>1, <4>2
    <3>8. DocumentTasks!ReportIsTrue'
      <4>1. \A d \in Docs : item'[d] = "succeeded" => d \in wrote'
        BY <2>1, <3>2, <3>3
      <4>2. ASSUME NEW d \in Docs, item'[d] = "not started" PROVE d \notin wrote'
        <5>1. d # at.doc /\ item[d] = "not started"
          BY <2>1, <3>3, <4>2
        <5>2. d \notin wrote
          BY <2>1, <5>1
        <5> QED
          BY <3>2, <5>1, <5>2
      <4> QED
        BY <2>1, <3>7, <4>1, <4>2, DocCardinality DEF DocumentTasks!ReportIsTrue, Docs
    <3> QED
      BY <2>1, <3>1, <3>4, <3>6, <3>8, DocCreationEnds
  <2> QED
    BY <1>4, <2>3, <2>4
<1> QED
  BY <1>1, <1>2, <1>3, <1>4

LEMMA DocManifestSteps ==
  ASSUME DocInv,
         DocumentTasks!Begin \/ DocumentTasks!PatchDryRun \/ DocumentTasks!PatchDocument
           \/ DocumentTasks!Observe \/ DocumentTasks!GitOpsEarly \/ DocumentTasks!ExecuteGitOps
  PROVE  DocInv'
<1>0. /\ DocTypes /\ DocPhases /\ DocTold /\ DocumentTasks!InventoryComplete
      /\ NDocs \in Nat \ {0} /\ 1 \in Docs
  BY DocLast DEF DocInv, DocReports
<1>1. CASE DocumentTasks!Begin
  <2>1. /\ UNCHANGED <<live, task, dry, item, inv, diag, wrote>> /\ inv = {} /\ wrote = {}
        /\ task.action \in DocumentTasks!Manifests /\ at'.doc = 1
        /\ at'.phase = "each" \/ (at'.phase = "done" /\ error')
    BY <1>0, <1>1, DocGoto DEF DocumentTasks!Begin, DocPhases
  <2>2. DocTypes'
    BY <1>0, <2>1 DEF DocTypes
  <2>3. DocTold'
    BY <2>1, DocNumbers DEF DocTold
  <2>4. DocumentTasks!InventoryComplete'
    BY <2>1 DEF DocumentTasks!InventoryComplete, DocumentTasks!Done, DocumentTasks!Manifests
  <2> QED
    BY <2>1, <2>2, <2>3, <2>4, DocManifest
<1>2. ASSUME DocumentTasks!PatchDryRun \/ DocumentTasks!PatchDocument \/ DocumentTasks!Observe
      PROVE  DocInv'
  <2>1. /\ UNCHANGED <<task, dry, item>> /\ at.phase = "each" /\ at.doc \in Docs
        /\ task.action \in {"preflight", "apply", "observe"} /\ task.action \in DocumentTasks!Manifests
        /\ at.doc = NDocs => at'.phase = "done" /\ at'.doc = 1
        /\ at.doc # NDocs => at'.phase = "each" /\ at'.doc = at.doc + 1
        /\ at'.doc \in Docs
    BY <1>0, <1>2, DocNext DEF DocumentTasks!PatchDryRun, DocumentTasks!PatchDocument, DocumentTasks!Observe,
       DocTypes, DocumentTasks!Manifests
  <2>2. /\ inv \subseteq inv' /\ diag \subseteq diag' /\ inv' \subseteq Docs
        /\ task.action # "preflight" => at.doc \in inv' \/ at.doc \in diag'
    BY <1>0, <1>2, <2>1 DEF DocumentTasks!PatchDryRun, DocumentTasks!PatchDocument, DocumentTasks!Observe,
       DocumentTasks!Inventoried, DocumentTasks!Diagnosed, DocumentTasks!Unobserved, DocTypes
  <2>3. /\ live' \in [ObjectNames -> {"absent", "other", "desired"}] /\ wrote' \subseteq Docs
        /\ task.action # "apply" => UNCHANGED wrote
        /\ task.action = "apply" => wrote \subseteq wrote' /\ inv' \subseteq wrote' \cup inv
    <3>1. CASE DocumentTasks!PatchDryRun \/ DocumentTasks!Observe
      BY <1>0, <3>1 DEF DocumentTasks!PatchDryRun, DocumentTasks!Observe, DocTypes
    <3>2. CASE DocumentTasks!PatchDocument /\ DocumentTasks!Put(at.doc)
      BY <1>0, <2>1, <3>2, DocPut DEF DocumentTasks!PatchDocument, DocumentTasks!Inventoried, DocumentTasks!Diagnosed
    <3>3. CASE DocumentTasks!PatchDocument /\ DocumentTasks!Diagnosed /\ UNCHANGED <<live, wrote>>
      BY <1>0, <3>3 DEF DocumentTasks!PatchDocument, DocumentTasks!Diagnosed, DocTypes
    <3> QED
      BY <1>2, <3>1, <3>2, <3>3 DEF DocumentTasks!PatchDocument
  <2>4. DocTypes'
    BY <1>0, <2>1, <2>2, <2>3 DEF DocTypes
  <2>5. \A d \in Docs : task.action # "preflight" /\ d <= at.doc => d \in inv' \/ d \in diag'
    BY <1>0, <2>1, <2>2 DEF DocTold, Docs
  <2>6. DocTold'
    BY <1>0, <2>1, <2>5 DEF DocTold, Docs
  <2>7. task.action # "preflight" /\ at'.phase = "done" /\ ~error' => inv' = Docs
    <3>1. at'.phase = "done" => at.doc = NDocs
      BY <2>1
    <3>3. task.action # "preflight" /\ ~error' => diag' = {}
      BY <1>2 DEF DocumentTasks!PatchDryRun, DocumentTasks!PatchDocument, DocumentTasks!Observe, DocumentTasks!Fails
    <3>2. \A d \in Docs : d <= NDocs
      BY <1>0 DEF Docs
    <3> QED
      BY <2>2, <2>5, <3>1, <3>2, <3>3
  <2>8. DocumentTasks!InventoryComplete'
    BY <1>0, <2>1, <2>3, <2>7 DEF DocumentTasks!InventoryComplete, DocumentTasks!Done, Docs
  <2> QED
    BY <2>1, <2>4, <2>6, <2>8, DocManifest
<1>3. CASE DocumentTasks!ExecuteGitOps
  <2>1. /\ UNCHANGED <<task, dry, item>> /\ inv = {} /\ wrote = {}
        /\ task.action \in DocumentTasks!GitOps /\ at'.phase = "done" /\ at'.doc = 1
    BY <1>0, <1>3, DocGoto DEF DocumentTasks!ExecuteGitOps, DocumentTasks!GitOps, DocPhases
  <2>2. /\ live' \in [ObjectNames -> {"absent", "other", "desired"}] /\ wrote' \subseteq {1}
        /\ task.action = "gitops observe" => wrote' = {}
    <3>1. CASE UNCHANGED <<live, wrote>>
      BY <1>0, <2>1, <3>1 DEF DocTypes
    <3>2. CASE DocumentTasks!Put(1) /\ task.action = "gitops apply"
      BY <1>0, <2>1, <3>2, DocPut
    <3> QED
      BY <1>3, <3>1, <3>2 DEF DocumentTasks!ExecuteGitOps
  <2>6. PICK failed \in BOOLEAN, found \in BOOLEAN, over \in BOOLEAN, unobserved \in BOOLEAN :
          /\ ~failed => found
          /\ IF found /\ ~over
             THEN \E seen \in SUBSET {d \in Docs \ {1} : DocumentTasks!Object(d) # "absent"} : inv' = {1} \cup seen
             ELSE UNCHANGED inv
          /\ error' = (failed \/ over \/ unobserved)
    BY <1>3 DEF DocumentTasks!ExecuteGitOps, Docs
  <2>3. inv' \subseteq Docs /\ (~error' => 1 \in inv')
    BY <1>0, <2>1, <2>6
  <2>4. DocTypes'
    BY <1>0, <2>1, <2>2, <2>3 DEF DocTypes
  <2>5. DocTold' /\ DocumentTasks!InventoryComplete'
    BY <1>3, <2>1, <2>2, <2>3 DEF DocTold, DocumentTasks!InventoryComplete, DocumentTasks!GitOps,
       DocumentTasks!ExecuteGitOps
  <2> QED
    BY <2>1, <2>4, <2>5, DocManifest
<1>4. CASE DocumentTasks!GitOpsEarly
  <2>1. /\ UNCHANGED <<live, task, dry, item, inv, wrote>> /\ inv = {} /\ wrote = {}
        /\ task.action \in DocumentTasks!GitOps /\ at'.phase = "done" /\ at'.doc = 1
        /\ error' \/ task.action = "gitops preflight"
    BY <1>0, <1>4, DocGoto DEF DocumentTasks!GitOpsEarly, DocPhases
  <2>2. DocTypes'
    BY <1>0, <2>1 DEF DocTypes
  <2>3. DocTold' /\ DocumentTasks!InventoryComplete'
    BY <2>1 DEF DocTold, DocumentTasks!InventoryComplete, DocumentTasks!GitOps
  <2> QED
    BY <2>1, <2>2, <2>3, DocManifest
<1> QED
  BY <1>1, <1>2, <1>3, <1>4

LEMMA DocOthers == DocInv /\ DocumentTasks!OthersWrite => DocInv'
<1> SUFFICES ASSUME DocInv, DocumentTasks!OthersWrite PROVE DocInv'
  OBVIOUS
<1>0. DocTypes /\ DocPhases /\ DocHalfway /\ DocFree /\ DocTold /\ DocReports
  BY DEF DocInv
<1>1. UNCHANGED <<task, at, dry, item, inv, diag, error, wrote>> /\ disturbed' = TRUE /\ at.phase # "done"
  BY DEF DocumentTasks!OthersWrite
<1>2. DocTypes'
  BY <1>0, <1>1 DEF DocTypes, DocumentTasks!OthersWrite
<1>3. DocPhases' /\ DocHalfway' /\ DocTold'
  BY <1>0, <1>1 DEF DocPhases, DocHalfway, DocTold, DocumentTasks!Ready
<1>4. DocFree'
  BY <1>0, <1>1 DEF DocFree, DocumentTasks!Refused
<1>5. DocReports'
  BY <1>0, <1>1 DEF DocReports, DocumentTasks!ReportIsTrue, DocumentTasks!PartialOnlyIfDisturbed,
     DocumentTasks!InventoryComplete, DocumentTasks!Done
<1> QED
  BY <1>2, <1>3, <1>4, <1>5 DEF DocInv

\* A creation and a manifest task report what they did; a creation stops halfway only when it
\* was disturbed, or names an object under two versions; and the inventory of a manifest task
\* that ends without an error leaves nothing out: the answers of CreateResources and of
\* ExecuteManifestTask, for any number of documents, names and versions.
THEOREM DocumentsReportedHolds == MCSpec => []DocumentsReported
<1> DEFINE Inv == part = "documents" => DocInv
<1>1. MCInit => Inv
  BY DocStarts DEF MCInit
<1>2. Inv /\ [MCNext]_<<part, vars, docVars, helmVars, readVars, logVars>> => Inv'
  <2> SUFFICES ASSUME Inv, [MCNext]_<<part, vars, docVars, helmVars, readVars, logVars>>, part' = "documents"
               PROVE  DocInv'
    OBVIOUS
  <2>1. part = "documents" /\ (DocumentTasks!Next \/ UNCHANGED docVars)
    BY DEF MCNext
  <2>2. CASE UNCHANGED docVars
    <3>1. UNCHANGED <<live, task, at, dry, item, inv, diag, error, wrote, others, disturbed>>
      BY <2>2 DEF docVars
    <3>2. DocTypes' /\ DocPhases' /\ DocHalfway' /\ DocTold'
      BY <2>1, <3>1 DEF DocInv, DocTypes, DocPhases, DocHalfway, DocTold, DocumentTasks!Ready
    <3>3. DocFree'
      BY <2>1, <3>1 DEF DocInv, DocFree, DocDue, DocumentTasks!Refused, DocumentTasks!Object,
         DocumentTasks!Twice
    <3>4. DocReports'
      BY <2>1, <3>1 DEF DocInv, DocReports, DocumentTasks!ReportIsTrue, DocumentTasks!PartialOnlyIfDisturbed,
         DocumentTasks!BatchStatus, DocumentTasks!InventoryComplete, DocumentTasks!Done, DocumentTasks!Twice
    <3> QED
      BY <3>2, <3>3, <3>4 DEF DocInv
  <2> QED
    BY <2>1, <2>2, DocCreationSteps, DocManifestSteps, DocOthers DEF DocumentTasks!Next
<1>3. Inv => DocumentsReported
  BY DEF DocInv, DocReports, DocumentsReported
<1> QED
  BY <1>1, <1>2, <1>3, PTL DEF MCSpec

-----------------------------------------------------------------------------
(* Lists and the stream of changes.                                        *)

ReadTypes ==
  /\ truth \in [InfKinds -> Nat] /\ store \in [InfKinds -> Nat] /\ failedAt \in [InfKinds -> Nat]
  /\ healthy \in [InfKinds -> BOOLEAN] /\ stopped \in BOOLEAN
  /\ list \in [pc : {"idle", "cached", "live", "answered"}, kind : InfKinds \cup {"none"}, floor : Nat, answer : Nat]
  /\ list.pc # "idle" => list.kind \in InfKinds

\* A store is behind the cluster, and a kind without a failure has none on record.
ReadBounds ==
  \A k \in InfKinds :
    /\ truth[k] >= 1 /\ store[k] <= truth[k] /\ failedAt[k] <= truth[k]
    /\ ~stopped /\ healthy[k] => failedAt[k] = 0

\* What a list is going to read is recent enough already.
ReadFloors ==
  /\ list.pc = "cached" => list.floor <= store[list.kind]
  /\ list.pc = "live" => list.floor <= truth[list.kind]
  /\ list.pc = "answered" => list.floor <= list.answer

ListInv == ReadTypes /\ ReadBounds /\ ReadFloors

StreamTypes ==
  /\ publishing \in [ClusterReads!Publishers -> {"no", "send", "full", "reset"}]
  /\ buf \in Seq([type : {"object", "error", "reset"}, kind : InfKinds]) /\ Len(buf) <= Buffer

\* A publication that will announce the loss: it has still to make room, or the room is there.
Announces(p) == publishing[p] = "full" \/ (publishing[p] = "reset" /\ Len(buf) < Buffer)

StreamInv ==
  /\ StreamTypes
  /\ lost /\ ~overlapped => \E p \in ClusterReads!Publishers : Announces(p)

LEMMA ListStarts == ClusterReads!Init => ListInv /\ StreamInv
<1> SUFFICES ASSUME ClusterReads!Init PROVE ListInv /\ StreamInv
  OBVIOUS
<1>3. ReadTypes /\ list.pc = "idle"
  BY DEF ClusterReads!Init, ClusterReads!NoList, ReadTypes
<1>1. ReadTypes /\ ReadBounds /\ ReadFloors
  BY <1>3 DEF ClusterReads!Init, ReadBounds, ReadFloors
<1>2. StreamInv
  BY ReadsAssumption DEF ClusterReads!Init, StreamInv, StreamTypes
<1> QED
  BY <1>1, <1>2 DEF ListInv

LEMMA ListSteps == ListInv /\ ClusterReads!Next => ListInv'
<1> SUFFICES ASSUME ListInv, ClusterReads!Next PROVE ListInv'
  OBVIOUS
<1>0. ReadTypes /\ ReadBounds /\ ReadFloors
  BY DEF ListInv
<1>1. ASSUME NEW k \in InfKinds, ClusterReads!ClusterChanges(k) PROVE ListInv'
  <2>1. ReadTypes'
    BY <1>0, <1>1 DEF ReadTypes, ClusterReads!ClusterChanges
  <2>2. ReadBounds'
    BY <1>0, <1>1 DEF ReadTypes, ReadBounds, ClusterReads!ClusterChanges
  <2>3. ReadFloors'
    BY <1>0, <1>1 DEF ReadTypes, ReadBounds, ReadFloors, ClusterReads!ClusterChanges
  <2> QED
    BY <2>1, <2>2, <2>3 DEF ListInv
<1>2. ASSUME NEW k \in InfKinds, ClusterReads!InformerLists(k) PROVE ListInv'
  <2>1. ReadTypes'
    BY <1>0, <1>2 DEF ReadTypes, ClusterReads!InformerLists
  <2>2. ReadBounds'
    BY <1>0, <1>2 DEF ReadTypes, ReadBounds, ClusterReads!InformerLists
  <2>3. ReadFloors'
    BY <1>0, <1>2 DEF ReadTypes, ReadBounds, ReadFloors, ClusterReads!InformerLists
  <2> QED
    BY <2>1, <2>2, <2>3 DEF ListInv
<1>3. ASSUME NEW k \in InfKinds, ClusterReads!InformerSees(k) PROVE ListInv'
  <2>1. ReadTypes'
    BY <1>0, <1>3 DEF ReadTypes, ClusterReads!InformerSees
  <2>2. ReadBounds'
    BY <1>0, <1>3 DEF ReadTypes, ReadBounds, ClusterReads!InformerSees
  <2>3. ReadFloors'
    BY <1>0, <1>3 DEF ReadTypes, ReadBounds, ReadFloors, ClusterReads!InformerSees
  <2> QED
    BY <2>1, <2>2, <2>3 DEF ListInv
<1>4. ASSUME NEW k \in InfKinds, ClusterReads!WatchFails(k) PROVE ListInv'
  <2>1. ReadTypes'
    BY <1>0, <1>4 DEF ReadTypes, ClusterReads!WatchFails
  <2>2. ReadBounds'
    BY <1>0, <1>4 DEF ReadTypes, ReadBounds, ClusterReads!WatchFails
  <2>3. ReadFloors'
    BY <1>0, <1>4 DEF ReadTypes, ReadBounds, ReadFloors, ClusterReads!WatchFails
  <2> QED
    BY <2>1, <2>2, <2>3 DEF ListInv
<1>5. ASSUME NEW k \in InfKinds, ClusterReads!ListBegins(k) PROVE ListInv'
  <2>1. ReadTypes'
    BY <1>0, <1>5 DEF ReadTypes, ClusterReads!ListBegins, ClusterReads!inf, ClusterReads!Cached
  <2>2. ReadBounds'
    BY <1>0, <1>5 DEF ReadTypes, ReadBounds, ClusterReads!ListBegins, ClusterReads!inf, ClusterReads!Cached
  <2>3. ReadFloors'
    BY <1>0, <1>5 DEF ReadTypes, ReadBounds, ReadFloors, ClusterReads!ListBegins, ClusterReads!inf, ClusterReads!Cached
  <2> QED
    BY <2>1, <2>2, <2>3 DEF ListInv
<1>6. ASSUME ClusterReads!StopInformers PROVE ListInv'
  <2>1. ReadTypes'
    BY <1>0, <1>6 DEF ReadTypes, ClusterReads!StopInformers
  <2>2. ReadBounds'
    BY <1>0, <1>6 DEF ReadTypes, ReadBounds, ClusterReads!StopInformers
  <2>3. ReadFloors'
    BY <1>0, <1>6 DEF ReadTypes, ReadBounds, ReadFloors, ClusterReads!StopInformers
  <2> QED
    BY <2>1, <2>2, <2>3 DEF ListInv
<1>7. ASSUME ClusterReads!ListFromStore PROVE ListInv'
  <2>1. ReadTypes'
    BY <1>0, <1>7 DEF ReadTypes, ClusterReads!ListFromStore, ClusterReads!inf
  <2>2. ReadBounds'
    BY <1>0, <1>7 DEF ReadTypes, ReadBounds, ClusterReads!ListFromStore, ClusterReads!inf
  <2>3. ReadFloors'
    BY <1>0, <1>7 DEF ReadTypes, ReadBounds, ReadFloors, ClusterReads!ListFromStore, ClusterReads!inf
  <2> QED
    BY <2>1, <2>2, <2>3 DEF ListInv
<1>8. ASSUME ClusterReads!ListLive PROVE ListInv'
  <2>4. CASE list' = ClusterReads!NoList
    BY <1>0, <1>8, <2>4 DEF ListInv, ReadTypes, ReadBounds, ReadFloors, ClusterReads!ListLive, ClusterReads!inf,
       ClusterReads!NoList
  <2>5. CASE list' = [list EXCEPT !.pc = "answered", !.answer = truth[list.kind]]
    <3>1. truth[list.kind] \in Nat
      BY <1>0, <1>8 DEF ReadTypes, ClusterReads!ListLive
    <3>2. ReadTypes' /\ list'.answer = truth[list.kind] /\ list'.pc = "answered" /\ list'.floor = list.floor
      BY <1>0, <1>8, <2>5, <3>1 DEF ReadTypes, ClusterReads!ListLive, ClusterReads!inf
    <3>3. ReadBounds'
      BY <1>0, <1>8 DEF ReadBounds, ClusterReads!ListLive, ClusterReads!inf
    <3>4. ReadFloors'
      BY <1>0, <1>8, <3>2 DEF ReadFloors, ClusterReads!ListLive
    <3> QED
      BY <3>2, <3>3, <3>4 DEF ListInv
  <2> QED
    BY <1>8, <2>4, <2>5 DEF ClusterReads!ListLive
<1>9. ASSUME ClusterReads!ListTaken PROVE ListInv'
  <2>1. ReadTypes'
    BY <1>0, <1>9 DEF ReadTypes, ClusterReads!ListTaken, ClusterReads!inf, ClusterReads!NoList
  <2>2. ReadBounds'
    BY <1>0, <1>9 DEF ReadTypes, ReadBounds, ClusterReads!ListTaken, ClusterReads!inf, ClusterReads!NoList
  <2>3. ReadFloors'
    BY <1>0, <1>9 DEF ReadTypes, ReadBounds, ReadFloors, ClusterReads!ListTaken, ClusterReads!inf, ClusterReads!NoList
  <2> QED
    BY <2>1, <2>2, <2>3 DEF ListInv
<1>10. ASSUME UNCHANGED <<truth, store, healthy, failedAt, stopped, list>> PROVE ListInv'
  BY <1>0, <1>10 DEF ListInv, ReadTypes, ReadBounds, ReadFloors
<1> QED
  BY <1>1, <1>2, <1>3, <1>4, <1>5, <1>6, <1>7, <1>8, <1>9, <1>10 DEF ClusterReads!Next, ClusterReads!PublishObject, ClusterReads!Send, ClusterReads!DropOldest, ClusterReads!SendReset,
     ClusterReads!Deliver, ClusterReads!inf

LEMMA StreamSteps == StreamInv /\ ClusterReads!Next => StreamInv'
<1> SUFFICES ASSUME StreamInv, ClusterReads!Next PROVE StreamInv'
  OBVIOUS
<1> DEFINE P == ClusterReads!Publishers
<1> DEFINE Events == [type : {"object", "error", "reset"}, kind : InfKinds]
<1>0. /\ publishing \in [P -> {"no", "send", "full", "reset"}]
      /\ buf \in Seq(Events) /\ Len(buf) \in Nat /\ Len(buf) <= Buffer /\ Buffer \in Nat \ {0}
      /\ lost /\ ~overlapped => \E p \in P : Announces(p)
  BY ReadsAssumption DEF StreamInv, StreamTypes
<1>1. ASSUME UNCHANGED <<publishing, buf, lost, overlapped>> PROVE StreamInv'
  BY <1>0, <1>1 DEF StreamInv, StreamTypes, Announces
<1>2. ASSUME NEW k \in InfKinds, ClusterReads!WatchFails(k) \/ ClusterReads!PublishObject(k) PROVE StreamInv'
  <2>1. PICK p \in P : publishing[p] = "no" /\ publishing' = [publishing EXCEPT ![p] = "send"]
    BY <1>2 DEF ClusterReads!WatchFails, ClusterReads!PublishObject, ClusterReads!Publishers
  <2>2. UNCHANGED <<buf, lost, overlapped>>
    BY <1>2 DEF ClusterReads!WatchFails, ClusterReads!PublishObject
  <2>3. publishing' \in [P -> {"no", "send", "full", "reset"}]
    BY <1>0, <2>1
  <2>4. ASSUME NEW q \in P, Announces(q) PROVE Announces(q)'
    BY <1>0, <2>1, <2>2, <2>4 DEF Announces
  <2> QED
    BY <1>0, <2>2, <2>3, <2>4 DEF StreamInv, StreamTypes
<1>3. ASSUME NEW p \in P, NEW e \in Events, ClusterReads!Enqueue(p, e), Len(buf) < Buffer,
             e.type \notin ClusterReads!Resync => publishing[p] = "send",
             publishing' = [publishing EXCEPT ![p] = "no"]
      PROVE  StreamInv'
  <2>1. publishing' \in [P -> {"no", "send", "full", "reset"}]
    BY <1>0, <1>3
  <2>2. buf' \in Seq(Events) /\ Len(buf') = Len(buf) + 1
    BY <1>0, <1>3 DEF ClusterReads!Enqueue
  <2>3. CASE e.type \in ClusterReads!Resync
    BY <1>0, <1>3, <2>1, <2>2, <2>3 DEF StreamInv, StreamTypes, ClusterReads!Enqueue
  <2>4. CASE e.type \notin ClusterReads!Resync
    <3>1. ~(lost' /\ ~overlapped')
      <4> SUFFICES ASSUME lost', ~overlapped' PROVE FALSE
        OBVIOUS
      <4>1. lost /\ ~overlapped /\ ~ClusterReads!Crowded(p)
        BY <1>3 DEF ClusterReads!Enqueue
      <4>2. PICK q \in P : Announces(q)
        BY <1>0, <4>1
      <4> QED
        BY <1>3, <2>4, <4>1, <4>2 DEF Announces, ClusterReads!Crowded
    <3> QED
      BY <1>0, <1>3, <2>1, <2>2, <3>1 DEF StreamInv, StreamTypes
  <2> QED
    BY <2>3, <2>4
<1>4. ASSUME NEW p \in P, ClusterReads!Send(p) PROVE StreamInv'
  <2>1. CASE Len(buf) < Buffer
    <3>1. ClusterReads!Event(p) \in Events
      BY DEF ClusterReads!Event, ClusterReads!Publishers
    <3> QED
      BY <1>3, <1>4, <2>1, <3>1 DEF ClusterReads!Send
  <2>2. CASE ~(Len(buf) < Buffer)
    <3>1. publishing' = [publishing EXCEPT ![p] = "full"] /\ UNCHANGED buf
      BY <1>4, <2>2 DEF ClusterReads!Send
    <3>2. publishing' \in [P -> {"no", "send", "full", "reset"}] /\ publishing'[p] = "full"
      BY <1>0, <3>1
    <3>3. Announces(p)'
      BY <3>2 DEF Announces
    <3> QED
      BY <1>0, <3>1, <3>2, <3>3 DEF StreamInv, StreamTypes
  <2> QED
    BY <2>1, <2>2
<1>5. ASSUME NEW p \in P, ClusterReads!DropOldest(p) PROVE StreamInv'
  <2>1. publishing' = [publishing EXCEPT ![p] = "reset"] /\ buf' = IF buf = <<>> THEN buf ELSE Tail(buf)
    BY <1>5 DEF ClusterReads!DropOldest
  <2>2. publishing' \in [P -> {"no", "send", "full", "reset"}] /\ publishing'[p] = "reset"
    BY <1>0, <2>1
  <2>3. buf' \in Seq(Events) /\ Len(buf') < Buffer
    BY <1>0, <2>1
  <2>4. Announces(p)'
    BY <2>2, <2>3 DEF Announces
  <2> QED
    BY <1>0, <2>2, <2>3, <2>4 DEF StreamInv, StreamTypes
<1>6. ASSUME NEW p \in P, ClusterReads!SendReset(p) PROVE StreamInv'
  <2>1. CASE Len(buf) < Buffer
    <3>1. ClusterReads!Reset(p) \in Events /\ ClusterReads!Reset(p).type \in ClusterReads!Resync
      BY DEF ClusterReads!Reset, ClusterReads!Publishers, ClusterReads!Resync
    <3> QED
      BY <1>3, <1>6, <2>1, <3>1 DEF ClusterReads!SendReset
  <2>2. CASE ~(Len(buf) < Buffer)
    <3>1. publishing' = [publishing EXCEPT ![p] = "no"] /\ UNCHANGED <<buf, lost, overlapped>> /\ publishing[p] = "reset"
      BY <1>6, <2>2 DEF ClusterReads!SendReset
    <3>2. publishing' \in [P -> {"no", "send", "full", "reset"}]
      BY <1>0, <3>1
    <3>3. ASSUME NEW q \in P, Announces(q) PROVE Announces(q)'
      BY <1>0, <2>2, <3>1, <3>3 DEF Announces
    <3> QED
      BY <1>0, <3>1, <3>2, <3>3 DEF StreamInv, StreamTypes
  <2> QED
    BY <2>1, <2>2
<1>7. ASSUME ClusterReads!Deliver PROVE StreamInv'
  <2>1. UNCHANGED <<publishing, lost, overlapped>> /\ buf' = Tail(buf) /\ buf # <<>>
    BY <1>7 DEF ClusterReads!Deliver
  <2>2. buf' \in Seq(Events) /\ Len(buf') = Len(buf) - 1
    BY <1>0, <2>1
  <2>3. ASSUME NEW q \in P, Announces(q) PROVE Announces(q)'
    BY <1>0, <2>1, <2>2, <2>3 DEF Announces
  <2> QED
    BY <1>0, <2>1, <2>2, <2>3 DEF StreamInv, StreamTypes
<1> QED
  BY <1>1, <1>2, <1>4, <1>5, <1>6, <1>7 DEF ClusterReads!Next, ClusterReads!ClusterChanges, ClusterReads!InformerLists,
     ClusterReads!InformerSees, ClusterReads!ListBegins, ClusterReads!StopInformers, ClusterReads!ListFromStore,
     ClusterReads!ListLive, ClusterReads!ListTaken, ClusterReads!sub

-----------------------------------------------------------------------------
(* Pages of logs: the order of sources and of entries.                     *)

LogSources == Nat \X Nat
LogEntries == [at : Nat, source : LogSources]
SourceOrder == {d \in LogSources \X LogSources : PodLogs!Before(d[1], d[2])}
LogOrder == {d \in LogEntries \X LogEntries : PodLogs!Precedes(d[1], d[2])}

LEMMA LogCardinality == \A S : PodLogs!Cardinality(S) = Cardinality(S)
BY Zenon DEF PodLogs!Cardinality, Cardinality

LEMMA SourcesOrdered == ASSUME NEW S \in SUBSET LogSources PROVE Orders(SourceOrder, S)
<1>1. \A c, d \in S : <<c, d>> \in SourceOrder <=> c[1] < d[1] \/ (c[1] = d[1] /\ c[2] < d[2])
  BY DEF SourceOrder, PodLogs!Before
<1>2. \A c \in S : c[1] \in Nat /\ c[2] \in Nat /\ c = <<c[1], c[2]>>
  BY DEF LogSources
<1>3. \A c \in S : <<c, c>> \notin SourceOrder
  BY <1>1, <1>2
<1>4. ASSUME NEW c \in S, NEW d \in S, c # d PROVE <<c, d>> \in SourceOrder \/ <<d, c>> \in SourceOrder
  <2>1. c[1] # d[1] \/ c[2] # d[2]
    BY <1>2, <1>4
  <2> QED
    BY <1>1, <1>2, <2>1
<1>5. ASSUME NEW c \in S, NEW d \in S, NEW e \in S, <<c, d>> \in SourceOrder, <<d, e>> \in SourceOrder
      PROVE  <<c, e>> \in SourceOrder
  BY <1>1, <1>2, <1>5
<1> QED
  BY <1>3, <1>4, <1>5 DEF Orders

LEMMA EntriesOrdered == ASSUME NEW S \in SUBSET LogEntries PROVE Orders(LogOrder, S)
<1>1. \A c, d \in S : <<c, d>> \in LogOrder <=> PodLogs!Precedes(c, d)
  BY DEF LogOrder
<1>2. \A c \in S : c.at \in Nat /\ c.source \in LogSources /\ c = [at |-> c.at, source |-> c.source]
  BY DEF LogEntries
<1>3. Orders(SourceOrder, LogSources)
  BY SourcesOrdered
<1>4. \A c, d \in S : PodLogs!Before(c.source, d.source) <=> <<c.source, d.source>> \in SourceOrder
  BY <1>2 DEF SourceOrder
<1>5. \A c, d \in S : <<c, d>> \in LogOrder <=>
        IF c.at = d.at THEN <<c.source, d.source>> \in SourceOrder
        ELSE IF query.forward THEN c.at < d.at ELSE c.at > d.at
  BY <1>1, <1>4 DEF PodLogs!Precedes
<1>6. \A c \in S : <<c, c>> \notin LogOrder
  BY <1>2, <1>3, <1>5 DEF Orders
<1>7. ASSUME NEW c \in S, NEW d \in S, c # d PROVE <<c, d>> \in LogOrder \/ <<d, c>> \in LogOrder
  <2>1. c.at # d.at \/ c.source # d.source
    BY <1>2, <1>7
  <2>2. /\ c.at \in Nat /\ d.at \in Nat
        /\ c.source # d.source => <<c.source, d.source>> \in SourceOrder \/ <<d.source, c.source>> \in SourceOrder
    BY <1>2, <1>3 DEF Orders
  <2>3. CASE c.at = d.at
    BY <1>5, <2>1, <2>2, <2>3
  <2>4. CASE c.at # d.at
    <3>1. c.at < d.at \/ d.at < c.at
      BY <2>2, <2>4
    <3> QED
      BY <1>5, <2>2, <2>4, <3>1
  <2> QED
    BY <2>3, <2>4
<1>8. ASSUME NEW c \in S, NEW d \in S, NEW e \in S, <<c, d>> \in LogOrder, <<d, e>> \in LogOrder
      PROVE  <<c, e>> \in LogOrder
  <2>1. \A x, y, z \in LogSources : <<x, y>> \in SourceOrder /\ <<y, z>> \in SourceOrder => <<x, z>> \in SourceOrder
    BY <1>3 DEF Orders
  <2>2. /\ c.at \in Nat /\ d.at \in Nat /\ e.at \in Nat
        /\ c.source \in LogSources /\ d.source \in LogSources /\ e.source \in LogSources
    BY <1>2
  <2>3. c.at = d.at /\ d.at = e.at => <<c.source, e.source>> \in SourceOrder
    BY <1>5, <1>8, <2>1, <2>2
  <2>4. IF query.forward THEN c.at <= d.at /\ d.at <= e.at ELSE c.at >= d.at /\ d.at >= e.at
    <3>1. /\ c.at # d.at => IF query.forward THEN c.at < d.at ELSE c.at > d.at
          /\ d.at # e.at => IF query.forward THEN d.at < e.at ELSE d.at > e.at
      BY <1>5, <1>8
    <3>2. CASE query.forward
      BY <2>2, <3>1, <3>2
    <3>3. CASE ~query.forward
      BY <2>2, <3>1, <3>3
    <3> QED
      BY <3>2, <3>3
  <2>5. c.at # d.at \/ d.at # e.at => c.at # e.at
    BY <2>2, <2>4
  <2>6. c.at # e.at => IF query.forward THEN c.at < e.at ELSE c.at > e.at
    BY <2>2, <2>4
  <2>7. c.at = e.at => <<c.source, e.source>> \in SourceOrder
    BY <2>3, <2>5
  <2> QED
    BY <1>5, <2>6, <2>7
<1> QED
  BY <1>6, <1>7, <1>8 DEF Orders

\* InOrder gives the members their places.
LEMMA SourcesInOrder ==
  ASSUME NEW S \in SUBSET LogSources
  PROVE  PodLogs!InOrder(S, PodLogs!Before) = Ranked(S, SourceOrder)
<1>1. ASSUME NEW e \in S
      PROVE  {d \in S : PodLogs!Before(d, e)} = Earlier(S, SourceOrder, e)
  BY DEF Earlier, SourceOrder
<1>2. \A e \in S : PodLogs!Cardinality({d \in S : PodLogs!Before(d, e)}) = Rank(S, SourceOrder, e)
  BY <1>1, LogCardinality DEF Rank
<1>3. PodLogs!Cardinality(S) = Cardinality(S)
  BY LogCardinality
<1>4. PodLogs!InOrder(S, PodLogs!Before) =
        [i \in 1..PodLogs!Cardinality(S) |->
           CHOOSE e \in S : PodLogs!Cardinality({d \in S : PodLogs!Before(d, e)}) = i - 1]
  BY DEF PodLogs!InOrder
<1>5. Ranked(S, SourceOrder) = [i \in 1..Cardinality(S) |-> CHOOSE e \in S : Rank(S, SourceOrder, e) = i - 1]
  BY DEF Ranked
<1> QED
  BY <1>2, <1>3, <1>4, <1>5

LEMMA EntriesInOrder ==
  ASSUME NEW S \in SUBSET LogEntries
  PROVE  PodLogs!InOrder(S, PodLogs!Precedes) = Ranked(S, LogOrder)
<1>1. ASSUME NEW e \in S
      PROVE  {d \in S : PodLogs!Precedes(d, e)} = Earlier(S, LogOrder, e)
  BY DEF Earlier, LogOrder
<1>2. \A e \in S : PodLogs!Cardinality({d \in S : PodLogs!Precedes(d, e)}) = Rank(S, LogOrder, e)
  BY <1>1, LogCardinality DEF Rank
<1>3. PodLogs!Cardinality(S) = Cardinality(S)
  BY LogCardinality
<1>4. PodLogs!InOrder(S, PodLogs!Precedes) =
        [i \in 1..PodLogs!Cardinality(S) |->
           CHOOSE e \in S : PodLogs!Cardinality({d \in S : PodLogs!Precedes(d, e)}) = i - 1]
  BY DEF PodLogs!InOrder
<1>5. Ranked(S, LogOrder) = [i \in 1..Cardinality(S) |-> CHOOSE e \in S : Rank(S, LogOrder, e) = i - 1]
  BY DEF Ranked
<1> QED
  BY <1>2, <1>3, <1>4, <1>5

\* More entries have more bytes.
LEMMA BytesGrow ==
  ASSUME NEW S, IsFiniteSet(S), NEW T \in SUBSET S
  PROVE  /\ PodLogs!Bytes(S) \in Nat /\ PodLogs!Bytes(T) \in Nat
         /\ PodLogs!Bytes(T) <= PodLogs!Bytes(S)
<1> DEFINE L(X) == {e \in X : e.at \in Long}
<1>1. IsFiniteSet(T) /\ Cardinality(T) <= Cardinality(S)
  BY FS_Subset
<1>2. L(S) \in SUBSET S /\ L(T) \in SUBSET L(S) /\ L(T) \in SUBSET T
  OBVIOUS
<1>3. IsFiniteSet(L(S))
  BY <1>2, FS_Subset
<1> HIDE DEF L
<1>4. IsFiniteSet(L(T)) /\ Cardinality(L(T)) <= Cardinality(L(S))
  BY <1>2, <1>3, FS_Subset
<1>5. Cardinality(S) \in Nat /\ Cardinality(T) \in Nat /\ Cardinality(L(S)) \in Nat /\ Cardinality(L(T)) \in Nat
  BY <1>1, <1>3, <1>4, FS_CardinalityType
<1>6. /\ PodLogs!Bytes(S) = Cardinality(S) + Cardinality(L(S))
      /\ PodLogs!Bytes(T) = Cardinality(T) + Cardinality(L(T))
  BY LogCardinality DEF PodLogs!Bytes, L
<1> QED
  BY <1>1, <1>4, <1>5, <1>6

LEMMA NoBytes == PodLogs!Bytes({}) = 0
<1>1. {e \in {} : e.at \in Long} = {}
  OBVIOUS
<1>2. PodLogs!Cardinality({}) = 0
  BY LogCardinality, FS_EmptySet
<1> QED
  BY <1>1, <1>2 DEF PodLogs!Bytes

-----------------------------------------------------------------------------
(* What is true of a query for logs at any time.                           *)

Members(s) == {s[i] : i \in DOMAIN s}

LogResults == [source : LogSources, ok : BOOLEAN, entries : SUBSET LogEntries, cut : BOOLEAN]
LogContents == [source : LogSources, said : SUBSET Times, entries : SUBSET LogEntries, cut : BOOLEAN]
LogPages == [entries : Seq(LogEntries), truncated : BOOLEAN, partial : BOOLEAN, ok : Nat, failed : Nat,
             warned : SUBSET LogSources, state : {"none", "refused", "open", "answered"}]

\* A read that failed said nothing.
FromRead(r) == IsFiniteSet(r.entries) /\ (~r.ok => r.entries = {} /\ ~r.cut)

LogTypes ==
  /\ todo \in Seq(LogSources) /\ reading \in SUBSET LogSources /\ IsFiniteSet(reading)
  /\ results \in Seq(LogResults) /\ \A r \in Members(results) : FromRead(r)
  /\ contents \in Seq(LogContents)
  /\ page \in LogPages /\ query.limit \in Nat

\* Nothing was read before the query, and nothing is left to read after the answer.
Started == page.state \in {"open", "answered"}

LogEmpty ==
  /\ ~Started => /\ todo = <<>> /\ reading = {} /\ results = <<>> /\ contents = <<>>
                 /\ page.entries = <<>> /\ page.ok = 0 /\ page.failed = 0
  /\ page.state = "answered" => todo = <<>> /\ reading = {} /\ results = <<>>

\* M was merged, of everything that was read: the page has its first entries.
ReadOf(seq) == UNION {r.entries : r \in Members(seq)}

MergedIs(M) ==
  /\ M \in SUBSET LogEntries /\ IsFiniteSet(M) /\ ReadOf(contents) = M \cup ReadOf(results)
  /\ PodLogs!Bytes(M) <= Budget => page.entries = Firsts(M, LogOrder, PodLogs!Limit)
  /\ Members(page.entries) \in SUBSET M
  /\ ~page.truncated => Members(page.entries) = M

LogMerged == \E M \in SUBSET LogEntries : MergedIs(M)

\* A cut is going to be seen, or the page tells of it.
LogCuts ==
  (\E c \in Members(contents) : c.cut) => page.truncated \/ \E r \in Members(results) : r.cut

\* What was not cut is all that matches of the last lines of its source.
LogSaid ==
  \A c \in Members(contents) : ~c.cut => c.entries = PodLogs!Entries(c.source, PodLogs!LastLines(c.said))

\* A source is at one place, and none is lost.
LogQueue ==
  /\ \A i, j \in DOMAIN todo : todo[i] = todo[j] => i = j
  /\ \A i \in DOMAIN todo : todo[i] \notin reading

Sources == PodLogs!SourcesOf(query)

LogCount ==
  Started => page.ok + page.failed + Len(results) + Cardinality(reading) + Len(todo) = Cardinality(Sources)

LogCovered ==
  Started /\ ~page.partial =>
    /\ PodLogs!MissingPods(query) \cup PodLogs!MissingContainers(query) = {}
    /\ \A s \in Sources :
         \/ s \in Members(todo) \/ s \in reading
         \/ \E c \in Members(contents) : c.source = s
         \/ \E r \in Members(results) : ~r.ok

LogsInv == LogTypes /\ LogEmpty /\ LogMerged /\ LogCuts /\ LogSaid /\ LogQueue /\ LogCount /\ LogCovered

-----------------------------------------------------------------------------
(* Sequences that take and give a member.                                  *)

LEMMA Joins ==
  ASSUME NEW X, NEW s \in Seq(X), NEW x \in X
  PROVE  /\ Append(s, x) \in Seq(X) /\ Len(Append(s, x)) = Len(s) + 1
         /\ Members(Append(s, x)) = Members(s) \cup {x}
<1> DEFINE t == Append(s, x)
<1>1. /\ t \in Seq(X) /\ Len(s) \in Nat /\ Len(t) = Len(s) + 1 /\ t[Len(s) + 1] = x
      /\ \A i \in 1..Len(s) : t[i] = s[i]
      /\ DOMAIN s = 1..Len(s) /\ DOMAIN t = 1..(Len(s) + 1)
  OBVIOUS
<1> HIDE DEF t
<1>2. \A i \in DOMAIN t : i \in DOMAIN s \/ i = Len(s) + 1
  BY <1>1
<1>3. Members(t) \in SUBSET (Members(s) \cup {x})
  BY <1>1, <1>2 DEF Members
<1>4. (Len(s) + 1) \in DOMAIN t /\ \A i \in DOMAIN s : i \in DOMAIN t
  BY <1>1
<1>5. Members(s) \cup {x} \in SUBSET Members(t)
  BY <1>1, <1>4 DEF Members
<1> QED
  BY <1>1, <1>3, <1>5 DEF t

LEMMA Leaves ==
  ASSUME NEW X, NEW s \in Seq(X), s # <<>>
  PROVE  /\ Head(s) \in X /\ Tail(s) \in Seq(X) /\ Len(Tail(s)) = Len(s) - 1 /\ Len(Tail(s)) \in Nat
         /\ Members(s) = {Head(s)} \cup Members(Tail(s))
         /\ \A i \in DOMAIN Tail(s) : i + 1 \in DOMAIN s /\ i + 1 # 1 /\ Tail(s)[i] = s[i + 1]
         /\ 1 \in DOMAIN s /\ s[1] = Head(s)
<1> DEFINE t == Tail(s)
<1>1. /\ t \in Seq(X) /\ Len(s) \in Nat /\ Len(s) # 0 /\ Len(t) = Len(s) - 1 /\ Head(s) = s[1] /\ s[1] \in X
      /\ \A i \in 1..(Len(s) - 1) : t[i] = s[i + 1]
      /\ DOMAIN s = 1..Len(s) /\ DOMAIN t = 1..(Len(s) - 1)
  OBVIOUS
<1> HIDE DEF t
<1>2. 1 \in DOMAIN s /\ \A i \in DOMAIN t : i + 1 \in DOMAIN s /\ i + 1 # 1 /\ t[i] = s[i + 1]
  BY <1>1
<1>3. \A i \in DOMAIN s : i = 1 \/ (i - 1 \in DOMAIN t /\ t[i - 1] = s[i])
  BY <1>1
<1>4. Members(s) = {s[1]} \cup Members(t)
  BY <1>2, <1>3 DEF Members
<1> QED
  BY <1>1, <1>2, <1>4 DEF t

LEMMA NoMembers == Members(<<>>) = {} /\ ReadOf(<<>>) = {}
BY DEF Members, ReadOf

\* What is read of a source, and what it says.
LEMMA EntriesTypes ==
  ASSUME NEW s \in LogSources, NEW T \in SUBSET Times
  PROVE  PodLogs!Entries(s, T) \in SUBSET LogEntries /\ IsFiniteSet(PodLogs!Entries(s, T))
<1>1. Times \in SUBSET Nat /\ IsFiniteSet(Times)
  BY LogsAssumption DEF LogsAssumption
<1> DEFINE E == PodLogs!Entries(s, T)
           time == [e \in E |-> e.at]
<1>2. \A e \in E : e.at \in Times /\ e = [at |-> e.at, source |-> s]
  BY DEF PodLogs!Entries
<1> HIDE DEF E
<1>3. time \in [E -> Times]
  BY <1>2
<1>4. \A d, e \in E : time[d] = time[e] => d = e
  BY <1>2
<1> HIDE DEF time
<1>5. time \in Injection(E, Times)
  BY <1>3, <1>4, Zenon DEF Injection, IsInjective
<1>6. IsFiniteSet(E)
  BY <1>1, <1>5, FS_Injection
<1>7. E \in SUBSET LogEntries
  BY <1>1, <1>2 DEF LogEntries
<1> QED
  BY <1>6, <1>7 DEF E

\* What a source may have to say.
LEMMA TextsTypes ==
  ASSUME NEW text \in PodLogs!Texts
  PROVE  text.said \in SUBSET Times /\ text.cut \in BOOLEAN
<1>1. PodLogs!Max(Times) \in Times
  BY LogsAssumption DEF LogsAssumption, PodLogs!Max
<1>2. text.said \in {{}, {PodLogs!Max(Times)}, Times} /\ text.cut \in BOOLEAN
  <2>1. PICK last : last = PodLogs!Max(Times)
    OBVIOUS
  <2>2. \/ text = [said |-> {}, upto |-> last, cut |-> FALSE]
        \/ text = [said |-> {last}, upto |-> last, cut |-> FALSE]
        \/ text = [said |-> Times, upto |-> last, cut |-> FALSE]
        \/ text = [said |-> Times, upto |-> 2, cut |-> TRUE]
    BY <2>1, Zenon DEF PodLogs!Texts
  <2>3. CASE text = [said |-> {}, upto |-> last, cut |-> FALSE]
    BY <2>3
  <2>4. CASE text = [said |-> {last}, upto |-> last, cut |-> FALSE]
    BY <2>1, <2>4
  <2>5. CASE text = [said |-> Times, upto |-> last, cut |-> FALSE]
    BY <2>5
  <2>6. CASE text = [said |-> Times, upto |-> 2, cut |-> TRUE]
    BY <2>6
  <2> QED
    BY <2>2, <2>3, <2>4, <2>5, <2>6
<1> QED
  BY <1>1, <1>2

\* The sources of a query.
LEMMA SourcesTypes ==
  ASSUME NEW q
  PROVE  /\ PodLogs!SourcesOf(q) \in SUBSET LogSources /\ IsFiniteSet(PodLogs!SourcesOf(q))
<1>1. PodLogs!SourcesOf(q) \in SUBSET ((1..NPods) \X {1, 2})
  <2>1. PodLogs!Targets(q) \in SUBSET (1..NPods)
    BY DEF PodLogs!Targets, PodLogs!Listed
  <2>2. \A p : PodLogs!Chosen(p, q) \in SUBSET {1, 2}
    BY DEF PodLogs!Chosen, PodLogs!Has
  <2> QED
    BY <2>1, <2>2 DEF PodLogs!SourcesOf
<1>2. NPods \in Nat /\ IsFiniteSet(1..NPods) /\ IsFiniteSet({1, 2})
  <2>1. {1, 2} = {1} \cup {2}
    OBVIOUS
  <2>2. NPods \in Nat
    BY LogsAssumption DEF LogsAssumption
  <2>3. IsFiniteSet({1}) /\ IsFiniteSet({2})
    BY FS_Singleton
  <2>4. IsFiniteSet({1} \cup {2})
    BY <2>3, FS_Union
  <2>5. IsFiniteSet(1..NPods)
    BY <2>2, FS_Interval
  <2> QED
    BY <2>1, <2>2, <2>4, <2>5
<1>3. IsFiniteSet((1..NPods) \X {1, 2})
  BY <1>2, FS_Product
<1>4. (1..NPods) \X {1, 2} \in SUBSET LogSources
  BY <1>2 DEF LogSources
<1> QED
  BY <1>1, <1>3, <1>4, FS_Subset

LEMMA QueryTypes ==
  ASSUME NEW q \in PodLogs!Queries
  PROVE  /\ q.limit \in Nat
         /\ PodLogs!MissingPods(q) \cup PodLogs!MissingContainers(q) \in SUBSET LogSources
<1>0. NPods \in Nat /\ MaxEntries \in Nat
  BY LogsAssumption DEF LogsAssumption
<1>1. q.limit \in Nat /\ q.named \in SUBSET (1..NPods) /\ q.wants \in SUBSET Nat
  <2> DEFINE Plain == PodLogs!Plain
  <2>1. DOMAIN Plain = {"named", "labelled", "all", "wants", "limit", "tail", "text", "from", "to", "forward"}
        /\ Plain.limit = 0 /\ Plain.named = {} /\ Plain.wants = {}
    BY DEF PodLogs!Plain, PodLogs!Unasked
  <2> HIDE DEF Plain
  <2>2. CASE \E named \in {{}, 1..NPods}, limit \in 0..1 : q = [Plain EXCEPT !.named = named, !.limit = limit]
    <3>1. PICK named \in {{}, 1..NPods}, limit \in 0..1 : q = [Plain EXCEPT !.named = named, !.limit = limit]
      BY <2>2
    <3>2. q.limit = limit /\ q.named = named /\ q.wants = {}
      BY <2>1, <3>1
    <3>3. named = {} \/ named = 1..NPods
      BY <3>1
    <3>4. named \in SUBSET (1..NPods)
      BY <3>3
    <3>5. limit \in Nat
      OBVIOUS
    <3> QED
      BY <3>2, <3>4, <3>5
  <2>3. CASE q = [Plain EXCEPT !.labelled = TRUE, !.named = 1..NPods, !.forward = TRUE]
    BY <2>1, <2>3
  <2>4. CASE \/ q = [Plain EXCEPT !.from = 2, !.limit = 1, !.forward = TRUE]
             \/ q = [Plain EXCEPT !.from = 2, !.to = 1] \/ q = [Plain EXCEPT !.limit = MaxEntries + 1]
    <3>1. q.limit \in {0, 1, MaxEntries + 1} /\ q.named = {} /\ q.wants = {}
      BY <2>1, <2>4
    <3> QED
      BY <1>0, <3>1
  <2>5. CASE \E wants \in {{}, {1, 2}, {1, 3}} : q = [Plain EXCEPT !.all = FALSE, !.wants = wants]
    BY <2>1, <2>5
  <2>6. CASE \E from \in 0..1, tail \in {0, MaxEntries} :
               q = [Plain EXCEPT !.text = {1}, !.from = from, !.tail = tail]
    BY <2>1, <2>6
  <2> QED
    BY <2>2, <2>3, <2>4, <2>5, <2>6 DEF PodLogs!Queries, Plain
<1>2. PodLogs!Targets(q) \in SUBSET (1..NPods)
  BY DEF PodLogs!Targets, PodLogs!Listed
<1>3. PodLogs!MissingPods(q) \in SUBSET LogSources
  BY <1>0, <1>1 DEF PodLogs!MissingPods, LogSources
<1>4. PodLogs!MissingContainers(q) \in SUBSET LogSources
  <2>1. \A p \in PodLogs!Targets(q) : \A c \in q.wants : <<p, c>> \in LogSources
    BY <1>0, <1>1, <1>2 DEF LogSources
  <2> QED
    BY <2>1 DEF PodLogs!MissingContainers
<1> QED
  BY <1>1, <1>3, <1>4

\* Nothing is no entry.
LEMMA NothingFirst ==
  ASSUME NEW R, NEW k \in Nat
  PROVE  Firsts({}, R, k) = <<>>
<1>1. Orders(R, {})
  BY DEF Orders
<1>2. IsFiniteSet({}) /\ Cardinality({}) = 0
  BY FS_EmptySet
<1>3. Firsts({}, R, k) \in Seq({}) /\ Len(Firsts({}, R, k)) = Least(0, k)
  BY <1>1, <1>2, FirstsAre
<1>4. Least(0, k) = 0
  BY DEF Least
<1> QED
  BY <1>3, <1>4

-----------------------------------------------------------------------------
(* The steps of a query.                                                   *)

LEMMA LogsStart == PodLogs!Init => LogsInv
<1> SUFFICES ASSUME PodLogs!Init PROVE LogsInv
  OBVIOUS
<1>1. /\ todo = <<>> /\ reading = {} /\ results = <<>> /\ contents = <<>> /\ query.limit = 0
      /\ page = [entries |-> <<>>, truncated |-> FALSE, partial |-> FALSE, ok |-> 0, failed |-> 0,
                 warned |-> {}, state |-> "none"]
  BY DEF PodLogs!Init, PodLogs!NoPage, PodLogs!Unasked
<1>2. Members(<<>>) = {} /\ ReadOf(<<>>) = {} /\ DOMAIN <<>> = {}
  BY NoMembers
<1>3. ~Started /\ page.state # "answered" /\ page.entries = <<>> /\ page.ok = 0 /\ page.failed = 0
  BY <1>1 DEF Started
<1>4. LogTypes
  <2>1. page \in LogPages
    <3>1. <<>> \in Seq(LogEntries) /\ {} \in SUBSET LogSources
      OBVIOUS
    <3> QED
      BY <1>1, <3>1 DEF LogPages
  <2> QED
    BY <1>1, <1>2, <2>1, FS_EmptySet DEF LogTypes
<1>5. LogEmpty /\ LogCuts /\ LogSaid /\ LogQueue /\ LogCount /\ LogCovered
  BY <1>1, <1>2, <1>3 DEF LogEmpty, LogCuts, LogSaid, LogQueue, LogCount, LogCovered
<1>6. PodLogs!Limit \in Nat
  BY <1>1, LogsAssumption DEF PodLogs!Limit, LogsAssumption
<1>7. MergedIs({})
  BY <1>1, <1>2, <1>3, <1>6, NothingFirst, FS_EmptySet DEF MergedIs
<1> QED
  BY <1>4, <1>5, <1>7 DEF LogsInv, LogMerged

LEMMA LogAsks == ASSUME LogsInv, NEW q \in PodLogs!Queries, PodLogs!Query(q) PROVE LogsInv'
<1>1. LogTypes /\ LogEmpty
  BY DEF LogsInv
<1>2. /\ page.state = "none" /\ query' = q
      /\ UNCHANGED <<pods, reading, results, contents>>
  BY DEF PodLogs!Query
<1>3. /\ todo = <<>> /\ reading = {} /\ results = <<>> /\ contents = <<>>
      /\ page.entries = <<>> /\ page.ok = 0 /\ page.failed = 0
  BY <1>1, <1>2 DEF LogEmpty, Started
<1>4. Members(<<>>) = {} /\ ReadOf(<<>>) = {} /\ DOMAIN <<>> = {}
  BY NoMembers
<1> DEFINE S == PodLogs!SourcesOf(q)
           missing == PodLogs!MissingPods(q) \union PodLogs!MissingContainers(q)
<1>5. S \in SUBSET LogSources /\ IsFiniteSet(S) /\ missing \in SUBSET LogSources /\ q.limit \in Nat
  BY SourcesTypes, QueryTypes
<1>6. Sources' = S /\ PodLogs!MissingPods(query)' \cup PodLogs!MissingContainers(query)' = missing
  BY <1>2 DEF Sources, PodLogs!SourcesOf, PodLogs!Targets, PodLogs!Listed, PodLogs!Chosen, PodLogs!Has,
     PodLogs!MissingPods, PodLogs!MissingContainers
<1>7. \/ page' = [page EXCEPT !.state = "refused"] /\ todo' = todo
      \/ /\ todo' = PodLogs!InOrder(S, PodLogs!Before)
         /\ page' = [page EXCEPT !.state = "open", !.partial = missing # {}, !.warned = missing]
  BY DEF PodLogs!Query
<1> HIDE DEF S, missing
<1>8. /\ page' \in LogPages /\ page'.entries = <<>> /\ page'.ok = 0 /\ page'.failed = 0
      /\ \/ page'.state = "refused" /\ todo' = <<>>
         \/ /\ page'.state = "open" /\ page'.partial = (missing # {})
            /\ todo' = PodLogs!InOrder(S, PodLogs!Before)
  <2>1. CASE page' = [page EXCEPT !.state = "refused"] /\ todo' = todo
    BY <1>1, <1>3, <2>1 DEF LogTypes, LogPages
  <2>2. CASE /\ todo' = PodLogs!InOrder(S, PodLogs!Before)
             /\ page' = [page EXCEPT !.state = "open", !.partial = missing # {}, !.warned = missing]
    <3>1. (missing # {}) \in BOOLEAN
      OBVIOUS
    <3>2. ASSUME NEW c \in BOOLEAN, page' = [page EXCEPT !.state = "open", !.partial = c, !.warned = missing]
          PROVE  page' \in LogPages /\ page'.entries = <<>> /\ page'.ok = 0 /\ page'.failed = 0
                 /\ page'.state = "open" /\ page'.partial = c
      BY <1>1, <1>3, <1>5, <3>2 DEF LogTypes, LogPages
    <3> QED
      BY <2>2, <3>1, <3>2
  <2> QED
    BY <1>7, <2>1, <2>2
<1>9. /\ todo' = <<>> \/ todo' = Ranked(S, SourceOrder)
      /\ page'.state = "open" => todo' = Ranked(S, SourceOrder)
  BY <1>5, <1>8, SourcesInOrder
<1>10. /\ Ranked(S, SourceOrder) \in Seq(S) /\ Len(Ranked(S, SourceOrder)) = Cardinality(S)
       /\ \A i \in 1..Cardinality(S) : Rank(S, SourceOrder, Ranked(S, SourceOrder)[i]) = i - 1
       /\ \A e \in S : /\ Rank(S, SourceOrder, e) + 1 \in 1..Cardinality(S)
                       /\ Ranked(S, SourceOrder)[Rank(S, SourceOrder, e) + 1] = e
  BY <1>5, SourcesOrdered, RankedList
<1>11. PICK list2 : list2 = Ranked(S, SourceOrder)
  OBVIOUS
<1>12. /\ list2 \in Seq(LogSources) /\ Len(list2) = Cardinality(S)
       /\ \A i, j \in DOMAIN list2 : list2[i] = list2[j] => i = j
       /\ S \in SUBSET Members(list2)
  <2>1. list2 \in Seq(LogSources)
    BY <1>5, <1>10, <1>11, SeqMonotonic
  <2>2. DOMAIN list2 = 1..Cardinality(S) /\ Cardinality(S) \in Nat
    BY <1>10, <1>11, <1>5, FS_CardinalityType
  <2>3. ASSUME NEW i \in DOMAIN list2, NEW j \in DOMAIN list2, list2[i] = list2[j] PROVE i = j
    <3>1. i \in 1..Cardinality(S) /\ j \in 1..Cardinality(S)
      BY <2>2, <2>3
    <3>2. Rank(S, SourceOrder, list2[i]) = i - 1 /\ Rank(S, SourceOrder, list2[j]) = j - 1
      BY <1>10, <1>11, <3>1
    <3>3. i - 1 = j - 1
      BY <2>3, <3>2
    <3> QED
      BY <2>2, <3>1, <3>3
  <2>4. S \in SUBSET Members(list2)
    BY <1>10, <1>11, <2>2 DEF Members
  <2> QED
    BY <1>10, <1>11, <2>1, <2>3, <2>4
<1>13. todo' = <<>> \/ todo' = list2
  BY <1>9, <1>11
<1>14. LogTypes'
  <2>1. todo' \in Seq(LogSources)
    <3>1. <<>> \in Seq(LogSources)
      OBVIOUS
    <3> QED
      BY <1>12, <1>13, <3>1
  <2> QED
    BY <1>1, <1>2, <1>5, <1>8, <2>1 DEF LogTypes
<1>15. LogEmpty'
  BY <1>2, <1>3, <1>8 DEF LogEmpty, Started
<1>16. LogMerged'
  <2>1. (PodLogs!Limit)' \in Nat
    BY <1>2, <1>5, LogsAssumption DEF PodLogs!Limit, LogsAssumption
  <2>2. Firsts({}, LogOrder', (PodLogs!Limit)') = <<>>
    BY <2>1, NothingFirst
  <2>3. page'.entries = <<>> /\ ReadOf(contents') = {} /\ ReadOf(results') = {} /\ Members(page'.entries) = {}
    BY <1>2, <1>3, <1>4, <1>8
  <2>4. MergedIs({})'
    BY <2>2, <2>3, FS_EmptySet DEF MergedIs
  <2> QED
    BY <2>4 DEF LogMerged
<1>17. LogCuts' /\ LogSaid'
  BY <1>2, <1>3, <1>4 DEF LogCuts, LogSaid
<1>18. LogQueue'
  BY <1>2, <1>3, <1>4, <1>12, <1>13 DEF LogQueue
<1>19. LogCount'
  <2>1. Cardinality({}) = 0 /\ Len(<<>>) = 0 /\ Cardinality(S) \in Nat
    BY <1>5, FS_EmptySet, FS_CardinalityType
  <2>2. ASSUME page'.state = "open" PROVE Len(todo') = Cardinality(S)
    BY <1>9, <1>11, <1>12, <2>2
  <2> QED
    BY <1>2, <1>3, <1>6, <1>8, <2>1, <2>2 DEF LogCount, Started
<1>20. LogCovered'
  <2> SUFFICES ASSUME Started', ~page'.partial PROVE missing = {} /\ S \in SUBSET Members(todo')
    BY <1>6 DEF LogCovered
  <2>1. page'.state = "open"
    BY <1>8 DEF Started
  <2> QED
    BY <1>8, <1>9, <1>11, <1>12, <2>1
<1> QED
  BY <1>14, <1>15, <1>16, <1>17, <1>18, <1>19, <1>20 DEF LogsInv

LEMMA LogRefuses == LogsInv /\ PodLogs!ResolveFails => LogsInv'
<1> SUFFICES ASSUME LogsInv, PodLogs!ResolveFails PROVE LogsInv'
  OBVIOUS
<1>1. LogTypes /\ LogEmpty /\ LogMerged /\ LogCuts /\ LogSaid /\ LogQueue
  BY DEF LogsInv
<1>2. /\ page.state = "none" /\ page' = [page EXCEPT !.state = "refused"]
      /\ UNCHANGED <<pods, query, todo, reading, results, contents>>
  BY DEF PodLogs!ResolveFails
<1>3. /\ page' \in LogPages /\ page'.state = "refused"
      /\ page'.entries = page.entries /\ page'.truncated = page.truncated
      /\ page'.ok = page.ok /\ page'.failed = page.failed
  BY <1>1, <1>2 DEF LogTypes, LogPages
<1>4. LogTypes'
  BY <1>1, <1>2, <1>3 DEF LogTypes
<1>5. LogEmpty'
  BY <1>1, <1>2, <1>3 DEF LogEmpty, Started
<1>6. LogMerged'
  <2>1. PICK M \in SUBSET LogEntries : MergedIs(M)
    BY <1>1 DEF LogMerged
  <2>2. (PodLogs!Limit)' = PodLogs!Limit /\ LogOrder' = LogOrder
    BY <1>2 DEF PodLogs!Limit, LogOrder, PodLogs!Precedes
  <2>3. MergedIs(M)'
    BY <1>2, <1>3, <2>1, <2>2 DEF MergedIs
  <2> QED
    BY <2>3 DEF LogMerged
<1>7. LogCuts' /\ LogQueue'
  BY <1>1, <1>2, <1>3 DEF LogCuts, LogQueue
<1>8. LogSaid' /\ LogCount' /\ LogCovered'
  <2>1. contents = <<>> /\ contents' = <<>>
    BY <1>1, <1>2 DEF LogEmpty, Started
  <2> QED
    BY <1>3, <2>1, NoMembers DEF LogSaid, LogCount, LogCovered, Started
<1> QED
  BY <1>4, <1>5, <1>6, <1>7, <1>8 DEF LogsInv

\* The query and the pods are the same until the answer.
LEMMA SameQuestion ==
  ASSUME UNCHANGED <<pods, query>>
  PROVE  /\ (PodLogs!Limit)' = PodLogs!Limit /\ LogOrder' = LogOrder /\ Sources' = Sources
         /\ PodLogs!MissingPods(query)' = PodLogs!MissingPods(query)
         /\ PodLogs!MissingContainers(query)' = PodLogs!MissingContainers(query)
         /\ contents' = contents /\ LogSaid => LogSaid'
<1>1. (PodLogs!Limit)' = PodLogs!Limit /\ LogOrder' = LogOrder
  BY DEF PodLogs!Limit, LogOrder, PodLogs!Precedes
<1>2. Sources' = Sources
  BY DEF Sources, PodLogs!SourcesOf, PodLogs!Targets, PodLogs!Listed, PodLogs!Chosen, PodLogs!Has
<1>3. PodLogs!MissingPods(query)' = PodLogs!MissingPods(query)
  BY DEF PodLogs!Targets, PodLogs!Listed, PodLogs!MissingPods
<1>4. PodLogs!MissingContainers(query)' = PodLogs!MissingContainers(query)
  BY DEF PodLogs!Targets, PodLogs!Listed, PodLogs!Has, PodLogs!MissingContainers
<1>5. contents' = contents /\ LogSaid => LogSaid'
  BY DEF LogSaid, PodLogs!Entries, PodLogs!LastLines, PodLogs!Tailed, PodLogs!TailLines
<1> QED
  BY <1>1, <1>2, <1>3, <1>4, <1>5

LEMMA LogTakes == LogsInv /\ PodLogs!TakeSource => LogsInv'
<1> SUFFICES ASSUME LogsInv, PodLogs!TakeSource PROVE LogsInv'
  OBVIOUS
<1>1. LogTypes /\ LogEmpty /\ LogMerged /\ LogCuts /\ LogSaid /\ LogQueue /\ LogCount /\ LogCovered
  BY DEF LogsInv
<1>2. /\ todo # <<>> /\ reading' = reading \cup {Head(todo)} /\ todo' = Tail(todo)
      /\ UNCHANGED <<pods, query, results, contents, page>>
  BY DEF PodLogs!TakeSource
<1>3. PICK s : s = Head(todo)
  OBVIOUS
<1>4. /\ s \in LogSources /\ todo' \in Seq(LogSources) /\ Len(todo') = Len(todo) - 1 /\ Len(todo') \in Nat
      /\ Members(todo) = {s} \cup Members(todo')
      /\ \A i \in DOMAIN todo' : i + 1 \in DOMAIN todo /\ i + 1 # 1 /\ todo'[i] = todo[i + 1]
      /\ 1 \in DOMAIN todo /\ todo[1] = s /\ Len(todo) \in Nat /\ DOMAIN todo' = 1..Len(todo')
  BY <1>1, <1>2, <1>3, Leaves DEF LogTypes
<1>5. s \notin reading
  BY <1>1, <1>4 DEF LogQueue
<1>6. /\ reading' = reading \cup {s} /\ IsFiniteSet(reading')
      /\ Cardinality(reading') = Cardinality(reading) + 1 /\ Cardinality(reading) \in Nat
  BY <1>1, <1>2, <1>3, <1>5, FS_AddElement, FS_CardinalityType DEF LogTypes
<1>7. Started /\ Started' /\ page.state # "answered"
  BY <1>1, <1>2 DEF LogTypes, LogPages, LogEmpty, Started
<1>8. LogTypes'
  BY <1>1, <1>2, <1>4, <1>6 DEF LogTypes
<1>9. LogEmpty'
  BY <1>2, <1>7 DEF LogEmpty
<1>10. LogMerged'
  <2>1. PICK M \in SUBSET LogEntries : MergedIs(M)
    BY <1>1 DEF LogMerged
  <2>2. (PodLogs!Limit)' = PodLogs!Limit /\ LogOrder' = LogOrder
    BY <1>2, SameQuestion
  <2>3. MergedIs(M)'
    BY <1>2, <2>1, <2>2 DEF MergedIs
  <2> QED
    BY <2>3 DEF LogMerged
<1>11. LogCuts'
  BY <1>1, <1>2 DEF LogCuts
<1>12. LogQueue'
  <2>1. ASSUME NEW i \in DOMAIN todo', NEW j \in DOMAIN todo', todo'[i] = todo'[j] PROVE i = j
    <3>1. i + 1 = j + 1
      BY <1>1, <1>4, <2>1 DEF LogQueue
    <3> QED
      BY <1>4, <2>1, <3>1
  <2>2. ASSUME NEW i \in DOMAIN todo' PROVE todo'[i] \notin reading'
    <3>1. todo'[i] \notin reading /\ todo'[i] # s
      BY <1>1, <1>4, <2>2 DEF LogQueue
    <3> QED
      BY <1>6, <3>1
  <2> QED
    BY <2>1, <2>2 DEF LogQueue
<1>13. LogCount'
  <2>1. /\ page'.ok = page.ok /\ page'.failed = page.failed /\ page.ok \in Nat /\ page.failed \in Nat
        /\ Len(results) \in Nat /\ Len(results') = Len(results) /\ Sources' = Sources
    BY <1>1, <1>2, SameQuestion DEF LogTypes, LogPages
  <2>2. page.ok + page.failed + Len(results) + Cardinality(reading) + Len(todo) = Cardinality(Sources)
    BY <1>1, <1>7 DEF LogCount
  <2> QED
    <3>1. page'.ok + page'.failed + Len(results') + Cardinality(reading') + Len(todo') = Cardinality(Sources)
      <4>1. Len(todo) \in Nat /\ Len(todo') = Len(todo) - 1
        BY <1>4
      <4>2. Cardinality(reading) \in Nat /\ Cardinality(reading') = Cardinality(reading) + 1
        BY <1>6
      <4>3. Len(results) \in Nat /\ Len(results') = Len(results)
        BY <2>1
      <4>4. page'.ok = page.ok /\ page'.failed = page.failed /\ page.ok \in Nat /\ page.failed \in Nat
        BY <2>1
      <4>5. PICK x \in Nat : x = page.ok + page.failed
        BY <4>4
      <4>6. x + Len(results) + Cardinality(reading) + Len(todo) = Cardinality(Sources)
        BY <2>2, <4>5
      <4>7. x + Len(results') + Cardinality(reading') + Len(todo') = Cardinality(Sources)
        BY <4>1, <4>2, <4>3, <4>6
      <4> QED
        BY <4>4, <4>5, <4>7
    <3> QED
      BY <2>1, <3>1 DEF LogCount
<1>14. LogCovered'
  <2>1. /\ Sources' = Sources
        /\ PodLogs!MissingPods(query)' = PodLogs!MissingPods(query)
        /\ PodLogs!MissingContainers(query)' = PodLogs!MissingContainers(query)
    BY <1>2, SameQuestion
  <2> QED
    BY <1>1, <1>2, <1>4, <1>6, <1>7, <2>1 DEF LogCovered
<1>15. LogSaid'
  BY <1>1, <1>2, SameQuestion
<1> QED
  BY <1>8, <1>9, <1>10, <1>11, <1>12, <1>13, <1>14, <1>15 DEF LogsInv

\* A source was read, or could not be: what it said, if anything, waits to be merged.
LEMMA LogArrives ==
  ASSUME LogsInv, NEW s \in reading, NEW r \in LogResults, r.source = s, FromRead(r),
         NEW said \in SUBSET Times, ~r.cut => ~r.ok \/ r.entries = PodLogs!Entries(s, PodLogs!LastLines(said)),
         reading' = reading \ {s}, results' = Append(results, r),
         \/ /\ contents' = Append(contents, [source |-> s, said |-> said, entries |-> r.entries, cut |-> r.cut])
            /\ r.ok
         \/ contents' = contents /\ ~r.ok /\ r.entries = {},
         UNCHANGED <<pods, query, todo, page>>
  PROVE  LogsInv'
<1>1. LogTypes /\ LogEmpty /\ LogMerged /\ LogCuts /\ LogSaid /\ LogQueue /\ LogCount /\ LogCovered
  BY DEF LogsInv
<1>2. /\ results' \in Seq(LogResults) /\ Len(results') = Len(results) + 1 /\ Len(results) \in Nat
      /\ Members(results') = Members(results) \cup {r}
  BY <1>1, Joins DEF LogTypes
<1>3. PICK c : c = [source |-> s, said |-> said, entries |-> r.entries, cut |-> r.cut]
  OBVIOUS
<1>4. c \in LogContents /\ c.source = s /\ c.said = said /\ c.entries = r.entries /\ c.cut = r.cut
  BY <1>3 DEF LogResults, LogContents
<1>5. /\ contents' \in Seq(LogContents)
      /\ \/ Members(contents') = Members(contents) \cup {c} /\ r.ok
         \/ Members(contents') = Members(contents) /\ ~r.ok /\ r.entries = {}
  <2>1. contents \in Seq(LogContents)
    BY <1>1 DEF LogTypes
  <2>2. CASE contents' = Append(contents, c) /\ r.ok
    BY <1>4, <2>1, <2>2, Joins
  <2>3. CASE contents' = contents /\ ~r.ok /\ r.entries = {}
    BY <2>1, <2>3
  <2> QED
    BY <1>3, <2>2, <2>3
<1>6. /\ IsFiniteSet(reading') /\ Cardinality(reading') = Cardinality(reading) - 1 /\ Cardinality(reading) \in Nat
      /\ Cardinality(reading') \in Nat
  BY <1>1, FS_RemoveElement, FS_CardinalityType DEF LogTypes
<1>7. Started /\ Started' /\ page.state # "answered" /\ page'.state # "answered"
  BY <1>1 DEF LogEmpty, Started
<1>8. LogTypes'
  BY <1>1, <1>2, <1>5, <1>6 DEF LogTypes
<1>9. LogEmpty'
  BY <1>7 DEF LogEmpty
<1>10. LogMerged'
  <2>1. PICK M \in SUBSET LogEntries : MergedIs(M)
    BY <1>1 DEF LogMerged
  <2>2. (PodLogs!Limit)' = PodLogs!Limit /\ LogOrder' = LogOrder
    BY SameQuestion
  <2>3. ReadOf(results') = ReadOf(results) \cup r.entries
    BY <1>2 DEF ReadOf
  <2>4. ReadOf(contents') = ReadOf(contents) \cup r.entries
    BY <1>4, <1>5 DEF ReadOf
  <2>5. ReadOf(contents') = M \cup ReadOf(results')
    BY <2>1, <2>3, <2>4 DEF MergedIs
  <2>6. MergedIs(M)'
    BY <2>1, <2>2, <2>5 DEF MergedIs
  <2> QED
    BY <2>6 DEF LogMerged
<1>11. LogCuts'
  <2> SUFFICES ASSUME NEW d \in Members(contents'), d.cut
               PROVE  page'.truncated \/ \E x \in Members(results') : x.cut
    BY DEF LogCuts
  <2>1. CASE d \in Members(contents)
    BY <1>1, <1>2, <2>1 DEF LogCuts
  <2>2. CASE d = c
    BY <1>2, <1>4, <2>2
  <2> QED
    BY <1>5, <2>1, <2>2
<1>12. LogQueue'
  BY <1>1 DEF LogQueue
<1>13. LogCount'
  <2>1. /\ page'.ok = page.ok /\ page'.failed = page.failed /\ page.ok \in Nat /\ page.failed \in Nat
        /\ Len(todo) \in Nat /\ Len(todo') = Len(todo) /\ Sources' = Sources
    BY <1>1, SameQuestion DEF LogTypes, LogPages
  <2>2. page.ok + page.failed + Len(results) + Cardinality(reading) + Len(todo) = Cardinality(Sources)
    BY <1>1, <1>7 DEF LogCount
  <2> QED
    <3>1. page'.ok + page'.failed + Len(results') + Cardinality(reading') + Len(todo') = Cardinality(Sources)
      <4>1. Len(results) \in Nat /\ Len(results') = Len(results) + 1
        BY <1>2
      <4>2. Cardinality(reading) \in Nat /\ Cardinality(reading') = Cardinality(reading) - 1
        BY <1>6
      <4>3. Len(todo) \in Nat /\ Len(todo') = Len(todo)
        BY <2>1
      <4>4. page'.ok = page.ok /\ page'.failed = page.failed /\ page.ok \in Nat /\ page.failed \in Nat
        BY <2>1
      <4>5. PICK x \in Nat : x = page.ok + page.failed
        BY <4>4
      <4>6. x + Len(results) + Cardinality(reading) + Len(todo) = Cardinality(Sources)
        BY <2>2, <4>5
      <4>7. x + Len(results') + Cardinality(reading') + Len(todo') = Cardinality(Sources)
        BY <4>1, <4>2, <4>3, <4>6
      <4> QED
        BY <4>4, <4>5, <4>7
    <3> QED
      BY <2>1, <3>1 DEF LogCount
<1>14. LogCovered'
  <2>1. /\ Sources' = Sources
        /\ PodLogs!MissingPods(query)' = PodLogs!MissingPods(query)
        /\ PodLogs!MissingContainers(query)' = PodLogs!MissingContainers(query)
    BY SameQuestion
  <2> SUFFICES ASSUME ~page.partial, NEW x \in Sources
               PROVE  \/ x \in Members(todo') \/ x \in reading'
                      \/ \E d \in Members(contents') : d.source = x
                      \/ \E d \in Members(results') : ~d.ok
    BY <1>1, <1>7, <2>1 DEF LogCovered
  <2>2. \/ x \in Members(todo) \/ x \in reading
        \/ \E d \in Members(contents) : d.source = x
        \/ \E d \in Members(results) : ~d.ok
    BY <1>1, <1>7 DEF LogCovered
  <2>3. CASE x = s
    BY <1>2, <1>4, <1>5, <2>3
  <2>4. CASE x # s
    BY <1>2, <1>5, <2>2, <2>4
  <2> QED
    BY <2>3, <2>4
<1>15. LogSaid'
  <2>1. /\ \A d, T : PodLogs!Entries(d, T)' = PodLogs!Entries(d, T)
        /\ \A T : PodLogs!LastLines(T)' = PodLogs!LastLines(T)
    BY DEF PodLogs!Entries, PodLogs!LastLines, PodLogs!Tailed, PodLogs!TailLines
  <2> SUFFICES ASSUME NEW d \in Members(contents'), ~d.cut
               PROVE  d.entries = PodLogs!Entries(d.source, PodLogs!LastLines(d.said))
    BY <2>1 DEF LogSaid
  <2>2. CASE d \in Members(contents)
    BY <1>1, <2>2 DEF LogSaid
  <2>3. CASE d = c /\ r.ok
    BY <1>4, <2>3
  <2> QED
    BY <1>5, <2>2, <2>3
<1> QED
  BY <1>8, <1>9, <1>10, <1>11, <1>12, <1>13, <1>14, <1>15 DEF LogsInv

LEMMA LogReads ==
  ASSUME LogsInv, NEW s \in reading,
         \/ PodLogs!ReadFails(s)
         \/ \E text \in PodLogs!Texts : PodLogs!ReadSource(s, text.said, text.upto, text.cut)
  PROVE  LogsInv'
<1>1. s \in LogSources
  BY DEF LogsInv, LogTypes
<1>2. CASE PodLogs!ReadFails(s)
  <2>1. PICK r : r = [source |-> s, ok |-> FALSE, entries |-> {}, cut |-> FALSE]
    OBVIOUS
  <2>2. r \in LogResults /\ r.source = s /\ ~r.ok /\ r.entries = {} /\ FromRead(r)
    BY <1>1, <2>1, FS_EmptySet DEF LogResults, FromRead
  <2>3. {} \in SUBSET Times
    OBVIOUS
  <2> QED
    BY <1>2, <2>1, <2>2, <2>3, LogArrives DEF PodLogs!ReadFails
<1>3. ASSUME NEW text \in PodLogs!Texts, PodLogs!ReadSource(s, text.said, text.upto, text.cut) PROVE LogsInv'
  <2> DEFINE last == PodLogs!LastLines(text.said)
             came == {t \in last : t <= text.upto}
  <2>1. text.said \in SUBSET Times /\ text.cut \in BOOLEAN
    BY TextsTypes
  <2>2. came \in SUBSET Times /\ (text.cut \/ came = last)
    BY <1>3, <2>1 DEF PodLogs!ReadSource, PodLogs!LastLines
  <2>3. PICK E : E = PodLogs!Entries(s, came)
    OBVIOUS
  <2>4. E \in SUBSET LogEntries /\ IsFiniteSet(E) /\ (text.cut \/ E = PodLogs!Entries(s, last))
    BY <1>1, <2>2, <2>3, EntriesTypes
  <2>5. PICK r : r = [source |-> s, ok |-> TRUE, entries |-> E, cut |-> text.cut]
    OBVIOUS
  <2>6. r \in LogResults /\ r.source = s /\ r.ok /\ r.entries = E /\ r.cut = text.cut /\ FromRead(r)
    BY <1>1, <2>1, <2>4, <2>5 DEF LogResults, FromRead
  <2>7. /\ reading' = reading \ {s} /\ results' = Append(results, r)
        /\ contents' = Append(contents, [source |-> s, said |-> text.said, entries |-> r.entries, cut |-> r.cut])
        /\ UNCHANGED <<pods, query, todo, page>>
    BY <1>3, <2>3, <2>5, <2>6 DEF PodLogs!ReadSource
  <2>8. ~r.cut => r.entries = PodLogs!Entries(s, PodLogs!LastLines(text.said))
    BY <2>4, <2>6
  <2> QED
    BY <2>1, <2>6, <2>7, <2>8, LogArrives
<1> QED
  BY <1>2, <1>3

LEMMA LogAnswers == LogsInv /\ PodLogs!AnswerPage => LogsInv'
<1> SUFFICES ASSUME LogsInv, PodLogs!AnswerPage PROVE LogsInv'
  OBVIOUS
<1>1. LogTypes /\ LogEmpty /\ LogMerged /\ LogCuts /\ LogSaid /\ LogQueue /\ LogCount /\ LogCovered
  BY DEF LogsInv
<1>2. /\ page.state = "open" /\ todo = <<>> /\ reading = {} /\ results = <<>>
      /\ page' = [page EXCEPT !.state = "answered"]
      /\ UNCHANGED <<pods, query, todo, reading, results, contents>>
  BY DEF PodLogs!AnswerPage
<1>3. /\ page' \in LogPages /\ page'.state = "answered"
      /\ page'.entries = page.entries /\ page'.truncated = page.truncated /\ page'.partial = page.partial
      /\ page'.ok = page.ok /\ page'.failed = page.failed
  BY <1>1, <1>2 DEF LogTypes, LogPages
<1>4. LogTypes'
  BY <1>1, <1>2, <1>3 DEF LogTypes
<1>5. LogEmpty'
  BY <1>2, <1>3 DEF LogEmpty, Started
<1>6. LogMerged'
  <2>1. PICK M \in SUBSET LogEntries : MergedIs(M)
    BY <1>1 DEF LogMerged
  <2>2. (PodLogs!Limit)' = PodLogs!Limit /\ LogOrder' = LogOrder
    BY <1>2, SameQuestion
  <2>3. MergedIs(M)'
    BY <1>2, <1>3, <2>1, <2>2 DEF MergedIs
  <2> QED
    BY <2>3 DEF LogMerged
<1>7. LogCuts' /\ LogQueue'
  BY <1>1, <1>2, <1>3 DEF LogCuts, LogQueue
<1>8. LogCount'
  <2>1. Sources' = Sources /\ Started
    BY <1>2, SameQuestion DEF Started
  <2> QED
    BY <1>1, <1>2, <1>3, <2>1 DEF LogCount
<1>9. LogCovered'
  <2>1. /\ Sources' = Sources /\ Started
        /\ PodLogs!MissingPods(query)' = PodLogs!MissingPods(query)
        /\ PodLogs!MissingContainers(query)' = PodLogs!MissingContainers(query)
    BY <1>2, SameQuestion DEF Started
  <2> QED
    BY <1>1, <1>2, <1>3, <2>1 DEF LogCovered
<1>10. LogSaid'
  BY <1>1, <1>2, SameQuestion
<1> QED
  BY <1>4, <1>5, <1>6, <1>7, <1>8, <1>9, <1>10 DEF LogsInv

\* What boundAggregateLogEntries keeps.
LEMMA KeptIs ==
  ASSUME NEW D \in SUBSET LogEntries, IsFiniteSet(D), PodLogs!Limit \in Nat
  PROVE  LET seq == Ranked(D, LogOrder)
             m == Least(Cardinality(D), PodLogs!Limit)
         IN  /\ PodLogs!Kept(seq) \in Seq(LogEntries) /\ Members(PodLogs!Kept(seq)) \in SUBSET D
             /\ Len(PodLogs!Kept(seq)) >= Len(seq) => Members(PodLogs!Kept(seq)) = D
             /\ PodLogs!Bytes(D) <= Budget => PodLogs!Kept(seq) = Firsts(D, LogOrder, PodLogs!Limit)
<1> DEFINE seq == Ranked(D, LogOrder)
           m == Least(Cardinality(D), PodLogs!Limit)
           n == IF Len(seq) < PodLogs!Limit THEN Len(seq) ELSE PodLogs!Limit
           fit == {i \in 0..n : PodLogs!Bytes({seq[j] : j \in 1..i}) <= Budget}
           top == PodLogs!Max(fit)
<1>1. Orders(LogOrder, D)
  BY EntriesOrdered
<1>2. /\ seq \in Seq(D) /\ Len(seq) = Cardinality(D) /\ Cardinality(D) \in Nat
      /\ \A i \in 1..Cardinality(D) : seq[i] \in D
      /\ \A e \in D : \E i \in 1..Cardinality(D) : seq[i] = e
  <2>1. /\ seq \in Seq(D) /\ Len(seq) = Cardinality(D)
        /\ \A i \in 1..Cardinality(D) : seq[i] \in D
        /\ \A e \in D : /\ Rank(D, LogOrder, e) + 1 \in 1..Cardinality(D)
                        /\ seq[Rank(D, LogOrder, e) + 1] = e
    BY <1>1, RankedList
  <2> HIDE DEF seq
  <2> QED
    BY <2>1, FS_CardinalityType
<1>3. PodLogs!Kept(seq) = SubSeq(seq, 1, top)
  BY DEF PodLogs!Kept
<1>4. m \in Nat /\ m <= Cardinality(D) /\ n = m
  BY <1>2 DEF Least
<1>5. Firsts(D, LogOrder, PodLogs!Limit) = SubSeq(seq, 1, m)
  BY DEF Firsts
<1>6. fit \in SUBSET (0..m) /\ 0 \in fit
  <2>1. {seq[j] : j \in 1..0} = {}
    OBVIOUS
  <2>2. PodLogs!Bytes({}) <= Budget
    BY NoBytes, LogsAssumption DEF LogsAssumption
  <2>3. PodLogs!Bytes({seq[j] : j \in 1..0}) <= Budget
    BY <2>1, <2>2
  <2> HIDE DEF m, seq
  <2> QED
    BY <1>4, <2>3
<1>7. ASSUME PodLogs!Bytes(D) <= Budget PROVE m \in fit
  <2>1. {seq[j] : j \in 1..m} \in SUBSET D
    BY <1>2, <1>4
  <2>2. /\ PodLogs!Bytes({seq[j] : j \in 1..m}) \in Nat /\ PodLogs!Bytes(D) \in Nat
        /\ PodLogs!Bytes({seq[j] : j \in 1..m}) <= PodLogs!Bytes(D)
    BY <2>1, BytesGrow
  <2>3. PodLogs!Bytes({seq[j] : j \in 1..m}) <= Budget
    BY <1>7, <2>2, LogsAssumption DEF LogsAssumption
  <2> HIDE DEF m, seq
  <2> QED
    BY <1>4, <2>3
<1> HIDE DEF fit
<1>8. top \in fit /\ \A i \in fit : top >= i
  <2>1. \E x \in fit : \A y \in fit : x >= y
    BY <1>4, <1>6, HasLast
  <2> QED
    BY <2>1 DEF PodLogs!Max
<1> HIDE DEF seq, m, n, top
<1>9. top \in 0..m
  BY <1>6, <1>8
<1>10. PICK kept : kept = SubSeq(seq, 1, top)
  OBVIOUS
<1>11. /\ kept \in Seq(D) /\ Len(kept) = top /\ DOMAIN kept = 1..top
       /\ \A i \in 1..top : kept[i] = seq[i] /\ seq[i] \in D
  BY <1>2, <1>4, <1>9, <1>10
<1>12. kept \in Seq(LogEntries)
  BY <1>11, SeqMonotonic
<1>13. Members(kept) \in SUBSET D
  BY <1>11 DEF Members
<1>14. ASSUME Len(kept) >= Len(seq) PROVE Members(kept) = D
  <2>1. top = Cardinality(D)
    BY <1>2, <1>4, <1>9, <1>11, <1>14
  <2>2. D \in SUBSET Members(kept)
    BY <1>2, <1>11, <2>1 DEF Members
  <2> QED
    BY <1>13, <2>2
<1>15. ASSUME PodLogs!Bytes(D) <= Budget PROVE kept = Firsts(D, LogOrder, PodLogs!Limit)
  <2>1. top = m
    BY <1>4, <1>7, <1>8, <1>9, <1>15
  <2> QED
    BY <1>5, <1>10, <2>1
<1>16. kept = PodLogs!Kept(seq)
  BY <1>3, <1>10
<1> QED
  BY <1>12, <1>13, <1>14, <1>15, <1>16 DEF seq

\* A result is merged: the page has the first entries of what was merged before and of it.
LEMMA LogJoins ==
  ASSUME NEW M \in SUBSET LogEntries, MergedIs(M), LogTypes, NEW r \in LogResults, IsFiniteSet(r.entries)
  PROVE  LET N == M \cup r.entries
             seq == PodLogs!Merged(page.entries, r.entries)
             kept == PodLogs!Kept(seq)
         IN  /\ N \in SUBSET LogEntries /\ IsFiniteSet(N) /\ kept \in Seq(LogEntries) /\ Members(kept) \in SUBSET N
             /\ PodLogs!Bytes(N) <= Budget => kept = Firsts(N, LogOrder, PodLogs!Limit)
             /\ ~page.truncated /\ ~(Len(kept) < Len(seq)) => Members(kept) = N
<1> DEFINE N == M \cup r.entries
           D == Members(page.entries) \cup r.entries
           L == PodLogs!Limit
           seq == PodLogs!Merged(page.entries, r.entries)
           kept == PodLogs!Kept(seq)
<1>1. /\ M \in SUBSET LogEntries /\ IsFiniteSet(M) /\ Members(page.entries) \in SUBSET M
      /\ PodLogs!Bytes(M) <= Budget => page.entries = Firsts(M, LogOrder, L)
      /\ ~page.truncated => Members(page.entries) = M
  BY DEF MergedIs
<1>2. r.entries \in SUBSET LogEntries
  BY DEF LogResults
<1>3. N \in SUBSET LogEntries /\ IsFiniteSet(N) /\ D \in SUBSET N
  BY <1>1, <1>2, FS_Union
<1>4. D \in SUBSET LogEntries /\ IsFiniteSet(D)
  BY <1>3, FS_Subset
<1>5. L \in Nat
  BY LogsAssumption DEF LogTypes, PodLogs!Limit, LogsAssumption
<1>6. PodLogs!Merged(page.entries, r.entries) = Ranked(D, LogOrder)
  <2>1. PodLogs!ToSet(page.entries) = Members(page.entries)
    BY DEF PodLogs!ToSet, Members
  <2>2. PodLogs!Merged(page.entries, r.entries) = PodLogs!InOrder(D, PodLogs!Precedes)
    BY <2>1 DEF PodLogs!Merged
  <2> HIDE DEF D
  <2> QED
    BY <1>4, <2>2, EntriesInOrder
<1> HIDE DEF N, D, L, seq, kept
<1>7. /\ kept \in Seq(LogEntries) /\ Members(kept) \in SUBSET D
      /\ Len(kept) >= Len(seq) => Members(kept) = D
      /\ PodLogs!Bytes(D) <= Budget => kept = Firsts(D, LogOrder, L)
  BY <1>4, <1>5, <1>6, KeptIs DEF L, seq, kept
<1>8. ASSUME PodLogs!Bytes(N) <= Budget PROVE kept = Firsts(N, LogOrder, L)
  <2>1. /\ PodLogs!Bytes(N) \in Nat /\ PodLogs!Bytes(M) \in Nat /\ PodLogs!Bytes(M) <= PodLogs!Bytes(N)
        /\ PodLogs!Bytes(D) \in Nat /\ PodLogs!Bytes(D) <= PodLogs!Bytes(N)
    BY <1>3, BytesGrow DEF N
  <2>2. PodLogs!Bytes(M) <= Budget /\ PodLogs!Bytes(D) <= Budget
    BY <1>8, <2>1, LogsAssumption DEF LogsAssumption
  <2>3. Members(page.entries) = {e \in M : Rank(M, LogOrder, e) < L}
    <3>1. Orders(LogOrder, M)
      BY <1>1, EntriesOrdered
    <3>2. page.entries = Firsts(M, LogOrder, L)
      BY <1>1, <2>2
    <3> QED
      BY <1>1, <1>5, <3>1, <3>2, FirstsAre DEF Members
  <2>4. D = {e \in M : Rank(M, LogOrder, e) < L} \cup r.entries
    BY <2>3 DEF D
  <2>5. Orders(LogOrder, M \cup r.entries)
    BY <1>3, EntriesOrdered DEF N
  <2>6. Firsts({e \in M : Rank(M, LogOrder, e) < L} \cup r.entries, LogOrder, L)
          = Firsts(M \cup r.entries, LogOrder, L)
    BY <1>1, <1>5, <2>5, FirstsJoined
  <2> QED
    BY <1>7, <2>2, <2>4, <2>6 DEF N
<1>9. ASSUME ~page.truncated, ~(Len(kept) < Len(seq)) PROVE Members(kept) = N
  <2>1. D = N
    BY <1>1, <1>9 DEF D, N
  <2>2. Len(kept) \in Nat /\ Len(seq) \in Nat
    <3>1. Len(seq) = Cardinality(D)
      BY <1>4, <1>6, EntriesOrdered, RankedList DEF seq
    <3> QED
      BY <1>4, <1>7, <3>1, FS_CardinalityType
  <2>3. Len(kept) >= Len(seq)
    BY <1>9, <2>2
  <2> QED
    BY <1>7, <2>1, <2>3
<1>10. Members(kept) \in SUBSET N
  BY <1>3, <1>7
<1> QED
  BY <1>3, <1>7, <1>8, <1>9, <1>10 DEF N, L, seq, kept

LEMMA LogMerges == LogsInv /\ PodLogs!Merge => LogsInv'
<1> SUFFICES ASSUME LogsInv, PodLogs!Merge PROVE LogsInv'
  OBVIOUS
<1>1. LogTypes /\ LogEmpty /\ LogMerged /\ LogCuts /\ LogSaid /\ LogQueue /\ LogCount /\ LogCovered
  BY DEF LogsInv
<1>2. PICK r, seq, kept : r = Head(results) /\ seq = PodLogs!Merged(page.entries, r.entries)
                          /\ kept = PodLogs!Kept(seq)
  OBVIOUS
<1>3. /\ page.state = "open" /\ results # <<>> /\ results' = Tail(results)
      /\ page' = IF r.ok
                 THEN [page EXCEPT !.ok = @ + 1, !.entries = kept,
                                   !.truncated = page.truncated \/ r.cut \/ Len(kept) < Len(seq)]
                 ELSE [page EXCEPT !.failed = @ + 1, !.partial = TRUE, !.warned = @ \union {r.source}]
      /\ UNCHANGED <<pods, query, todo, reading, contents>>
  BY <1>2 DEF PodLogs!Merge, PodLogs!Cut
<1>4. /\ r \in LogResults /\ results' \in Seq(LogResults) /\ Len(results') = Len(results) - 1
      /\ Len(results') \in Nat /\ Members(results) = {r} \cup Members(results')
  BY <1>1, <1>2, <1>3, Leaves DEF LogTypes
<1>5. IsFiniteSet(r.entries) /\ r.entries \in SUBSET LogEntries /\ r.source \in LogSources
      /\ r.ok \in BOOLEAN /\ r.cut \in BOOLEAN
  BY <1>1, <1>4 DEF LogTypes, LogResults, FromRead
<1>6. PICK M \in SUBSET LogEntries : MergedIs(M)
  BY <1>1 DEF LogMerged
<1> DEFINE N == M \cup r.entries
<1>7. /\ N \in SUBSET LogEntries /\ IsFiniteSet(N) /\ kept \in Seq(LogEntries) /\ Members(kept) \in SUBSET N
      /\ PodLogs!Bytes(N) <= Budget => kept = Firsts(N, LogOrder, PodLogs!Limit)
      /\ ~page.truncated /\ ~(Len(kept) < Len(seq)) => Members(kept) = N
  BY <1>1, <1>2, <1>4, <1>5, <1>6, LogJoins
<1> HIDE DEF N
\* What the page is after a result, and after a failure.
<1>8. PICK cut \in BOOLEAN : cut = (page.truncated \/ r.cut \/ Len(kept) < Len(seq))
  OBVIOUS
<1>9. ASSUME r.ok
      PROVE  /\ page' \in LogPages /\ page'.state = "open" /\ page'.entries = kept /\ page'.truncated = cut
             /\ page'.partial = page.partial /\ page'.ok = page.ok + 1 /\ page'.failed = page.failed
  <2>1. page' = [page EXCEPT !.ok = @ + 1, !.entries = kept, !.truncated = cut]
    BY <1>3, <1>8, <1>9
  <2>2. page.ok \in Nat
    BY <1>1 DEF LogTypes, LogPages
  <2>3. PICK n \in Nat : n = page.ok + 1
    BY <2>2
  <2>4. page' = [page EXCEPT !.ok = n, !.entries = kept, !.truncated = cut]
    BY <2>1, <2>3
  <2>5. page' \in LogPages /\ page'.ok = n /\ page'.state = page.state /\ page'.entries = kept
        /\ page'.truncated = cut /\ page'.partial = page.partial /\ page'.failed = page.failed
    BY <1>1, <1>7, <2>4 DEF LogTypes, LogPages
  <2> QED
    BY <1>3, <2>3, <2>5
<1>10. ASSUME ~r.ok
       PROVE  /\ page' \in LogPages /\ page'.state = "open" /\ page'.entries = page.entries
              /\ page'.truncated = page.truncated /\ page'.partial
              /\ page'.ok = page.ok /\ page'.failed = page.failed + 1
  <2>1. page' = [page EXCEPT !.failed = @ + 1, !.partial = TRUE, !.warned = @ \union {r.source}]
    BY <1>3, <1>10
  <2>2. page.failed \in Nat /\ page.warned \in SUBSET LogSources
    BY <1>1 DEF LogTypes, LogPages
  <2>3. PICK n \in Nat : n = page.failed + 1
    BY <2>2
  <2>7. PICK w \in SUBSET LogSources : w = page.warned \union {r.source}
    BY <1>5, <2>2
  <2>4. page' = [page EXCEPT !.failed = n, !.partial = TRUE, !.warned = w]
    BY <2>1, <2>3, <2>7
  <2>5. ASSUME NEW t \in BOOLEAN, page' = [page EXCEPT !.failed = n, !.partial = t, !.warned = w]
        PROVE  /\ page' \in LogPages /\ page'.failed = n /\ page'.state = page.state /\ page'.partial = t
               /\ page'.entries = page.entries /\ page'.truncated = page.truncated /\ page'.ok = page.ok
    BY <1>1, <2>5 DEF LogTypes, LogPages
  <2>6. TRUE \in BOOLEAN
    OBVIOUS
  <2> QED
    BY <1>3, <2>3, <2>4, <2>5, <2>6
<1>11. page' \in LogPages /\ page'.state = "open" /\ Started /\ Started'
  BY <1>3, <1>9, <1>10 DEF Started
<1>12. LogTypes'
  BY <1>1, <1>3, <1>4, <1>11 DEF LogTypes
<1>13. LogEmpty'
  BY <1>11 DEF LogEmpty
<1>14. LogMerged'
  <2>1. (PodLogs!Limit)' = PodLogs!Limit /\ LogOrder' = LogOrder
    BY <1>3, SameQuestion
  <2>2. ReadOf(results) = r.entries \cup ReadOf(results')
    BY <1>4 DEF ReadOf
  <2>3. ReadOf(contents') = N \cup ReadOf(results')
    BY <1>3, <1>6, <2>2 DEF MergedIs, N
  <2>4. CASE r.ok
    <3>1. ~cut => ~page.truncated /\ ~(Len(kept) < Len(seq))
      BY <1>8
    <3>2. MergedIs(N)'
      BY <1>7, <1>9, <2>1, <2>3, <2>4, <3>1 DEF MergedIs
    <3> QED
      BY <1>7, <3>2 DEF LogMerged
  <2>5. CASE ~r.ok
    <3>1. r.entries = {} /\ N = M
      BY <1>1, <1>4, <2>5 DEF LogTypes, FromRead, N
    <3>2. MergedIs(M)'
      BY <1>6, <1>10, <2>1, <2>3, <2>5, <3>1 DEF MergedIs
    <3> QED
      BY <3>2 DEF LogMerged
  <2> QED
    BY <2>4, <2>5
<1>15. LogCuts'
  <2> SUFFICES ASSUME NEW c \in Members(contents), c.cut
               PROVE  page'.truncated \/ \E x \in Members(results') : x.cut
    BY <1>3 DEF LogCuts
  <2>1. page.truncated \/ \E x \in Members(results) : x.cut
    BY <1>1 DEF LogCuts
  <2>2. CASE page.truncated
    BY <1>8, <1>9, <1>10, <2>2
  <2>3. CASE r.cut
    <3>1. r.ok
      BY <1>1, <1>4, <2>3 DEF LogTypes, FromRead
    <3> QED
      BY <1>8, <1>9, <2>3, <3>1
  <2> QED
    BY <1>4, <2>1, <2>2, <2>3
<1>16. LogQueue'
  BY <1>1, <1>3 DEF LogQueue
<1>17. LogCount'
  <2>1. page.ok + page.failed + Len(results) + Cardinality(reading) + Len(todo) = Cardinality(Sources)
    BY <1>1, <1>11 DEF LogCount
  <2>2. page.ok \in Nat /\ page.failed \in Nat /\ page'.ok \in Nat /\ page'.failed \in Nat
    BY <1>1, <1>11 DEF LogTypes, LogPages
  <2>3. page'.ok + page'.failed = page.ok + page.failed + 1
    BY <1>9, <1>10, <2>2
  <2>4. PICK x \in Nat : x = page.ok + page.failed
    BY <2>2
  <2>5. x + Len(results) + Cardinality(reading) + Len(todo) = Cardinality(Sources)
    BY <2>1, <2>4
  <2>6. Len(todo) \in Nat /\ Cardinality(reading) \in Nat /\ Len(results) \in Nat
    BY <1>1, FS_CardinalityType DEF LogTypes
  <2>7. x + 1 + Len(results') + Cardinality(reading) + Len(todo) = Cardinality(Sources)
    BY <1>4, <2>5, <2>6
  <2>8. page'.ok + page'.failed + Len(results') + Cardinality(reading') + Len(todo') = Cardinality(Sources)
    <3>1. page'.ok + page'.failed = x + 1
      BY <2>3, <2>4
    <3> QED
      BY <1>3, <2>7, <3>1
  <2>9. Sources' = Sources
    BY <1>3, SameQuestion
  <2> QED
    BY <2>8, <2>9 DEF LogCount
<1>18. LogCovered'
  <2>1. /\ Sources' = Sources
        /\ PodLogs!MissingPods(query)' = PodLogs!MissingPods(query)
        /\ PodLogs!MissingContainers(query)' = PodLogs!MissingContainers(query)
    BY <1>3, SameQuestion
  <2>2. CASE r.ok
    BY <1>1, <1>3, <1>4, <1>9, <1>11, <2>1, <2>2 DEF LogCovered
  <2>3. CASE ~r.ok
    BY <1>10, <2>3 DEF LogCovered
  <2> QED
    BY <2>2, <2>3
<1>19. LogSaid'
  BY <1>1, <1>3, SameQuestion
<1> QED
  BY <1>12, <1>13, <1>14, <1>15, <1>16, <1>17, <1>18, <1>19 DEF LogsInv

LEMMA LogsRest == LogsInv /\ UNCHANGED logVars => LogsInv'
<1> SUFFICES ASSUME LogsInv, UNCHANGED logVars PROVE LogsInv'
  OBVIOUS
<1>1. UNCHANGED <<pods, query, todo, reading, results, contents, page>>
  BY DEF logVars
<1>2. LogTypes' /\ LogEmpty' /\ LogCuts' /\ LogQueue'
  BY <1>1 DEF LogsInv, LogTypes, LogEmpty, LogCuts, LogQueue, Started
<1>3. /\ Sources' = Sources /\ Started' = Started
      /\ (PodLogs!Limit)' = PodLogs!Limit /\ LogOrder' = LogOrder
      /\ PodLogs!MissingPods(query)' = PodLogs!MissingPods(query)
      /\ PodLogs!MissingContainers(query)' = PodLogs!MissingContainers(query)
  BY <1>1, SameQuestion DEF Started
<1>4. LogMerged'
  <2>1. PICK M \in SUBSET LogEntries : MergedIs(M)
    BY DEF LogsInv, LogMerged
  <2>2. MergedIs(M)'
    BY <1>1, <1>3, <2>1 DEF MergedIs
  <2> QED
    BY <2>2 DEF LogMerged
<1>5. LogCount' /\ LogCovered'
  BY <1>1, <1>3 DEF LogsInv, LogCount, LogCovered
<1>6. LogSaid'
  BY <1>1, SameQuestion DEF LogsInv
<1> QED
  BY <1>2, <1>4, <1>5, <1>6 DEF LogsInv

LEMMA LogSteps == LogsInv /\ PodLogs!Next => LogsInv'
BY LogAsks, LogRefuses, LogTakes, LogReads, LogMerges, LogAnswers DEF PodLogs!Next

\* What an answered page says.
LEMMA LogsTold == LogsInv => PodLogs!PageIsTheFirst /\ PodLogs!CompleteUnlessMarked
<1> SUFFICES ASSUME LogsInv, page.state = "answered"
             PROVE  PodLogs!PageIsTheFirst /\ PodLogs!CompleteUnlessMarked
  BY DEF PodLogs!PageIsTheFirst, PodLogs!CompleteUnlessMarked
<1>1. LogTypes /\ LogEmpty /\ LogMerged /\ LogCuts /\ LogSaid /\ LogQueue /\ LogCount /\ LogCovered
  BY DEF LogsInv
<1>2. Started /\ todo = <<>> /\ reading = {} /\ results = <<>>
  BY <1>1 DEF LogEmpty, Started
<1>3. Members(<<>>) = {} /\ ReadOf(<<>>) = {}
  BY NoMembers
<1>4. PICK M \in SUBSET LogEntries : MergedIs(M)
  BY <1>1 DEF LogMerged
<1>5. M = ReadOf(contents) /\ ReadOf(contents) = PodLogs!AllRead
  BY <1>2, <1>3, <1>4 DEF MergedIs, ReadOf, Members, PodLogs!AllRead
<1>6. PodLogs!PageIsTheFirst
  <2> SUFFICES ASSUME PodLogs!Bytes(M) <= Budget
               PROVE  page.entries = LET all == PodLogs!InOrder(M, PodLogs!Precedes)
                                     IN SubSeq(all, 1, IF Len(all) < PodLogs!Limit THEN Len(all) ELSE PodLogs!Limit)
    BY <1>5 DEF PodLogs!PageIsTheFirst
  <2>1. page.entries = Firsts(M, LogOrder, PodLogs!Limit) /\ IsFiniteSet(M)
    BY <1>4 DEF MergedIs
  <2>2. PodLogs!InOrder(M, PodLogs!Precedes) = Ranked(M, LogOrder)
    BY EntriesInOrder
  <2>3. Len(Ranked(M, LogOrder)) = Cardinality(M)
    BY <2>1, EntriesOrdered, RankedList
  <2> QED
    BY <2>1, <2>2, <2>3 DEF Firsts, Least
<1>7. PodLogs!CompleteUnlessMarked
  <2>1. page.ok + page.failed = PodLogs!Cardinality(PodLogs!SourcesOf(query))
    <3>1. page.ok + page.failed + 0 + 0 + 0 = Cardinality(Sources)
      BY <1>1, <1>2, FS_EmptySet DEF LogCount
    <3>2. page.ok \in Nat /\ page.failed \in Nat
      BY <1>1 DEF LogTypes, LogPages
    <3>3. page.ok + page.failed = Cardinality(Sources)
      BY <3>1, <3>2
    <3> QED
      BY <3>3, LogCardinality DEF Sources
  <2>2. ASSUME ~page.truncated
        PROVE  PodLogs!ToSet(page.entries) =
                 UNION {PodLogs!Entries(contents[i].source, PodLogs!LastLines(contents[i].said)) : i \in DOMAIN contents}
    <3>1. PodLogs!ToSet(page.entries) = UNION {c.entries : c \in Members(contents)}
      BY <1>4, <1>5, <2>2 DEF MergedIs, PodLogs!ToSet, Members, ReadOf
    <3>2. \A c \in Members(contents) : ~c.cut
      BY <1>1, <1>2, <1>3, <2>2 DEF LogCuts
    <3>3. \A i \in DOMAIN contents :
            contents[i].entries = PodLogs!Entries(contents[i].source, PodLogs!LastLines(contents[i].said))
      BY <1>1, <3>2 DEF LogSaid, Members
    <3> QED
      BY <3>1, <3>3 DEF Members
  <2>3. ASSUME ~page.partial
        PROVE  /\ \A s \in PodLogs!SourcesOf(query) : \E i \in DOMAIN contents : contents[i].source = s
               /\ \A p \in query.named : pods[p].exists /\ (query.labelled => pods[p].labelled)
               /\ \A p \in PodLogs!Targets(query), c \in query.wants :
                    query.all \/ <<p, c>> \in PodLogs!SourcesOf(query)
    <3>1. /\ PodLogs!MissingPods(query) = {} /\ PodLogs!MissingContainers(query) = {}
          /\ \A s \in Sources : \E c \in Members(contents) : c.source = s
      BY <1>1, <1>2, <1>3, <2>3 DEF LogCovered
    <3>2. ASSUME NEW p \in query.named PROVE pods[p].exists /\ (query.labelled => pods[p].labelled)
      <4>1. p \in PodLogs!Targets(query)
        BY <3>1, <3>2 DEF PodLogs!MissingPods
      <4> QED
        BY <4>1 DEF PodLogs!Targets, PodLogs!Listed
    <3>3. ASSUME NEW p \in PodLogs!Targets(query), NEW c \in query.wants, ~query.all
          PROVE  <<p, c>> \in PodLogs!SourcesOf(query)
      <4>1. c \in PodLogs!Has(p)
        <5>1. c \notin PodLogs!Has(p) => <<p, c>> \in PodLogs!MissingContainers(query)
          BY <3>3 DEF PodLogs!MissingContainers
        <5> QED
          BY <3>1, <5>1
      <4>2. c \in PodLogs!Chosen(p, query)
        BY <3>3, <4>1 DEF PodLogs!Chosen
      <4> QED
        BY <4>2 DEF PodLogs!SourcesOf
    <3>4. \A s \in PodLogs!SourcesOf(query) : \E i \in DOMAIN contents : contents[i].source = s
      BY <3>1 DEF Sources, Members
    <3> QED
      BY <3>2, <3>3, <3>4
  <2> QED
    BY <2>1, <2>2, <2>3 DEF PodLogs!CompleteUnlessMarked
<1> QED
  BY <1>6, <1>7

-----------------------------------------------------------------------------
\* A list that cachedResourceItems or listTable answers is no older than the first failure of
\* the watch, and a subscriber that publish dropped events of is told, for any number of kinds
\* and any buffer.  A page of ListPodLogs has the first entries of everything that was read,
\* whatever the order of the answers, and one that is marked neither partial nor truncated has
\* all that matches the query of the last lines of every source, as many as the query or the
\* default says, for any pods, times, tails, limits and budgets.
THEOREM ReadsAreTrueHolds == MCSpec => []ReadsAreTrue
<1> DEFINE Inv == ListInv /\ StreamInv /\ (part = "logs" => LogsInv)
<1>1. MCInit => Inv
  BY ListStarts, LogsStart DEF MCInit
<1>2. Inv /\ [MCNext]_<<part, vars, docVars, helmVars, readVars, logVars>> => Inv'
  <2> SUFFICES ASSUME Inv, [MCNext]_<<part, vars, docVars, helmVars, readVars, logVars>>
               PROVE  Inv'
    OBVIOUS
  <2>1. (ListInv /\ StreamInv)'
    <3>1. CASE UNCHANGED readVars
      <4>1. ListInv'
        BY <3>1 DEF readVars, ListInv, ReadTypes, ReadBounds, ReadFloors
      <4>2. StreamInv'
        BY <3>1 DEF readVars, StreamInv, StreamTypes, Announces
      <4> QED
        BY <4>1, <4>2
    <3>2. ClusterReads!Next \/ UNCHANGED readVars
      BY DEF MCNext
    <3> QED
      BY <3>1, <3>2, ListSteps, StreamSteps
  <2>2. ASSUME part' = "logs" PROVE LogsInv'
    <3>1. part = "logs" /\ (PodLogs!Next \/ UNCHANGED logVars)
      BY <2>2 DEF MCNext
    <3> QED
      BY <3>1, LogSteps, LogsRest
  <2> QED
    BY <2>1, <2>2
<1>3. Inv => ReadsAreTrue
  <2>1. ASSUME ListInv PROVE ClusterReads!ListsAreTrue
    BY <2>1 DEF ListInv, ReadTypes, ReadFloors, ClusterReads!ListsAreTrue
  <2>2. ASSUME StreamInv PROVE ClusterReads!LossIsAnnounced
    BY <2>2 DEF StreamInv, Announces, ClusterReads!LossIsAnnounced
  <2>3. ASSUME LogsInv PROVE PodLogs!PageIsTheFirst /\ PodLogs!CompleteUnlessMarked
    BY <2>3, LogsTold
  <2> QED
    BY <2>1, <2>2, <2>3 DEF ReadsAreTrue
<1> QED
  BY <1>1, <1>2, <1>3, PTL DEF MCSpec

=============================================================================
