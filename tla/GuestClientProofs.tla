-------------------------- MODULE GuestClientProofs --------------------------
(***************************************************************************)
(* Invariants of a guest: of its client, for any limit of the counter, any *)
(* number of renewals and any number of requests on their way, and of its  *)
(* runtime, its data disk and its browser, for any number of connections,  *)
(* operations, processes, requests and crashes.                            *)
(*                                                                         *)
(* The state file of the client outlives every process, so most of its     *)
(* invariant speaks of it alone: Good says what a file needs for a client  *)
(* to start with it.  Places adds what the running client knows.  Sendable *)
(* is what makes a request harmless whenever it arrives.  RuntimeInv,      *)
(* DataInv and PageInv are the invariants of the others.                   *)
(***************************************************************************)
EXTENDS MCGuest, FiniteSetTheorems, TLAPS

\* The requests that may be on their way.
LateRequests ==
  [kind : {"enroll"}, cert : Cert, n : {0}]
  \cup [kind : {"beat"}, cert : Cert, n : 0..MaxCounter]
  \cup [kind : {"renew", "commit"}, cert : Cert, n : Cert \ {0}]

\* How the state file d, the server's record s, the requests on their way and the
\* highest number that was sent fit together.

\* Certificates become active in the order of their requests, and no result is newer
\* than the newest request.
InOrder(d, s, waiting) ==
  /\ s.active <= s.newest
  /\ s.stage # "done" => s.active < s.newest
  /\ d.result <= s.newest
  /\ \A r \in waiting : r.kind = "commit" => r.n <= s.newest

\* Nothing but enrollments was ever sent.
Unused(s, waiting, top) ==
  /\ s.newest = 0 /\ top = 0
  /\ \A r \in waiting : r.kind = "enroll"

\* A guest that may still enroll, or look for an enrollment, has done nothing else
\* under the certificate that it would use.
Enrolling(d, s, waiting, top) ==
  /\ d.binding # None => s.registered
  /\ ~s.registered => Unused(s, waiting, top)
  /\ d.binding = None /\ d.attempted /\ s.active = 0 => Unused(s, waiting, top)

\* A request that can still make a result active is about the result in the state file.
Candidate(r, d, s) ==
  d.binding # None /\ r.kind = "commit" /\ r.n = s.newest /\ s.stage = "open" =>
    d.result = r.n
OneCandidate(d, s, waiting) == \A r \in waiting : Candidate(r, d, s)

Holds(d, s) == d.binding # None => s.active \in {d.cert, d.result}

Fits(d, s, waiting, top) ==
  InOrder(d, s, waiting) /\ Enrolling(d, s, waiting, top) /\ OneCandidate(d, s, waiting) /\ Holds(d, s)

\* The request of d can no longer become active.
IsPast(d, s) == d.renewal <= s.newest /\ (s.newest = d.renewal => s.stage # "open")

\* Which fields of the state file go together.
DiskType ==
  [binding : Cert \cup {None}, sequence : 0..MaxCounter, attempted : BOOLEAN,
   cert : Cert, renewal : (Cert \ {0}) \cup {None}, result : (Cert \ {0}) \cup {None}]

DiskShape(d) ==
  /\ d.binding = None => d.sequence = 0 /\ d.cert = 0 /\ d.renewal = None
  /\ d.binding # None => d.attempted /\ d.cert = d.binding
  /\ d.renewal = None => d.result = None
  /\ d.result # None => d.result = d.renewal

\* A state file with which the client may start, whenever it has to.
Good(d, s, waiting, top) ==
  /\ d \in DiskType /\ DiskShape(d)
  /\ d.binding # None => top <= d.sequence
  /\ Fits(d, s, waiting, top)

\* What a place of the client says of the state file and of the client's certificate.
ProcessType ==
  /\ pc \in Locations /\ call \in {"enroll", "heartbeat"}
  /\ via \in Cert \cup {None} /\ failures \in 0..2

Places ==
  /\ pc # "down" => via \in Cert
  /\ pc = "down" => call = "enroll"
  /\ call = "heartbeat" => disk.binding # None
  /\ pc \in {"heartbeat", "number", "beat"} => call = "heartbeat"
  /\ pc = "renew" => disk.binding # None /\ (disk.renewal # None \/ requests < MaxRequests)
  /\ pc \in {"receive", "adopt", "commit", "confirm", "reset"} => disk.renewal # None
  /\ pc = "receive" => disk.result = None
  /\ pc \in {"adopt", "commit", "confirm"} => disk.result # None
  /\ pc \in {"begin", "get"} /\ disk.renewal = None => via = disk.cert
  /\ pc = "get" => disk.renewal = None
  /\ pc \in {"enroll", "recheck"} =>
       disk.binding = None /\ disk.attempted /\ via = disk.cert
  /\ pc = "reset" => via = disk.cert /\ IsPast(disk, server)
  /\ pc = "commit" => via = disk.result
  /\ FreshSequence

ServerType ==
  server \in [registered : BOOLEAN, active : Cert, newest : Cert,
              stage : {"open", "over", "done"}, sequence : 0..MaxCounter,
              revoked : BOOLEAN]

OtherTypes ==
  /\ clientOver \in BOOLEAN /\ requests \in Cert
  /\ late \subseteq LateRequests
  /\ lapsed \in Cert \cup {None} /\ lastSent \in 0..MaxCounter
  /\ faulty \in BOOLEAN

IInv ==
  /\ ProcessType /\ ServerType /\ OtherTypes
  /\ Good(disk, server, late, lastSent)
  /\ Places

-----------------------------------------------------------------------------
(* What a request is, and what receiving one does to the server.              *)

GetRequests == [kind : {"get"}, cert : Cert, n : {0}]

LEMMA AskedKinds ==
  /\ DOMAIN Asks = {"get", "enroll", "recheck", "receive", "commit", "confirm", "reset", "beat"}
  /\ Asks["get"] = "get" /\ Asks["enroll"] = "enroll" /\ Asks["recheck"] = "get"
  /\ Asks["receive"] = "renew" /\ Asks["commit"] = "commit" /\ Asks["confirm"] = "renew"
  /\ Asks["reset"] = "get" /\ Asks["beat"] = "beat"
BY DEF Asks

\* A request has the numbers of the place from which it is sent.
LEMMA RequestShape ==
  ASSUME IInv, pc \in DOMAIN Asks
  PROVE  /\ Request \in LateRequests \cup GetRequests
         /\ Request.kind = Asks[pc] /\ Request.cert = via
         /\ pc \in {"receive", "confirm"} => Request.n = disk.renewal
         /\ pc = "commit" => Request.n = disk.result
         /\ pc = "beat" => Request.n = disk.sequence
         /\ Asks[pc] # "get" => Request \in LateRequests
<1> USE DEF None
<1>1. /\ Request.kind = Asks[pc] /\ Request.cert = via
      /\ pc \in {"receive", "confirm"} => Request.n = disk.renewal
      /\ pc = "commit" => Request.n = disk.result
      /\ pc = "beat" => Request.n = disk.sequence
      /\ pc \in {"get", "enroll", "recheck", "reset"} => Request.n = 0
      /\ Request = [kind |-> Request.kind, cert |-> Request.cert, n |-> Request.n]
  BY AskedKinds DEF Request
<1>2. via \in Cert
  BY AskedKinds DEF IInv, Places
<1>3. /\ disk.renewal \in (Cert \ {0}) \cup {None} /\ disk.result \in (Cert \ {0}) \cup {None}
      /\ disk.sequence \in 0..MaxCounter
  BY DEF IInv, Good, DiskType
<1>4. pc \in {"receive", "confirm"} => disk.renewal \in Cert \ {0}
  BY <1>3 DEF IInv, Places
<1>5. pc = "commit" => disk.result \in Cert \ {0}
  BY <1>3 DEF IInv, Places
<1>6. CASE pc \in {"get", "recheck", "reset"}
  BY <1>1, <1>2, <1>6, AskedKinds DEF GetRequests
<1>7. CASE pc = "enroll"
  BY <1>1, <1>2, <1>7, AskedKinds DEF LateRequests
<1>8. CASE pc \in {"receive", "confirm"}
  BY <1>1, <1>2, <1>4, <1>8, AskedKinds DEF LateRequests
<1>9. CASE pc = "commit"
  BY <1>1, <1>2, <1>5, <1>9, AskedKinds DEF LateRequests
<1>10. CASE pc = "beat"
  BY <1>1, <1>2, <1>3, <1>10, AskedKinds DEF LateRequests
<1>. QED
  BY <1>6, <1>7, <1>8, <1>9, <1>10, AskedKinds

ServerOrder ==
  /\ server.active <= server.newest
  /\ server.stage # "done" => server.active < server.newest

\* One received request: what it may change, and what a grant says.
LEMMA ReceiveEffect ==
  ASSUME ServerType, ServerOrder, NEW r \in LateRequests \cup GetRequests,
         r.kind = "commit" => r.n <= server.newest, Receive(r)
  PROVE  /\ ServerType' /\ ServerOrder'
         /\ server.newest <= server'.newest
         /\ server.registered => server'.registered
         /\ r.kind # "enroll" => server'.registered = server.registered
         /\ r.kind # "commit" => server'.active = server.active
         /\ r.kind # "renew" => server'.newest = server.newest
         /\ server'.active # server.active =>
              /\ server'.active = r.n /\ r.n = server.newest /\ r.n # 0
              /\ server.stage = "open" /\ server'.stage = "done"
         /\ server'.newest # server.newest => server'.newest = r.n
         /\ server'.newest = server.newest /\ server'.stage = "open" => server.stage = "open"
         /\ Grants(r) =>
              /\ r.kind # "commit" => r.cert = server.active
              /\ r.kind = "get" => server.registered
              /\ r.kind = "enroll" => ~server.registered /\ server'.registered
              /\ r.kind = "commit" => server'.active = r.n
              /\ r.kind = "renew" => server'.newest = r.n
         /\ Gone(r) => UNCHANGED server /\ server.newest = r.n /\ server.stage = "over"
<1>c. r.kind \in {"renew", "commit"} => r.n \in Cert
  BY DEF LateRequests, GetRequests
<1>d. /\ server = [registered |-> server.registered, active |-> server.active,
                   newest |-> server.newest, stage |-> server.stage,
                   sequence |-> server.sequence, revoked |-> server.revoked]
      /\ server.active \in Cert /\ server.newest \in Cert /\ server.sequence \in 0..MaxCounter
      /\ server.registered \in BOOLEAN /\ server.revoked \in BOOLEAN
  BY DEF ServerType
<1>a. /\ r.kind \in {"get", "enroll", "beat", "renew", "commit"} /\ r.n \in Nat
      /\ r.kind = "beat" => r.n \in 0..MaxCounter
      /\ r.kind \in {"renew", "commit"} => r.n \in 1..MaxRequests
  BY GuestAssumption DEF LateRequests, GetRequests, Cert
<1>b. /\ server.active \in Nat /\ server.newest \in Nat /\ server.sequence \in Nat
      /\ server.active \in Cert /\ server.newest \in Cert
      /\ server.registered \in BOOLEAN /\ server.revoked \in BOOLEAN
  BY GuestAssumption DEF ServerType, Cert
<1>1. CASE /\ ~Grants(r) \/ r.kind = "get" \/ (r.kind = "commit" /\ server.active = r.n)
           /\ UNCHANGED server
  BY <1>1, <1>a, <1>b DEF ServerType, ServerOrder, Grants, Gone
<1>2. CASE Grants(r) /\ r.kind = "enroll" /\ server' = [server EXCEPT !.registered = TRUE]
  <2>1. ServerType'
    BY <1>2, <1>b DEF ServerType
  <2>2. server'.registered = TRUE /\ server'.active = server.active
        /\ server'.newest = server.newest /\ server'.stage = server.stage
    BY <1>2 DEF ServerType
  <2>. QED
    BY <2>1, <2>2, <1>2, <1>a, <1>b DEF ServerOrder, Grants, Gone
<1>3. CASE Grants(r) /\ r.kind = "beat" /\ server' = [server EXCEPT !.sequence = r.n]
  <2>1. ServerType'
    BY <1>3, <1>a, <1>b DEF ServerType
  <2>2. server'.registered = server.registered /\ server'.active = server.active
        /\ server'.newest = server.newest /\ server'.stage = server.stage
    BY <1>3 DEF ServerType
  <2>. QED
    BY <2>1, <2>2, <1>3, <1>a, <1>b DEF ServerOrder, Grants, Gone
<1>4. CASE Grants(r) /\ r.kind = "renew" /\ server' = [server EXCEPT !.newest = r.n, !.stage = "open"]
  <2>1. ServerType'
    BY <1>4, <1>c, <1>d DEF ServerType
  <2>2. server'.registered = server.registered /\ server'.active = server.active
        /\ server'.newest = r.n /\ server'.stage = "open"
    BY <1>4 DEF ServerType
  <2>. QED
    BY <2>1, <2>2, <1>4, <1>a, <1>b DEF ServerOrder, Grants, Gone
<1>5. CASE Grants(r) /\ r.kind = "commit" /\ server.active # r.n
           /\ server' = [server EXCEPT !.active = r.n, !.stage = "done"]
  <2>1. ServerType'
    BY <1>5, <1>c, <1>d DEF ServerType
  <2>2. server'.registered = server.registered /\ server'.active = r.n
        /\ server'.newest = server.newest /\ server'.stage = "done"
    BY <1>5 DEF ServerType
  <2>. QED
    BY <2>1, <2>2, <1>5, <1>a, <1>b DEF ServerOrder, Grants, Gone
<1>. QED
  BY <1>1, <1>2, <1>3, <1>4, <1>5 DEF Receive


-----------------------------------------------------------------------------
(* The server's part of the invariant, for the requests that it may receive.  *)

\* What is true of a request that was sent, whenever it arrives.
Sendable(r) ==
  /\ r \in LateRequests \cup GetRequests
  /\ r.kind = "commit" => r.n <= server.newest
  /\ ~server.registered => r.kind \in {"enroll", "get"}
  /\ disk.binding = None /\ disk.attempted /\ server.active = 0 => r.kind \in {"enroll", "get"}
  /\ Candidate(r, disk, server)

LEMMA LateSendable ==
  ASSUME IInv, NEW r \in late
  PROVE  Sendable(r)
BY DEF IInv, OtherTypes, Good, Sendable, Fits, InOrder, Enrolling, Unused, OneCandidate

LEMMA RequestSendable ==
  ASSUME IInv, pc \in DOMAIN Asks
  PROVE  Sendable(Request)
<1>1. Asks[pc] \notin {"enroll", "get"} => disk.binding # None
  BY AskedKinds DEF IInv, Places, Good, DiskShape
<1>2. Asks[pc] = "commit" => pc = "commit" /\ disk.result <= server.newest
  BY AskedKinds DEF IInv, Good, Fits, InOrder
<1>3. disk.binding # None => server.registered
  BY DEF IInv, Good, Fits, Enrolling
<1>. QED
  BY <1>1, <1>2, <1>3, RequestShape DEF Sendable, Candidate

LEMMA ServerParts ==
  ASSUME IInv
  PROVE  ServerType /\ ServerOrder
BY DEF IInv, Good, Fits, InOrder, ServerOrder

\* A request that arrives keeps the server's record fitting, whether or not the number
\* of a heartbeat is sent with it.
LEMMA Received ==
  ASSUME IInv, NEW r, Sendable(r), Receive(r),
         NEW waiting \in SUBSET late, NEW top,
         top = lastSent \/ disk.binding # None
  PROVE  /\ ServerType'
         /\ Fits(disk, server', waiting, top)
         /\ IsPast(disk, server) => IsPast(disk, server')
<1> USE DEF None
<1>1. /\ ServerType /\ ServerOrder
      /\ r \in LateRequests \cup GetRequests
      /\ r.kind = "commit" => r.n <= server.newest
  BY ServerParts DEF Sendable
<1>2. /\ server.newest \in Nat /\ server.active \in Nat
      /\ server'.newest \in Nat /\ server'.active \in Nat
      /\ ServerType' /\ ServerOrder'
  BY <1>1, ReceiveEffect, GuestAssumption DEF ServerType, Cert
<1>3. /\ disk.result \in Int /\ disk.renewal \in Int /\ late \subseteq LateRequests
      /\ Fits(disk, server, late, lastSent)
  BY GuestAssumption DEF IInv, OtherTypes, Good, DiskType, Cert
<1>4. \A q \in late : q.n \in Nat
  BY <1>3, GuestAssumption DEF LateRequests, Cert
<1>5. r.n \in Nat
  BY <1>1, GuestAssumption DEF LateRequests, GetRequests, Cert
<1>6. InOrder(disk, server', waiting)
  <2>1. server.newest <= server'.newest
    BY <1>1, ReceiveEffect
  <2>. QED
    BY <2>1, <1>2, <1>3, <1>4 DEF Fits, InOrder, ServerOrder
<1>7. Enrolling(disk, server', waiting, top)
  <2>1. /\ server.registered => server'.registered
        /\ r.kind # "enroll" => server'.registered = server.registered
        /\ r.kind # "commit" => server'.active = server.active
        /\ r.kind # "renew" => server'.newest = server.newest
        /\ server'.active # server.active => server'.active # 0
    BY <1>1, <1>5, ReceiveEffect
  <2>. QED
    BY <2>1, <1>3 DEF Sendable, Fits, Enrolling, Unused
<1>8. OneCandidate(disk, server', waiting)
  <2>1. /\ server'.newest # server.newest => server'.newest = r.n /\ r.kind = "renew"
        /\ server'.newest = server.newest /\ server'.stage = "open" => server.stage = "open"
        /\ server.newest <= server'.newest
    BY <1>1, ReceiveEffect
  <2>. QED
    BY <2>1, <1>2, <1>3, <1>4 DEF Fits, InOrder, OneCandidate, Candidate
<1>9. Holds(disk, server')
  <2>1. server'.active # server.active =>
          /\ r.kind = "commit" /\ server'.active = r.n /\ r.n = server.newest
          /\ server.stage = "open"
    BY <1>1, ReceiveEffect
  <2>. QED
    BY <2>1, <1>3 DEF Sendable, Fits, Holds, Candidate
<1>10. IsPast(disk, server) => IsPast(disk, server')
  <2>1. /\ server'.newest = server.newest /\ server'.stage = "open" => server.stage = "open"
        /\ server.newest <= server'.newest
    BY <1>1, ReceiveEffect
  <2>. QED
    BY <2>1, <1>2, <1>3 DEF IsPast
<1>. QED
  BY <1>2, <1>6, <1>7, <1>8, <1>9, <1>10 DEF Fits

-----------------------------------------------------------------------------
(* The parts of the invariant that several actions keep in the same way.      *)

LEMMA InvariantImplies ==
  ASSUME IInv
  PROVE  TypeOK /\ FreshSequence /\ SavedStateOpens /\ HoldsAuthority
<1>1. TypeOK
  <2>1. LateRequests \subseteq Requests
    BY GuestAssumption DEF LateRequests, Requests, Cert
  <2>. QED
    BY <2>1 DEF IInv, ProcessType, ServerType, OtherTypes, Good, DiskType, TypeOK
<1>2. FreshSequence
  BY DEF IInv, Places
<1>3. SavedStateOpens
  BY DEF IInv, Good, DiskShape, SavedStateOpens
<1>4. HoldsAuthority
  BY DEF IInv, Good, Fits, Holds, HoldsAuthority
<1>. QED
  BY <1>1, <1>2, <1>3, <1>4

\* A process that has ended needs no more than a good state file.
LEMMA Stopped ==
  ASSUME Stop, ServerType', OtherTypes', Good(disk', server', late', lastSent')
  PROVE  IInv'
<1>1. ProcessType' /\ Places'
  BY DEF Stop, ProcessType, Places, Locations, Asks, FreshSequence, None
<1>. QED
  BY <1>1 DEF IInv

\* A step of the client alone that leaves the state file as it is.
LEMMA SameDisk ==
  ASSUME IInv, UNCHANGED <<disk, server, late, lastSent>>
  PROVE  Good(disk', server', late', lastSent') /\ ServerType'
BY DEF IInv, ServerType

\* A request of the client arrived and was answered, or the answer was lost.
LEMMA Exchanged ==
  ASSUME IInv, NEW l \in DOMAIN Asks, pc = l, Receive(Request),
         lastSent' = IF l = "beat" THEN disk.sequence ELSE lastSent,
         UNCHANGED <<requests, lapsed, faulty, late>>, clientOver' \in BOOLEAN
  PROVE  /\ ServerType' /\ OtherTypes'
         /\ Good(disk, server', late', lastSent')
         /\ IsPast(disk, server) => IsPast(disk, server')
<1>1. /\ disk.sequence \in 0..MaxCounter /\ disk \in DiskType /\ DiskShape(disk)
      /\ disk.binding # None => lastSent <= disk.sequence
  BY DEF IInv, Good, DiskType
<1>2. l = "beat" => disk.binding # None
  BY DEF IInv, Places
<1>3. OtherTypes'
  BY <1>1 DEF IInv, OtherTypes
<1>4. /\ ServerType'
      /\ Fits(disk, server', late', lastSent')
      /\ IsPast(disk, server) => IsPast(disk, server')
  <2>1. Sendable(Request)
    BY RequestSendable
  <2>2. lastSent' = lastSent \/ disk.binding # None
    BY <1>2
  <2>3. late' \in SUBSET late
    OBVIOUS
  <2>. QED
    BY <2>1, <2>2, <2>3, Received
<1>5. disk.binding # None => lastSent' <= disk.sequence
  BY <1>1, GuestAssumption
<1>. QED
  BY <1>1, <1>3, <1>4, <1>5 DEF Good

-----------------------------------------------------------------------------
(* The steps of the client between two requests.                            *)

LEMMA BootKeeps ==
  ASSUME IInv, Boot
  PROVE  IInv'
<1>1. Good(disk', server', late', lastSent') /\ ServerType' /\ OtherTypes'
  BY SameDisk DEF Boot, IInv, OtherTypes, process
<1>2. ProcessType' /\ Places'
  BY AskedKinds, GuestAssumption DEF Boot, IInv, Good, DiskType, DiskShape, ProcessType, Places,
     Locations, FreshSequence, IsPast, None, Cert, Goto
<1>. QED
  BY <1>1, <1>2 DEF IInv

LEMMA BeginKeeps ==
  ASSUME IInv, Begin
  PROVE  IInv'
<1>1. Good(disk', server', late', lastSent') /\ ServerType' /\ OtherTypes'
  BY SameDisk DEF Begin, IInv, OtherTypes, process
<1>2. ProcessType' /\ Places'
  BY AskedKinds, GuestAssumption DEF Begin, IInv, Good, DiskType, DiskShape, ProcessType, Places,
     Locations, FreshSequence, IsPast, None, Cert, Goto
<1>. QED
  BY <1>1, <1>2 DEF IInv

LEMMA BeginHeartbeatKeeps ==
  ASSUME IInv, BeginHeartbeat
  PROVE  IInv'
<1>1. Good(disk', server', late', lastSent') /\ ServerType' /\ OtherTypes'
  BY SameDisk DEF BeginHeartbeat, IInv, OtherTypes, process
<1>2. ProcessType' /\ Places'
  BY AskedKinds, GuestAssumption DEF BeginHeartbeat, IInv, Good, DiskType, DiskShape,
     ProcessType, Places,
     Locations, FreshSequence, IsPast, None, Cert, Goto
<1>. QED
  BY <1>1, <1>2 DEF IInv

LEMMA ResumeRenewalKeeps ==
  ASSUME IInv, ResumeRenewal
  PROVE  IInv'
<1>1. Good(disk', server', late', lastSent') /\ ServerType' /\ OtherTypes'
  BY SameDisk DEF ResumeRenewal, IInv, OtherTypes, process
<1>2. ProcessType' /\ Places'
  BY AskedKinds, GuestAssumption DEF ResumeRenewal, IInv, Good, DiskType, DiskShape,
     ProcessType, Places,
     Locations, FreshSequence, IsPast, None, Cert, Goto
<1>. QED
  BY <1>1, <1>2 DEF IInv

LEMMA RenewExpiredKeeps ==
  ASSUME IInv, RenewExpired
  PROVE  IInv'
<1>1. Good(disk', server', late', lastSent') /\ ServerType' /\ OtherTypes'
  BY SameDisk DEF RenewExpired, IInv, OtherTypes
<1>2. CASE Stop
  BY <1>1, <1>2, Stopped
<1>3. CASE ~Stop
  <2>1. ProcessType' /\ Places'
    BY <1>3, AskedKinds, GuestAssumption DEF RenewExpired, Use, IInv, Good, DiskType,
       DiskShape, ProcessType,
       Places, Locations, FreshSequence, IsPast, None, Cert
  <2>. QED
    BY <1>1, <2>1 DEF IInv
<1>. QED
  BY <1>2, <1>3

LEMMA AdoptKeeps ==
  ASSUME IInv, Adopt
  PROVE  IInv'
<1>1. Good(disk', server', late', lastSent') /\ ServerType' /\ OtherTypes'
  BY SameDisk DEF Adopt, IInv, OtherTypes
<1>2. CASE Stop
  BY <1>1, <1>2, Stopped
<1>3. CASE ~Stop
  <2>1. ProcessType' /\ Places'
    BY <1>3, AskedKinds, GuestAssumption DEF Adopt, Use, IInv, Good, DiskType, DiskShape,
       ProcessType,
       Places, Locations, FreshSequence, IsPast, None, Cert
  <2>. QED
    BY <1>1, <2>1 DEF IInv
<1>. QED
  BY <1>2, <1>3

LEMMA PrepareRenewalKeeps ==
  ASSUME IInv, PrepareRenewal
  PROVE  IInv'
<1>. DEFINE new == [disk EXCEPT !.renewal = requests + 1]
<1>1. /\ requests + 1 \in Cert \ {0} /\ requests' = requests + 1
      /\ disk.binding # None /\ disk.renewal = None /\ disk.result = None
  BY GuestAssumption DEF PrepareRenewal, IInv, OtherTypes, Places, Good, DiskShape, Cert
<1>2. Good(disk, server, late, lastSent)
  BY DEF IInv
<1>3. Good(new, server, late, lastSent)
  <2>1. /\ new.binding = disk.binding /\ new.sequence = disk.sequence
        /\ new.attempted = disk.attempted /\ new.cert = disk.cert
        /\ new.renewal = requests + 1 /\ new.result = None
    BY <1>1, <1>2 DEF Good, DiskType
  <2>2. new \in DiskType
    BY <1>1, <1>2 DEF Good, DiskType
  <2>. HIDE DEF new
  <2>. QED
    BY <1>1, <1>2, <2>1, <2>2 DEF Good, DiskShape, Fits, InOrder, Enrolling, OneCandidate,
       Candidate, Holds
<1>4. ServerType' /\ OtherTypes'
  BY <1>1 DEF PrepareRenewal, Save, IInv, OtherTypes, ServerType
<1>5. CASE Stop
  BY <1>2, <1>3, <1>4, <1>5, Stopped DEF PrepareRenewal, Save
<1>6. CASE disk' = new /\ Goto("receive")
  <2>1. new.renewal # None /\ new.result = None /\ new.binding = disk.binding
    BY <1>1, <1>2, GuestAssumption DEF Good, DiskType, None, Cert
  <2>2. ProcessType' /\ Places'
    BY <1>6, <2>1 DEF PrepareRenewal, Goto, IInv, ProcessType, Places, Locations, Asks,
       FreshSequence
  <2>. QED
    BY <1>3, <1>4, <1>6, <2>2 DEF IInv, PrepareRenewal
<1>. QED
  BY <1>5, <1>6 DEF PrepareRenewal, Save

LEMMA NumberKeeps ==
  ASSUME IInv, Number
  PROVE  IInv'
<1>. DEFINE new == [disk EXCEPT !.sequence = @ + 1]
<1>1. Good(disk, server, late, lastSent)
  BY DEF IInv
<1>2. ServerType' /\ OtherTypes'
  BY DEF Number, IInv, OtherTypes, ServerType
<1>3. CASE Stop /\ UNCHANGED disk
  BY <1>1, <1>2, <1>3, Stopped DEF Number
<1>4. CASE disk.binding # None /\ disk.sequence < MaxCounter /\ Save(new, "beat")
  <2>1. disk.sequence + 1 \in 0..MaxCounter /\ lastSent < disk.sequence + 1
    BY <1>1, <1>4, GuestAssumption DEF Good, DiskType, IInv, OtherTypes
  <2>2. /\ new.binding = disk.binding /\ new.sequence = disk.sequence + 1
        /\ new.attempted = disk.attempted /\ new.cert = disk.cert
        /\ new.renewal = disk.renewal /\ new.result = disk.result
    BY <1>1 DEF Good, DiskType
  <2>3. new \in DiskType
    BY <1>1, <2>1 DEF Good, DiskType
  <2>. HIDE DEF new
  <2>4. Good(new, server, late, lastSent)
    BY <1>1, <1>4, <2>1, <2>2, <2>3, GuestAssumption DEF IInv, OtherTypes, Good, DiskShape,
       Fits, InOrder, Enrolling, OneCandidate,
       Candidate, Holds
  <2>5. CASE Stop
    BY <1>1, <1>2, <1>4, <2>4, <2>5, Stopped DEF Number, Save
  <2>6. CASE disk' = new /\ Goto("beat")
    <3>1. ProcessType' /\ Places'
      BY <2>1, <2>2, <2>6 DEF Number, Goto, IInv, ProcessType, Places, Locations, Asks,
         FreshSequence
    <3>. QED
      BY <1>2, <2>4, <2>6, <3>1 DEF IInv, Number
  <2>. QED
    BY <1>4, <2>5, <2>6 DEF Save
<1>. QED
  BY <1>1, <1>3, <1>4, GuestAssumption DEF Number, Good, DiskType

-----------------------------------------------------------------------------
(* The answers.                                                             *)

\* A binding is accepted from the server that has it for the guest's certificate.
LEMMA Accepted ==
  ASSUME IInv, Accept, pc # "down", ServerType', OtherTypes',
         Good(disk, server', late', lastSent'), server.active \in Cert,
         disk.binding = None =>
           disk.attempted /\ server.active = 0 /\ server'.active = 0 /\ server'.registered
  PROVE  IInv'
<1>. DEFINE new == [disk EXCEPT !.binding = server.active]
<1>1. CASE Stop /\ UNCHANGED disk
  BY <1>1, Stopped
<1>2. CASE disk.binding \in {None, server.active}
  <2>1. /\ new \in DiskType /\ new.binding = server.active /\ new.sequence = disk.sequence
        /\ new.attempted = disk.attempted /\ new.cert = disk.cert
        /\ new.renewal = disk.renewal /\ new.result = disk.result
    BY DEF Good, DiskType
  <2>2. new.binding # None
    BY <2>1, GuestAssumption DEF Cert, None
  <2>. HIDE DEF new
  <2>3. Good(new, server', late', lastSent')
    <3>1. CASE disk.binding = server.active
      BY <3>1, <2>1, <2>2 DEF Good, DiskShape, Fits, InOrder, Enrolling, Unused,
       OneCandidate, Candidate, Holds
    <3>2. CASE disk.binding = None
      <4>1. Unused(server', late', lastSent')
        BY <3>2 DEF Good, Fits, Enrolling
      <4>2. disk.sequence = 0 /\ disk.cert = 0 /\ lastSent' = 0
        BY <3>2, <4>1 DEF Good, DiskShape, Unused
      <4>. QED
        BY <3>2, <4>1, <4>2, <2>1, <2>2 DEF Good, DiskShape, Fits, InOrder, Enrolling, Unused,
       OneCandidate, Candidate, Holds
    <3>. QED
      BY <1>2, <3>1, <3>2
  <2>4. CASE Stop /\ disk' \in {disk, new}
    BY <2>3, <2>4, Stopped
  <2>5. CASE disk' = new /\ pc' = "heartbeat" /\ call' = "heartbeat" /\ UNCHANGED <<via, failures>>
    <3>1. ProcessType' /\ Places'
      BY <2>2, <2>5 DEF IInv, ProcessType, Places, Locations, Asks, FreshSequence
    <3>. QED
      BY <2>3, <2>5, <3>1 DEF IInv
  <2>. QED
    BY <1>2, <2>4, <2>5 DEF Accept, new
<1>. QED
  BY <1>1, <1>2 DEF Accept

\* A file that is saved, when the new one is as good as the old one.
LEMMA Saved ==
  ASSUME ServerType', OtherTypes', NEW new, NEW l, Save(new, l),
         Good(disk, server', late', lastSent'), Good(new, server', late', lastSent'),
         disk' = new /\ Goto(l) => ProcessType' /\ Places'
  PROVE  IInv'
<1>1. CASE Stop
  BY <1>1, Stopped DEF Save
<1>2. CASE disk' = new /\ Goto(l)
  BY <1>2 DEF IInv
<1>. QED
  BY <1>1, <1>2 DEF Save

LEMMA GetAnsweredKeeps ==
  ASSUME IInv, GetAnswered
  PROVE  IInv'
<1>. DEFINE new == [disk EXCEPT !.attempted = TRUE]
<1>1. /\ pc = "get" /\ "get" \in DOMAIN Asks /\ Receive(Request)
      /\ via = disk.cert /\ disk.renewal = None
      /\ Request.kind = "get" /\ Request.cert = via
  BY AskedKinds, RequestShape DEF GetAnswered, Exchange, IInv, Places
<1>2. /\ ServerType' /\ OtherTypes' /\ Good(disk, server', late', lastSent')
  BY <1>1, Exchanged DEF GetAnswered, Exchange, IInv, OtherTypes
<1>3. server' = server /\ server.active \in Cert /\ lastSent' = lastSent /\ late' = late
  BY <1>1 DEF Receive, GetAnswered, Exchange, IInv, ServerType
<1>4. CASE Stop /\ UNCHANGED disk
  BY <1>2, <1>4, Stopped
<1>5. CASE Grants(Request) /\ ~(disk.binding = None /\ ~disk.attempted) /\ Accept
  <2>1. disk.binding = None => disk.cert = 0 /\ disk.attempted
    BY <1>2, <1>5 DEF Good, DiskShape, DiskType
  <2>2. server.active = via /\ server.registered
    BY <1>1, <1>5 DEF Grants
  <2>. QED
    BY <1>1, <1>2, <1>3, <1>5, <2>1, <2>2, Accepted
<1>6. CASE /\ ~Grants(Request) /\ disk.binding = None /\ ~server.revoked
           /\ Save(new, "enroll")
  <2>1. /\ new \in DiskType /\ new.binding = disk.binding /\ new.sequence = disk.sequence
        /\ new.attempted = TRUE /\ new.cert = disk.cert
        /\ new.renewal = disk.renewal /\ new.result = disk.result
    BY <1>2 DEF Good, DiskType
  <2>2. disk.cert = 0
    BY <1>2, <1>6 DEF Good, DiskShape
  <2>3. server.active = 0 => ~server.registered
    BY <1>1, <1>6, <2>2 DEF Grants
  <2>4. Good(new, server', late', lastSent')
    BY <1>2, <1>3, <1>6, <2>1, <2>2, <2>3 DEF Good, DiskShape, Fits, InOrder, Enrolling, Unused,
       OneCandidate, Candidate, Holds
  <2>5. ASSUME disk' = new, Goto("enroll")
        PROVE  ProcessType' /\ Places'
    BY <1>1, <1>6, <2>1, <2>5 DEF Goto, IInv, ProcessType, Places, Locations, Asks, FreshSequence
  <2>. HIDE DEF new
  <2>. QED
    BY <1>2, <1>6, <2>4, <2>5, Saved
<1>. QED
  BY <1>4, <1>5, <1>6 DEF GetAnswered

LEMMA EnrollAnsweredKeeps ==
  ASSUME IInv, EnrollAnswered
  PROVE  IInv'
<1>1. /\ pc = "enroll" /\ "enroll" \in DOMAIN Asks /\ Receive(Request)
      /\ via = disk.cert /\ disk.binding = None /\ disk.attempted
      /\ Request.kind = "enroll" /\ Request.cert = via
  BY AskedKinds, RequestShape DEF EnrollAnswered, Exchange, IInv, Places
<1>2. /\ ServerType' /\ OtherTypes' /\ Good(disk, server', late', lastSent')
  BY <1>1, Exchanged DEF EnrollAnswered, Exchange, IInv, OtherTypes
<1>3. CASE Grants(Request) /\ Accept
  <2>1. server.active = via /\ server.active \in Cert /\ disk.cert = 0
    BY <1>1, <1>2, <1>3 DEF Grants, Good, DiskShape, IInv, ServerType
  <2>2. server' = [server EXCEPT !.registered = TRUE]
    BY <1>1, <1>3 DEF Receive
  <2>3. server'.registered /\ server'.active = server.active
    BY <2>2 DEF IInv, ServerType
  <2>. QED
    BY <1>1, <1>2, <1>3, <2>1, <2>3, Accepted
<1>4. CASE Goto("recheck") /\ UNCHANGED disk
  <2>1. ProcessType' /\ Places'
    BY <1>1, <1>4 DEF Goto, IInv, ProcessType, Places, Locations, Asks, FreshSequence
  <2>. QED
    BY <1>2, <1>4, <2>1 DEF IInv
<1>. QED
  BY <1>3, <1>4 DEF EnrollAnswered

LEMMA RecheckAnsweredKeeps ==
  ASSUME IInv, RecheckAnswered
  PROVE  IInv'
<1>1. /\ pc = "recheck" /\ "recheck" \in DOMAIN Asks /\ Receive(Request)
      /\ via = disk.cert /\ disk.binding = None /\ disk.attempted
      /\ Request.kind = "get" /\ Request.cert = via
  BY AskedKinds, RequestShape DEF RecheckAnswered, Exchange, IInv, Places
<1>2. /\ ServerType' /\ OtherTypes' /\ Good(disk, server', late', lastSent')
  BY <1>1, Exchanged DEF RecheckAnswered, Exchange, IInv, OtherTypes
<1>3. CASE Grants(Request) /\ Accept
  <2>1. server.active = via /\ server.active \in Cert /\ disk.cert = 0 /\ server.registered
    BY <1>1, <1>2, <1>3 DEF Grants, Good, DiskShape, IInv, ServerType
  <2>2. server' = server
    BY <1>1 DEF Receive
  <2>. QED
    BY <1>1, <1>2, <1>3, <2>1, <2>2, Accepted
<1>4. CASE Stop /\ UNCHANGED disk
  BY <1>2, <1>4, Stopped
<1>. QED
  BY <1>3, <1>4 DEF RecheckAnswered

\* The request is past its time: the old certificate is used for the reset.
LEMMA ToReset ==
  ASSUME IInv, Use(disk.cert, "reset"), UNCHANGED disk, disk.renewal # None,
         ServerType', OtherTypes', Good(disk, server', late', lastSent'),
         IsPast(disk, server')
  PROVE  IInv'
<1>1. CASE Stop
  BY <1>1, Stopped
<1>2. CASE pc' = "reset" /\ via' = disk.cert /\ UNCHANGED <<call, failures>>
  <2>1. ProcessType' /\ Places'
    BY <1>2 DEF IInv, Good, DiskType, ProcessType, Places, Locations, Asks, FreshSequence
  <2>. QED
    BY <2>1 DEF IInv
<1>. QED
  BY <1>1, <1>2 DEF Use

LEMMA GoneIsPast ==
  ASSUME IInv, pc \in {"receive", "confirm", "commit"}, Receive(Request), Gone(Request)
  PROVE  server' = server /\ IsPast(disk, server)
<1>1. pc \in DOMAIN Asks /\ Request.n = disk.renewal
  BY AskedKinds, RequestShape DEF IInv, Places, Good, DiskShape
<1>2. /\ ServerType /\ ServerOrder /\ Request \in LateRequests \cup GetRequests
      /\ Request.kind = "commit" => Request.n <= server.newest
  BY <1>1, ServerParts, RequestSendable DEF Sendable
<1>3. UNCHANGED server /\ server.newest = Request.n /\ server.stage = "over"
  BY <1>2, ReceiveEffect
<1>. QED
  BY <1>1, <1>3, GuestAssumption DEF IsPast, IInv, ServerType, Cert

LEMMA ReceiveAnsweredKeeps ==
  ASSUME IInv, ReceiveAnswered
  PROVE  IInv'
<1>. DEFINE new == [disk EXCEPT !.result = disk.renewal]
<1>1. /\ pc = "receive" /\ "receive" \in DOMAIN Asks /\ Receive(Request)
      /\ disk.renewal # None /\ disk.result = None
      /\ Request.kind = "renew" /\ Request.n = disk.renewal
  BY AskedKinds, RequestShape DEF ReceiveAnswered, Exchange, IInv, Places
<1>2. /\ ServerType' /\ OtherTypes' /\ Good(disk, server', late', lastSent')
      /\ IsPast(disk, server) => IsPast(disk, server')
  BY <1>1, Exchanged DEF ReceiveAnswered, Exchange, IInv, OtherTypes
<1>3. CASE Grants(Request) /\ Save(new, "adopt")
  <2>1. /\ disk.renewal \in Cert \ {0} /\ new \in DiskType /\ new.binding = disk.binding
        /\ new.sequence = disk.sequence /\ new.attempted = disk.attempted
        /\ new.cert = disk.cert /\ new.renewal = disk.renewal /\ new.result = disk.renewal
    BY <1>1, <1>2 DEF Good, DiskType
  <2>2. server'.newest = disk.renewal /\ server'.active \in Cert /\ disk.renewal \in Nat
    <3>1. /\ ServerType /\ ServerOrder /\ Request \in LateRequests \cup GetRequests
          /\ Request.kind = "commit" => Request.n <= server.newest
      BY <1>1, ServerParts, RequestSendable DEF Sendable
    <3>. QED
      BY <3>1, <1>1, <1>2, <1>3, <2>1, ReceiveEffect, GuestAssumption DEF ServerType, Cert
  <2>3. Good(new, server', late', lastSent')
    BY <1>1, <1>2, <2>1, <2>2, GuestAssumption DEF Cert, None, Good, DiskShape, Fits, InOrder,
       Enrolling, Unused,
       OneCandidate, Candidate, Holds
  <2>4. ASSUME disk' = new, Goto("adopt")
        PROVE  ProcessType' /\ Places'
    BY <1>1, <2>1, <2>4 DEF Goto, IInv, ProcessType, Places, Locations, Asks, FreshSequence
  <2>. HIDE DEF new
  <2>. QED
    BY <1>2, <1>3, <2>3, <2>4, Saved
<1>4. CASE Gone(Request) /\ Use(disk.cert, "reset") /\ UNCHANGED disk
  BY <1>1, <1>2, <1>4, GoneIsPast, ToReset
<1>5. CASE Stop /\ UNCHANGED disk
  BY <1>2, <1>5, Stopped
<1>. QED
  BY <1>3, <1>4, <1>5 DEF ReceiveAnswered

\* After a renewal, whether it succeeded or not, the client goes on with its call.
LEMMA GoesOn ==
  ASSUME IInv, pc # "down", Goto(AfterRenewal), disk'.binding # None, disk'.renewal = None,
         disk'.result = None, via = disk'.cert
  PROVE  ProcessType' /\ Places'
BY DEF Goto, AfterRenewal, IInv, ProcessType, Places, Locations, Asks, FreshSequence

LEMMA CommitAnsweredKeeps ==
  ASSUME IInv, CommitAnswered
  PROVE  IInv'
<1>1. /\ pc = "commit" /\ "commit" \in DOMAIN Asks /\ Receive(Request)
      /\ disk.renewal # None /\ disk.result # None /\ via = disk.result
      /\ Request.kind = "commit" /\ Request.n = disk.result
  BY AskedKinds, RequestShape DEF CommitAnswered, Exchange, IInv, Places
<1>2. /\ ServerType' /\ OtherTypes' /\ Good(disk, server', late', lastSent')
      /\ IsPast(disk, server) => IsPast(disk, server')
  BY <1>1, Exchanged DEF CommitAnswered, Exchange, IInv, OtherTypes
<1>3. CASE Grants(Request) /\ Save(Renewed, AfterRenewal)
  <2>1. /\ disk.result \in Cert \ {0} /\ Renewed \in DiskType /\ Renewed.binding = disk.result
        /\ Renewed.sequence = disk.sequence /\ Renewed.attempted = disk.attempted
        /\ Renewed.cert = disk.result /\ Renewed.renewal = None /\ Renewed.result = None
    BY <1>1, <1>2 DEF Good, DiskType, Renewed
  <2>2. /\ server'.active = disk.result /\ ServerOrder'
    <3>1. /\ ServerType /\ ServerOrder /\ Request \in LateRequests \cup GetRequests
          /\ Request.kind = "commit" => Request.n <= server.newest
      BY <1>1, ServerParts, RequestSendable DEF Sendable
    <3>. QED
      BY <3>1, <1>1, <1>3, ReceiveEffect
  <2>3. Good(Renewed, server', late', lastSent')
    <3>1. disk.binding # None /\ disk.attempted
      BY <1>1, <1>2 DEF Good, DiskShape
    <3>2. server'.newest \in Nat /\ server'.active \in Nat /\ disk.result \in Nat
          /\ disk.result # None
      BY <1>2, <2>1, GuestAssumption DEF ServerType, Cert, None
    <3>. QED
      BY <1>2, <2>1, <2>2, <3>1, <3>2 DEF ServerOrder, None, Good, DiskShape, Fits, InOrder,
         Enrolling, Unused,
       OneCandidate, Candidate, Holds
  <2>4. ASSUME disk' = Renewed, Goto(AfterRenewal)
        PROVE  ProcessType' /\ Places'
    BY <1>1, <2>1, <2>4, GoesOn
  <2>. QED
    BY <1>2, <1>3, <2>3, <2>4, Saved
<1>4. CASE Gone(Request) /\ Use(disk.cert, "reset") /\ UNCHANGED disk
  BY <1>1, <1>2, <1>4, GoneIsPast, ToReset
<1>5. CASE Stop /\ UNCHANGED disk
  BY <1>2, <1>5, Stopped
<1>. QED
  BY <1>3, <1>4, <1>5 DEF CommitAnswered

LEMMA ConfirmAnsweredKeeps ==
  ASSUME IInv, ConfirmAnswered
  PROVE  IInv'
<1>1. /\ pc = "confirm" /\ "confirm" \in DOMAIN Asks /\ Receive(Request)
      /\ disk.renewal # None /\ UNCHANGED disk
  BY AskedKinds, RequestShape DEF ConfirmAnswered, Unchanged, Exchange, IInv, Places
<1>2. /\ ServerType' /\ OtherTypes' /\ Good(disk, server', late', lastSent')
      /\ IsPast(disk, server) => IsPast(disk, server')
  BY <1>1, Exchanged DEF ConfirmAnswered, Unchanged, Exchange, IInv, OtherTypes
<1>3. CASE Gone(Request) /\ Use(disk.cert, "reset")
  BY <1>1, <1>2, <1>3, GoneIsPast, ToReset
<1>4. CASE Stop
  BY <1>1, <1>2, <1>4, Stopped
<1>. QED
  BY <1>3, <1>4 DEF ConfirmAnswered

LEMMA ResetAnsweredKeeps ==
  ASSUME IInv, ResetAnswered
  PROVE  IInv'
<1>1. /\ pc = "reset" /\ "reset" \in DOMAIN Asks /\ Receive(Request)
      /\ disk.renewal # None /\ via = disk.cert /\ IsPast(disk, server)
      /\ Request.kind = "get" /\ Request.cert = via
  BY AskedKinds, RequestShape DEF ResetAnswered, Exchange, IInv, Places
<1>2. /\ ServerType' /\ OtherTypes' /\ Good(disk, server', late', lastSent')
      /\ IsPast(disk, server) => IsPast(disk, server')
  BY <1>1, Exchanged DEF ResetAnswered, Exchange, IInv, OtherTypes
<1>3. CASE Grants(Request) /\ Save(Cleared, AfterRenewal)
  <2>1. /\ Cleared \in DiskType /\ Cleared.binding = disk.binding
        /\ Cleared.sequence = disk.sequence /\ Cleared.attempted = disk.attempted
        /\ Cleared.cert = disk.cert /\ Cleared.renewal = None /\ Cleared.result = None
    BY <1>2 DEF Good, DiskType, Cleared
  <2>2. server' = server /\ server.active = disk.cert
    BY <1>1, <1>3 DEF Receive, Grants
  <2>3. disk.binding # None
    BY <1>1, <1>2 DEF Good, DiskShape
  <2>4. Good(Cleared, server', late', lastSent')
    <3>1. server.newest \in Nat /\ \A r \in late' : r.kind = "commit" => r.n # None
      BY <1>2, GuestAssumption DEF IInv, ServerType, OtherTypes, LateRequests, Cert, None
    <3>. QED
      BY <1>1, <1>2, <2>1, <2>2, <2>3, <3>1 DEF IsPast, None, Good, DiskShape, Fits, InOrder,
         Enrolling, Unused,
       OneCandidate, Candidate, Holds
  <2>5. ASSUME disk' = Cleared, Goto(AfterRenewal)
        PROVE  ProcessType' /\ Places'
    BY <1>1, <2>1, <2>3, <2>5, GoesOn
  <2>. QED
    BY <1>2, <1>3, <2>4, <2>5, Saved
<1>4. CASE Stop /\ UNCHANGED disk
  BY <1>2, <1>4, Stopped
<1>. QED
  BY <1>3, <1>4 DEF ResetAnswered

LEMMA BeatAnsweredKeeps ==
  ASSUME IInv, BeatAnswered
  PROVE  IInv'
<1>1. /\ pc = "beat" /\ "beat" \in DOMAIN Asks /\ Receive(Request)
      /\ UNCHANGED disk
  BY AskedKinds, RequestShape DEF BeatAnswered, Unchanged, Exchange, IInv, Places
<1>2. /\ ServerType' /\ OtherTypes' /\ Good(disk, server', late', lastSent')
      /\ IsPast(disk, server) => IsPast(disk, server')
  BY <1>1, Exchanged DEF BeatAnswered, Unchanged, Exchange, IInv, OtherTypes
<1>3. CASE pc' = "heartbeat" /\ failures' = 0 /\ UNCHANGED <<call, via>>
  <2>1. ProcessType' /\ Places'
    BY <1>1, <1>3 DEF IInv, ProcessType, Places, Locations, Asks, FreshSequence
  <2>. QED
    BY <1>1, <1>2, <2>1 DEF IInv
<1>4. CASE Stop
  BY <1>1, <1>2, <1>4, Stopped
<1>. QED
  BY <1>3, <1>4 DEF BeatAnswered

\* A request that is given up while it is on its way waits among the late ones.
LEMMA GivenUp ==
  ASSUME IInv, pc \in DOMAIN Asks, Asks[pc] # "get", NEW top,
         top = lastSent \/ (disk.binding # None /\ top <= disk.sequence)
  PROVE  /\ late \cup {Request} \subseteq LateRequests
         /\ Good(disk, server, late \cup {Request}, top)
<1>1. Request \in LateRequests /\ Sendable(Request) /\ Request.kind # "get"
  BY RequestShape, RequestSendable
<1>2. Good(disk, server, late, lastSent) /\ late \subseteq LateRequests
  BY DEF IInv, OtherTypes
<1>3. InOrder(disk, server, late \cup {Request}) /\ OneCandidate(disk, server, late \cup {Request})
  BY <1>1, <1>2 DEF Sendable, Good, Fits, InOrder, OneCandidate
<1>4. Enrolling(disk, server, late \cup {Request}, top)
  BY <1>1, <1>2 DEF Sendable, Good, Fits, Enrolling, Unused
<1>. QED
  BY <1>1, <1>2, <1>3, <1>4 DEF Good, Fits

LEMMA CallFailsKeeps ==
  ASSUME IInv, NEW arrives \in {"now", "late", "never"}, CallFails(arrives)
  PROVE  IInv'
<1>1. /\ pc \in DOMAIN Asks /\ UNCHANGED <<disk, clientOver, requests, lapsed, faulty>>
      /\ lastSent' = IF pc = "beat" THEN disk.sequence ELSE lastSent
      /\ pc = "beat" => disk.binding # None
      /\ pc # "down"
  BY AskedKinds DEF CallFails, Unchanged, IInv, Places
<1>2. /\ disk \in DiskType /\ DiskShape(disk)
      /\ disk.binding # None => lastSent <= disk.sequence
      /\ disk.sequence \in 0..MaxCounter
  BY DEF IInv, Good, DiskType
<1>3. ServerType' /\ OtherTypes' /\ Good(disk', server', late', lastSent')
  <2>1. CASE Receive(Request) /\ late' = late
    BY <1>1, <2>1, Exchanged DEF IInv, OtherTypes
  <2>2. CASE server' = server /\ late' = late
    BY <1>1, <1>2, <2>2, GuestAssumption
    DEF IInv, OtherTypes, ServerType, Good, Fits, Enrolling, Unused
  <2>3. CASE server' = server /\ late' = late \cup {Request} /\ Asks[pc] # "get"
    <3>1. lastSent' = lastSent \/ (disk.binding # None /\ lastSent' <= disk.sequence)
      BY <1>1, <1>2, GuestAssumption
    <3>2. late' \subseteq LateRequests /\ Good(disk, server, late', lastSent')
      BY <1>1, <2>3, <3>1, GivenUp
    <3>3. ServerType' /\ OtherTypes'
      BY <1>1, <1>2, <2>3, <3>2 DEF IInv, OtherTypes, ServerType
    <3>. QED
      BY <1>1, <2>3, <3>2, <3>3
  <2>. QED
    BY <2>1, <2>2, <2>3 DEF CallFails
<1>4. CASE Stop
  BY <1>3, <1>4, Stopped
<1>5. CASE pc = "enroll" /\ Goto("recheck")
  <2>1. ProcessType' /\ Places'
    BY <1>1, <1>5 DEF Goto, IInv, ProcessType, Places, Locations, Asks, FreshSequence
  <2>. QED
    BY <1>3, <2>1 DEF IInv
<1>6. CASE /\ call = "heartbeat" /\ failures < 2 /\ pc' = "heartbeat" /\ failures' = failures + 1
           /\ UNCHANGED <<call, via>>
  <2>1. ProcessType' /\ Places'
    BY <1>1, <1>6 DEF IInv, ProcessType, Places, Locations, Asks, FreshSequence
  <2>. QED
    BY <1>3, <2>1 DEF IInv
<1>. QED
  BY <1>4, <1>5, <1>6 DEF CallFails, Fail

-----------------------------------------------------------------------------
(* The environment.                                                         *)

\* Places speak of the server only at the reset.
LEMMA SamePlace ==
  ASSUME IInv, UNCHANGED <<disk, process, requests, lastSent>>,
         IsPast(disk, server) => IsPast(disk, server')
  PROVE  ProcessType' /\ Places'
BY DEF IInv, ProcessType, Places, FreshSequence, IsPast, process

LEMMA ArrivesKeeps ==
  ASSUME IInv, NEW r \in late, Arrives(r)
  PROVE  IInv'
<1>1. UNCHANGED <<disk, process, clientOver, requests, lapsed, lastSent, faulty>> /\ late' \in SUBSET late
  BY DEF Arrives
<1>2. CASE server' = server
  <2>1. Good(disk', server', late', lastSent')
    BY <1>1, <1>2 DEF IInv, Good, DiskShape, Fits, InOrder, Enrolling, Unused,
       OneCandidate, Candidate, Holds
  <2>2. ServerType' /\ OtherTypes'
    BY <1>1, <1>2 DEF IInv, OtherTypes, ServerType
  <2>. QED
    BY <1>1, <1>2, <2>1, <2>2, SamePlace DEF IInv
<1>3. CASE Receive(r)
  <2>1. /\ ServerType' /\ Fits(disk, server', late', lastSent')
        /\ IsPast(disk, server) => IsPast(disk, server')
    BY <1>1, <1>3, LateSendable, Received
  <2>2. Good(disk', server', late', lastSent')
    BY <1>1, <2>1 DEF IInv, Good
  <2>3. OtherTypes'
    BY <1>1 DEF IInv, OtherTypes
  <2>. QED
    BY <1>1, <2>1, <2>2, <2>3, SamePlace DEF IInv
<1>. QED
  BY <1>2, <1>3 DEF Arrives

LEMMA ClocksKeep ==
  ASSUME IInv, GuestClock \/ ServerClock \/ Lapse \/ Revoke \/ FaultsEnd
  PROVE  IInv'
<1>1. /\ UNCHANGED <<disk, process, requests, late, lastSent>>
      /\ server' \in {server, [server EXCEPT !.stage = "over"], [server EXCEPT !.revoked = TRUE]}
      /\ server'.stage = "over" => server.stage # "done"
      /\ OtherTypes'
  <2>1. server.active \in Cert /\ server.stage \in {"open", "over", "done"}
    BY DEF IInv, ServerType
  <2>2. CASE GuestClock
    BY <2>1, <2>2 DEF GuestClock, IInv, OtherTypes, Good, Fits, InOrder
  <2>3. CASE ServerClock
    BY <2>1, <2>3 DEF ServerClock, IInv, OtherTypes
  <2>4. CASE Lapse
    BY <2>1, <2>4 DEF Lapse, IInv, OtherTypes
  <2>5. CASE Revoke
    BY <2>1, <2>5 DEF Revoke, IInv, OtherTypes, ServerType
  <2>6. CASE FaultsEnd
    BY <2>1, <2>6 DEF FaultsEnd, IInv, OtherTypes
  <2>. QED
    BY <2>2, <2>3, <2>4, <2>5, <2>6
<1>2. /\ ServerType' /\ server'.active = server.active /\ server'.newest = server.newest
      /\ server'.registered = server.registered
      /\ server'.stage = server.stage \/ (server'.stage = "over" /\ server.stage # "done")
  BY <1>1 DEF IInv, ServerType
<1>3. Good(disk', server', late', lastSent')
  BY <1>1, <1>2 DEF IInv, Good, DiskShape, Fits, InOrder, Enrolling, Unused,
       OneCandidate, Candidate, Holds
<1>4. ProcessType' /\ Places'
  BY <1>1, <1>2, SamePlace DEF IsPast
<1>. QED
  BY <1>1, <1>2, <1>3, <1>4 DEF IInv

LEMMA CrashKeeps ==
  ASSUME IInv, Crash
  PROVE  IInv'
<1>1. Good(disk', server', late', lastSent') /\ ServerType' /\ OtherTypes'
  BY SameDisk DEF Crash, IInv, OtherTypes
<1>. QED
  BY <1>1, Stopped DEF Crash

LEMMA LoseStateKeeps ==
  ASSUME IInv, LoseState
  PROVE  IInv'
<1>1. /\ Empty \in DiskType /\ Empty.binding = None /\ Empty.sequence = 0
      /\ ~Empty.attempted /\ Empty.cert = 0 /\ Empty.renewal = None /\ Empty.result = None
  BY GuestAssumption DEF Empty, DiskType, Cert
<1>2. server.newest \in Nat
  BY GuestAssumption DEF IInv, ServerType, Cert
<1>3. Good(Empty, server, late, lastSent)
  BY <1>1, <1>2 DEF None, IInv, Good, DiskShape, Fits, InOrder, Enrolling, Unused,
       OneCandidate, Candidate, Holds
<1>4. ServerType' /\ OtherTypes' /\ Good(disk', server', late', lastSent')
  BY <1>3 DEF LoseState, IInv, OtherTypes, ServerType
<1>5. ProcessType' /\ Places'
  BY DEF LoseState, process, IInv, ProcessType, Places, Locations, Asks, FreshSequence
<1>. QED
  BY <1>4, <1>5 DEF IInv

-----------------------------------------------------------------------------
(* The theorems.                                                            *)

LEMMA InitHolds == Init => IInv
<1>. SUFFICES ASSUME Init PROVE IInv
  OBVIOUS
<1>1. Empty \in DiskType /\ Empty.binding = None /\ Empty.sequence = 0
      /\ ~Empty.attempted /\ Empty.cert = 0 /\ Empty.renewal = None /\ Empty.result = None
  BY GuestAssumption DEF Empty, DiskType, Cert
<1>2. ServerType
  BY GuestAssumption DEF Init, ServerType, Cert
<1>3. OtherTypes
  <2>1. requests \in Cert /\ lastSent \in 0..MaxCounter
    BY GuestAssumption DEF Init, Cert
  <2>2. clientOver \in BOOLEAN /\ faulty \in BOOLEAN /\ late \subseteq LateRequests
    BY DEF Init
  <2>3. lapsed \in Cert \cup {None}
    BY DEF Init
  <2>. QED
    BY <2>1, <2>2, <2>3 DEF OtherTypes
<1>4. ProcessType /\ Places
  BY DEF Init, ProcessType, Places, Locations, FreshSequence
<1>5. Good(disk, server, late, lastSent)
  BY <1>1 DEF Init, None, Good, DiskShape, Fits, InOrder, Enrolling, Unused,
       OneCandidate, Candidate, Holds
<1>. QED
  BY <1>2, <1>3, <1>4, <1>5 DEF IInv

LEMMA StepKeeps == IInv /\ [Next]_vars => IInv'
<1>. SUFFICES ASSUME IInv, [Next]_vars PROVE IInv'
  OBVIOUS
<1>1. CASE UNCHANGED vars
  BY <1>1, SameDisk, SamePlace DEF vars, process, IInv, OtherTypes, ServerType
<1>2. CASE \/ Boot \/ Begin \/ BeginHeartbeat \/ RenewExpired \/ PrepareRenewal
           \/ ResumeRenewal \/ Adopt \/ Number
  BY <1>2, BootKeeps, BeginKeeps, BeginHeartbeatKeeps, RenewExpiredKeeps, PrepareRenewalKeeps,
     ResumeRenewalKeeps, AdoptKeeps, NumberKeeps
<1>3. CASE \/ GetAnswered \/ EnrollAnswered \/ RecheckAnswered \/ ReceiveAnswered
           \/ CommitAnswered \/ ConfirmAnswered \/ ResetAnswered \/ BeatAnswered
  BY <1>3, GetAnsweredKeeps, EnrollAnsweredKeeps, RecheckAnsweredKeeps, ReceiveAnsweredKeeps,
     CommitAnsweredKeeps, ConfirmAnsweredKeeps, ResetAnsweredKeeps, BeatAnsweredKeeps
<1>4. CASE \E arrives \in {"now", "late", "never"} : CallFails(arrives)
  BY <1>4, CallFailsKeeps
<1>5. CASE \E r \in late : Arrives(r)
  BY <1>5, ArrivesKeeps
<1>6. CASE \/ GuestClock \/ ServerClock \/ Crash \/ LoseState \/ Lapse \/ Revoke \/ FaultsEnd
  BY <1>6, ClocksKeep, CrashKeeps, LoseStateKeeps
<1>. QED
  BY <1>1, <1>2, <1>3, <1>4, <1>5, <1>6 DEF Next, ClientStep

\* The invariant that the four properties follow from.
THEOREM Invariance == Spec => []IInv
BY InitHolds, StepKeeps, PTL DEF Spec

\* The types of Spec, for any limit of the counter and any number of renewals.
THEOREM TypeCorrect == Spec => []TypeOK
<1>1. IInv => TypeOK
  BY InvariantImplies
<1>. QED
  BY Invariance, <1>1, PTL

\* heartbeat, client.go 138: no number is sent twice.
THEOREM FreshSequenceHolds == Spec => []FreshSequence
<1>1. IInv => FreshSequence
  BY InvariantImplies
<1>. QED
  BY Invariance, <1>1, PTL

\* save and openState, state.go: a file that was saved can be opened.
THEOREM SavedStateOpensHolds == Spec => []SavedStateOpens
<1>1. IInv => SavedStateOpens
  BY InvariantImplies
<1>. QED
  BY Invariance, <1>1, PTL

\* renew, renewal.go 29-128: the active certificate is never thrown away.
THEOREM HoldsAuthorityHolds == Spec => []HoldsAuthority
<1>1. IInv => HoldsAuthority
  BY InvariantImplies
<1>. QED
  BY Invariance, <1>1, PTL

-----------------------------------------------------------------------------
(* The operations of a guest.                                              *)

ConnSteps ==
  {"idle", "grant", "cancel", "await", "dispatch", "usage", "command", "create", "inspect",
   "attach", "wait", "stop", "proof", "leave"}
Conns == [pc : ConnSteps, op : Ops \cup {GuestRuntime!NoOp}, cancelled : BOOLEAN,
          awaits : SUBSET Ops, ok : BOOLEAN]

RuntimeTypes ==
  /\ conn \in [Workers -> Conns]
  /\ container \in [Ops -> {"none", "created", "running", "exited"}]
  /\ runs \in [Ops -> Nat]
  /\ marks \subseteq Ops

\* What was begun has its mark, so that it is never begun again; a release awaits such operations
\* alone.
BegunIsMarked ==
  /\ \A o \in Ops : runs[o] = 0 \/ (runs[o] = 1 /\ o \in marks)
  /\ \A w \in Workers :
       /\ conn[w].pc # "idle" => conn[w].op \in Ops
       /\ conn[w].pc \in GuestRuntime!Registered => conn[w].op \in marks
       /\ conn[w].awaits \subseteq marks
  /\ released \subseteq marks

\* Two that are registered are not both more than a release.
RunsAlone ==
  \A v, w \in GuestRuntime!Active :
    v = w \/ GuestRuntime!Kind(v) = "release" \/ GuestRuntime!Kind(w) = "release"

\* A container that runs has a connection that will stop it, unless it was lost.
Supervised ==
  \A o \in Ops \ orphans : container[o] = "running" =>
    \E w \in Workers : conn[w].op = o /\ conn[w].pc \in {"attach", "stop"}

ReleasedStays == \A o \in released : o \in orphans \/ o \notin GuestRuntime!ActiveOps

RuntimeInv == RuntimeTypes /\ BegunIsMarked /\ RunsAlone /\ Supervised /\ ReleasedStays

LEMMA IdleConn ==
  /\ GuestRuntime!Idle \in Conns /\ GuestRuntime!Idle.pc = "idle" /\ GuestRuntime!Idle.awaits = {}
BY DEF GuestRuntime!Idle, Conns, ConnSteps

LEMMA RuntimeInit == GuestRuntime!Init => RuntimeInv
<1> SUFFICES ASSUME GuestRuntime!Init PROVE RuntimeInv
  OBVIOUS
<1>1. RuntimeTypes
  BY IdleConn DEF GuestRuntime!Init, RuntimeTypes
<1>2. \A w \in Workers : conn[w].pc = "idle" /\ conn[w].awaits = {}
  BY IdleConn DEF GuestRuntime!Init
<1>3. BegunIsMarked
  BY <1>2 DEF GuestRuntime!Init, BegunIsMarked, GuestRuntime!Registered
<1>4. RunsAlone /\ Supervised /\ ReleasedStays
  BY <1>2 DEF GuestRuntime!Init, RunsAlone, Supervised, ReleasedStays, GuestRuntime!Active,
              GuestRuntime!Registered
<1> QED
  BY <1>1, <1>3, <1>4 DEF RuntimeInv

\* A connection moves, and the others stay.
ConnMoves(w) == conn' \in [Workers -> Conns] /\ \A v \in Workers \ {w} : conn'[v] = conn[v]

\* It goes on with its operation, or is closed, and is not registered anew.
ConnGoesOn(w) ==
  /\ ConnMoves(w)
  /\ \/ conn'[w] = GuestRuntime!Idle
     \/ conn[w].pc # "idle" /\ conn'[w].op = conn[w].op /\ conn'[w].awaits = conn[w].awaits
  /\ conn'[w].pc \in GuestRuntime!Registered => conn[w].pc \in GuestRuntime!Registered

LEMMA ConnGoto ==
  ASSUME RuntimeInv, NEW w \in Workers, NEW pc0 \in ConnSteps, GuestRuntime!Goto(w, pc0)
  PROVE  /\ ConnMoves(w) /\ conn'[w].pc = pc0
         /\ conn'[w].op = conn[w].op /\ conn'[w].awaits = conn[w].awaits
BY DEF RuntimeInv, RuntimeTypes, Conns, GuestRuntime!Goto, ConnMoves

LEMMA ConnClosed ==
  ASSUME RuntimeInv, NEW w \in Workers, GuestRuntime!Close(w)
  PROVE  ConnGoesOn(w) /\ conn'[w].pc = "idle"
<1>1. ConnMoves(w) /\ conn'[w] = GuestRuntime!Idle
  BY IdleConn DEF RuntimeInv, RuntimeTypes, GuestRuntime!Close, ConnMoves
<1> QED
  BY <1>1, IdleConn DEF ConnGoesOn, GuestRuntime!Registered

LEMMA ConnEnds ==
  ASSUME RuntimeInv, NEW w \in Workers, NEW pc0 \in ConnSteps, NEW b \in BOOLEAN,
         conn' = [conn EXCEPT ![w].pc = pc0, ![w].ok = b]
  PROVE  /\ ConnMoves(w) /\ conn'[w].pc = pc0
         /\ conn'[w].op = conn[w].op /\ conn'[w].awaits = conn[w].awaits
<1>1. conn \in [Workers -> Conns] /\ conn[w] \in Conns
  BY DEF RuntimeInv, RuntimeTypes
<1>2. conn'[w] = [conn[w] EXCEPT !.pc = pc0, !.ok = b] /\ \A v \in Workers \ {w} : conn'[v] = conn[v]
  BY <1>1
<1>3. [conn[w] EXCEPT !.pc = pc0, !.ok = b] \in Conns
  BY <1>1 DEF Conns
<1>4. conn' \in [Workers -> Conns]
  BY <1>1, <1>3
<1>5. /\ [conn[w] EXCEPT !.pc = pc0, !.ok = b].pc = pc0
      /\ [conn[w] EXCEPT !.pc = pc0, !.ok = b].op = conn[w].op
      /\ [conn[w] EXCEPT !.pc = pc0, !.ok = b].awaits = conn[w].awaits
  BY <1>1 DEF Conns
<1> QED
  BY <1>2, <1>4, <1>5 DEF ConnMoves

LEMMA ConnCancelled ==
  ASSUME NEW c \in Conns
  PROVE  /\ [c EXCEPT !.cancelled = TRUE] \in Conns
         /\ [c EXCEPT !.cancelled = TRUE].pc = c.pc
         /\ [c EXCEPT !.cancelled = TRUE].op = c.op
         /\ [c EXCEPT !.cancelled = TRUE].awaits = c.awaits
BY DEF Conns

\* What a step of a connection that is not registered anew leaves as it was.
LEMMA GoesOnKeeps ==
  ASSUME RuntimeInv, NEW w \in Workers, ConnGoesOn(w), orphans \subseteq orphans',
         UNCHANGED <<request, marks, runs, released>>
  PROVE  BegunIsMarked' /\ RunsAlone' /\ ReleasedStays'
<1>1. ASSUME NEW v \in Workers, conn'[v].pc \in GuestRuntime!Registered
      PROVE  conn[v].pc \in GuestRuntime!Registered /\ conn'[v].op = conn[v].op
  BY <1>1, IdleConn DEF ConnGoesOn, ConnMoves, GuestRuntime!Registered
<1>2. BegunIsMarked'
  BY <1>1, IdleConn DEF RuntimeInv, BegunIsMarked, ConnGoesOn, ConnMoves
<1>3. RunsAlone'
  BY <1>1 DEF RuntimeInv, RunsAlone, GuestRuntime!Active, GuestRuntime!Kind
<1>4. ReleasedStays'
  BY <1>1 DEF RuntimeInv, ReleasedStays, GuestRuntime!ActiveOps, GuestRuntime!Active
<1> QED
  BY <1>2, <1>3, <1>4

\* A container is left by its connection when it does not run, or when it is lost.
LEMMA SupervisionKept ==
  ASSUME RuntimeInv, NEW w \in Workers, ConnMoves(w), UNCHANGED container, orphans \subseteq orphans',
         \/ conn'[w].pc \in {"attach", "stop"} /\ conn'[w].op = conn[w].op
         \/ conn[w].pc \notin {"attach", "stop"}
         \/ container[conn[w].op] # "running"
         \/ conn[w].op \in orphans'
  PROVE  Supervised'
<1> SUFFICES ASSUME NEW o \in Ops \ orphans', container[o] = "running"
             PROVE  \E v \in Workers : conn'[v].op = o /\ conn'[v].pc \in {"attach", "stop"}
  BY DEF Supervised
<1>1. PICK v \in Workers : conn[v].op = o /\ conn[v].pc \in {"attach", "stop"}
  BY DEF RuntimeInv, Supervised
<1>2. CASE v = w
  BY <1>1, <1>2
<1>3. CASE v # w
  BY <1>1, <1>3 DEF ConnMoves
<1> QED
  BY <1>2, <1>3

LEMMA RuntimeStep == RuntimeInv /\ GuestRuntime!Next => RuntimeInv'
<1> SUFFICES ASSUME RuntimeInv, GuestRuntime!Next PROVE RuntimeInv'
  OBVIOUS
<1>0. RuntimeTypes /\ BegunIsMarked /\ RunsAlone /\ Supervised /\ ReleasedStays
  BY DEF RuntimeInv
<1> USE DEF GuestRuntime!At, GuestRuntime!same
<1>1. ASSUME NEW w \in Workers, NEW o \in Ops, GuestRuntime!Launch(w, o) PROVE RuntimeInv'
  <2>1. /\ conn[w].pc = "idle" /\ UNCHANGED <<request, marks, container, runs, released, orphans>>
        /\ conn' = [conn EXCEPT ![w] = [GuestRuntime!Idle EXCEPT !.pc = "grant", !.op = o]]
    BY <1>1 DEF GuestRuntime!Launch
  <2> DEFINE new == [GuestRuntime!Idle EXCEPT !.pc = "grant", !.op = o]
  <2>2. new \in Conns /\ new.pc = "grant" /\ new.op = o /\ new.awaits = {}
    BY IdleConn DEF Conns, ConnSteps
  <2> HIDE DEF new
  <2>3. ConnMoves(w) /\ conn'[w] = new
    BY <1>0, <2>1, <2>2 DEF RuntimeTypes, ConnMoves, new
  <2>4. RuntimeTypes'
    BY <1>0, <2>1, <2>3 DEF RuntimeTypes, ConnMoves
  <2>5. BegunIsMarked'
    BY <1>0, <2>1, <2>2, <2>3 DEF BegunIsMarked, ConnMoves, GuestRuntime!Registered
  <2>6. RunsAlone' /\ ReleasedStays'
    BY <1>0, <2>1, <2>2, <2>3 DEF RunsAlone, ReleasedStays, ConnMoves, GuestRuntime!Registered,
         GuestRuntime!Active, GuestRuntime!ActiveOps, GuestRuntime!Kind
  <2>7. Supervised'
    BY <2>1, <2>3, SupervisionKept
  <2> QED
    BY <2>4, <2>5, <2>6, <2>7 DEF RuntimeInv
<1>2. ASSUME NEW w \in Workers, GuestRuntime!Grant(w) PROVE RuntimeInv'
  <2>1. conn[w].pc = "grant" /\ UNCHANGED <<request, marks, container, runs, released, orphans>>
    BY <1>2 DEF GuestRuntime!Grant
  <2>2. ConnGoesOn(w)
    <3>1. CASE GuestRuntime!Close(w)
      BY <3>1, ConnClosed
    <3>2. CASE GuestRuntime!Goto(w, IF GuestRuntime!Kind(w) = "release" THEN "cancel" ELSE "dispatch")
      <4> DEFINE next == IF GuestRuntime!Kind(w) = "release" THEN "cancel" ELSE "dispatch"
      <4>1. next \in ConnSteps /\ next \notin GuestRuntime!Registered
        BY DEF ConnSteps, GuestRuntime!Registered
      <4> HIDE DEF next
      <4>2. GuestRuntime!Goto(w, next)
        BY <3>2 DEF next
      <4> QED
        BY <2>1, <4>1, <4>2, ConnGoto DEF ConnGoesOn
    <3> QED
      BY <1>2, <3>1, <3>2 DEF GuestRuntime!Grant
  <2>3. BegunIsMarked' /\ RunsAlone' /\ ReleasedStays'
    BY <2>1, <2>2, GoesOnKeeps
  <2>4. Supervised'
    BY <2>1, <2>2, SupervisionKept DEF ConnGoesOn
  <2> QED
    BY <1>0, <2>1, <2>2, <2>3, <2>4 DEF RuntimeInv, RuntimeTypes, ConnGoesOn, ConnMoves
<1>3. ASSUME NEW w \in Workers, GuestRuntime!Cancel(w) PROVE RuntimeInv'
  <2>1. /\ conn[w].pc = "cancel" /\ UNCHANGED <<request, marks, container, runs, released, orphans>>
        /\ conn' = [v \in Workers |->
             IF v = w THEN [conn[v] EXCEPT !.pc = "await", !.awaits = {conn[u].op : u \in GuestRuntime!OfLease(w)}]
             ELSE IF v \in GuestRuntime!OfLease(w) THEN [conn[v] EXCEPT !.cancelled = TRUE] ELSE conn[v]]
    BY <1>3 DEF GuestRuntime!Cancel
  <2> DEFINE theirs == {conn[u].op : u \in GuestRuntime!OfLease(w)}
  <2>2. theirs \subseteq marks
    BY <1>0 DEF BegunIsMarked, GuestRuntime!OfLease, GuestRuntime!Active
  <2>3. theirs \in SUBSET Ops
    BY <1>0, <2>2 DEF RuntimeTypes
  <2>4. /\ conn'[w] = [conn[w] EXCEPT !.pc = "await", !.awaits = theirs]
        /\ \A v \in Workers \ {w} : conn'[v] \in {conn[v], [conn[v] EXCEPT !.cancelled = TRUE]}
    BY <2>1
  <2> HIDE DEF theirs
  <2>5. conn'[w] \in Conns /\ conn'[w].pc = "await" /\ conn'[w].awaits = theirs /\ conn'[w].op = conn[w].op
    <3>1. conn[w] \in Conns
      BY <1>0 DEF RuntimeTypes
    <3> QED
      BY <2>3, <2>4, <3>1 DEF Conns, ConnSteps
  <2>6. \A v \in Workers \ {w} :
          /\ conn'[v] \in Conns /\ conn'[v].pc = conn[v].pc /\ conn'[v].op = conn[v].op
          /\ conn'[v].awaits = conn[v].awaits
    <3> TAKE v \in Workers \ {w}
    <3>1. conn[v] \in Conns
      BY <1>0 DEF RuntimeTypes
    <3> QED
      BY <2>4, <3>1, ConnCancelled
  <2>7. conn' \in [Workers -> Conns]
    BY <2>1, <2>5, <2>6
  <2>8. BegunIsMarked'
    <3>1. \A v \in Workers :
            /\ conn'[v].pc # "idle" => conn'[v].op \in Ops
            /\ conn'[v].pc \in GuestRuntime!Registered => conn'[v].op \in marks
            /\ conn'[v].awaits \subseteq marks
      <4> TAKE v \in Workers
      <4>1. CASE v = w
        BY <1>0, <2>1, <2>2, <2>5, <4>1 DEF BegunIsMarked, GuestRuntime!Registered
      <4>2. CASE v # w
        BY <1>0, <2>6, <4>2 DEF BegunIsMarked
      <4> QED
        BY <4>1, <4>2
    <3> QED
      BY <1>0, <2>1, <3>1 DEF BegunIsMarked
  <2>9. \A v \in Workers : conn'[v].pc \in GuestRuntime!Registered =>
          conn[v].pc \in GuestRuntime!Registered /\ conn'[v].op = conn[v].op
    BY <2>5, <2>6 DEF GuestRuntime!Registered
  <2>10. RunsAlone' /\ ReleasedStays'
    <3>1. UNCHANGED <<request, released, orphans>>
      BY <2>1
    <3>2. RunsAlone'
      BY <1>0, <2>9, <3>1 DEF RunsAlone, GuestRuntime!Active, GuestRuntime!Kind
    <3>3. ReleasedStays'
      BY <1>0, <2>9, <3>1 DEF ReleasedStays, GuestRuntime!Active, GuestRuntime!ActiveOps
    <3> QED
      BY <3>2, <3>3
  <2>11. Supervised'
    <3> SUFFICES ASSUME NEW o \in Ops \ orphans, container[o] = "running"
                 PROVE  \E v \in Workers : conn'[v].op = o /\ conn'[v].pc \in {"attach", "stop"}
      BY <2>1 DEF Supervised
    <3>1. PICK v \in Workers : conn[v].op = o /\ conn[v].pc \in {"attach", "stop"}
      BY <1>0 DEF Supervised
    <3> QED
      BY <2>1, <2>6, <3>1
  <2> QED
    BY <1>0, <2>1, <2>7, <2>8, <2>10, <2>11 DEF RuntimeInv, RuntimeTypes
<1>4. ASSUME NEW w \in Workers, GuestRuntime!Await(w) PROVE RuntimeInv'
  <2>1. conn[w].pc = "await" /\ UNCHANGED <<request, marks, container, runs, orphans>>
    BY <1>4 DEF GuestRuntime!Await
  <2>2. CASE GuestRuntime!Close(w) /\ UNCHANGED released
    BY <1>0, <2>1, <2>2, ConnClosed, GoesOnKeeps, SupervisionKept
       DEF RuntimeInv, RuntimeTypes, ConnGoesOn, ConnMoves
  <2>3. CASE /\ conn[w].awaits \cap GuestRuntime!ActiveOps = {}
             /\ released' = released \cup conn[w].awaits /\ GuestRuntime!Goto(w, "dispatch")
    <3>1. /\ ConnMoves(w) /\ conn'[w].pc = "dispatch"
          /\ conn'[w].op = conn[w].op /\ conn'[w].awaits = conn[w].awaits
      BY <2>3, ConnGoto DEF ConnSteps
    <3>2. \A v \in Workers : conn'[v].pc \in GuestRuntime!Registered =>
            conn[v].pc \in GuestRuntime!Registered /\ conn'[v].op = conn[v].op
      BY <3>1 DEF ConnMoves, GuestRuntime!Registered
    <3>3. BegunIsMarked'
      BY <1>0, <2>1, <2>3, <3>1 DEF BegunIsMarked, ConnMoves, GuestRuntime!Registered
    <3>4. RunsAlone'
      BY <1>0, <2>1, <3>2 DEF RunsAlone, GuestRuntime!Active, GuestRuntime!Kind
    <3>5. ReleasedStays'
      <4>1. GuestRuntime!ActiveOps' \subseteq GuestRuntime!ActiveOps
        BY <3>2 DEF GuestRuntime!ActiveOps, GuestRuntime!Active
      <4> QED
        BY <1>0, <2>1, <2>3, <4>1 DEF ReleasedStays
    <3>6. Supervised'
      BY <2>1, <3>1, SupervisionKept
    <3> QED
      BY <1>0, <2>1, <3>1, <3>3, <3>4, <3>5, <3>6 DEF RuntimeInv, RuntimeTypes, ConnMoves
  <2> QED
    BY <1>4, <2>2, <2>3 DEF GuestRuntime!Await
<1>5. ASSUME NEW w \in Workers, GuestRuntime!Dispatch(w) PROVE RuntimeInv'
  <2>1. /\ conn[w].pc = "dispatch" /\ conn[w].op \in Ops
        /\ UNCHANGED <<request, container, released, orphans>>
    BY <1>0, <1>5 DEF GuestRuntime!Dispatch, BegunIsMarked
  <2>2. CASE GuestRuntime!Close(w) /\ marks' \in {marks, marks \cup {conn[w].op}} /\ UNCHANGED runs
    <3>1. ConnGoesOn(w) /\ ConnMoves(w)
      BY <2>2, ConnClosed DEF ConnGoesOn
    <3>2. \A v \in Workers :
            /\ conn'[v] = conn[v] \/ conn'[v] = GuestRuntime!Idle
      BY <3>1, <2>2 DEF ConnMoves, GuestRuntime!Close
    <3>3. BegunIsMarked'
      BY <1>0, <2>1, <2>2, <3>2, IdleConn DEF BegunIsMarked, GuestRuntime!Registered
    <3>4. RunsAlone' /\ ReleasedStays'
      BY <1>0, <2>1, <3>2, IdleConn DEF RunsAlone, ReleasedStays, GuestRuntime!Active,
           GuestRuntime!ActiveOps, GuestRuntime!Kind, GuestRuntime!Registered
    <3>5. Supervised'
      BY <2>1, <3>1, SupervisionKept
    <3> QED
      BY <1>0, <2>1, <2>2, <3>1, <3>3, <3>4, <3>5 DEF RuntimeInv, RuntimeTypes, ConnMoves
  <2>3. CASE /\ ~GuestRuntime!Busy(w) /\ conn[w].op \notin marks
             /\ marks' = marks \cup {conn[w].op}
             /\ runs' = [runs EXCEPT ![conn[w].op] = @ + 1]
             /\ GuestRuntime!Goto(w, "usage")
    <3>1. /\ ConnMoves(w) /\ conn'[w].pc = "usage"
          /\ conn'[w].op = conn[w].op /\ conn'[w].awaits = conn[w].awaits
      BY <2>3, ConnGoto DEF ConnSteps
    <3>2. runs[conn[w].op] = 0 /\ runs' \in [Ops -> Nat]
      BY <1>0, <2>1, <2>3 DEF RuntimeTypes, BegunIsMarked
    <3>3. \A o \in Ops : runs'[o] = 0 \/ (runs'[o] = 1 /\ o \in marks')
      BY <1>0, <2>1, <2>3, <3>2 DEF RuntimeTypes, BegunIsMarked
    <3>4. BegunIsMarked'
      BY <1>0, <2>1, <2>3, <3>1, <3>3 DEF BegunIsMarked, ConnMoves
    <3>5. RunsAlone'
      <4> SUFFICES ASSUME NEW u \in Workers, NEW v \in Workers, u # v,
                          conn'[u].pc \in GuestRuntime!Registered, conn'[v].pc \in GuestRuntime!Registered
                   PROVE  request[conn'[u].op].kind = "release" \/ request[conn'[v].op].kind = "release"
        BY <2>1 DEF RunsAlone, GuestRuntime!Active, GuestRuntime!Kind
      <4>1. CASE u # w /\ v # w
        BY <1>0, <3>1, <4>1 DEF RunsAlone, ConnMoves, GuestRuntime!Active, GuestRuntime!Kind
      <4>2. CASE u = w \/ v = w
        <5>1. GuestRuntime!Active # {}
          BY <3>1, <4>2 DEF ConnMoves, GuestRuntime!Active
        <5>2. request[conn[w].op].kind = "release"
          BY <2>3, <5>1 DEF GuestRuntime!Busy, GuestRuntime!Kind
        <5> QED
          BY <3>1, <4>2, <5>2
      <4> QED
        BY <4>1, <4>2
    <3>6. ReleasedStays'
      <4>1. GuestRuntime!ActiveOps' \subseteq GuestRuntime!ActiveOps \cup {conn[w].op}
        BY <3>1 DEF GuestRuntime!ActiveOps, GuestRuntime!Active, ConnMoves
      <4> QED
        BY <1>0, <2>1, <2>3, <4>1 DEF ReleasedStays, BegunIsMarked
    <3>7. Supervised'
      BY <2>1, <3>1, SupervisionKept
    <3> QED
      BY <1>0, <2>1, <2>3, <3>1, <3>2, <3>4, <3>5, <3>6, <3>7 DEF RuntimeInv, RuntimeTypes, ConnMoves
  <2> QED
    BY <1>5, <2>2, <2>3 DEF GuestRuntime!Dispatch
\* The steps of an operation.
<1>6. ASSUME NEW w \in Workers, conn[w].pc \in GuestRuntime!Registered, ConnGoesOn(w),
             UNCHANGED <<request, marks, runs, released>>, orphans \subseteq orphans',
             container' \in [Ops -> {"none", "created", "running", "exited"}], Supervised'
      PROVE  RuntimeInv'
  BY <1>0, <1>6, GoesOnKeeps DEF RuntimeInv, RuntimeTypes, ConnGoesOn, ConnMoves
<1>7. ASSUME NEW w \in Workers, conn[w].pc \in GuestRuntime!Registered, NEW pc0 \in ConnSteps,
             GuestRuntime!Goto(w, pc0) \/ \E b \in BOOLEAN : conn' = [conn EXCEPT ![w].pc = pc0, ![w].ok = b]
      PROVE  ConnGoesOn(w) /\ conn'[w].pc = pc0 /\ conn'[w].op = conn[w].op
  BY <1>7, ConnGoto, ConnEnds DEF ConnGoesOn, GuestRuntime!Registered
<1>8. ASSUME NEW w \in Workers, conn[w].pc \in GuestRuntime!Registered \ {"attach", "stop"},
             ConnGoesOn(w), UNCHANGED <<request, marks, runs, released, container, orphans>>
      PROVE  RuntimeInv'
  <2>1. Supervised'
    BY <1>8, SupervisionKept DEF ConnGoesOn
  <2> QED
    BY <1>0, <1>6, <1>8, <2>1 DEF RuntimeTypes
<1> USE DEF GuestRuntime!Fails, GuestRuntime!ToStop
<1>9. ASSUME NEW w \in Workers, GuestRuntime!Usage(w) PROVE RuntimeInv'
  <2>1. conn[w].pc = "usage" /\ UNCHANGED <<request, marks, runs, released, container, orphans>>
    BY <1>9 DEF GuestRuntime!Usage
  <2>2. \E pc0 \in ConnSteps : GuestRuntime!Goto(w, pc0) \/ \E b \in BOOLEAN : conn' = [conn EXCEPT ![w].pc = pc0, ![w].ok = b]
    BY <1>9 DEF GuestRuntime!Usage, ConnSteps
  <2> QED
    BY <1>7, <1>8, <2>1, <2>2 DEF GuestRuntime!Registered
<1>10. ASSUME NEW w \in Workers, GuestRuntime!Command(w) PROVE RuntimeInv'
  <2>1. conn[w].pc = "command" /\ UNCHANGED <<request, marks, runs, released, container, orphans>>
    BY <1>10 DEF GuestRuntime!Command
  <2>2. \E pc0 \in ConnSteps : GuestRuntime!Goto(w, pc0) \/ \E b \in BOOLEAN : conn' = [conn EXCEPT ![w].pc = pc0, ![w].ok = b]
    BY <1>10 DEF GuestRuntime!Command, ConnSteps
  <2> QED
    BY <1>7, <1>8, <2>1, <2>2 DEF GuestRuntime!Registered
<1>11. ASSUME NEW w \in Workers, GuestRuntime!Create(w) PROVE RuntimeInv'
  <2>1. conn[w].pc = "create" /\ conn[w].op \in Ops /\ UNCHANGED <<request, marks, runs, released, orphans>>
    BY <1>0, <1>11 DEF GuestRuntime!Create, BegunIsMarked
  <2>2. \E pc0 \in ConnSteps : GuestRuntime!Goto(w, pc0) \/ \E b \in BOOLEAN : conn' = [conn EXCEPT ![w].pc = pc0, ![w].ok = b]
    BY <1>11 DEF GuestRuntime!Create, ConnSteps
  <2>3. ConnGoesOn(w)
    BY <1>7, <2>1, <2>2 DEF GuestRuntime!Registered
  <2>4. PICK c \in {"none", "created"} : container' = [container EXCEPT ![conn[w].op] = c]
    BY <1>11 DEF GuestRuntime!Create
  <2>5. Supervised'
    <3> SUFFICES ASSUME NEW o \in Ops \ orphans, container[o] = "running"
                 PROVE  \E v \in Workers : conn'[v].op = o /\ conn'[v].pc \in {"attach", "stop"}
      BY <1>0, <2>1, <2>4 DEF Supervised, RuntimeTypes
    <3>1. PICK v \in Workers : conn[v].op = o /\ conn[v].pc \in {"attach", "stop"}
      BY <1>0 DEF Supervised
    <3> QED
      BY <2>1, <2>3, <3>1 DEF ConnGoesOn, ConnMoves
  <2>6. container' \in [Ops -> {"none", "created", "running", "exited"}]
    BY <1>0, <2>4 DEF RuntimeTypes
  <2> QED
    BY <1>6, <2>1, <2>3, <2>5, <2>6 DEF GuestRuntime!Registered
<1>12. ASSUME NEW w \in Workers, GuestRuntime!Inspect(w) PROVE RuntimeInv'
  <2>1. conn[w].pc = "inspect" /\ UNCHANGED <<request, marks, runs, released, container, orphans>>
    BY <1>12 DEF GuestRuntime!Inspect
  <2>2. \E pc0 \in ConnSteps : GuestRuntime!Goto(w, pc0) \/ \E b \in BOOLEAN : conn' = [conn EXCEPT ![w].pc = pc0, ![w].ok = b]
    BY <1>12 DEF GuestRuntime!Inspect, ConnSteps
  <2> QED
    BY <1>7, <1>8, <2>1, <2>2 DEF GuestRuntime!Registered
<1>13. ASSUME NEW w \in Workers, GuestRuntime!Attach(w) PROVE RuntimeInv'
  <2>1. /\ conn[w].pc = "attach" /\ conn[w].op \in Ops
        /\ UNCHANGED <<request, marks, runs, released, orphans, conn>>
        /\ container' = [container EXCEPT ![conn[w].op] = "running"]
    BY <1>0, <1>13 DEF GuestRuntime!Attach, BegunIsMarked
  <2>2. Supervised'
    BY <1>0, <2>1 DEF Supervised, RuntimeTypes
  <2>3. ConnGoesOn(w)
    BY <1>0, <2>1 DEF ConnGoesOn, ConnMoves, RuntimeTypes
  <2>4. container' \in [Ops -> {"none", "created", "running", "exited"}]
    BY <1>0, <2>1 DEF RuntimeTypes
  <2> QED
    BY <1>6, <2>1, <2>2, <2>3, <2>4 DEF GuestRuntime!Registered
<1>14. ASSUME NEW w \in Workers, GuestRuntime!Attached(w) PROVE RuntimeInv'
  <2>1. conn[w].pc = "attach" /\ UNCHANGED <<request, marks, runs, released, container, orphans>>
    BY <1>14 DEF GuestRuntime!Attached
  <2>2. /\ ConnGoesOn(w) /\ conn'[w].op = conn[w].op
        /\ conn'[w].pc = "stop" \/ container[conn[w].op] = "exited"
    BY <1>7, <1>14, <2>1 DEF GuestRuntime!Attached, ConnSteps, GuestRuntime!Registered
  <2>3. Supervised'
    BY <2>1, <2>2, SupervisionKept DEF ConnGoesOn
  <2> QED
    BY <1>0, <1>6, <2>1, <2>2, <2>3 DEF GuestRuntime!Registered, RuntimeTypes
<1>15. ASSUME NEW w \in Workers, GuestRuntime!Wait(w) PROVE RuntimeInv'
  <2>1. conn[w].pc = "wait" /\ UNCHANGED <<request, marks, runs, released, container, orphans>>
    BY <1>15 DEF GuestRuntime!Wait
  <2>2. \E pc0 \in ConnSteps : GuestRuntime!Goto(w, pc0) \/ \E b \in BOOLEAN : conn' = [conn EXCEPT ![w].pc = pc0, ![w].ok = b]
    BY <1>15 DEF GuestRuntime!Wait, ConnSteps
  <2> QED
    BY <1>7, <1>8, <2>1, <2>2 DEF GuestRuntime!Registered
<1>16. ASSUME NEW o \in Ops, GuestRuntime!Exits(o) PROVE RuntimeInv'
  <2>1. /\ UNCHANGED <<request, marks, runs, released, orphans, conn>>
        /\ container' = [container EXCEPT ![o] = "exited"]
    BY <1>16 DEF GuestRuntime!Exits
  <2>2. RuntimeTypes' /\ Supervised'
    BY <1>0, <2>1 DEF RuntimeTypes, Supervised
  <2>3. BegunIsMarked' /\ RunsAlone' /\ ReleasedStays'
    BY <1>0, <2>1 DEF BegunIsMarked, RunsAlone, ReleasedStays, GuestRuntime!Active,
         GuestRuntime!ActiveOps, GuestRuntime!Kind
  <2> QED
    BY <2>2, <2>3 DEF RuntimeInv
<1>17. ASSUME NEW w \in Workers, conn[w].pc = "stop", GuestRuntime!AfterStop(w)
       PROVE  ConnGoesOn(w)
  BY <1>7, <1>17 DEF GuestRuntime!AfterStop, ConnSteps, GuestRuntime!Registered
<1>18. ASSUME NEW w \in Workers, GuestRuntime!Stop(w) PROVE RuntimeInv'
  <2>1. /\ conn[w].pc = "stop" /\ conn[w].op \in Ops /\ GuestRuntime!AfterStop(w)
        /\ UNCHANGED <<request, marks, runs, released, orphans>>
        /\ container' = [container EXCEPT ![conn[w].op] = IF @ = "running" THEN "exited" ELSE @]
    BY <1>0, <1>18 DEF GuestRuntime!Stop, BegunIsMarked
  <2>2. ConnGoesOn(w)
    BY <1>17, <2>1
  <2>3. container' \in [Ops -> {"none", "created", "running", "exited"}]
    BY <1>0, <2>1 DEF RuntimeTypes
  <2>4. Supervised'
    <3> SUFFICES ASSUME NEW o \in Ops \ orphans, container[o] = "running", o # conn[w].op
                 PROVE  \E v \in Workers : conn'[v].op = o /\ conn'[v].pc \in {"attach", "stop"}
      BY <1>0, <2>1 DEF Supervised, RuntimeTypes
    <3>1. PICK v \in Workers : conn[v].op = o /\ conn[v].pc \in {"attach", "stop"}
      BY <1>0 DEF Supervised
    <3> QED
      BY <2>2, <3>1 DEF ConnGoesOn, ConnMoves
  <2> QED
    BY <1>6, <2>1, <2>2, <2>3, <2>4 DEF GuestRuntime!Registered
<1>19. ASSUME NEW w \in Workers, GuestRuntime!StopFails(w) PROVE RuntimeInv'
  <2>1. /\ conn[w].pc = "stop" /\ GuestRuntime!AfterStop(w) /\ orphans' = orphans \cup {conn[w].op}
        /\ UNCHANGED <<request, marks, runs, released, container>>
    BY <1>19 DEF GuestRuntime!StopFails
  <2>2. ConnGoesOn(w)
    BY <1>17, <2>1
  <2>3. Supervised'
    BY <2>1, <2>2, SupervisionKept DEF ConnGoesOn
  <2> QED
    BY <1>0, <1>6, <2>1, <2>2, <2>3 DEF GuestRuntime!Registered, RuntimeTypes
<1>20. ASSUME NEW w \in Workers, GuestRuntime!Proof(w) PROVE RuntimeInv'
  <2>1. conn[w].pc = "proof" /\ UNCHANGED <<request, marks, runs, released, container, orphans>>
    BY <1>20 DEF GuestRuntime!Proof
  <2>2. \E pc0 \in ConnSteps : GuestRuntime!Goto(w, pc0) \/ \E b \in BOOLEAN : conn' = [conn EXCEPT ![w].pc = pc0, ![w].ok = b]
    BY <1>20 DEF GuestRuntime!Proof, ConnSteps
  <2> QED
    BY <1>7, <1>8, <2>1, <2>2 DEF GuestRuntime!Registered
<1>21. ASSUME NEW w \in Workers, GuestRuntime!Leave(w) PROVE RuntimeInv'
  <2>1. /\ conn[w].pc = "leave" /\ GuestRuntime!Close(w)
        /\ UNCHANGED <<request, marks, runs, released, container, orphans>>
    BY <1>21 DEF GuestRuntime!Leave
  <2> QED
    BY <1>8, <2>1, ConnClosed DEF GuestRuntime!Registered
<1>22. ASSUME NEW w \in Workers, GuestRuntime!Monitor(w) PROVE RuntimeInv'
  <2>1. /\ conn[w].pc \in GuestRuntime!Registered /\ conn' = [conn EXCEPT ![w].cancelled = TRUE]
        /\ UNCHANGED <<request, marks, runs, released, container, orphans>>
    BY <1>22 DEF GuestRuntime!Monitor, GuestRuntime!Active
  <2>2. /\ ConnMoves(w) /\ conn'[w].pc = conn[w].pc
        /\ conn'[w].op = conn[w].op /\ conn'[w].awaits = conn[w].awaits
    BY <1>0, <2>1 DEF RuntimeTypes, Conns, ConnMoves
  <2>3. ConnGoesOn(w)
    BY <2>1, <2>2 DEF ConnGoesOn, GuestRuntime!Registered
  <2>4. Supervised'
    BY <2>1, <2>2, SupervisionKept
  <2> QED
    BY <1>0, <1>6, <2>1, <2>3, <2>4 DEF RuntimeTypes
<1>23. ASSUME NEW o \in Ops, GuestRuntime!Withdraw(o) PROVE RuntimeInv'
  <2>1. UNCHANGED <<request, marks, runs, released, orphans, conn, container>>
    BY <1>23 DEF GuestRuntime!Withdraw
  <2>2. RuntimeTypes' /\ Supervised'
    BY <1>0, <2>1 DEF RuntimeTypes, Supervised
  <2>3. BegunIsMarked' /\ RunsAlone' /\ ReleasedStays'
    BY <1>0, <2>1 DEF BegunIsMarked, RunsAlone, ReleasedStays, GuestRuntime!Active,
         GuestRuntime!ActiveOps, GuestRuntime!Kind
  <2> QED
    BY <2>2, <2>3 DEF RuntimeInv
<1>24. CASE GuestRuntime!Crash
  <2>1. /\ conn' = [w \in Workers |-> GuestRuntime!Idle] /\ orphans' = orphans \cup GuestRuntime!ActiveOps
        /\ UNCHANGED <<request, marks, runs, released, container>>
    BY <1>24 DEF GuestRuntime!Crash
  <2>2. conn' \in [Workers -> Conns] /\ \A w \in Workers : conn'[w].pc = "idle" /\ conn'[w].awaits = {}
    BY <2>1, IdleConn
  <2>3. BegunIsMarked' /\ RunsAlone' /\ ReleasedStays'
    BY <1>0, <2>1, <2>2 DEF BegunIsMarked, RunsAlone, ReleasedStays, GuestRuntime!Active,
         GuestRuntime!ActiveOps, GuestRuntime!Registered
  <2>4. Supervised'
    BY <1>0, <2>1 DEF Supervised, GuestRuntime!Active, GuestRuntime!ActiveOps, GuestRuntime!Registered
  <2> QED
    BY <1>0, <2>1, <2>2, <2>3, <2>4 DEF RuntimeInv, RuntimeTypes
<1> QED
  BY <1>1, <1>2, <1>3, <1>4, <1>5, <1>9, <1>10, <1>11, <1>12, <1>13, <1>14, <1>15, <1>16,
     <1>18, <1>19, <1>20, <1>21, <1>22, <1>23, <1>24 DEF GuestRuntime!Next, GuestRuntime!Execute

LEMMA RuntimeInvSuffices == RuntimeInv => OperationsContained
<1> SUFFICES ASSUME RuntimeInv PROVE OperationsContained
  OBVIOUS
<1>1. GuestRuntime!BegunOnce
  BY DEF RuntimeInv, BegunIsMarked, GuestRuntime!BegunOnce
<1>2. GuestRuntime!Alone
  <2> DEFINE S == {w \in GuestRuntime!Active : GuestRuntime!Kind(w) # "release"}
  <2>1. \A v, w \in S : v = w
    BY DEF RuntimeInv, RunsAlone
  <2>2. S = {} \/ \E w \in S : S = {w}
    BY <2>1
  <2>3. Cardinality(S) <= 1
    BY <2>2, FS_EmptySet, FS_Singleton
  <2> QED
    BY <2>3, Zenon DEF GuestRuntime!Alone, GuestRuntime!Cardinality, Cardinality
<1>3. GuestRuntime!ReleasedIsOver
  <2> SUFFICES ASSUME NEW o \in released \ orphans
               PROVE  o \notin GuestRuntime!ActiveOps /\ container[o] # "running"
    BY DEF GuestRuntime!ReleasedIsOver
  <2>1. o \notin GuestRuntime!ActiveOps /\ o \in Ops
    BY DEF RuntimeInv, ReleasedStays, BegunIsMarked, RuntimeTypes
  <2>2. ~\E w \in Workers : conn[w].op = o /\ conn[w].pc \in {"attach", "stop"}
    BY <2>1 DEF GuestRuntime!ActiveOps, GuestRuntime!Active, GuestRuntime!Registered
  <2> QED
    BY <2>1, <2>2 DEF RuntimeInv, Supervised
<1> QED
  BY <1>1, <1>2, <1>3 DEF OperationsContained

\* No operation of a guest is begun twice, none runs beside another, and what a release has waited
\* for is over, its container as well: the runtime broker, with its files of dispatch and its lock,
\* for any number of launchers, operations and crashes.
THEOREM OperationsContainedHolds == MCSpec => []OperationsContained
<1>1. MCInit => RuntimeInv
  BY RuntimeInit DEF MCInit
<1>2. RuntimeInv /\ [MCNext]_<<part, vars, runtimeVars, dataVars, pageVars>> => RuntimeInv'
  <2> SUFFICES ASSUME RuntimeInv, [MCNext]_<<part, vars, runtimeVars, dataVars, pageVars>>
               PROVE  RuntimeInv'
    OBVIOUS
  <2>1. CASE GuestRuntime!Next
    BY <2>1, RuntimeStep
  <2>2. CASE UNCHANGED runtimeVars
    BY <2>2 DEF runtimeVars, RuntimeInv, RuntimeTypes, BegunIsMarked, RunsAlone, Supervised,
         ReleasedStays, GuestRuntime!Active, GuestRuntime!ActiveOps, GuestRuntime!Kind
  <2> QED
    BY <2>1, <2>2 DEF MCNext
<1> QED
  BY <1>1, <1>2, RuntimeInvSuffices, PTL DEF MCSpec

-----------------------------------------------------------------------------
(* The disk of a guest.                                                    *)

Receipts == [stage : {"none", "reserved", "format_dispatched", "complete"},
             plan : Plans \cup {GuestData!NoPlan}, dev : Devices \cup {0}]
ProcSteps == {"idle", "load", "reserve", "format", "mkfs", "mount", "quota", "complete", "expose", "own"}

DataTypes ==
  /\ blocks \in [fs : {"blank", "ours", "partly", "foreign"}, dev : Devices]
  /\ mounted \in {"nowhere", "ours", "elsewhere"}
  /\ receipt \in Receipts
  /\ proc \in [Procs -> [pc : ProcSteps, plan : Plans \cup {GuestData!NoPlan}, have : Receipts]]
  /\ formats \in Nat /\ stray \in BOOLEAN /\ data \in BOOLEAN

\* One process at a time is at work, and knows what the receipt says.
Locked ==
  \A p \in Procs :
    /\ proc[p].pc # "idle" => holder = {p}
    /\ proc[p].pc \notin {"idle", "load", "reserve"} => proc[p].have = receipt
    /\ proc[p].pc = "reserve" => receipt.stage = "none"
    /\ proc[p].pc = "format" => receipt.stage = "reserved"
    /\ proc[p].pc = "mkfs" =>
         /\ receipt.stage = "format_dispatched" /\ formats = 0 /\ ~stray /\ ~data
         /\ blocks.fs = "blank" /\ mounted = "nowhere"
    /\ proc[p].pc \in {"complete", "expose", "own"} =>
         blocks.fs = "ours" /\ mounted = "ours" /\ limited = {"p", "u"}

\* The receipt is ahead of the disk.
ReceiptAhead ==
  /\ formats <= 1
  /\ receipt.stage \in {"none", "reserved"} => formats = 0
  /\ receipt.stage = "complete" => blocks.fs = "ours"
  /\ stray => formats = 1

\* There is data on a whole filesystem alone.
DataWhole ==
  /\ data => blocks.fs \in {"ours", "foreign"}
  /\ mounted = "ours" => blocks.fs = "ours"

DataInv == DataTypes /\ Locked /\ ReceiptAhead /\ DataWhole

LEMMA DataInit == GuestData!Init => DataInv
<1> SUFFICES ASSUME GuestData!Init PROVE DataInv
  OBVIOUS
<1>1. GuestData!NoReceipt \in Receipts /\ GuestData!NoReceipt.stage = "none"
  BY DEF GuestData!NoReceipt, Receipts
<1>2. GuestData!Idle \in [pc : ProcSteps, plan : Plans \cup {GuestData!NoPlan}, have : Receipts]
      /\ GuestData!Idle.pc = "idle"
  BY <1>1 DEF GuestData!Idle, ProcSteps
<1>3. DataTypes
  BY <1>1, <1>2 DEF GuestData!Init, DataTypes
<1>4. Locked
  BY <1>2 DEF GuestData!Init, Locked
<1>5. data => blocks.fs = "foreign"
  BY Zenon DEF GuestData!Init
<1>6. ReceiptAhead /\ DataWhole
  BY <1>1, <1>5 DEF GuestData!Init, ReceiptAhead, DataWhole
<1> QED
  BY <1>3, <1>4, <1>6 DEF DataInv

Procedures == [pc : ProcSteps, plan : Plans \cup {GuestData!NoPlan}, have : Receipts]

\* A process that is at work is the only one.
LEMMA WorksAlone ==
  ASSUME DataInv, NEW p \in Procs, proc[p].pc # "idle"
  PROVE  holder = {p} /\ \A q \in Procs \ {p} : proc[q].pc = "idle"
BY DEF DataInv, Locked

LEMMA ProcExits ==
  ASSUME DataInv, NEW p \in Procs, proc[p].pc # "idle", GuestData!Exit(p)
  PROVE  /\ proc' \in [Procs -> Procedures] /\ \A q \in Procs : proc'[q].pc = "idle"
         /\ Locked'
<1>1. GuestData!Idle \in Procedures /\ GuestData!Idle.pc = "idle"
  BY DEF GuestData!Idle, GuestData!NoReceipt, Procedures, ProcSteps, Receipts
<1>2. proc' \in [Procs -> Procedures] /\ \A q \in Procs : proc'[q].pc = "idle"
  BY <1>1, WorksAlone DEF DataInv, DataTypes, GuestData!Exit, Procedures
<1> QED
  BY <1>2 DEF Locked

LEMMA ProcGoes ==
  ASSUME DataInv, NEW p \in Procs, proc[p].pc # "idle", NEW pc0 \in ProcSteps, GuestData!Goto(p, pc0)
  PROVE  /\ proc' \in [Procs -> Procedures] /\ proc'[p].pc = pc0 /\ proc'[p].have = proc[p].have
         /\ \A q \in Procs \ {p} : proc'[q].pc = "idle"
BY WorksAlone DEF DataInv, DataTypes, GuestData!Goto, Procedures

\* The receipt is replaced, and the process goes on; or it is left, old or new.
LEMMA ReceiptSaved ==
  ASSUME DataInv, NEW p \in Procs, proc[p].pc # "idle", NEW new \in Receipts, NEW pc0 \in ProcSteps,
         GuestData!Saves(p, new, pc0)
  PROVE  /\ receipt' \in {receipt, new} /\ proc' \in [Procs -> Procedures]
         /\ \/ Locked'
            \/ /\ receipt' = new /\ proc'[p].pc = pc0 /\ proc'[p].have = new
               /\ UNCHANGED holder /\ \A q \in Procs \ {p} : proc'[q].pc = "idle"
<1>1. CASE GuestData!Exit(p) /\ receipt' \in {receipt, new}
  BY <1>1, ProcExits
<1>2. CASE receipt' = new /\ proc' = [proc EXCEPT ![p].have = new, ![p].pc = pc0] /\ UNCHANGED holder
  <2>1. /\ proc' \in [Procs -> Procedures] /\ proc'[p].pc = pc0 /\ proc'[p].have = new
        /\ \A q \in Procs \ {p} : proc'[q] = proc[q]
    BY <1>2 DEF DataInv, DataTypes, Procedures
  <2> QED
    BY <1>2, <2>1, WorksAlone
<1> QED
  BY <1>1, <1>2 DEF GuestData!Saves

LEMMA DataStep == DataInv /\ GuestData!Next => DataInv'
<1> SUFFICES ASSUME DataInv, GuestData!Next PROVE DataInv'
  OBVIOUS
<1>0. DataTypes /\ Locked /\ ReceiptAhead /\ DataWhole
  BY DEF DataInv
<1> USE DEF GuestData!At, GuestData!diskVars
<1>1. ASSUME NEW p \in Procs, NEW plan \in Plans, GuestData!Start(p, plan) PROVE DataInv'
  <2>1. /\ holder = {} /\ holder' = {p} /\ UNCHANGED <<blocks, mounted, limited, receipt, formats, stray, data>>
        /\ proc' = [proc EXCEPT ![p] = [GuestData!Idle EXCEPT !.pc = "load", !.plan = plan]]
    BY <1>1 DEF GuestData!Start
  <2>2. [GuestData!Idle EXCEPT !.pc = "load", !.plan = plan] \in Procedures
        /\ [GuestData!Idle EXCEPT !.pc = "load", !.plan = plan].pc = "load"
    BY DEF GuestData!Idle, GuestData!NoReceipt, Procedures, ProcSteps, Receipts
  <2>3. proc' \in [Procs -> Procedures] /\ proc'[p].pc = "load" /\ \A q \in Procs \ {p} : proc'[q].pc = "idle"
    BY <1>0, <2>1, <2>2 DEF DataTypes, Procedures, Locked
  <2>4. DataTypes'
    BY <1>0, <2>1, <2>3 DEF DataTypes, Procedures
  <2>5. Locked'
    BY <2>1, <2>3 DEF Locked
  <2> QED
    BY <1>0, <2>1, <2>4, <2>5 DEF DataInv, ReceiptAhead, DataWhole
<1>2. ASSUME NEW p \in Procs, GuestData!Load(p) PROVE DataInv'
  <2>1. proc[p].pc = "load" /\ UNCHANGED <<blocks, mounted, limited, receipt, formats, stray, data>>
    BY <1>2 DEF GuestData!Load
  <2>2. proc' \in [Procs -> Procedures] /\ Locked'
    <3>1. CASE GuestData!Exit(p)
      BY <2>1, <3>1, ProcExits
    <3>2. CASE receipt.stage = "none" /\ GuestData!Goto(p, "reserve") /\ UNCHANGED holder
      <4>1. proc' \in [Procs -> Procedures] /\ proc'[p].pc = "reserve" /\ \A q \in Procs \ {p} : proc'[q].pc = "idle"
        BY <2>1, <3>2, ProcGoes DEF ProcSteps
      <4> QED
        BY <2>1, <3>2, <4>1, WorksAlone DEF Locked
    <3>3. CASE /\ receipt.stage # "none" /\ UNCHANGED holder
               /\ proc' = [proc EXCEPT ![p].pc = IF receipt.stage = "reserved" THEN "format" ELSE "mount",
                                       ![p].have = receipt]
      <4> DEFINE next == IF receipt.stage = "reserved" THEN "format" ELSE "mount"
      <4>2. next \in ProcSteps /\ receipt \in Receipts /\ proc \in [Procs -> Procedures]
        BY <1>0 DEF DataTypes, Procedures, ProcSteps
      <4>3. proc' = [proc EXCEPT ![p].pc = next, ![p].have = receipt]
        BY <3>3
      <4> HIDE DEF next
      <4>1. /\ proc' \in [Procs -> Procedures] /\ proc'[p].have = receipt /\ proc'[p].pc = next
            /\ \A q \in Procs \ {p} : proc'[q] = proc[q]
        BY <4>2, <4>3 DEF Procedures
      <4> USE DEF next
      <4> QED
        BY <2>1, <3>3, <4>1, WorksAlone DEF Locked
    <3> QED
      BY <1>2, <3>1, <3>2, <3>3 DEF GuestData!Load
  <2>3. DataTypes'
    BY <1>0, <2>1, <2>2 DEF DataTypes, Procedures
  <2> QED
    BY <1>0, <2>1, <2>2, <2>3 DEF DataInv, ReceiptAhead, DataWhole
<1>3. ASSUME NEW p \in Procs, GuestData!Reserve(p) PROVE DataInv'
  <2> DEFINE new == [stage |-> "reserved", plan |-> proc[p].plan, dev |-> blocks.dev]
  <2>1. proc[p].pc = "reserve" /\ UNCHANGED <<blocks, mounted, limited, formats, stray, data>>
    BY <1>3 DEF GuestData!Reserve
  <2>2. new \in Receipts /\ new.stage = "reserved" /\ GuestData!Saves(p, new, "format")
    BY <1>0, <1>3 DEF GuestData!Reserve, DataTypes, Receipts
  <2> HIDE DEF new
  <2>3. receipt.stage = "none" /\ formats = 0
    BY <1>0, <2>1 DEF Locked, ReceiptAhead
  <2>4. /\ receipt' \in {receipt, new} /\ proc' \in [Procs -> Procedures]
        /\ \/ Locked'
           \/ /\ receipt' = new /\ proc'[p].pc = "format" /\ proc'[p].have = new
              /\ UNCHANGED holder /\ \A q \in Procs \ {p} : proc'[q].pc = "idle"
    BY <2>1, <2>2, ReceiptSaved DEF ProcSteps
  <2>5. Locked'
    BY <2>1, <2>2, <2>4, WorksAlone DEF Locked
  <2>6. DataTypes'
    BY <1>0, <2>1, <2>2, <2>4 DEF DataTypes, Procedures
  <2> QED
    BY <1>0, <2>1, <2>2, <2>3, <2>4, <2>5, <2>6 DEF DataInv, ReceiptAhead, DataWhole
<1>4. ASSUME NEW p \in Procs, GuestData!Dispatch(p) PROVE DataInv'
  <2> DEFINE new == [proc[p].have EXCEPT !.stage = "format_dispatched"]
  <2>1. proc[p].pc = "format" /\ UNCHANGED <<blocks, mounted, limited, formats, stray, data>>
    BY <1>4 DEF GuestData!Dispatch
  <2>2. CASE GuestData!Blank /\ GuestData!Saves(p, new, "mkfs")
    <3>1. new \in Receipts /\ new.stage = "format_dispatched"
      BY <1>0 DEF DataTypes, Receipts
    <3> HIDE DEF new
    <3>2. formats = 0 /\ blocks.fs = "blank" /\ mounted = "nowhere"
      BY <1>0, <2>1, <2>2 DEF Locked, ReceiptAhead, GuestData!Blank
    <3>3. ~stray /\ ~data
      BY <1>0, <3>2 DEF ReceiptAhead, DataWhole
    <3>4. /\ receipt' \in {receipt, new} /\ proc' \in [Procs -> Procedures]
          /\ \/ Locked'
             \/ /\ receipt' = new /\ proc'[p].pc = "mkfs" /\ proc'[p].have = new
                /\ UNCHANGED holder /\ \A q \in Procs \ {p} : proc'[q].pc = "idle"
      BY <2>1, <2>2, <3>1, ReceiptSaved DEF ProcSteps
    <3>5. Locked'
      BY <2>1, <3>1, <3>2, <3>3, <3>4, WorksAlone DEF Locked
    <3>6. DataTypes'
      BY <1>0, <2>1, <3>1, <3>4 DEF DataTypes, Procedures
    <3> QED
      BY <1>0, <2>1, <3>1, <3>2, <3>3, <3>4, <3>5, <3>6 DEF DataInv, ReceiptAhead, DataWhole
  <2>3. CASE GuestData!Exit(p) /\ UNCHANGED receipt
    BY <1>0, <2>1, <2>3, ProcExits DEF DataInv, DataTypes, Procedures, ReceiptAhead, DataWhole
  <2> QED
    BY <1>4, <2>2, <2>3 DEF GuestData!Dispatch
<1>5. ASSUME NEW p \in Procs, GuestData!Mkfs(p) PROVE DataInv'
  <2>1. /\ proc[p].pc = "mkfs" /\ formats' = formats + 1 /\ blocks' = [blocks EXCEPT !.fs = "ours"]
        /\ GuestData!Goto(p, "mount") /\ UNCHANGED <<mounted, limited, receipt, stray, data, holder>>
    BY <1>5 DEF GuestData!Mkfs
  <2>2. /\ receipt.stage = "format_dispatched" /\ formats = 0 /\ ~stray /\ ~data
        /\ proc[p].have = receipt
    BY <1>0, <2>1 DEF Locked
  <2>3. /\ proc' \in [Procs -> Procedures] /\ proc'[p].pc = "mount" /\ proc'[p].have = proc[p].have
        /\ \A q \in Procs \ {p} : proc'[q].pc = "idle"
    BY <2>1, ProcGoes DEF ProcSteps
  <2>4. blocks' \in [fs : {"blank", "ours", "partly", "foreign"}, dev : Devices] /\ blocks'.fs = "ours"
    BY <1>0, <2>1 DEF DataTypes
  <2>5. DataTypes'
    BY <1>0, <2>1, <2>2, <2>3, <2>4 DEF DataTypes, Procedures
  <2>6. Locked'
    BY <2>1, <2>2, <2>3, WorksAlone DEF Locked
  <2> QED
    BY <1>0, <2>1, <2>2, <2>4, <2>5, <2>6 DEF DataInv, ReceiptAhead, DataWhole
<1>6. ASSUME NEW p \in Procs, GuestData!MkfsFails(p) PROVE DataInv'
  <2>1. /\ proc[p].pc = "mkfs" /\ formats' = formats + 1 /\ GuestData!Exit(p)
        /\ blocks' \in {[blocks EXCEPT !.fs = f] : f \in {"blank", "partly", "ours"}}
        /\ UNCHANGED <<mounted, limited, receipt, stray, data>>
    BY <1>6 DEF GuestData!MkfsFails
  <2>2. /\ receipt.stage = "format_dispatched" /\ formats = 0 /\ ~stray /\ ~data /\ mounted = "nowhere"
    BY <1>0, <2>1 DEF Locked
  <2>3. proc' \in [Procs -> Procedures] /\ Locked'
    BY <2>1, ProcExits
  <2>4. blocks' \in [fs : {"blank", "ours", "partly", "foreign"}, dev : Devices]
    BY <1>0, <2>1 DEF DataTypes
  <2>5. DataTypes'
    BY <1>0, <2>1, <2>2, <2>3, <2>4 DEF DataTypes, Procedures
  <2> QED
    BY <1>0, <2>1, <2>2, <2>3, <2>5 DEF DataInv, ReceiptAhead, DataWhole
<1>7. ASSUME NEW p \in Procs, GuestData!Outlives(p) PROVE DataInv'
  <2>1. /\ proc[p].pc = "mkfs" /\ formats' = formats + 1 /\ GuestData!Exit(p) /\ stray' = TRUE
        /\ UNCHANGED <<blocks, mounted, limited, receipt, data>>
    BY <1>7 DEF GuestData!Outlives
  <2>2. /\ receipt.stage = "format_dispatched" /\ formats = 0
    BY <1>0, <2>1 DEF Locked
  <2>3. proc' \in [Procs -> Procedures] /\ Locked'
    BY <2>1, ProcExits
  <2>4. DataTypes'
    BY <1>0, <2>1, <2>2, <2>3 DEF DataTypes, Procedures
  <2> QED
    BY <1>0, <2>1, <2>2, <2>3, <2>4 DEF DataInv, ReceiptAhead, DataWhole
<1>8. ASSUME NEW p \in Procs, GuestData!Mount(p) PROVE DataInv'
  <2>1. proc[p].pc = "mount" /\ UNCHANGED <<blocks, limited, receipt, formats, stray, data>>
    BY <1>8 DEF GuestData!Mount
  <2>2. CASE blocks.fs = "ours" /\ mounted' = "ours" /\ GuestData!Goto(p, "quota") /\ UNCHANGED holder
    <3>1. /\ proc' \in [Procs -> Procedures] /\ proc'[p].pc = "quota" /\ proc'[p].have = proc[p].have
          /\ \A q \in Procs \ {p} : proc'[q].pc = "idle"
      BY <2>1, <2>2, ProcGoes DEF ProcSteps
    <3>2. Locked'
      BY <1>0, <2>1, <2>2, <3>1, WorksAlone DEF Locked
    <3>3. DataTypes'
      BY <1>0, <2>1, <2>2, <3>1 DEF DataTypes, Procedures
    <3> QED
      BY <1>0, <2>1, <2>2, <3>2, <3>3 DEF DataInv, ReceiptAhead, DataWhole
  <2>3. CASE GuestData!Exit(p) /\ UNCHANGED mounted
    BY <1>0, <2>1, <2>3, ProcExits DEF DataInv, DataTypes, Procedures, ReceiptAhead, DataWhole
  <2> QED
    BY <1>8, <2>2, <2>3 DEF GuestData!Mount
<1>9. ASSUME NEW p \in Procs, GuestData!Quota(p) PROVE DataInv'
  <2>1. proc[p].pc = "quota" /\ UNCHANGED <<blocks, mounted, receipt, formats, stray, data>>
    BY <1>9 DEF GuestData!Quota
  <2>2. CASE mounted = "ours" /\ limited' = {"p", "u"} /\ GuestData!Goto(p, "complete") /\ UNCHANGED holder
    <3>1. /\ proc' \in [Procs -> Procedures] /\ proc'[p].pc = "complete" /\ proc'[p].have = proc[p].have
          /\ \A q \in Procs \ {p} : proc'[q].pc = "idle"
      BY <2>1, <2>2, ProcGoes DEF ProcSteps
    <3>2. Locked'
      BY <1>0, <2>1, <2>2, <3>1, WorksAlone DEF Locked, DataWhole
    <3>3. DataTypes'
      BY <1>0, <2>1, <3>1 DEF DataTypes, Procedures
    <3> QED
      BY <1>0, <2>1, <3>2, <3>3 DEF DataInv, ReceiptAhead, DataWhole
  <2>3. CASE GuestData!Exit(p)
    BY <1>0, <2>1, <2>3, ProcExits DEF DataInv, DataTypes, Procedures, ReceiptAhead, DataWhole
  <2> QED
    BY <1>9, <2>2, <2>3 DEF GuestData!Quota
<1>10. ASSUME NEW p \in Procs, GuestData!ToolFails(p) \/ GuestData!Crash(p) PROVE DataInv'
  <2>1. /\ proc[p].pc # "idle" /\ GuestData!Exit(p)
        /\ UNCHANGED <<blocks, mounted, receipt, formats, stray, data>>
    BY <1>10 DEF GuestData!ToolFails, GuestData!Crash
  <2> QED
    BY <1>0, <2>1, ProcExits DEF DataInv, DataTypes, Procedures, ReceiptAhead, DataWhole
<1>11. ASSUME NEW p \in Procs, GuestData!Complete(p) PROVE DataInv'
  <2> DEFINE new == [proc[p].have EXCEPT !.stage = "complete"]
  <2>1. /\ proc[p].pc = "complete" /\ UNCHANGED <<blocks, mounted, limited, formats, stray, data>>
        /\ GuestData!Saves(p, new, "expose")
    BY <1>11 DEF GuestData!Complete
  <2>2. new \in Receipts /\ new.stage = "complete"
    BY <1>0 DEF DataTypes, Receipts
  <2> HIDE DEF new
  <2>3. blocks.fs = "ours" /\ mounted = "ours" /\ limited = {"p", "u"}
    BY <1>0, <2>1 DEF Locked
  <2>4. /\ receipt' \in {receipt, new} /\ proc' \in [Procs -> Procedures]
        /\ \/ Locked'
           \/ /\ receipt' = new /\ proc'[p].pc = "expose" /\ proc'[p].have = new
              /\ UNCHANGED holder /\ \A q \in Procs \ {p} : proc'[q].pc = "idle"
    BY <2>1, <2>2, ReceiptSaved DEF ProcSteps
  <2>5. Locked'
    BY <2>1, <2>2, <2>3, <2>4, WorksAlone DEF Locked
  <2>6. DataTypes'
    BY <1>0, <2>1, <2>2, <2>4 DEF DataTypes, Procedures
  <2> QED
    BY <1>0, <2>1, <2>2, <2>3, <2>4, <2>5, <2>6 DEF DataInv, ReceiptAhead, DataWhole
<1>12. ASSUME NEW p \in Procs, GuestData!MakeWorkspace(p) PROVE DataInv'
  <2>1. proc[p].pc = "expose" /\ UNCHANGED <<blocks, mounted, limited, receipt, formats, stray, data>>
    BY <1>12 DEF GuestData!MakeWorkspace
  <2>2. CASE GuestData!Goto(p, "own") /\ UNCHANGED holder
    <3>1. /\ proc' \in [Procs -> Procedures] /\ proc'[p].pc = "own" /\ proc'[p].have = proc[p].have
          /\ \A q \in Procs \ {p} : proc'[q].pc = "idle"
      BY <2>1, <2>2, ProcGoes DEF ProcSteps
    <3>2. Locked'
      BY <1>0, <2>1, <2>2, <3>1, WorksAlone DEF Locked
    <3>3. DataTypes'
      BY <1>0, <2>1, <3>1 DEF DataTypes, Procedures
    <3> QED
      BY <1>0, <2>1, <3>2, <3>3 DEF DataInv, ReceiptAhead, DataWhole
  <2>3. CASE GuestData!Exit(p)
    BY <1>0, <2>1, <2>3, ProcExits DEF DataInv, DataTypes, Procedures, ReceiptAhead, DataWhole
  <2> QED
    BY <1>12, <2>2, <2>3 DEF GuestData!MakeWorkspace
<1>13. ASSUME NEW p \in Procs, GuestData!OwnWorkspace(p) PROVE DataInv'
  <2>1. /\ proc[p].pc = "own" /\ GuestData!Exit(p)
        /\ UNCHANGED <<blocks, mounted, limited, receipt, formats, stray, data>>
    BY <1>13 DEF GuestData!OwnWorkspace
  <2> QED
    BY <1>0, <2>1, ProcExits DEF DataInv, DataTypes, Procedures, ReceiptAhead, DataWhole
<1>14. CASE GuestData!StrayEnds
  <2>1. /\ stray = TRUE /\ stray' = FALSE /\ blocks' = [blocks EXCEPT !.fs = "ours"]
        /\ UNCHANGED <<mounted, limited, receipt, formats, data, proc, holder>>
    BY <1>0, <1>14 DEF GuestData!StrayEnds, DataTypes
  <2>2. blocks' \in [fs : {"blank", "ours", "partly", "foreign"}, dev : Devices] /\ blocks'.fs = "ours"
    BY <1>0, <2>1 DEF DataTypes
  <2>3. DataTypes'
    BY <1>0, <2>1, <2>2 DEF DataTypes
  <2>4. Locked'
    BY <1>0, <2>1, <2>2 DEF Locked
  <2> QED
    BY <1>0, <2>1, <2>2, <2>3, <2>4 DEF DataInv, ReceiptAhead, DataWhole
<1>15. CASE GuestData!Reboot
  <2>1. /\ mounted' = "nowhere" /\ proc' = [p \in Procs |-> GuestData!Idle] /\ stray' = FALSE
        /\ UNCHANGED <<receipt, formats, data>>
    BY <1>15 DEF GuestData!Reboot
  <2>2. blocks' \in [fs : {"blank", "ours", "partly", "foreign"}, dev : Devices] /\ blocks'.fs = blocks.fs
    BY <1>0, <1>15 DEF GuestData!Reboot, DataTypes
  <2>3. GuestData!Idle \in Procedures /\ GuestData!Idle.pc = "idle"
    BY DEF GuestData!Idle, GuestData!NoReceipt, Procedures, ProcSteps, Receipts
  <2>4. DataTypes'
    BY <1>0, <2>1, <2>2, <2>3 DEF DataTypes, Procedures
  <2>5. Locked'
    BY <2>1, <2>3 DEF Locked
  <2> QED
    BY <1>0, <2>1, <2>2, <2>4, <2>5 DEF DataInv, ReceiptAhead, DataWhole
<1>16. CASE GuestData!Elsewhere
  <2>1. /\ mounted = "nowhere" /\ mounted' = "elsewhere" /\ blocks.fs # "blank"
        /\ UNCHANGED <<blocks, limited, receipt, formats, stray, data, proc, holder>>
    BY <1>16 DEF GuestData!Elsewhere
  <2>2. Locked'
    BY <1>0, <2>1 DEF Locked
  <2> QED
    BY <1>0, <2>1, <2>2 DEF DataInv, DataTypes, ReceiptAhead, DataWhole
<1>17. CASE GuestData!UserWrites
  <2>1. /\ mounted = "ours" /\ data' = TRUE
        /\ UNCHANGED <<blocks, mounted, limited, receipt, formats, stray, proc, holder>>
    BY <1>17 DEF GuestData!UserWrites
  <2>2. Locked'
    BY <1>0, <2>1 DEF Locked
  <2> QED
    BY <1>0, <2>1, <2>2 DEF DataInv, DataTypes, ReceiptAhead, DataWhole
<1>18. ASSUME NEW plan \in Plans, GuestData!Withdraw(plan) PROVE DataInv'
  BY <1>0, <1>18 DEF GuestData!Withdraw, DataInv, DataTypes, Locked, ReceiptAhead, DataWhole
<1> QED
  BY <1>1, <1>2, <1>3, <1>4, <1>5, <1>6, <1>7, <1>8, <1>9, <1>10, <1>11, <1>12, <1>13, <1>14,
     <1>15, <1>16, <1>17, <1>18 DEF GuestData!Next

\* The disk of a guest is formatted once and never over data, and is ready only in its place and
\* with its limits, whatever crashes between InitializeData's steps and whatever is tried again.
THEOREM DataKeptHolds == MCSpec => []DataKept
<1>1. MCInit => DataInv
  BY DataInit DEF MCInit
<1>2. DataInv /\ [MCNext]_<<part, vars, runtimeVars, dataVars, pageVars>> => DataInv'
  <2> SUFFICES ASSUME DataInv, [MCNext]_<<part, vars, runtimeVars, dataVars, pageVars>>
               PROVE  DataInv'
    OBVIOUS
  <2>1. CASE GuestData!Next
    BY <2>1, DataStep
  <2>2. CASE UNCHANGED dataVars
    BY <2>2 DEF dataVars, DataInv, DataTypes, Locked, ReceiptAhead, DataWhole
  <2> QED
    BY <2>1, <2>2 DEF MCNext
<1>3. DataInv => DataKept
  BY DEF DataInv, Locked, ReceiptAhead, DataWhole, DataKept, GuestData!FormatsOnce,
         GuestData!ReadyMeansLimited, GuestData!CompleteMeansFormatted
<1> QED
  BY <1>1, <1>2, <1>3, PTL DEF MCSpec

-----------------------------------------------------------------------------
(* The browser of a guest.                                                 *)

Pages == [open : BOOLEAN, alive : BOOLEAN, control : Controls \cup {GuestBrowser!NoOwner},
          generation : Nat, owner : Owners \cup {GuestBrowser!NoOwner}]
PageActions == [action : GuestBrowser!Actions \cup {"none"},
                control : Controls \cup {GuestBrowser!NoOwner}, generation : Nat,
                owner : Owners \cup {GuestBrowser!NoOwner}]
PageOps == [pc : {"idle", "page", "fence", "act", "reply", "frame"}, number : Nat, action : PageActions]
PageRequests ==
  [pc : {"no", "paused", "fetching", "unanswered", "fulfilled"}, number : Nat, between : BOOLEAN]

PageTypes ==
  /\ page \in Pages /\ op \in PageOps /\ actions \in Nat /\ fetch \in [Paused -> PageRequests]

\* What is in the browser was sent by the operation in progress, which waits for the reply.
SentWaits ==
  /\ sent \subseteq {GuestBrowser!Input}
  /\ sent # {} => op.pc = "reply" /\ page.alive

\* An operation acts with the control that the page has.
ActsInControl ==
  op.pc \in {"act", "reply"} =>
    /\ op.action.control = page.control /\ op.action.generation = page.generation
    /\ op.action.owner = page.owner

\* There are places for the requests, and one that paused between operations has no operation to be
\* fetched for.
FetchesFit ==
  /\ Cardinality(GuestBrowser!Places) <= MaxFetching
  /\ \A r \in Paused :
       fetch[r].between => fetch[r].pc \notin {"fetching", "fulfilled"} /\ fetch[r].number = 0

PageInv == PageTypes /\ SentWaits /\ ActsInControl /\ FetchesFit

LEMMA SameCount == ASSUME NEW S PROVE GuestBrowser!Cardinality(S) = Cardinality(S)
BY Zenon DEF GuestBrowser!Cardinality, Cardinality

LEMMA PageConstants ==
  /\ GuestBrowser!Closed \in Pages
  /\ GuestBrowser!NoOp \in PageOps /\ GuestBrowser!NoOp.pc = "idle"
  /\ GuestBrowser!NotAsked \in PageRequests
  /\ GuestBrowser!NotAsked.pc = "no" /\ ~GuestBrowser!NotAsked.between
  /\ GuestBrowser!Actions = {"acquire", "handover", "input", "snapshot", "release"}
BY DEF GuestBrowser!Closed, Pages, GuestBrowser!NoOp, PageOps, PageActions, GuestBrowser!NoAction,
       GuestBrowser!NotAsked, PageRequests, GuestBrowser!Actions

\* Nothing is fetched when nothing was asked.
LEMMA NothingFetched ==
  ASSUME fetch = [r \in Paused |-> GuestBrowser!NotAsked]
  PROVE  FetchesFit /\ fetch \in [Paused -> PageRequests]
<1>1. GuestBrowser!Places = {}
  BY PageConstants DEF GuestBrowser!Places, GuestBrowser!Waiting
<1>2. Cardinality(GuestBrowser!Places) <= MaxFetching
  BY <1>1, FS_EmptySet, BrowserAssumption
<1> QED
  BY <1>2, PageConstants DEF FetchesFit

LEMMA NothingFetchedNext ==
  ASSUME fetch' = [r \in Paused |-> GuestBrowser!NotAsked]
  PROVE  FetchesFit' /\ (fetch \in [Paused -> PageRequests])'
<1>1. GuestBrowser!Places' = {}
  BY PageConstants DEF GuestBrowser!Places, GuestBrowser!Waiting
<1>2. Cardinality(GuestBrowser!Places') <= MaxFetching
  BY <1>1, FS_EmptySet, BrowserAssumption
<1> QED
  BY <1>2, PageConstants DEF FetchesFit

LEMMA PageInit == GuestBrowser!Init => PageInv
<1> SUFFICES ASSUME GuestBrowser!Init PROVE PageInv
  OBVIOUS
<1>1. PageTypes
  BY PageConstants, NothingFetched DEF GuestBrowser!Init, PageTypes
<1>2. SentWaits /\ ActsInControl
  BY PageConstants DEF GuestBrowser!Init, SentWaits, ActsInControl
<1> QED
  BY <1>1, <1>2, NothingFetched DEF GuestBrowser!Init, PageInv

\* A request of the page moves: the places suffice when it takes none, or when one is free.
LEMMA RequestMoves ==
  ASSUME PageInv, NEW r \in Paused, NEW e \in PageRequests, fetch' = [fetch EXCEPT ![r] = e],
         \/ e.pc \notin {"paused", "fetching"}
         \/ e.pc = "fetching" /\ fetch[r].pc = "paused"
         \/ Cardinality(GuestBrowser!Places) < MaxFetching,
         e.between => e.pc \notin {"fetching", "fulfilled"} /\ e.number = 0
  PROVE  FetchesFit' /\ (fetch \in [Paused -> PageRequests])'
<1>1. fetch \in [Paused -> PageRequests] /\ Cardinality(GuestBrowser!Places) <= MaxFetching
  BY DEF PageInv, PageTypes, FetchesFit
<1>2. /\ fetch' \in [Paused -> PageRequests] /\ fetch'[r] = e
      /\ \A q \in Paused \ {r} : fetch'[q] = fetch[q]
  BY <1>1
<1>3. IsFiniteSet(GuestBrowser!Places)
  BY FS_Subset, BrowserAssumption DEF GuestBrowser!Places, GuestBrowser!Waiting
<1>4. Cardinality(GuestBrowser!Places') <= MaxFetching
  <2>1. CASE Cardinality(GuestBrowser!Places) < MaxFetching
    <3>1. GuestBrowser!Places' \subseteq GuestBrowser!Places \cup {r}
      BY <1>2 DEF GuestBrowser!Places, GuestBrowser!Waiting
    <3>2. /\ IsFiniteSet(GuestBrowser!Places \cup {r})
          /\ Cardinality(GuestBrowser!Places \cup {r}) <= Cardinality(GuestBrowser!Places) + 1
      <4> DEFINE F == GuestBrowser!Places
      <4>1. IsFiniteSet(F)
        BY <1>3
      <4> HIDE DEF F
      <4>2. Cardinality(F) \in Nat
        BY <4>1, FS_CardinalityType
      <4>3. /\ IsFiniteSet(F \cup {r})
            /\ Cardinality(F \cup {r}) = IF r \in F THEN Cardinality(F) ELSE Cardinality(F) + 1
        BY <4>1, FS_AddElement, Zenon
      <4>4. Cardinality(F \cup {r}) <= Cardinality(F) + 1
        BY <4>2, <4>3
      <4> QED
        BY <4>3, <4>4 DEF F
    <3>3. /\ Cardinality(GuestBrowser!Places') <= Cardinality(GuestBrowser!Places \cup {r})
          /\ IsFiniteSet(GuestBrowser!Places')
      BY <3>1, <3>2, FS_Subset
    <3> QED
      BY <1>3, <2>1, <3>2, <3>3, FS_CardinalityType, BrowserAssumption
  <2>2. CASE e.pc \notin {"paused", "fetching"} \/ (e.pc = "fetching" /\ fetch[r].pc = "paused")
    <3>1. GuestBrowser!Places' \subseteq GuestBrowser!Places
      BY <1>2, <2>2 DEF GuestBrowser!Places, GuestBrowser!Waiting
    <3>2. /\ Cardinality(GuestBrowser!Places') <= Cardinality(GuestBrowser!Places)
          /\ IsFiniteSet(GuestBrowser!Places')
      BY <1>3, <3>1, FS_Subset
    <3> QED
      BY <1>1, <1>3, <3>2, FS_CardinalityType, BrowserAssumption
  <2> QED
    BY <2>1, <2>2
<1>5. \A q \in Paused :
        fetch'[q].between => fetch'[q].pc \notin {"fetching", "fulfilled"} /\ fetch'[q].number = 0
  BY <1>2 DEF PageInv, FetchesFit
<1> QED
  BY <1>2, <1>4, <1>5 DEF FetchesFit

\* A request that is refused takes no place.
LEMMA RequestEnds ==
  ASSUME PageInv, NEW r \in Paused, GuestBrowser!Unanswered(r)
  PROVE  FetchesFit' /\ (fetch \in [Paused -> PageRequests])'
<1> DEFINE e == [GuestBrowser!NotAsked EXCEPT !.pc = "unanswered"]
<1>1. e \in PageRequests /\ e.pc = "unanswered" /\ ~e.between
  BY PageConstants DEF PageRequests
<1>2. fetch' = [fetch EXCEPT ![r] = e]
  BY DEF GuestBrowser!Unanswered
<1> HIDE DEF e
<1> QED
  BY <1>1, <1>2, RequestMoves

\* The operation goes on by a step.
LEMMA OpStep ==
  ASSUME op \in PageOps, NEW pc0 \in {"page", "fence", "act", "reply", "frame"}, GuestBrowser!Step(pc0)
  PROVE  op' \in PageOps /\ op'.pc = pc0 /\ op'.number = op.number /\ op'.action = op.action
BY DEF PageOps, GuestBrowser!Step

\* What is in the browser is the same input after a step of the operation as before it.
LEMMA SameInput ==
  ASSUME op'.number = op.number, op'.action = op.action
  PROVE  GuestBrowser!Input' = GuestBrowser!Input
BY DEF GuestBrowser!Input, GuestBrowser!act

LEMMA FetchStands ==
  ASSUME PageInv, UNCHANGED fetch
  PROVE  FetchesFit' /\ (fetch \in [Paused -> PageRequests])'
<1>1. GuestBrowser!Places' = GuestBrowser!Places
  BY DEF GuestBrowser!Places, GuestBrowser!Waiting
<1> QED
  BY <1>1 DEF PageInv, PageTypes, FetchesFit

LEMMA PageStep == PageInv /\ GuestBrowser!Next => PageInv'
<1> SUFFICES ASSUME PageInv, GuestBrowser!Next PROVE PageInv'
  OBVIOUS
<1>0. /\ PageTypes /\ SentWaits /\ ActsInControl /\ FetchesFit
      /\ page \in Pages /\ op \in PageOps /\ actions \in Nat /\ op.action \in PageActions
  BY DEF PageInv, PageTypes, PageOps
<1>1. CASE GuestBrowser!Begin
  <2>1. /\ op.pc = "idle" /\ actions' = actions + 1
        /\ UNCHANGED <<page, ended, sent, fetch>>
    BY <1>1 DEF GuestBrowser!Begin
  <2>2. PICK a \in [action : GuestBrowser!Actions, control : Controls, generation : 1..MaxGeneration,
                    owner : Owners] :
          op' = [pc |-> "page", number |-> actions', action |-> a]
    BY <1>1 DEF GuestBrowser!Begin
  <2>3. a \in PageActions
    BY BrowserAssumption DEF PageActions
  <2>4. op' \in PageOps /\ op'.pc = "page"
    BY <1>0, <2>1, <2>2, <2>3 DEF PageOps
  <2> QED
    BY <1>0, <2>1, <2>4, FetchStands DEF PageInv, PageTypes, SentWaits, ActsInControl
<1>2. CASE GuestBrowser!Probe
  <2>1. /\ op.pc = "idle" /\ actions' = actions + 1
        /\ page' = [GuestBrowser!Closed EXCEPT !.open = TRUE, !.alive = TRUE]
        /\ UNCHANGED <<op, ended, sent, fetch>>
    BY <1>2 DEF GuestBrowser!Probe
  <2>2. page' \in Pages
    BY <2>1, PageConstants DEF Pages
  <2> QED
    BY <1>0, <2>1, <2>2, FetchStands DEF PageInv, PageTypes, SentWaits, ActsInControl
<1>3. CASE GuestBrowser!Page
  <2>1. op.pc = "page" /\ UNCHANGED <<ended, sent, fetch, actions>>
    BY <1>3 DEF GuestBrowser!Page
  <2>2. \/ page' = page
        \/ page' = [GuestBrowser!Closed EXCEPT !.open = TRUE, !.alive = TRUE]
    BY <1>3 DEF GuestBrowser!Page
  <2>3. page' \in Pages
    BY <1>0, <2>2, PageConstants DEF Pages
  <2>4. GuestBrowser!Step("fence") \/ GuestBrowser!Finish
    BY <1>3 DEF GuestBrowser!Page
  <2>5. op' \in PageOps /\ op'.pc \in {"idle", "fence"}
    BY <1>0, <2>4, OpStep, PageConstants DEF GuestBrowser!Finish
  <2> QED
    BY <1>0, <2>1, <2>3, <2>5, FetchStands DEF PageInv, PageTypes, SentWaits, ActsInControl
<1>4. CASE GuestBrowser!Fence
  <2>1. op.pc = "fence" /\ UNCHANGED <<ended, sent, fetch, actions>> /\ sent = {}
    BY <1>0, <1>4 DEF GuestBrowser!Fence, SentWaits
  <2>2. CASE GuestBrowser!Finish /\ UNCHANGED page
    <3>1. op' \in PageOps /\ op'.pc = "idle"
      BY <2>2, PageConstants DEF GuestBrowser!Finish
    <3> QED
      BY <1>0, <2>1, <2>2, <3>1, FetchStands DEF PageInv, PageTypes, SentWaits, ActsInControl
  <2>3. CASE /\ page' = [page EXCEPT !.control = op.action.control,
                           !.generation = op.action.generation, !.owner = op.action.owner]
             /\ GuestBrowser!Step("frame")
    <3>1. page' \in Pages
      BY <1>0, <2>3 DEF Pages, PageActions
    <3>2. op' \in PageOps /\ op'.pc = "frame"
      BY <1>0, <2>3, OpStep
    <3> QED
      BY <1>0, <2>1, <3>1, <3>2, FetchStands DEF PageInv, PageTypes, SentWaits, ActsInControl
  <2>4. CASE /\ GuestBrowser!Allowed /\ op.action.action = "input"
             /\ GuestBrowser!Step("act") /\ UNCHANGED page
    <3>1. /\ op.action.control = page.control /\ op.action.generation = page.generation
          /\ op.action.owner = page.owner
      BY <2>4 DEF GuestBrowser!Allowed, GuestBrowser!act
    <3>2. op' \in PageOps /\ op'.pc = "act" /\ op'.action = op.action
      BY <1>0, <2>4, OpStep
    <3> QED
      BY <1>0, <2>1, <2>4, <3>1, <3>2, FetchStands DEF PageInv, PageTypes, SentWaits, ActsInControl
  <2>5. CASE GuestBrowser!Step("frame") /\ UNCHANGED page
    <3>1. op' \in PageOps /\ op'.pc = "frame"
      BY <1>0, <2>5, OpStep
    <3> QED
      BY <1>0, <2>1, <2>5, <3>1, FetchStands DEF PageInv, PageTypes, SentWaits, ActsInControl
  <2> QED
    BY <1>4, <2>2, <2>3, <2>4, <2>5 DEF GuestBrowser!Fence, GuestBrowser!act
<1>5. CASE GuestBrowser!Send
  <2>1. /\ op.pc = "act" /\ page.alive /\ sent' = sent \cup {GuestBrowser!Input}
        /\ GuestBrowser!Step("reply") /\ UNCHANGED <<page, ended, fetch, actions>>
    BY <1>5 DEF GuestBrowser!Send
  <2>2. op' \in PageOps /\ op'.pc = "reply" /\ op'.number = op.number /\ op'.action = op.action
    BY <1>0, <2>1, OpStep
  <2>3. sent' \subseteq {GuestBrowser!Input'}
    BY <1>0, <2>1, <2>2, SameInput DEF SentWaits
  <2> QED
    BY <1>0, <2>1, <2>2, <2>3, FetchStands DEF PageInv, PageTypes, SentWaits, ActsInControl
<1>6. CASE GuestBrowser!Effect
  <2>1. UNCHANGED <<page, op, ended, fetch, actions>> /\ sent' \subseteq sent
    BY <1>6 DEF GuestBrowser!Effect
  <2> QED
    BY <1>0, <2>1, SameInput, FetchStands DEF PageInv, PageTypes, SentWaits, ActsInControl
<1>7. CASE GuestBrowser!Reply
  <2>1. /\ op.pc = "reply" /\ sent = {} /\ UNCHANGED <<page, ended, sent, fetch, actions>>
        /\ GuestBrowser!Step("act") \/ GuestBrowser!Step("frame")
    BY <1>0, <1>7 DEF GuestBrowser!Reply, SentWaits
  <2>2. op' \in PageOps /\ op'.pc \in {"act", "frame"} /\ op'.action = op.action
    BY <1>0, <2>1, OpStep
  <2> QED
    BY <1>0, <2>1, <2>2, FetchStands DEF PageInv, PageTypes, SentWaits, ActsInControl
<1>8. CASE GuestBrowser!Unconfirmed
  <2>1. /\ op' = GuestBrowser!NoOp /\ page' = GuestBrowser!Closed /\ sent' = {}
        /\ fetch' = [r \in Paused |-> GuestBrowser!NotAsked] /\ actions' = actions
    BY <1>8 DEF GuestBrowser!Unconfirmed, GuestBrowser!ClosePage, GuestBrowser!Finish
  <2> QED
    BY <1>0, <2>1, PageConstants, NothingFetchedNext DEF PageInv, PageTypes, SentWaits, ActsInControl
<1>9. CASE GuestBrowser!Frame
  <2>1. /\ op.pc = "frame" /\ op' = GuestBrowser!NoOp /\ UNCHANGED <<ended, sent, fetch, actions>>
        /\ page' \in {page, [page EXCEPT !.control = GuestBrowser!NoOwner, !.owner = GuestBrowser!NoOwner]}
    BY <1>9 DEF GuestBrowser!Frame, GuestBrowser!Finish
  <2>2. page' \in Pages
    BY <1>0, <2>1 DEF Pages
  <2> QED
    BY <1>0, <2>1, <2>2, PageConstants, FetchStands DEF PageInv, PageTypes, SentWaits, ActsInControl
<1>10. CASE GuestBrowser!Dies
  <2>1. /\ page' = [page EXCEPT !.alive = FALSE] /\ sent' = {} /\ UNCHANGED <<op, actions>>
        /\ fetch' = [r \in Paused |-> GuestBrowser!NotAsked]
    BY <1>10 DEF GuestBrowser!Dies
  <2>2. /\ page' \in Pages /\ page'.control = page.control /\ page'.generation = page.generation
        /\ page'.owner = page.owner
    BY <1>0, <2>1 DEF Pages
  <2> QED
    BY <1>0, <2>1, <2>2, NothingFetchedNext DEF PageInv, PageTypes, SentWaits, ActsInControl
<1>11. ASSUME NEW n \in 1..MaxOps, GuestBrowser!ContextEnds(n) PROVE PageInv'
  <2>1. UNCHANGED <<page, op, sent, fetch, actions>>
    BY <1>11 DEF GuestBrowser!ContextEnds
  <2> QED
    BY <1>0, <2>1, SameInput, FetchStands DEF PageInv, PageTypes, SentWaits, ActsInControl
<1>12. ASSUME NEW r \in Paused, GuestBrowser!Pause(r) \/ GuestBrowser!Fetch(r) \/ GuestBrowser!Fetched(r)
       PROVE  PageInv'
  <2>1. UNCHANGED <<page, op, ended, sent, actions>>
    BY <1>12 DEF GuestBrowser!Pause, GuestBrowser!Fetch, GuestBrowser!Fetched
  <2>2. CASE GuestBrowser!Unanswered(r)
    BY <1>0, <2>1, <2>2, SameInput, RequestEnds DEF PageInv, PageTypes, SentWaits, ActsInControl
  <2>3. CASE /\ GuestBrowser!Cardinality(GuestBrowser!Places) < MaxFetching
             /\ fetch' = [fetch EXCEPT ![r] = [pc |-> "paused", number |-> GuestBrowser!Registered,
                                               between |-> ~GuestBrowser!InProgress]]
    <3> DEFINE e == [pc |-> "paused", number |-> GuestBrowser!Registered,
                     between |-> ~GuestBrowser!InProgress]
    <3>1. e \in PageRequests
      BY <1>0 DEF PageRequests, PageOps, GuestBrowser!Registered, GuestBrowser!InProgress
    <3>2. e.pc = "paused" /\ (e.between => e.number = 0)
      BY DEF GuestBrowser!Registered
    <3>3. fetch' = [fetch EXCEPT ![r] = e] /\ Cardinality(GuestBrowser!Places) < MaxFetching
      BY <2>3, SameCount
    <3> HIDE DEF e
    <3>4. FetchesFit' /\ (fetch \in [Paused -> PageRequests])'
      BY <3>1, <3>2, <3>3, RequestMoves
    <3> QED
      BY <1>0, <2>1, <3>4, SameInput DEF PageInv, PageTypes, SentWaits, ActsInControl
  <2>4. CASE \E e \in PageRequests :
               /\ fetch' = [fetch EXCEPT ![r] = e]
               /\ (e.pc = "fetching" /\ fetch[r].pc = "paused") \/ e.pc = "fulfilled"
               /\ ~e.between
    <3>1. FetchesFit' /\ (fetch \in [Paused -> PageRequests])'
      BY <2>4, RequestMoves
    <3> QED
      BY <1>0, <2>1, <3>1, SameInput DEF PageInv, PageTypes, SentWaits, ActsInControl
  <2>5. fetch[r] \in PageRequests /\ (fetch[r].between => fetch[r].pc # "fetching" /\ fetch[r].number = 0)
    BY <1>0 DEF PageTypes, FetchesFit
  <2>6. CASE /\ fetch[r].pc = "paused" /\ fetch[r].number # 0
             /\ fetch' = [fetch EXCEPT ![r].pc = "fetching"]
    <3> DEFINE e == [fetch[r] EXCEPT !.pc = "fetching"]
    <3>1. e \in PageRequests /\ e.pc = "fetching" /\ ~e.between
      BY <2>5, <2>6 DEF PageRequests
    <3>2. fetch' = [fetch EXCEPT ![r] = e]
      BY <1>0, <2>6 DEF PageTypes
    <3> QED
      BY <2>4, <2>6, <3>1, <3>2
  <2>7. CASE /\ fetch[r].pc = "fetching"
             /\ fetch' = [fetch EXCEPT ![r].pc = "fulfilled", ![r].number = 0]
    <3> DEFINE e == [fetch[r] EXCEPT !.pc = "fulfilled", !.number = 0]
    <3>1. e \in PageRequests /\ e.pc = "fulfilled" /\ ~e.between
      BY <2>5, <2>7 DEF PageRequests
    <3>2. fetch' = [fetch EXCEPT ![r] = e]
      BY <1>0, <2>7 DEF PageTypes
    <3> QED
      BY <2>4, <3>1, <3>2
  <2>8. CASE GuestBrowser!Pause(r)
    BY <2>2, <2>3, <2>8 DEF GuestBrowser!Pause
  <2>9. CASE GuestBrowser!Fetch(r)
    BY <2>2, <2>6, <2>9 DEF GuestBrowser!Fetch
  <2>10. CASE GuestBrowser!Fetched(r)
    BY <2>2, <2>7, <2>10 DEF GuestBrowser!Fetched
  <2> QED
    BY <1>12, <2>8, <2>9, <2>10
<1> QED
  BY <1>1, <1>2, <1>3, <1>4, <1>5, <1>6, <1>7, <1>8, <1>9, <1>10, <1>11, <1>12 DEF GuestBrowser!Next

\* What may still have its effect in the page was sent by the operation in progress, under the
\* control, generation and owner the page has, so that nothing of an answered operation or of one
\* who handed the page on is late (runtime_browser_linux.go's browser closes what is unconfirmed);
\* and a request that paused between operations is never fetched: for any number of operations,
\* generations, requests and places.
THEOREM PageHeldHolds == MCSpec => []PageHeld
<1>1. MCInit => PageInv
  BY PageInit DEF MCInit
<1>2. PageInv /\ [MCNext]_<<part, vars, runtimeVars, dataVars, pageVars>> => PageInv'
  <2> SUFFICES ASSUME PageInv, [MCNext]_<<part, vars, runtimeVars, dataVars, pageVars>>
               PROVE  PageInv'
    OBVIOUS
  <2>1. CASE GuestBrowser!Next
    BY <2>1, PageStep
  <2>2. CASE UNCHANGED pageVars
    BY <2>2 DEF pageVars, PageInv, PageTypes, SentWaits, ActsInControl, FetchesFit,
                GuestBrowser!Places, GuestBrowser!Waiting, GuestBrowser!Input, GuestBrowser!act
  <2> QED
    BY <2>1, <2>2 DEF MCNext
<1>3. PageInv => PageHeld
  <2> SUFFICES ASSUME PageInv PROVE PageHeld
    OBVIOUS
  <2>1. GuestBrowser!NothingLate /\ GuestBrowser!NothingStale
    BY DEF PageInv, SentWaits, ActsInControl, GuestBrowser!Input, GuestBrowser!act,
           GuestBrowser!NothingLate, GuestBrowser!NothingStale
  <2>2. GuestBrowser!FetchedForOperations
    BY SameCount DEF PageInv, FetchesFit, GuestBrowser!FetchedForOperations, GuestBrowser!Waiting
  <2> QED
    BY <2>1, <2>2 DEF PageHeld
<1> QED
  BY <1>1, <1>2, <1>3, PTL DEF MCSpec

=============================================================================
