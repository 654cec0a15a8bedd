----------------------------- MODULE GuestClient -----------------------------
(***************************************************************************)
(* The personal guest's client: how a guest enrolls once, proves that it   *)
(* is alive with numbered heartbeats, and renews its certificate, with     *)
(* everything it must remember in one state file.                          *)
(*                                                                         *)
(* The client is sequential.  What makes it hard is outside: the process   *)
(* ends between any two steps, a request or its answer is lost, a request  *)
(* that the client gave up arrives late, and the commit of a renewal has a *)
(* time limit that the guest and the server read from their own clocks.    *)
(*                                                                         *)
(* Certificate 0 is the configured one; certificate n answers the renewal  *)
(* request n, and binding n is the one that it authenticates.              *)
(***************************************************************************)
EXTENDS Integers, FiniteSets

CONSTANTS
  MaxCounter,   \* guest.MaxCounter, the last number of a heartbeat
  MaxRequests,  \* bound: how many renewals the guest begins
  MaxLate       \* bound: how many requests are on their way at a time

ASSUME GuestAssumption == MaxCounter \in Nat /\ MaxRequests \in Nat /\ MaxLate \in Nat

None == -1

VARIABLES
  disk,        \* the state file: binding, sequence, attempted, cert (the active
               \* one), renewal (the request), result (the answer to it)
  pc,          \* where the client is, "down" when no process runs
  call,        \* which call of Run it is in: enroll or heartbeat
  via,         \* the certificate of its HTTP client
  failures,    \* heartbeats that failed in a row
  clientOver,  \* CommitBefore of disk.result has passed by the guest's clock
  requests,    \* renewal requests begun so far
  server,      \* the server's record of the guest
  late,        \* requests that the client gave up and that may still arrive
  lapsed,      \* certificates up to this one are past their time
  lastSent,    \* history: the highest number that was sent
  faulty       \* faults may still happen

process == <<pc, call, via, failures>>
vars == <<disk, process, clientOver, requests, server, late, lapsed, lastSent, faulty>>

Cert == 0..MaxRequests
Empty == [binding |-> None, sequence |-> 0, attempted |-> FALSE, cert |-> 0,
          renewal |-> None, result |-> None]

\* The places at which the client waits for an answer, and what it asks.
Asks == [get |-> "get", enroll |-> "enroll", recheck |-> "get", receive |-> "renew",
         commit |-> "commit", confirm |-> "renew", reset |-> "get", beat |-> "beat"]
Locations ==
  {"down", "begin", "heartbeat", "renew", "adopt", "number"} \cup DOMAIN Asks

Request ==
  [kind |-> Asks[pc], cert |-> via,
   n |-> CASE pc \in {"receive", "confirm"} -> disk.renewal
           [] pc = "commit" -> disk.result
           [] pc = "beat"   -> disk.sequence
           [] OTHER         -> 0]

Init ==
  /\ disk = Empty
  /\ pc = "down" /\ call = "enroll" /\ via = None /\ failures = 0
  /\ clientOver = FALSE /\ requests = 0
  /\ server = [registered |-> FALSE, active |-> 0, newest |-> 0, stage |-> "done",
               sequence |-> 0, revoked |-> FALSE]
  /\ late = {} /\ lapsed = None /\ lastSent = 0
  /\ faulty = TRUE

-----------------------------------------------------------------------------
(* The server knows the active certificate and the newest renewal request,    *)
(* whose result may be committed (open), is too old (over) or was committed    *)
(* (done); older requests are not answered anew.  It decides by its own clock. *)
(* The client sees whether a request was granted, was too late, or neither.    *)

Grants(r) ==
  /\ ~server.revoked
  /\ \/ r.kind = "get" /\ r.cert = server.active /\ server.registered
     \/ r.kind = "enroll" /\ r.cert = server.active /\ ~server.registered
     \/ /\ r.kind = "beat" /\ r.cert = server.active /\ server.registered
        /\ r.n > server.sequence
     \/ /\ r.kind = "renew" /\ r.cert = server.active
        /\ IF server.stage = "open" THEN r.n = server.newest ELSE r.n > server.newest
     \/ /\ r.kind = "commit" /\ r.cert = r.n
        /\ server.active = r.n \/ (server.newest = r.n /\ server.stage = "open")

Gone(r) ==
  /\ ~server.revoked
  /\ server.newest = r.n /\ server.stage = "over"
  /\ \/ r.kind = "renew" /\ r.cert = server.active
     \/ r.kind = "commit" /\ r.cert = r.n

Receive(r) ==
  \/ /\ ~Grants(r) \/ r.kind = "get" \/ (r.kind = "commit" /\ server.active = r.n)
     /\ UNCHANGED server
  \/ /\ Grants(r) /\ r.kind = "enroll"
     /\ server' = [server EXCEPT !.registered = TRUE]
  \/ /\ Grants(r) /\ r.kind = "beat"
     /\ server' = [server EXCEPT !.sequence = r.n]
  \/ /\ Grants(r) /\ r.kind = "renew"
     /\ server' = [server EXCEPT !.newest = r.n, !.stage = "open"]
  \/ /\ Grants(r) /\ r.kind = "commit" /\ server.active # r.n
     /\ server' = [server EXCEPT !.active = r.n, !.stage = "done"]

-----------------------------------------------------------------------------
(* How the client goes on.                                                  *)

Goto(l) == pc' = l /\ UNCHANGED <<call, via, failures>>

\* Run returns an error and the process ends; something outside restarts it.
Stop == pc' = "down" /\ call' = "enroll" /\ via' = None /\ failures' = 0

\* A transient failure of a heartbeat is followed by the next tick, twice.
Fail ==
  IF call = "heartbeat" /\ failures < 2
  THEN pc' = "heartbeat" /\ failures' = failures + 1 /\ UNCHANGED <<call, via>>
  ELSE Stop

\* stateStore.save: a new file, synced and renamed.  When it fails, or the process
\* ends within it, the file is the old one or the new one.
Save(new, l) ==
  \/ disk' = new /\ Goto(l)
  \/ faulty /\ disk' \in {disk, new} /\ Stop

\* guestHTTPClientWithCertificate: a certificate past its time is refused.
Use(cert, l) ==
  IF cert > lapsed THEN pc' = l /\ via' = cert /\ UNCHANGED <<call, failures>> ELSE Stop

\* New: another process has released the lock; a result that may still be
\* committed gives the certificate.
Boot ==
  /\ pc = "down"
  /\ LET cert == IF disk.result # None /\ ~clientOver THEN disk.result ELSE disk.cert
     IN  cert > lapsed /\ via' = cert
  /\ pc' = "begin" /\ call' = "enroll" /\ failures' = 0
  /\ UNCHANGED <<disk, clientOver, requests, server, late, lapsed, lastSent, faulty>>

-----------------------------------------------------------------------------
(* Steps between two requests.                                              *)

\* enroll: a renewal that was begun goes first.
Begin ==
  /\ pc = "begin"
  /\ Goto(IF disk.renewal # None THEN "renew" ELSE "get")
  /\ UNCHANGED <<disk, clientOver, requests, server, late, lapsed, lastSent, faulty>>

\* heartbeat, at a tick: a renewal falls due when half of the certificate's time
\* is over.
BeginHeartbeat ==
  /\ pc = "heartbeat"
  /\ \/ (disk.renewal # None \/ requests < MaxRequests) /\ Goto("renew")
     \/ disk.renewal = None /\ Goto("number")
  /\ UNCHANGED <<disk, clientOver, requests, server, late, lapsed, lastSent, faulty>>

\* Mutant: an expired result is dropped without asking whether it was committed.
RenewUnconfirmed ==
  /\ pc = "renew"
  /\ disk.result # None /\ clientOver
  /\ Use(disk.cert, "reset")
  /\ UNCHANGED <<disk, clientOver, requests, server, late, lapsed, lastSent, faulty>>

\* renew: a result whose time is over is confirmed as such with the old certificate.
RenewExpired ==
  /\ pc = "renew"
  /\ disk.result # None /\ clientOver
  /\ Use(disk.cert, "confirm")
  /\ UNCHANGED <<disk, clientOver, requests, server, late, lapsed, lastSent, faulty>>

\* prepareRenewal: the request is saved before it is sent.
PrepareRenewal ==
  /\ pc = "renew"
  /\ disk.renewal = None
  /\ requests' = requests + 1
  /\ Save([disk EXCEPT !.renewal = requests + 1], "receive")
  /\ UNCHANGED <<clientOver, server, late, lapsed, lastSent, faulty>>

ResumeRenewal ==
  /\ pc = "renew"
  /\ disk.renewal # None
  /\ disk.result # None => ~clientOver
  /\ Goto(IF disk.result = None THEN "receive" ELSE "adopt")
  /\ UNCHANGED <<disk, clientOver, requests, server, late, lapsed, lastSent, faulty>>

\* The commit is sent with the new certificate.
Adopt ==
  /\ pc = "adopt"
  /\ Use(disk.result, "commit")
  /\ UNCHANGED <<disk, clientOver, requests, server, late, lapsed, lastSent, faulty>>

\* Mutant: the counter's limit is not looked at.
NumberUnbounded ==
  /\ pc = "number"
  /\ IF disk.binding = None \/ disk.binding <= lapsed
     THEN Stop /\ UNCHANGED disk
     ELSE Save([disk EXCEPT !.sequence = @ + 1], "beat")
  /\ UNCHANGED <<clientOver, requests, server, late, lapsed, lastSent, faulty>>

\* Mutant: the number of a heartbeat that failed is sent again.
NumberOnce ==
  /\ pc = "number"
  /\ IF disk.binding = None \/ disk.sequence >= MaxCounter \/ disk.binding <= lapsed
     THEN Stop /\ UNCHANGED disk
     ELSE IF failures > 0 THEN Goto("beat") /\ UNCHANGED disk
     ELSE Save([disk EXCEPT !.sequence = @ + 1], "beat")
  /\ UNCHANGED <<clientOver, requests, server, late, lapsed, lastSent, faulty>>

\* "Persist before sending: uncertain replies never reuse a sequence after restart."
Number ==
  /\ pc = "number"
  /\ IF disk.binding = None \/ disk.sequence >= MaxCounter \/ disk.binding <= lapsed
     THEN Stop /\ UNCHANGED disk
     ELSE Save([disk EXCEPT !.sequence = @ + 1], "beat")
  /\ UNCHANGED <<clientOver, requests, server, late, lapsed, lastSent, faulty>>

-----------------------------------------------------------------------------
(* Answers.  Each of these steps is one exchange, and the save that follows *)
(* it: the process may end between the two (Save).                          *)

\* An exchange at this place, and whether the request was granted.
Exchange(l) ==
  /\ pc = l /\ via > lapsed
  /\ Receive(Request)
  /\ lastSent' = IF l = "beat" THEN disk.sequence ELSE lastSent
  /\ UNCHANGED <<requests, late, lapsed, faulty>>

Unchanged == UNCHANGED <<disk, clientOver>>

\* acceptBinding, of the binding that the server has of the active certificate.
Accept ==
  IF disk.binding \notin {None, server.active} THEN Stop /\ UNCHANGED disk
  ELSE \/ /\ disk' = [disk EXCEPT !.binding = server.active]
          /\ pc' = "heartbeat" /\ call' = "heartbeat" /\ UNCHANGED <<via, failures>>
       \/ /\ faulty /\ Stop
          /\ disk' \in {disk, [disk EXCEPT !.binding = server.active]}

\* Mutant: that an enrollment is attempted is not saved.
GetUnattempted ==
  /\ Exchange("get")
  /\ IF Grants(Request)
     THEN IF disk.binding = None /\ ~disk.attempted THEN Stop /\ UNCHANGED disk ELSE Accept
     ELSE IF disk.binding = None /\ ~server.revoked
     THEN Goto("enroll") /\ UNCHANGED disk
     ELSE Stop /\ UNCHANGED disk
  /\ UNCHANGED clientOver

\* A registered guest whose state file knows nothing of it is refused; a guest
\* without a binding may enroll.
GetAnswered ==
  /\ Exchange("get")
  /\ IF Grants(Request)
     THEN IF disk.binding = None /\ ~disk.attempted THEN Stop /\ UNCHANGED disk ELSE Accept
     ELSE IF disk.binding = None /\ ~server.revoked
     THEN Save([disk EXCEPT !.attempted = TRUE], "enroll")
     ELSE Stop /\ UNCHANGED disk
  /\ UNCHANGED clientOver

\* An enrollment that was not confirmed is looked for once.
EnrollAnswered ==
  /\ Exchange("enroll")
  /\ IF Grants(Request) THEN Accept ELSE Goto("recheck") /\ UNCHANGED disk
  /\ UNCHANGED clientOver

RecheckAnswered ==
  /\ Exchange("recheck")
  /\ IF Grants(Request) THEN Accept ELSE Stop /\ UNCHANGED disk
  /\ UNCHANGED clientOver

\* Mutant: that a request is gone is taken for a denial.
ReceiveGoneDenied ==
  /\ Exchange("receive")
  /\ IF Grants(Request) THEN Save([disk EXCEPT !.result = disk.renewal], "adopt")
     ELSE Stop /\ UNCHANGED disk
  /\ clientOver' = FALSE

\* receiveRenewal: the certificate is saved before it is used.
ReceiveAnswered ==
  /\ Exchange("receive")
  /\ \/ /\ Grants(Request)
        /\ Save([disk EXCEPT !.result = disk.renewal], "adopt")
     \/ /\ Gone(Request) /\ Use(disk.cert, "reset") /\ UNCHANGED disk
     \/ /\ ~Grants(Request) /\ ~Gone(Request) /\ Stop /\ UNCHANGED disk
  /\ clientOver' = FALSE

AfterRenewal == IF call = "enroll" THEN "get" ELSE "number"
Renewed == [disk EXCEPT !.binding = disk.result, !.cert = disk.result,
                        !.renewal = None, !.result = None]
Cleared == [disk EXCEPT !.renewal = None, !.result = None]

CommitAnswered ==
  /\ Exchange("commit")
  /\ \/ Grants(Request) /\ Save(Renewed, AfterRenewal)
     \/ Gone(Request) /\ Use(disk.cert, "reset") /\ UNCHANGED disk
     \/ ~Grants(Request) /\ ~Gone(Request) /\ Stop /\ UNCHANGED disk
  /\ clientOver' = (clientOver /\ disk'.result # None)

\* confirmExpiredRenewal: only the server's word that the request is gone counts.
ConfirmAnswered ==
  /\ Exchange("confirm")
  /\ IF Gone(Request) THEN Use(disk.cert, "reset") ELSE Stop
  /\ Unchanged

\* resetExpiredRenewal: the old certificate must still have its binding.
ResetAnswered ==
  /\ Exchange("reset")
  /\ IF Grants(Request) /\ server.active = disk.binding THEN Save(Cleared, AfterRenewal)
     ELSE Stop /\ UNCHANGED disk
  /\ clientOver' = (clientOver /\ disk'.result # None)

BeatAnswered ==
  /\ Exchange("beat")
  /\ IF Grants(Request) THEN pc' = "heartbeat" /\ failures' = 0 /\ UNCHANGED <<call, via>>
     ELSE Stop
  /\ Unchanged

\* No answer: it was lost, the request was, or the server could not serve it.
\* Outside a heartbeat the client does not try again, but looks after an
\* enrollment that may have happened.
CallFails(arrives) ==
  /\ pc \in DOMAIN Asks
  /\ faulty \/ via <= lapsed
  /\ IF arrives = "now" /\ via > lapsed THEN Receive(Request) ELSE UNCHANGED server
  /\ arrives = "late" => Asks[pc] # "get" /\ Cardinality(late) < MaxLate
  /\ late' = IF arrives = "late" THEN late \cup {Request} ELSE late
  /\ lastSent' = IF pc = "beat" THEN disk.sequence ELSE lastSent
  /\ IF pc = "enroll" THEN Goto("recheck") ELSE Fail
  /\ Unchanged /\ UNCHANGED <<requests, lapsed, faulty>>

-----------------------------------------------------------------------------
(* The environment.                                                         *)

\* A request that the client gave up reaches the server after all.
Arrives(r) ==
  /\ late' = late \ {r}
  /\ IF r.cert > lapsed THEN Receive(r) ELSE UNCHANGED server
  /\ UNCHANGED <<disk, process, clientOver, requests, lapsed, lastSent, faulty>>

\* CommitBefore passes, by the guest's clock or by the server's.
GuestClock ==
  /\ disk.result # None /\ ~clientOver
  /\ clientOver' = TRUE
  /\ UNCHANGED <<disk, process, requests, server, late, lapsed, lastSent, faulty>>

ServerClock ==
  /\ server.stage = "open"
  /\ server' = [server EXCEPT !.stage = "over"]
  /\ UNCHANGED <<disk, process, clientOver, requests, late, lapsed, lastSent, faulty>>

\* The process ends: a crash, a shutdown, or the end of the runtime beside it.
Crash ==
  /\ faulty /\ pc # "down"
  /\ Stop
  /\ UNCHANGED <<disk, clientOver, requests, server, late, lapsed, lastSent, faulty>>

\* The machine is restored without its state file.
LoseState ==
  /\ faulty /\ pc = "down"
  /\ disk' = Empty /\ clientOver' = FALSE
  /\ UNCHANGED <<process, requests, server, late, lapsed, lastSent, faulty>>

\* The active certificate and its binding reach the end of their time.
Lapse ==
  /\ faulty /\ lapsed < server.active
  /\ lapsed' = server.active
  /\ UNCHANGED <<disk, process, clientOver, requests, server, late, lastSent, faulty>>

Revoke ==
  /\ faulty /\ ~server.revoked
  /\ server' = [server EXCEPT !.revoked = TRUE]
  /\ UNCHANGED <<disk, process, clientOver, requests, late, lapsed, lastSent, faulty>>

\* From now on requests are answered, saves succeed and the process lives.
FaultsEnd ==
  /\ faulty /\ faulty' = FALSE
  /\ UNCHANGED <<disk, process, clientOver, requests, server, late, lapsed, lastSent>>

-----------------------------------------------------------------------------
ClientStep ==
  \/ Boot \/ Begin \/ BeginHeartbeat
  \/ RenewExpired \/ PrepareRenewal \/ ResumeRenewal \/ Adopt \/ Number
  \/ GetAnswered \/ EnrollAnswered \/ RecheckAnswered
  \/ ReceiveAnswered \/ CommitAnswered \/ ConfirmAnswered \/ ResetAnswered \/ BeatAnswered
  \/ \E arrives \in {"now", "late", "never"} : CallFails(arrives)

Next ==
  \/ ClientStep
  \/ \E r \in late : Arrives(r)
  \/ GuestClock \/ ServerClock
  \/ Crash \/ LoseState \/ Lapse \/ Revoke \/ FaultsEnd

\* A request ends within twelve seconds, a process that ended is started again, and
\* the server's time passes.
Spec == Init /\ [][Next]_vars /\ WF_vars(ClientStep) /\ WF_vars(ServerClock)

-----------------------------------------------------------------------------
(* Properties *)

Requests ==
  [kind : {"get", "enroll", "beat", "renew", "commit"}, cert : Cert, n : Nat]

\* The types; the sequence stays within the contract's counter.
TypeOK ==
  /\ disk \in [binding : Cert \cup {None}, sequence : 0..MaxCounter, attempted : BOOLEAN,
               cert : Cert, renewal : (Cert \ {0}) \cup {None},
               result : (Cert \ {0}) \cup {None}]
  /\ pc \in Locations /\ call \in {"enroll", "heartbeat"}
  /\ via \in Cert \cup {None} /\ failures \in 0..2
  /\ clientOver \in BOOLEAN /\ requests \in Cert
  /\ server \in [registered : BOOLEAN, active : Cert, newest : Cert,
                 stage : {"open", "over", "done"}, sequence : 0..MaxCounter,
                 revoked : BOOLEAN]
  /\ late \subseteq Requests
  /\ lapsed \in Cert \cup {None} /\ lastSent \in 0..MaxCounter
  /\ faulty \in BOOLEAN

\* A heartbeat that is about to be sent has a number above all that were sent, over
\* crashes, failed saves and a lost state file: an uncertain answer never makes the
\* guest use a number twice.
FreshSequence == pc = "beat" => disk.sequence > lastSent

\* Whatever a crash leaves behind is a state that openState accepts.
SavedStateOpens ==
  /\ disk.binding = None => disk.sequence = 0
  /\ disk.binding # None => disk.attempted

\* The guest always holds the certificate that the server regards as active: the
\* one it uses, or the result it has saved and not yet dropped.
HoldsAuthority == disk.binding # None => server.active \in {disk.cert, disk.result}

\* The guest is alive, for as long as it has numbers.
UsesUp == disk.sequence = MaxCounter

\* The identity is over, or the guest lost the file that carried it.
Ended == server.revoked \/ lapsed >= server.active
Forgotten ==
  server.registered /\ disk.binding = None /\ (~disk.attempted \/ server.active # 0)

\* A commit was received, its answer was lost, and CommitBefore has passed.
Stranded == server.active = disk.result /\ clientOver

\* Once faults end the guest enrolls, renews and sends its heartbeats again, in
\* whatever state they left it.
Recovers == ~faulty ~> (UsesUp \/ Ended \/ Forgotten \/ Stranded)

\* The same of a guest whose commit was received and not answered ("pending commit
\* failed across restart" is what the renewal test looks for).
CommitRecovers ==
  ~faulty ~> (UsesUp \/ server.revoked \/ lapsed # None \/ Forgotten)

=============================================================================
