------------------------------- MODULE Outpost -------------------------------
(***************************************************************************)
(* The outpost of the runner: one loop that claims signed configurations   *)
(* from the control plane and sends heartbeats, and the forward-auth       *)
(* checks, each in a goroutine of the HTTP server, that are routed by the  *)
(* configuration in force and decided by the control plane.                *)
(*                                                                         *)
(* A lease is one signed issue of a version of the configuration.  The     *)
(* later lease expires later: the clock is the number of leases that have  *)
(* expired.                                                                *)
(***************************************************************************)
EXTENDS Naturals

CONSTANTS
  Checks,    \* requests that are checked
  MaxLease,  \* leases that the control plane signs
  MaxBad     \* answers to claims that cannot be trusted, or are old

VARIABLES
  issued,    \* the leases that the control plane has signed
  expired,   \* the leases up to this one have expired
  config,    \* the lease that was applied last
  rejected,  \* configurationError
  contact,   \* a claim was answered: the outpost can send heartbeats
  desired,   \* the version that the last heartbeat was answered with
  loop,      \* the loop: where it is, the version it claims from, and the answer
  check,     \* the requests: the lease that routes each
  applied,   \* history: the last lease whose application was reported
  bad        \* answers that are left

vars == <<issued, expired, config, rejected, contact, desired, loop, check, applied, bad>>
state == <<config, rejected, contact, desired>>

NoLease == [ver |-> 0, serial |-> 0, signed |-> FALSE]
Newer(l, m) == l.ver > m.ver \/ (l.ver = m.ver /\ l.serial > m.serial)
\* The lease in force in the control plane.
Latest == CHOOSE l \in issued : \A m \in issued : m = l \/ Newer(l, m)
Serial == CHOOSE n \in 1..MaxLease : (\E l \in issued : l.serial = n) /\ \A l \in issued : l.serial <= n
Idle == [pc |-> "idle", current |-> 0, answer |-> NoLease]

Init ==
  /\ issued = {[ver |-> 1, serial |-> 1, signed |-> TRUE]}
  /\ expired = 0
  /\ config = NoLease /\ rejected = FALSE /\ contact = FALSE /\ desired = 0
  /\ loop = Idle
  /\ check = [c \in Checks |-> [pc |-> "idle", lease |-> NoLease]]
  /\ applied = NoLease
  /\ bad = MaxBad

Goto(pc) == loop' = [loop EXCEPT !.pc = pc]

-----------------------------------------------------------------------------
(* The control plane and the clock.                                        *)

\* A new version, the lease of the version again, or, by a replica that lags, a lease of an
\* older one.
Sign ==
  /\ Serial < MaxLease
  /\ \E v \in 1..Latest.ver + 1 :
       issued' = issued \cup {[ver |-> v, serial |-> Serial + 1, signed |-> TRUE]}
  /\ UNCHANGED <<expired, state, loop, check, applied, bad>>

Expire ==
  /\ expired < Serial
  /\ expired' = expired + 1
  /\ UNCHANGED <<issued, state, loop, check, applied, bad>>

-----------------------------------------------------------------------------
(* The loop.                                                               *)

StartClaim ==
  /\ loop.pc = "idle"
  /\ loop' = [Idle EXCEPT !.pc = "claim", !.current = config.ver]
  /\ UNCHANGED <<issued, expired, state, check, applied, bad>>

\* The claim fails, or there is nothing new for the outpost.
NoAnswer ==
  /\ loop.pc = "claim"
  /\ loop' = Idle
  /\ UNCHANGED <<issued, expired, state, check, applied, bad>>

Answered(lease) ==
  /\ loop' = [loop EXCEPT !.pc = "apply", !.answer = lease]
  /\ UNCHANGED <<issued, expired, state, check, applied>>

GoodAnswer ==
  /\ loop.pc = "claim"
  /\ Newer(Latest, config)
  /\ Answered(Latest)
  /\ UNCHANGED bad

\* An answer that is old, or that nobody has signed.
BadAnswer ==
  /\ loop.pc = "claim" /\ bad > 0
  /\ \E l \in issued, signed \in BOOLEAN : Answered([l EXCEPT !.signed = signed])
  /\ bad' = bad - 1

\* Mutant: only the time of the lease is compared.
LaterLease(l) == l.signed /\ l.serial > expired /\ l.serial > config.serial

\* outpostRuntime.apply: signed and not expired, and a later version, or a later lease of the
\* same version.
Acceptable(l) ==
  /\ l.signed /\ l.serial > expired /\ Newer(l, config)

\* Mutant: a rejected configuration leaves its mark for good.
ApplyKeepsError ==
  /\ loop.pc = "apply"
  /\ contact' = TRUE
  /\ IF Acceptable(loop.answer)
     THEN /\ config' = loop.answer /\ desired' = loop.answer.ver /\ UNCHANGED rejected
          /\ Goto(IF loop.answer.ver # loop.current THEN "report" ELSE "idle")
     ELSE rejected' = TRUE /\ UNCHANGED <<config, desired>> /\ loop' = Idle
  /\ UNCHANGED <<issued, expired, check, applied, bad>>

Apply ==
  /\ loop.pc = "apply"
  /\ contact' = TRUE
  /\ IF Acceptable(loop.answer)
     THEN /\ config' = loop.answer /\ desired' = loop.answer.ver /\ rejected' = FALSE
          /\ Goto(IF loop.answer.ver # loop.current THEN "report" ELSE "idle")
     ELSE rejected' = TRUE /\ UNCHANGED <<config, desired>> /\ loop' = Idle
  /\ UNCHANGED <<issued, expired, check, applied, bad>>

\* The event "configuration_applied", tried three times.
ReportApplied ==
  /\ loop.pc = "report"
  /\ applied' \in {config, applied}
  /\ loop' = Idle
  /\ UNCHANGED <<issued, expired, state, check, bad>>

\* The answer to a heartbeat may ask for a newer version, which is claimed at once if the heartbeat
\* was accepted.
Heartbeat ==
  /\ loop.pc = "idle" /\ contact
  /\ \/ /\ desired' = Latest.ver
        /\ loop' = IF desired' > config.ver
                   THEN [Idle EXCEPT !.pc = "claim", !.current = config.ver] ELSE Idle
     \/ desired' \in {desired, Latest.ver} /\ UNCHANGED loop
  /\ UNCHANGED <<issued, expired, config, rejected, contact, check, applied, bad>>

-----------------------------------------------------------------------------
(* The checks.                                                             *)

\* Mutant: the configuration that was good last serves on.
LastKnownGood == config # NoLease

Ready == config # NoLease /\ ~rejected /\ config.serial > expired

\* The request is refused, passes by a path that is not checked, or is asked about.
Route(c) ==
  /\ check[c].pc = "idle"
  /\ check' \in IF Ready
                THEN {[check EXCEPT ![c] = [pc |-> pc, lease |-> config]] : pc \in {"allowed", "ask"}}
                ELSE {[check EXCEPT ![c] = [pc |-> "refused", lease |-> NoLease]]}
  /\ UNCHANGED <<issued, expired, state, loop, applied, bad>>

\* A decision that is not one, or none, refuses the request.
CoreDecides(c) ==
  /\ check[c].pc = "ask"
  /\ check' \in {[check EXCEPT ![c].pc = pc] : pc \in {"allowed", "refused"}}
  /\ UNCHANGED <<issued, expired, state, loop, applied, bad>>

Reply(c) ==
  /\ check[c].pc \in {"allowed", "refused"}
  /\ check' = [check EXCEPT ![c] = [pc |-> "idle", lease |-> NoLease]]
  /\ UNCHANGED <<issued, expired, state, loop, applied, bad>>

Next ==
  \/ Sign \/ Expire
  \/ StartClaim \/ NoAnswer \/ GoodAnswer \/ BadAnswer \/ Apply \/ ReportApplied \/ Heartbeat
  \/ \E c \in Checks : Route(c) \/ CoreDecides(c) \/ Reply(c)

\* The loop goes on; a control plane that is asked again and again gives a good answer at last.
Fairness ==
  /\ WF_vars(StartClaim) /\ WF_vars(Apply) /\ WF_vars(ReportApplied)
  /\ SF_vars(GoodAnswer)

Spec == Init /\ [][Next]_vars /\ Fairness

-----------------------------------------------------------------------------
\* The configuration never goes back: to an older version, or to a lease of the same version
\* that ends earlier ("configuration version is not monotonic", "lease is not newer").
NeverOlder == [][Newer(config', config)]_config

\* Whoever was told that a configuration is applied will not see a request routed by an older
\* one, nor by one that had expired by then.
AppliedRoutes ==
  [][\A c \in Checks : check[c].pc = "idle" /\ check'[c].pc \in {"allowed", "ask"} =>
       check'[c].lease.ver >= applied.ver /\ check'[c].lease.serial > expired]_check

\* A rejected configuration stops the service only until the next lease, unless that has
\* expired too.
RejectionEnds == rejected /\ Latest # config ~> ~rejected \/ Latest.serial <= expired

=============================================================================
