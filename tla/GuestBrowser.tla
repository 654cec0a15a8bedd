----------------------------- MODULE GuestBrowser -----------------------------
(***************************************************************************)
(* The browser of a personal guest: one page behind a pipe, whose control  *)
(* is handed between the agent and the user by generations.  Operations on *)
(* it come one at a time (GuestRuntime), in whatever order the launchers   *)
(* have connected.  The requests of the page are paused, and fetched       *)
(* through the control plane for the operation that is in progress.        *)
(***************************************************************************)
EXTENDS Naturals, FiniteSets

CONSTANTS
  Controls, Owners,
  MaxGeneration,
  MaxOps,      \* operations
  Paused,      \* requests of a page
  MaxFetching  \* cap(browserPipe.network), 8 in the code

VARIABLES
  page,     \* [open, alive, control, generation, owner]
  op,       \* the operation in progress: [pc, number, action]
  ended,    \* the operations whose context is over
  sent,     \* the inputs that are in the browser, and may still have their effect
  fetch,    \* each request of the page: [pc, number, between], number being the operation that was
            \* registered as it paused; history: it paused while none was in progress
  count

vars == <<page, op, ended, sent, fetch, count>>

Actions == {"acquire", "handover", "input", "snapshot", "release"}
NoOwner == "nobody"
NoAction == [action |-> "none", control |-> NoOwner, generation |-> 0, owner |-> NoOwner]
Closed == [open |-> FALSE, alive |-> FALSE, control |-> NoOwner, generation |-> 0, owner |-> NoOwner]
NoOp == [pc |-> "idle", number |-> 0, action |-> NoAction]
NotAsked == [pc |-> "no", number |-> 0, between |-> FALSE]

Init ==
  /\ page = Closed /\ op = NoOp /\ ended = {} /\ sent = {} /\ count = 0
  /\ fetch = [r \in Paused |-> NotAsked]

act == op.action

\* Closing kills the browser, and what is in it has no effect any more.
ClosePage ==
  /\ page' = Closed /\ sent' = {}
  /\ fetch' = [r \in Paused |-> NotAsked]

Step(pc) == op' = [op EXCEPT !.pc = pc]
Finish == op' = NoOp

-----------------------------------------------------------------------------
(* An operation.                                                           *)

Begin ==
  /\ op.pc = "idle" /\ count < MaxOps
  /\ count' = count + 1
  /\ \E a \in [action : Actions, control : Controls, generation : 1..MaxGeneration, owner : Owners] :
       op' = [pc |-> "page", number |-> count', action |-> a]
  /\ UNCHANGED <<page, ended, sent, fetch>>

\* Without a page there is nothing to act on but an acquisition, which starts one; a probe starts
\* one as well, that nobody controls.
Page ==
  /\ op.pc = "page"
  /\ IF page.open THEN Step("fence") /\ UNCHANGED page
     ELSE \/ Finish /\ UNCHANGED page
          \/ /\ act.action = "acquire"
             /\ page' = [Closed EXCEPT !.open = TRUE, !.alive = TRUE]
             /\ Step("fence")
  /\ UNCHANGED <<ended, sent, fetch, count>>

Probe ==
  /\ op.pc = "idle" /\ count < MaxOps /\ ~page.open
  /\ count' = count + 1
  /\ page' = [Closed EXCEPT !.open = TRUE, !.alive = TRUE]
  /\ UNCHANGED <<op, ended, sent, fetch>>

\* Who may do what: a free page is acquired by anybody, at any generation; after that control
\* goes on by one generation at a time.
AllowedOfControl ==  \* Mutant: whoever holds the control may act, at any generation.
  CASE act.action = "acquire" ->
         page.control = NoOwner \/ (page.control = act.control /\ act.generation = page.generation + 1)
    [] act.action = "handover" ->
         page.control = act.control /\ act.generation = page.generation + 1
    [] OTHER -> page.control = act.control

Allowed ==
  CASE act.action = "acquire" ->
         page.control = NoOwner \/ (page.control = act.control /\ act.generation = page.generation + 1)
    [] act.action = "handover" ->
         page.control = act.control /\ act.generation = page.generation + 1
    [] OTHER ->
         page.control = act.control /\ page.generation = act.generation /\ page.owner = act.owner

Fence ==
  /\ op.pc = "fence"
  /\ IF ~Allowed THEN Finish /\ UNCHANGED page
     ELSE IF act.action \in {"acquire", "handover"}
     THEN /\ page' = [page EXCEPT !.control = act.control, !.generation = act.generation,
                                  !.owner = act.owner]
          /\ Step("frame")
     ELSE Step(IF act.action = "input" THEN "act" ELSE "frame") /\ UNCHANGED page
  /\ UNCHANGED <<ended, sent, fetch, count>>

\* What the operation sends, with the control it was allowed by.
Input == [number |-> op.number, control |-> act.control, generation |-> act.generation,
          owner |-> act.owner]

\* A call of the input is written to the pipe, unless the context is over already.
Send ==
  /\ op.pc = "act" /\ page.alive /\ op.number \notin ended
  /\ sent' = sent \cup {Input}
  /\ Step("reply")
  /\ UNCHANGED <<page, ended, fetch, count>>

\* The browser does what it was sent.
Effect ==
  /\ page.alive
  /\ \E i \in sent : sent' = sent \ {i}
  /\ UNCHANGED <<page, op, ended, fetch, count>>

\* The browser confirms the call; an input is one call or more, as the press and the release of a
\* pointer.
Reply ==
  /\ op.pc = "reply" /\ page.alive /\ Input \notin sent
  /\ Step("act") \/ Step("frame")
  /\ UNCHANGED <<page, ended, sent, fetch, count>>

\* Mutant: the page stays after an action whose outcome is unconfirmed.
KeepsPage ==
  /\ op.pc \in {"act", "reply", "frame"}
  /\ Finish
  /\ UNCHANGED <<page, ended, sent, fetch, count>>

\* The call fails, the pipe is gone, or the time is over: the page is closed, and the control of
\* it has to be acquired anew.
Unconfirmed ==
  /\ op.pc \in {"act", "reply", "frame"}
  /\ Finish
  /\ ClosePage
  /\ UNCHANGED <<ended, count>>

\* The frame is the answer, and a release frees the page.
Frame ==
  /\ op.pc = "frame" /\ page.alive
  /\ page' = IF act.action = "release" THEN [page EXCEPT !.control = NoOwner, !.owner = NoOwner]
             ELSE page
  /\ Finish
  /\ UNCHANGED <<ended, sent, fetch, count>>

\* The context of an operation is over by a cancellation, or some time after its end; nobody is
\* left to notice when nothing is done in it any more.
ContextEnds(n) ==
  /\ n \in (1..count \ ended) \cap ({op.number} \cup {fetch[r].number : r \in Paused})
  /\ ended' = ended \cup {n}
  /\ UNCHANGED <<page, op, sent, fetch, count>>

\* The browser dies, and nobody notices before the next call.
Dies ==
  /\ page.alive
  /\ page' = [page EXCEPT !.alive = FALSE]
  /\ sent' = {} /\ fetch' = [r \in Paused |-> NotAsked]
  /\ UNCHANGED <<op, ended, count>>

-----------------------------------------------------------------------------
(* The requests of the page.                                               *)

Waiting(pc) == {r \in Paused : fetch[r].pc = pc}
Places == Waiting("paused") \cup Waiting("fetching")

\* The operation that is registered with the page: from the first look at the page to the answer.
InProgress == op.pc \in {"fence", "act", "reply", "frame"}
RegisteredLast == count  \* Mutant: the registration is not taken back with the answer.
Registered == IF InProgress THEN op.number ELSE 0

\* A request is refused, or stays paused for good: whether the browser hears of a refusal, nobody
\* checks.
Unanswered(r) == fetch' = [fetch EXCEPT ![r] = [NotAsked EXCEPT !.pc = "unanswered"]]

\* The request is received with the operation that is registered, and takes a place; without one
\* it is refused.
Pause(r) ==
  /\ page.alive /\ fetch[r].pc = "no"
  /\ IF Cardinality(Places) < MaxFetching
     THEN fetch' = [fetch EXCEPT ![r] = [pc |-> "paused", number |-> Registered, between |-> ~InProgress]]
     ELSE Unanswered(r)
  /\ UNCHANGED <<page, op, ended, sent, count>>

\* Later, in a goroutine of its own, it is fetched for that operation, whether or not it is still
\* in progress, if its context is not over; a page of files is not fetched for.
Fetch(r) ==
  /\ fetch[r].pc = "paused"
  /\ \/ fetch[r].number \notin {0} \cup ended /\ fetch' = [fetch EXCEPT ![r].pc = "fetching"]
     \/ Unanswered(r)
  /\ UNCHANGED <<page, op, ended, sent, count>>

\* The answer of the control plane is given to the page in the context of the operation, if that is
\* not over; without an answer, or when the call fails, the request has none either.
Fetched(r) ==
  /\ fetch[r].pc = "fetching"
  /\ \/ fetch[r].number \notin ended
        /\ fetch' = [fetch EXCEPT ![r].pc = "fulfilled", ![r].number = 0]
     \/ Unanswered(r)
  /\ UNCHANGED <<page, op, ended, sent, count>>

Next ==
  \/ Begin \/ Probe \/ Page \/ Fence \/ Send \/ Effect \/ Reply \/ Unconfirmed \/ Frame \/ Dies
  \/ \E n \in 1..MaxOps : ContextEnds(n)
  \/ \E r \in Paused : Pause(r) \/ Fetch(r) \/ Fetched(r)

Spec == Init /\ [][Next]_vars

-----------------------------------------------------------------------------
\* What an operation has sent to the page has no effect once the operation has been answered, with
\* an error or without: what is in the browser was sent by the operation in progress.
NothingLate == \A i \in sent : i.number = op.number

\* What is in the browser, and may have its effect in the next step, was allowed by the control,
\* the generation and the owner the page has now: nothing of one who has handed the page on.
NothingStale ==
  \A i \in sent : /\ page.alive
                 /\ i.control = page.control /\ i.generation = page.generation /\ i.owner = page.owner

\* A request is fetched, and answered, only if it paused while an operation was in progress; and
\* no more of them than there are places.
FetchedForOperations ==
  /\ Cardinality(Places) <= MaxFetching
  /\ \A r \in Waiting("fetching") \cup Waiting("fulfilled") : ~fetch[r].between

=============================================================================
