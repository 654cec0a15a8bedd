---------------------------- MODULE RunnerSlots ----------------------------
(***************************************************************************)
(* The execution slots that Runner.loop and Runner.agentRuntimeLoop share. *)
(*                                                                         *)
(* A loop takes a slot before it asks the control plane for work, gives it *)
(* back when there is none, and otherwise hands it to the goroutine that   *)
(* carries the work out.  What the goroutine does is a single step here:   *)
(* ExecutionTask and Buildpacks model it.                                  *)
(***************************************************************************)
EXTENDS Integers, FiniteSets

CONSTANTS
  Loops,           \* the polling loops: execution tasks, agent runs
  Work,            \* pieces of work the control plane may hand out
  LoopOf,          \* the loop that each piece of work is for
  MaxConcurrency   \* control_plane.max_concurrency

\* New replaces a max_concurrency that is not positive by one.
ASSUME SlotsAssumption ==
  /\ IsFiniteSet(Loops) /\ IsFiniteSet(Work)
  /\ Loops \cap Work = {}
  /\ LoopOf \in [Work -> Loops]
  /\ MaxConcurrency \in Nat \ {0}

VARIABLES
  loop,      \* waiting for a tick, claiming with a slot in hand, or stopped
  slots,     \* how many tokens the channel executionSlots holds
  work,      \* offered, lost on its way, in the agent's hands, or over
  shutdown   \* the runner's context is done

vars == <<loop, slots, work, shutdown>>

Claiming == {l \in Loops : loop[l] = "claiming"}
InHand == {w \in Work : work[w] = "inHand"}

-----------------------------------------------------------------------------
Init ==
  /\ loop = [l \in Loops |-> "waiting"]
  /\ slots = 0
  /\ work = [w \in Work |-> "offered"]
  /\ shutdown = FALSE

\* Mutant: a channel that is one too large.
TakeOneSlotMore(l) ==
  /\ loop[l] = "waiting"
  /\ slots <= MaxConcurrency
  /\ slots' = slots + 1
  /\ loop' = [loop EXCEPT ![l] = "claiming"]
  /\ UNCHANGED <<work, shutdown>>

\* tryAcquireExecutionSlot at a tick; a full channel is left alone.  When the
\* tick and the end of the context are both there, select may take the tick.
TakeSlot(l) ==
  /\ loop[l] = "waiting"
  /\ slots < MaxConcurrency
  /\ slots' = slots + 1
  /\ loop' = [loop EXCEPT ![l] = "claiming"]
  /\ UNCHANGED <<work, shutdown>>

\* releaseExecutionSlot does not wait when the channel is empty.
Release == slots' = IF slots > 0 THEN slots - 1 ELSE 0

\* Mutant: the slot stays taken when there was nothing to claim.
MissKeepsSlot(l) ==
  /\ loop[l] = "claiming"
  /\ loop' = [loop EXCEPT ![l] = "waiting"]
  /\ UNCHANGED <<slots, work, shutdown>>

\* claim finds nothing: no work, an error, or the end of the context.
ClaimMissed(l) ==
  /\ loop[l] = "claiming"
  /\ loop' = [loop EXCEPT ![l] = "waiting"]
  /\ Release
  /\ UNCHANGED <<work, shutdown>>

\* The control plane hands out the work and the answer never arrives.
ClaimLost(l, w) ==
  /\ loop[l] = "claiming"
  /\ LoopOf[w] = l /\ work[w] = "offered"
  /\ work' = [work EXCEPT ![w] = "lost"]
  /\ loop' = [loop EXCEPT ![l] = "waiting"]
  /\ Release
  /\ UNCHANGED shutdown

\* Mutant: the loop gives the slot back, and the goroutine does so once more.
ClaimReleasesEarly(l, w) ==
  /\ loop[l] = "claiming"
  /\ LoopOf[w] = l /\ work[w] = "offered"
  /\ work' = [work EXCEPT ![w] = "inHand"]
  /\ loop' = [loop EXCEPT ![l] = "waiting"]
  /\ Release
  /\ UNCHANGED shutdown

\* The slot passes to the goroutine that carries the work out.
Claimed(l, w) ==
  /\ loop[l] = "claiming"
  /\ LoopOf[w] = l /\ work[w] = "offered"
  /\ work' = [work EXCEPT ![w] = "inHand"]
  /\ loop' = [loop EXCEPT ![l] = "waiting"]
  /\ UNCHANGED <<slots, shutdown>>

\* executeClaimedTask or executeAgentRun returns; the deferred release runs.
Finish(w) ==
  /\ work[w] = "inHand"
  /\ work' = [work EXCEPT ![w] = "over"]
  /\ Release
  /\ UNCHANGED <<loop, shutdown>>

Shutdown ==
  /\ ~shutdown
  /\ shutdown' = TRUE
  /\ UNCHANGED <<loop, slots, work>>

LoopStops(l) ==
  /\ shutdown
  /\ loop[l] = "waiting"
  /\ loop' = [loop EXCEPT ![l] = "stopped"]
  /\ UNCHANGED <<slots, work, shutdown>>

Next ==
  \/ \E l \in Loops :
       \/ TakeSlot(l) \/ ClaimMissed(l) \/ LoopStops(l)
       \/ \E w \in Work : ClaimLost(l, w) \/ Claimed(l, w)
  \/ \E w \in Work : Finish(w)
  \/ Shutdown

\* A claim request has a timeout, work has a deadline, and a loop whose context
\* is done sees it at one of its next ticks: select takes a ready case at
\* random, so it cannot take the tick for ever.
Fairness ==
  /\ \A l \in Loops :
       /\ WF_vars(\/ ClaimMissed(l)
                  \/ \E w \in Work : ClaimLost(l, w) \/ Claimed(l, w))
       /\ SF_vars(LoopStops(l))
  /\ \A w \in Work : WF_vars(Finish(w))

Spec == Init /\ [][Next]_vars /\ Fairness

-----------------------------------------------------------------------------
(* Properties *)

TypeOK ==
  /\ loop \in [Loops -> {"waiting", "claiming", "stopped"}]
  /\ slots \in 0..MaxConcurrency
  /\ work \in [Work -> {"offered", "lost", "inHand", "over"}]
  /\ shutdown \in BOOLEAN

\* Every token belongs to a loop that is claiming or to work in hand, so a
\* claim is only made when the agent can carry its work out, none is released
\* for another, and max_concurrency holds for both loops together.
SlotsAccounted == slots = Cardinality(Claiming) + Cardinality(InHand)

WithinCapacity == Cardinality(Claiming) + Cardinality(InHand) <= MaxConcurrency

\* After a shutdown all slots come back and the loops stop, whatever they were
\* claiming when the context ended.
Drains == shutdown ~> (slots = 0 /\ \A l \in Loops : loop[l] = "stopped")

=============================================================================
