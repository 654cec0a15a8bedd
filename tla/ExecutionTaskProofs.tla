------------------------- MODULE ExecutionTaskProofs -------------------------
(***************************************************************************)
(* What holds of ExecutionTask for any number of claims, tasks, commands   *)
(* and callback attempts, two attempts of one task included; and of the    *)
(* other tasks of MCTasks, the workspace that they share, those whose      *)
(* effect is outside the runner, and builds with Buildpacks.               *)
(***************************************************************************)
EXTENDS MCTasks, FiniteOrders, SequenceTheorems, TLAPS

-----------------------------------------------------------------------------
(* The inductive invariant *)

\* A verdict exists from the moment execute has concluded, and not before.
VerdictWhenConcluded ==
  \A c \in Claims :
    /\ pc[c] = "queued" <=> cp[c] = "queued"
    /\ pc[c] \in {"final", "mark"} => verdict[c] \in Final
    /\ pc[c] \notin {"final", "mark", "done"} =>
         verdict[c] = "none" /\ heard[c] = {} /\ outcome[c] = "none"

\* A monitor that is about to cancel the command has left its reason in the
\* channel, and the reason stays with the claim until it has concluded: in the
\* channel, then in what drainStopReason returned, then in the verdict.
ReasonBeforeCut ==
  \A c \in Claims :
    /\ \A m \in Monitors :
         /\ monitor[c][m] # "off" => pc[c] = "run"
         /\ monitor[c][m] = "sent" => stopReason[c]
    /\ cut[c] => \/ pc[c] = "run" /\ stopReason[c]
                 \/ pc[c] \in {"logCallback", "decide"} /\ remote[c]
                 \/ pc[c] \in {"final", "mark"} /\ verdict[c] = "canceled"

\* The active map and the task contexts agree.
EntryHasContext ==
  /\ \A t \in Tasks :
       owner[t] # NoClaim =>
         TaskOf[owner[t]] = t /\ pc[owner[t]] \in Registered /\ ctx[owner[t]] # "none"
  /\ \A c \in Claims :
       /\ ctx[c] # "none" => pc[c] \in Registered
       /\ ctx[c] # "none" /\ SoleAttempt(c) => owner[TaskOf[c]] = c

\* A request of the runtime API has been accepted for some attempt of the task.
AskedFor(t) == \E d \in Claims : TaskOf[d] = t /\ asked[d] # "no"

CancelWasAsked ==
  /\ \A t \in Tasks : stopSource[t] = "local_api" => AskedFor(t)
  /\ \A c \in Claims : verdict[c] = "canceled" => AskedFor(TaskOf[c])
  /\ \A c \in Claims :
       asked[c] = "running" => ctx[c] # "live" /\ pc[c] \notin {"queued", "redeem"}

IInv ==
  /\ TypeOK
  /\ VerdictWhenConcluded
  /\ OneVerdict
  /\ ReasonBeforeCut
  /\ EntryHasContext
  /\ CancelWasAsked

\* The values that the actions assign lie in the ranges of TypeOK.
LEMMA Ranges ==
  /\ "queued" \in CpStatus /\ "running" \in CpStatus
  /\ "canceled" \in CpStatus /\ "callback_timeout" \in CpStatus
  /\ \A v \in Final : v \in CpStatus /\ v \in Final \cup {"none"}
  /\ "canceled" \in Final /\ "callback_timeout" \in Final
  /\ "failed" \in Final /\ "completed" \in Final
  /\ "none" \in Final \cup {"none"}
  /\ "none" \notin Final /\ "queued" \notin Final /\ "running" \notin Final
  /\ "none" \in Contexts /\ "live" \in Contexts
  /\ "canceled" \in Contexts /\ "deadline" \in Contexts
  /\ "none" \in Sources /\ "local_api" \in Sources /\ "control_plane" \in Sources
  /\ "heartbeat" \in Monitors /\ "status" \in Monitors
  /\ "off" \in MonitorStates /\ "idle" \in MonitorStates /\ "stop" \in MonitorStates
  /\ "marked" \in MonitorStates /\ "sent" \in MonitorStates
  /\ "queued" \in Locations /\ "redeem" \in Locations /\ "prepare" \in Locations
  /\ "workspaceCallback" \in Locations /\ "workspaceDone" \in Locations
  /\ "commandCallback" \in Locations /\ "start" \in Locations /\ "run" \in Locations
  /\ "logCallback" \in Locations /\ "decide" \in Locations /\ "final" \in Locations
  /\ "mark" \in Locations /\ "done" \in Locations
BY DEF CpStatus, Final, Contexts, Sources, Monitors, MonitorStates, Locations

-----------------------------------------------------------------------------
(* Types *)

\* The types of the variables that the main goroutine of a claim owns.
MainTypes ==
  /\ pc \in [Claims -> Locations]
  /\ command \in [Claims -> Nat]
  /\ tries \in [Claims -> 0..MaxAttempts]
  /\ failed \in [Claims -> BOOLEAN]
  /\ remote \in [Claims -> BOOLEAN]

\* The types of the variables that others share with it.
SharedTypes ==
  /\ ctx \in [Claims -> Contexts]
  /\ cut \in [Claims -> BOOLEAN]
  /\ owner \in [Tasks -> Claims \cup {NoClaim}]
  /\ stopSource \in [Tasks -> Sources]

LEMMA ReturnTypes ==
  ASSUME TypeOK, NEW c \in Claims, Return(c)
  PROVE  MainTypes' /\ SharedTypes'
<1> USE ClaimsAssumption, Ranges DEF ClaimsAssumption, TypeOK, Return, Goto, activeVars
<1>1. MainTypes'
  BY DEF MainTypes
<1>2. ctx' \in [Claims -> Contexts] /\ cut' \in [Claims -> BOOLEAN]
  OBVIOUS
<1>3. owner' \in [Tasks -> Claims \cup {NoClaim}]
  OBVIOUS
<1>4. stopSource' \in [Tasks -> Sources]
  OBVIOUS
<1> QED
  BY <1>1, <1>2, <1>3, <1>4 DEF SharedTypes

LEMMA ConcludeTypes ==
  ASSUME TypeOK, NEW c \in Claims, NEW status \in Final, Conclude(c, status)
  PROVE  /\ MainTypes'
         /\ verdict' \in [Claims -> Final \cup {"none"}]
         /\ outcome' \in [Claims -> Final \cup {"none"}]
BY Ranges DEF TypeOK, MainTypes, Conclude, Goto

LEMMA TypeInit == Init => TypeOK
<1> USE ClaimsAssumption, Ranges DEF ClaimsAssumption, Init
<1>1. Init => MainTypes
  BY DEF MainTypes
<1>2. Init => SharedTypes
  BY DEF SharedTypes
<1>3. Init => /\ cp \in [Claims -> CpStatus]
              /\ attempt \in [Tasks -> Claims \cup {NoClaim}]
              /\ heard \in [Claims -> SUBSET Final]
              /\ verdict \in [Claims -> Final \cup {"none"}]
              /\ outcome \in [Claims -> Final \cup {"none"}]
  OBVIOUS
<1>4. Init => monitor \in [Claims -> [Monitors -> MonitorStates]]
  OBVIOUS
<1>5. Init => /\ alive \in [Claims -> BOOLEAN]
              /\ stopReason \in [Claims -> BOOLEAN]
              /\ lateWatch \in [Claims -> BOOLEAN]
  OBVIOUS
<1>7. Init => shutdown \in BOOLEAN
  BY Zenon
<1>6. Init => asked \in [Claims -> {"no", "other", "running"}]
  OBVIOUS
<1> HIDE DEF Init
<1> QED
  BY <1>1, <1>2, <1>3, <1>4, <1>5, <1>6, <1>7 DEF TypeOK, MainTypes, SharedTypes

LEMMA TypeStep ==
  ASSUME TypeOK, VerdictWhenConcluded, [Next]_vars
  PROVE  TypeOK'
<1> USE ClaimsAssumption, Ranges
<1> USE DEF ClaimsAssumption, TypeOK, agentVars, commandVars, activeVars, cpVars, Goto
<1>1. ASSUME NEW c \in Claims, Claim(c) PROVE TypeOK'
  BY <1>1 DEF Claim
<1>2. ASSUME NEW c \in Claims, NEW status \in {"canceled", "callback_timeout"},
             ControlPlaneStops(c, status)
      PROVE TypeOK'
  BY <1>2 DEF ControlPlaneStops
<1>3. ASSUME NEW c \in Claims, Redeem(c) PROVE TypeOK'
  <2>1. CASE Conclude(c, "failed") /\ UNCHANGED <<activeVars, ctx>>
    BY <1>3, <2>1, ConcludeTypes DEF Redeem, MainTypes
  <2>2. CASE pc' = [pc EXCEPT ![c] = "prepare"]
    <3>1. /\ ctx' = [ctx EXCEPT ![c] = IF shutdown THEN "canceled" ELSE "live"]
          /\ owner' = [owner EXCEPT ![TaskOf[c]] = c]
          /\ stopSource' = [stopSource EXCEPT ![TaskOf[c]] = "none"]
          /\ UNCHANGED <<command, verdict, tries, outcome, failed, remote>>
          /\ UNCHANGED <<commandVars, cpVars, asked, shutdown>>
      BY <1>3, <2>2 DEF Redeem, Conclude
    <3> QED
      BY <2>2, <3>1
  <2> QED
    BY <1>3, <2>1, <2>2 DEF Redeem
<1>4. ASSUME NEW c \in Claims, PrepareWorkspace(c) PROVE TypeOK'
  BY <1>4 DEF PrepareWorkspace
<1>5. ASSUME NEW c \in Claims, WorkspaceDone(c) PROVE TypeOK'
  <2>1. CASE failed[c]
    BY <1>5, <2>1, ConcludeTypes DEF WorkspaceDone, MainTypes
  <2>2. CASE ~failed[c]
    <3>1. /\ pc' = [pc EXCEPT ![c] = "commandCallback"]
          /\ command' = [command EXCEPT ![c] = 1]
          /\ UNCHANGED <<verdict, tries, outcome, failed, remote>>
      BY <1>5, <2>2 DEF WorkspaceDone
    <3> QED
      BY <1>5, <3>1 DEF WorkspaceDone
  <2> QED
    BY <2>1, <2>2
<1>6. ASSUME NEW c \in Claims, CallbackStops(c) PROVE TypeOK'
  BY <1>6, ReturnTypes DEF CallbackStops, MainTypes, SharedTypes
<1>7. ASSUME NEW c \in Claims, CallbackGoesOn(c) PROVE TypeOK'
  BY <1>7 DEF CallbackGoesOn, AfterCallback
<1>8. ASSUME NEW c \in Claims, StartCommand(c) PROVE TypeOK'
  BY <1>8 DEF StartCommand
<1>9. ASSUME NEW c \in Claims, StopWithoutReport(c) PROVE TypeOK'
  BY <1>9, ReturnTypes DEF StopWithoutReport, MainTypes, SharedTypes
<1>10. ASSUME NEW c \in Claims, Decide(c) PROVE TypeOK'
  <2>1. CASE \E status \in Final : Conclude(c, status)
    BY <1>10, <2>1, ConcludeTypes DEF Decide, MainTypes
  <2>2. CASE pc' = [pc EXCEPT ![c] = "commandCallback"]
    <3>1. MainTypes' /\ UNCHANGED <<verdict, outcome>>
      BY <1>10, <2>2 DEF Decide, Conclude, MainTypes
    <3> QED
      BY <1>10, <3>1 DEF Decide, MainTypes
  <2> QED
    BY <1>10, <2>1, <2>2 DEF Decide
<1>11. ASSUME NEW c \in Claims, FinalLost(c) PROVE TypeOK'
  BY <1>11 DEF FinalLost, Try
<1>12. ASSUME NEW c \in Claims, NEW answered \in BOOLEAN, FinalReceived(c, answered)
       PROVE TypeOK'
  <2>1. verdict[c] \in Final
    BY <1>12 DEF FinalReceived, Try, VerdictWhenConcluded
  <2>3. heard' \in [Claims -> SUBSET Final] /\ cp' \in [Claims -> CpStatus]
    BY <1>12, <2>1 DEF FinalReceived, Try
  <2>2. pc' \in [Claims -> Locations] /\ tries' \in [Claims -> 0..MaxAttempts]
    BY <1>12 DEF FinalReceived, Try
  <2> QED
    BY <1>12, <2>2, <2>3 DEF FinalReceived, Try
<1>13. ASSUME NEW c \in Claims, FinalGivenUp(c) PROVE TypeOK'
  BY <1>13 DEF FinalGivenUp
<1>14. ASSUME NEW c \in Claims, MarkOutcome(c) PROVE TypeOK'
  BY <1>14, ReturnTypes DEF MarkOutcome, MainTypes, SharedTypes
<1>15. ASSUME NEW c \in Claims, NEW failure \in BOOLEAN, CommandReturns(c, failure) PROVE TypeOK'
  BY <1>15 DEF CommandReturns
<1>16. ASSUME NEW c \in Claims, NEW m \in Monitors, MonitorAnswered(c, m) PROVE TypeOK'
  BY <1>16 DEF MonitorAnswered, SetMonitor
<1>17. ASSUME NEW c \in Claims, NEW m \in Monitors, MonitorSends(c, m) PROVE TypeOK'
  BY <1>17 DEF MonitorSends, SetMonitor
<1>18. ASSUME NEW c \in Claims, NEW m \in Monitors, MonitorCancels(c, m) PROVE TypeOK'
  BY <1>18 DEF MonitorCancels, SetMonitor
<1>19. ASSUME NEW c \in Claims, WatcherMarks(c) PROVE TypeOK'
  BY <1>19 DEF WatcherMarks, SetMonitor, MarkEntry
<1>20. ASSUME NEW c \in Claims, LateWatcherMarks(c) PROVE TypeOK'
  BY <1>20 DEF LateWatcherMarks, MarkEntry
<1>21. ASSUME NEW c \in Claims, Deadline(c) PROVE TypeOK'
  BY <1>21 DEF Deadline
<1>22. ASSUME NEW t \in Tasks, CancelActiveTask(t) PROVE TypeOK'
  BY <1>22 DEF CancelActiveTask
<1>23. CASE Shutdown
  BY <1>23 DEF Shutdown
<1>24. CASE UNCHANGED vars
  BY <1>24 DEF vars
<1> HIDE DEF TypeOK
<1> HIDE ClaimsAssumption, Ranges
<1> QED
  BY <1>1, <1>2, <1>3, <1>4, <1>5, <1>6, <1>7, <1>8, <1>9, <1>10, <1>11, <1>12, <1>13,
     <1>14, <1>15, <1>16, <1>17, <1>18, <1>19, <1>20, <1>21, <1>22, <1>23, <1>24
     DEF Next, MainStep, MonitorStep

-----------------------------------------------------------------------------
(* Frames: what the steps that are not the main goroutine's leave alone *)

LEMMA MonitorFrame ==
  ASSUME NEW c \in Claims, MonitorStep(c)
  PROVE  UNCHANGED <<pc, verdict, outcome, remote, cp, heard, ctx, asked, owner>>
BY DEF MonitorStep, MonitorAnswered, MonitorSends, MonitorCancels, WatcherMarks,
       LateWatcherMarks, SetMonitor, agentVars, activeVars, cpVars

-----------------------------------------------------------------------------
(* The verdict *)

LEMMA ConcludeVerdict ==
  ASSUME TypeOK, VerdictWhenConcluded, OneVerdict,
         NEW c \in Claims, NEW status \in Final, Conclude(c, status),
         pc[c] \notin {"queued", "final", "mark", "done"}, UNCHANGED <<cp, heard>>
  PROVE  VerdictWhenConcluded' /\ OneVerdict'
BY Ranges DEF TypeOK, VerdictWhenConcluded, OneVerdict, Conclude, Goto

\* A step to another place before the conclusion, or to the end.
LEMMA MoveVerdict ==
  ASSUME TypeOK, VerdictWhenConcluded, OneVerdict,
         NEW c \in Claims, NEW l \in Locations \ {"queued", "final", "mark"},
         pc' = [pc EXCEPT ![c] = l], pc[c] \notin {"queued", "final", "mark", "done"},
         UNCHANGED <<cp, heard, verdict, outcome>>
  PROVE  VerdictWhenConcluded' /\ OneVerdict'
BY Ranges DEF TypeOK, VerdictWhenConcluded, OneVerdict

LEMMA VerdictStep ==
  ASSUME TypeOK, VerdictWhenConcluded, OneVerdict, [Next]_vars
  PROVE  VerdictWhenConcluded' /\ OneVerdict'
<1> DEFINE Inv == VerdictWhenConcluded /\ OneVerdict
<1> SUFFICES Inv'
  OBVIOUS
<1> USE Ranges DEF VerdictWhenConcluded, OneVerdict, TypeOK, Goto, Conclude, agentVars, cpVars
<1>1. ASSUME NEW c \in Claims, Claim(c) PROVE Inv'
  BY <1>1 DEF Claim
<1>2. ASSUME NEW c \in Claims, NEW status \in {"canceled", "callback_timeout"},
             ControlPlaneStops(c, status)
      PROVE Inv'
  BY <1>2 DEF ControlPlaneStops
<1>3. ASSUME NEW c \in Claims, Redeem(c) PROVE Inv'
  <2>1. pc[c] = "redeem" /\ UNCHANGED <<cp, heard>>
    BY <1>3 DEF Redeem
  <2>2. CASE Conclude(c, "failed")
    BY <2>1, <2>2, ConcludeVerdict
  <2>3. CASE Goto(c, "prepare") /\ UNCHANGED <<verdict, outcome>>
    BY <2>1, <2>3, MoveVerdict
  <2> HIDE DEF Inv, Conclude, Goto
  <2> QED
    BY <1>3, <2>2, <2>3 DEF Redeem
<1>4. ASSUME NEW c \in Claims, PrepareWorkspace(c) PROVE Inv'
  BY <1>4 DEF PrepareWorkspace
<1>5. ASSUME NEW c \in Claims, WorkspaceDone(c) PROVE Inv'
  <2>1. pc[c] = "workspaceDone" /\ UNCHANGED <<cp, heard>>
    BY <1>5 DEF WorkspaceDone
  <2>2. ASSUME NEW status \in Final, Conclude(c, status) PROVE Inv'
    BY <2>1, <2>2, ConcludeVerdict
  <2>3. CASE Goto(c, "commandCallback") /\ UNCHANGED <<verdict, outcome>>
    BY <2>1, <2>3, MoveVerdict
  <2> HIDE DEF Inv, Conclude, Goto
  <2> QED
    BY <1>5, <2>2, <2>3 DEF WorkspaceDone
<1>6. ASSUME NEW c \in Claims, CallbackStops(c) \/ StopWithoutReport(c) PROVE Inv'
  <2>1. /\ Goto(c, "done")
        /\ pc[c] \notin {"queued", "final", "mark", "done"}
        /\ UNCHANGED <<cp, heard, verdict, outcome>>
    BY <1>6 DEF CallbackStops, StopWithoutReport, AfterCallback, Return
  <2> QED
    BY <2>1, MoveVerdict
<1>7. ASSUME NEW c \in Claims, CallbackGoesOn(c) PROVE Inv'
  BY <1>7 DEF CallbackGoesOn, AfterCallback
<1>8. ASSUME NEW c \in Claims, StartCommand(c) PROVE Inv'
  BY <1>8 DEF StartCommand
<1>10. ASSUME NEW c \in Claims, Decide(c) PROVE Inv'
  <2>1. pc[c] = "decide" /\ UNCHANGED <<cp, heard>>
    BY <1>10 DEF Decide
  <2>2. ASSUME NEW status \in Final, Conclude(c, status) PROVE Inv'
    BY <2>1, <2>2, ConcludeVerdict
  <2>3. CASE Goto(c, "commandCallback") /\ UNCHANGED <<verdict, outcome>>
    BY <2>1, <2>3, MoveVerdict
  <2> HIDE DEF Inv, Conclude, Goto
  <2> QED
    BY <1>10, <2>2, <2>3 DEF Decide
<1>11. ASSUME NEW c \in Claims, FinalLost(c) PROVE Inv'
  BY <1>11 DEF FinalLost
<1>12. ASSUME NEW c \in Claims, NEW answered \in BOOLEAN, FinalReceived(c, answered)
       PROVE Inv'
  BY <1>12 DEF FinalReceived, Try
<1>13. ASSUME NEW c \in Claims, FinalGivenUp(c) PROVE Inv'
  BY <1>13 DEF FinalGivenUp
<1>14. ASSUME NEW c \in Claims, MarkOutcome(c) PROVE Inv'
  BY <1>14 DEF MarkOutcome, Return
<1>15. ASSUME NEW c \in Claims, NEW failure \in BOOLEAN, CommandReturns(c, failure) PROVE Inv'
  BY <1>15 DEF CommandReturns
<1>16. ASSUME NEW c \in Claims, MonitorStep(c) PROVE Inv'
  BY <1>16, MonitorFrame
<1>17. ASSUME NEW c \in Claims, Deadline(c) PROVE Inv'
  BY <1>17 DEF Deadline
<1>18. ASSUME NEW t \in Tasks, CancelActiveTask(t) PROVE Inv'
  BY <1>18 DEF CancelActiveTask
<1>19. CASE Shutdown \/ UNCHANGED vars
  BY <1>19 DEF Shutdown, vars
<1> HIDE DEF Inv, VerdictWhenConcluded, OneVerdict, TypeOK
<1> HIDE Ranges
<1> QED
  BY <1>1, <1>2, <1>3, <1>4, <1>5, <1>6, <1>7, <1>8, <1>10, <1>11, <1>12, <1>13, <1>14,
     <1>15, <1>16, <1>17, <1>18, <1>19 DEF Next, MainStep

-----------------------------------------------------------------------------
(* The reason of a stop travels ahead of its effect *)

\* A step of the main goroutine outside a command, when nothing was cut.
LEMMA UncutStep ==
  ASSUME TypeOK, ReasonBeforeCut, NEW c \in Claims, NEW l \in Locations,
         pc' = [pc EXCEPT ![c] = l], pc[c] # "run", ~cut[c],
         \A d \in Claims \ {c} : verdict'[d] = verdict[d] /\ remote'[d] = remote[d],
         UNCHANGED <<monitor, stopReason, cut>>
  PROVE  ReasonBeforeCut'
BY DEF TypeOK, ReasonBeforeCut

LEMMA ReturnReason ==
  ASSUME TypeOK, ReasonBeforeCut, NEW c \in Claims, Return(c), pc[c] # "run",
         UNCHANGED <<monitor, stopReason, verdict>>
  PROVE  ReasonBeforeCut'
BY DEF TypeOK, ReasonBeforeCut, Return, Goto

LEMMA ReasonStep ==
  ASSUME TypeOK, VerdictWhenConcluded, ReasonBeforeCut, [Next]_vars
  PROVE  ReasonBeforeCut'
<1> USE Ranges
<1> USE DEF agentVars, commandVars, Goto
<1>1. ASSUME NEW c \in Claims, Claim(c) \/ PrepareWorkspace(c) PROVE ReasonBeforeCut'
  <2>1. pc[c] \in {"queued", "prepare"}
    BY <1>1 DEF Claim, PrepareWorkspace, VerdictWhenConcluded
  <2>2. UNCHANGED <<monitor, stopReason, cut, verdict, remote>>
    BY <1>1 DEF Claim, PrepareWorkspace
  <2>3. PICK l \in Locations : pc' = [pc EXCEPT ![c] = l]
    BY <1>1 DEF Claim, PrepareWorkspace
  <2>4. ~cut[c]
    BY <2>1 DEF ReasonBeforeCut
  <2> QED
    BY <2>1, <2>2, <2>3, <2>4, UncutStep
<1>2. ASSUME NEW c \in Claims, Redeem(c) \/ WorkspaceDone(c) PROVE ReasonBeforeCut'
  <2>1. pc[c] \in {"redeem", "workspaceDone"} /\ UNCHANGED <<monitor, stopReason, cut>>
    BY <1>2 DEF Redeem, WorkspaceDone
  <2>2. PICK l \in Locations : pc' = [pc EXCEPT ![c] = l]
    BY <1>2 DEF Redeem, WorkspaceDone, Conclude
  <2>3. \A d \in Claims \ {c} : verdict'[d] = verdict[d] /\ remote'[d] = remote[d]
    BY <1>2 DEF Redeem, WorkspaceDone, Conclude, TypeOK
  <2>4. ~cut[c]
    BY <2>1 DEF ReasonBeforeCut
  <2> QED
    BY <2>1, <2>2, <2>3, <2>4, UncutStep
<1>3. ASSUME NEW c \in Claims, CallbackStops(c) \/ StopWithoutReport(c) \/ MarkOutcome(c)
      PROVE ReasonBeforeCut'
  <2>1. Return(c) /\ pc[c] # "run" /\ UNCHANGED <<monitor, stopReason, verdict>>
    BY <1>3 DEF CallbackStops, StopWithoutReport, MarkOutcome, AfterCallback
  <2> QED
    BY <2>1, ReturnReason
<1>4. ASSUME NEW c \in Claims, CallbackGoesOn(c) PROVE ReasonBeforeCut'
  BY <1>4 DEF CallbackGoesOn, AfterCallback, TypeOK, ReasonBeforeCut
<1>5. ASSUME NEW c \in Claims, StartCommand(c) PROVE ReasonBeforeCut'
  BY <1>5 DEF StartCommand, TypeOK, ReasonBeforeCut
<1>6. ASSUME NEW c \in Claims, NEW failure \in BOOLEAN, CommandReturns(c, failure)
      PROVE ReasonBeforeCut'
  BY <1>6 DEF CommandReturns, TypeOK, ReasonBeforeCut
<1>7. ASSUME NEW c \in Claims, Decide(c) PROVE ReasonBeforeCut'
  <2>1. pc[c] = "decide" /\ UNCHANGED <<monitor, stopReason, cut>>
    BY <1>7 DEF Decide
  <2>2. CASE Conclude(c, "canceled")
    BY <2>1, <2>2 DEF Conclude, TypeOK, ReasonBeforeCut
  <2>3. CASE ~remote[c]
    <3>1. ~cut[c]
      BY <2>1, <2>3 DEF ReasonBeforeCut
    <3>2. PICK l \in Locations : pc' = [pc EXCEPT ![c] = l]
      BY <1>7 DEF Decide, Conclude
    <3>3. \A d \in Claims \ {c} : verdict'[d] = verdict[d] /\ remote'[d] = remote[d]
      BY <1>7 DEF Decide, Conclude, TypeOK
    <3> QED
      BY <2>1, <3>1, <3>2, <3>3, UncutStep
  <2> QED
    BY <1>7, <2>2, <2>3 DEF Decide
<1>8. ASSUME NEW c \in Claims, NEW answered \in BOOLEAN,
             FinalLost(c) \/ FinalReceived(c, answered) \/ FinalGivenUp(c)
      PROVE ReasonBeforeCut'
  BY <1>8 DEF FinalLost, FinalReceived, FinalGivenUp, Try, TypeOK, ReasonBeforeCut
<1>9. ASSUME NEW c \in Claims, MonitorStep(c) PROVE ReasonBeforeCut'
  <2>1. UNCHANGED <<pc, remote, verdict>>
    BY <1>9, MonitorFrame
  <2>2. ASSUME NEW m \in Monitors, MonitorAnswered(c, m) PROVE ReasonBeforeCut'
    BY <2>1, <2>2 DEF MonitorAnswered, SetMonitor, TypeOK, ReasonBeforeCut
  <2>6. ASSUME NEW m \in Monitors, MonitorSends(c, m) PROVE ReasonBeforeCut'
    <3>1. monitor[c][m] # "off"
      BY <2>6 DEF MonitorSends
    <3>2. pc[c] = "run"
      BY <3>1 DEF ReasonBeforeCut
    <3> QED
      BY <2>1, <2>6, <3>2 DEF MonitorSends, SetMonitor, TypeOK, ReasonBeforeCut
  <2>3. ASSUME NEW m \in Monitors, MonitorCancels(c, m) PROVE ReasonBeforeCut'
    BY <2>1, <2>3 DEF MonitorCancels, SetMonitor, TypeOK, ReasonBeforeCut
  <2>4. CASE WatcherMarks(c)
    BY <2>1, <2>4 DEF WatcherMarks, SetMonitor, TypeOK, ReasonBeforeCut
  <2>5. CASE LateWatcherMarks(c)
    BY <2>1, <2>5 DEF LateWatcherMarks, ReasonBeforeCut
  <2> QED
    BY <1>9, <2>2, <2>3, <2>4, <2>5, <2>6 DEF MonitorStep
<1>10. ASSUME NEW c \in Claims,
              \/ \E status \in {"canceled", "callback_timeout"} : ControlPlaneStops(c, status)
              \/ Deadline(c)
       PROVE ReasonBeforeCut'
  BY <1>10 DEF ControlPlaneStops, Deadline, ReasonBeforeCut
<1>11. ASSUME NEW t \in Tasks, CancelActiveTask(t) PROVE ReasonBeforeCut'
  BY <1>11 DEF CancelActiveTask, ReasonBeforeCut
<1>12. CASE Shutdown \/ UNCHANGED vars
  BY <1>12 DEF Shutdown, vars, ReasonBeforeCut
<1> HIDE Ranges
<1> QED
  BY <1>1, <1>2, <1>3, <1>4, <1>5, <1>6, <1>7, <1>8, <1>9, <1>10, <1>11, <1>12
     DEF Next, MainStep

-----------------------------------------------------------------------------
(* The active map *)

\* A step that neither registers a claim nor ends one.
LEMMA KeepsEntries ==
  ASSUME TypeOK, EntryHasContext, UNCHANGED owner,
         \A d \in Claims : pc[d] \in Registered <=> pc'[d] \in Registered,
         \A d \in Claims : ctx[d] = "none" <=> ctx'[d] = "none",
         \A d \in Claims : cp'[d] = "queued" => cp[d] = "queued"
  PROVE  EntryHasContext'
BY ClaimsAssumption DEF ClaimsAssumption, TypeOK, EntryHasContext, SoleAttempt

LEMMA ReturnEntries ==
  ASSUME TypeOK, VerdictWhenConcluded, EntryHasContext, NEW c \in Claims, Return(c),
         pc[c] # "queued", UNCHANGED cp
  PROVE  EntryHasContext'
<1> USE ClaimsAssumption DEF ClaimsAssumption, TypeOK, activeVars
<1>1. /\ pc' = [pc EXCEPT ![c] = "done"]
      /\ ctx' = [ctx EXCEPT ![c] = "none"]
      /\ ctx[c] = "none" => UNCHANGED owner
      /\ ctx[c] # "none" => owner' = [owner EXCEPT ![TaskOf[c]] = NoClaim]
  BY DEF Return, Goto
<1>2. cp[c] # "queued"
  BY DEF VerdictWhenConcluded
<1>3. \A t \in Tasks : owner'[t] # NoClaim => owner'[t] = owner[t] /\ owner[t] # c
  BY <1>1 DEF EntryHasContext
<1>4. ASSUME NEW t \in Tasks, owner'[t] # NoClaim
      PROVE  /\ TaskOf[owner'[t]] = t
             /\ pc'[owner'[t]] \in Registered
             /\ ctx'[owner'[t]] # "none"
  BY <1>1, <1>3, <1>4 DEF EntryHasContext
<1>5. ASSUME NEW d \in Claims, ctx'[d] # "none"
      PROVE  pc'[d] \in Registered /\ (SoleAttempt(d)' => owner'[TaskOf[d]] = d)
  <2>1. d # c /\ ctx[d] # "none" /\ pc'[d] = pc[d]
    BY <1>1, <1>5
  <2>2. SoleAttempt(d)' => TaskOf[c] # TaskOf[d]
    BY <1>2, <2>1 DEF SoleAttempt
  <2> QED
    BY <1>1, <2>1, <2>2 DEF EntryHasContext, SoleAttempt
<1> QED
  BY <1>4, <1>5 DEF EntryHasContext

LEMMA EntryStep ==
  ASSUME TypeOK, VerdictWhenConcluded, EntryHasContext, [Next]_vars
  PROVE  EntryHasContext'
<1> USE ClaimsAssumption, Ranges
<1> USE DEF ClaimsAssumption, agentVars, commandVars, activeVars, cpVars, Goto
<1>1. ASSUME NEW c \in Claims, Claim(c) PROVE EntryHasContext'
  <2>1. pc[c] = "queued" /\ UNCHANGED <<owner, ctx>>
    BY <1>1 DEF Claim, VerdictWhenConcluded
  <2> QED
    BY <1>1, <2>1, KeepsEntries DEF Claim, TypeOK, Registered
<1>2. ASSUME NEW c \in Claims, NEW status \in {"canceled", "callback_timeout"},
             ControlPlaneStops(c, status)
      PROVE EntryHasContext'
  BY <1>2, KeepsEntries DEF ControlPlaneStops, TypeOK
<1>3. ASSUME NEW c \in Claims, Redeem(c) PROVE EntryHasContext'
  <2>1. pc[c] = "redeem" /\ UNCHANGED cp /\ ctx[c] = "none" /\ cp[c] # "queued"
    BY <1>3 DEF Redeem, VerdictWhenConcluded, EntryHasContext, Registered
  <2>2. CASE Conclude(c, "failed") /\ UNCHANGED <<activeVars, ctx>>
    BY <2>1, <2>2 DEF Conclude, TypeOK, EntryHasContext, SoleAttempt, Registered
  <2>3. CASE /\ pc' = [pc EXCEPT ![c] = "prepare"]
             /\ ctx' = [ctx EXCEPT ![c] = IF shutdown THEN "canceled" ELSE "live"]
             /\ owner' = [owner EXCEPT ![TaskOf[c]] = c]
    <3>1. \A t \in Tasks : owner'[t] # NoClaim =>
            TaskOf[owner'[t]] = t /\ pc'[owner'[t]] \in Registered /\ ctx'[owner'[t]] # "none"
      BY <2>1, <2>3 DEF TypeOK, EntryHasContext, Registered
    <3>2. \A d \in Claims : ctx'[d] # "none" => pc'[d] \in Registered
      BY <2>1, <2>3 DEF TypeOK, EntryHasContext, Registered
    <3>3. ASSUME NEW d \in Claims, ctx'[d] # "none", SoleAttempt(d)'
          PROVE  owner'[TaskOf[d]] = d
      <4>1. CASE d = c
        BY <2>3, <4>1 DEF TypeOK
      <4>2. CASE d # c
        <5>1. TaskOf[c] # TaskOf[d]
          BY <2>1, <3>3, <4>2 DEF SoleAttempt
        <5> QED
          BY <2>1, <2>3, <3>3, <4>2, <5>1 DEF TypeOK, EntryHasContext, SoleAttempt
      <4> QED
        BY <4>1, <4>2
    <3> QED
      BY <3>1, <3>2, <3>3 DEF EntryHasContext
  <2> QED
    BY <1>3, <2>2, <2>3 DEF Redeem
<1>4. ASSUME NEW c \in Claims, CallbackStops(c) \/ StopWithoutReport(c) \/ MarkOutcome(c)
      PROVE EntryHasContext'
  <2>1. Return(c) /\ pc[c] # "queued" /\ UNCHANGED cp
    BY <1>4 DEF CallbackStops, StopWithoutReport, MarkOutcome, AfterCallback
  <2> QED
    BY <2>1, ReturnEntries
<1>5. ASSUME NEW c \in Claims, NEW failure \in BOOLEAN,
             \/ PrepareWorkspace(c) \/ WorkspaceDone(c) \/ CallbackGoesOn(c)
             \/ StartCommand(c) \/ CommandReturns(c, failure) \/ Decide(c)
             \/ FinalLost(c) \/ FinalGivenUp(c)
      PROVE EntryHasContext'
  <2>1. pc[c] \in Registered /\ UNCHANGED <<owner, ctx, cp>>
    BY <1>5 DEF PrepareWorkspace, WorkspaceDone, CallbackGoesOn, StartCommand, CommandReturns,
                Decide, FinalLost, FinalGivenUp, Try, AfterCallback, Registered
  <2>2. PICK l \in Registered : pc' = [pc EXCEPT ![c] = l]
    <3>1. CASE WorkspaceDone(c) \/ Decide(c)
      BY <3>1 DEF WorkspaceDone, Decide, Registered, Conclude
    <3>2. CASE PrepareWorkspace(c)
      BY <3>2 DEF PrepareWorkspace, Registered
    <3>3. CASE CallbackGoesOn(c)
      <4>1. pc[c] \in {"workspaceCallback", "commandCallback", "logCallback"}
        BY <3>3 DEF CallbackGoesOn, AfterCallback
      <4>2. AfterCallback[pc[c]] \in {"workspaceDone", "start", "decide"}
        BY <4>1 DEF AfterCallback
      <4> QED
        BY <3>3, <4>2 DEF CallbackGoesOn, Registered
    <3>4. CASE FinalLost(c)
      BY <2>1, <3>4 DEF FinalLost, TypeOK
    <3>5. CASE StartCommand(c) \/ CommandReturns(c, failure) \/ FinalGivenUp(c)
      BY <3>5 DEF StartCommand, CommandReturns, FinalGivenUp, Registered
    <3> QED
      BY <1>5, <3>1, <3>2, <3>3, <3>4, <3>5
  <2> QED
    BY <2>1, <2>2, KeepsEntries DEF TypeOK
<1>6. ASSUME NEW c \in Claims, NEW answered \in BOOLEAN, FinalReceived(c, answered)
      PROVE EntryHasContext'
  <2>1. pc[c] = "final" /\ UNCHANGED <<owner, ctx>> /\ verdict[c] # "queued"
    BY <1>6 DEF FinalReceived, Try, VerdictWhenConcluded
  <2>2. \A d \in Claims : cp'[d] = "queued" => cp[d] = "queued"
    BY <1>6, <2>1 DEF FinalReceived, TypeOK
  <2>3. \A d \in Claims : pc[d] \in Registered <=> pc'[d] \in Registered
    BY <1>6, <2>1 DEF FinalReceived, TypeOK, Registered
  <2> QED
    BY <2>1, <2>2, <2>3, KeepsEntries
<1>7. ASSUME NEW c \in Claims, MonitorStep(c) PROVE EntryHasContext'
  BY <1>7, MonitorFrame, KeepsEntries
<1>8. ASSUME NEW c \in Claims, Deadline(c) PROVE EntryHasContext'
  BY <1>8, KeepsEntries DEF Deadline, TypeOK
<1>9. ASSUME NEW t \in Tasks, CancelActiveTask(t) PROVE EntryHasContext'
  BY <1>9, KeepsEntries DEF CancelActiveTask, TypeOK
<1>10. CASE Shutdown
  BY <1>10, KeepsEntries DEF Shutdown
<1>11. CASE UNCHANGED vars
  BY <1>11, KeepsEntries DEF vars
<1> HIDE ClaimsAssumption, Ranges
<1> QED
  BY <1>1, <1>2, <1>3, <1>4, <1>5, <1>6, <1>7, <1>8, <1>9, <1>10, <1>11
     DEF Next, MainStep

-----------------------------------------------------------------------------
(* Cancellations were asked for *)

\* A step that accepts no request, reports no cancellation and gives no claim a
\* live context.
LEMMA KeepsAsked ==
  ASSUME TypeOK, CancelWasAsked, UNCHANGED asked,
         \A t \in Tasks : stopSource'[t] = "local_api" => stopSource[t] = "local_api",
         \A d \in Claims : verdict'[d] = "canceled" =>
            verdict[d] = "canceled" \/ stopSource[TaskOf[d]] = "local_api",
         \A d \in Claims : asked[d] = "running" =>
            /\ ctx'[d] = "live" => ctx[d] = "live"
            /\ pc'[d] \in {"queued", "redeem"} => pc[d] \in {"queued", "redeem"}
  PROVE  CancelWasAsked'
<1> USE ClaimsAssumption DEF ClaimsAssumption
<1>1. \A t \in Tasks : AskedFor(t)' <=> AskedFor(t)
  BY DEF AskedFor
<1>2. \A t \in Tasks : stopSource'[t] = "local_api" => AskedFor(t)'
  BY <1>1 DEF CancelWasAsked
<1>3. ASSUME NEW d \in Claims, verdict'[d] = "canceled" PROVE AskedFor(TaskOf[d])'
  BY <1>1, <1>3 DEF CancelWasAsked
<1>4. ASSUME NEW d \in Claims, asked'[d] = "running"
      PROVE  ctx'[d] # "live" /\ pc'[d] \notin {"queued", "redeem"}
  BY <1>4 DEF CancelWasAsked
<1> QED
  BY <1>2, <1>3, <1>4 DEF CancelWasAsked

LEMMA AskedStep ==
  ASSUME TypeOK, VerdictWhenConcluded, EntryHasContext, CancelWasAsked, [Next]_vars
  PROVE  CancelWasAsked'
<1> USE ClaimsAssumption, Ranges
<1> USE DEF ClaimsAssumption, agentVars, commandVars, activeVars, cpVars, Goto
<1>1. ASSUME NEW c \in Claims, Claim(c) PROVE CancelWasAsked'
  <2>1. pc[c] = "queued" /\ UNCHANGED <<asked, stopSource, verdict, ctx>>
    BY <1>1 DEF Claim, VerdictWhenConcluded
  <2> QED
    BY <1>1, <2>1, KeepsAsked DEF Claim, TypeOK
<1>2. ASSUME NEW c \in Claims, NEW status \in {"canceled", "callback_timeout"},
             ControlPlaneStops(c, status)
      PROVE CancelWasAsked'
  BY <1>2, KeepsAsked DEF ControlPlaneStops
<1>3. ASSUME NEW c \in Claims, Redeem(c) PROVE CancelWasAsked'
  <2>1. pc[c] = "redeem" /\ UNCHANGED asked /\ asked[c] # "running"
    BY <1>3 DEF Redeem, CancelWasAsked
  <2>2. CASE Conclude(c, "failed") /\ UNCHANGED <<activeVars, ctx>>
    BY <2>1, <2>2, KeepsAsked DEF Conclude, TypeOK
  <2>3. CASE /\ pc' = [pc EXCEPT ![c] = "prepare"]
             /\ ctx' = [ctx EXCEPT ![c] = IF shutdown THEN "canceled" ELSE "live"]
             /\ stopSource' = [stopSource EXCEPT ![TaskOf[c]] = "none"]
             /\ UNCHANGED verdict
    BY <2>1, <2>3, KeepsAsked DEF TypeOK
  <2> QED
    BY <1>3, <2>2, <2>3 DEF Redeem
<1>4. ASSUME NEW c \in Claims, CallbackStops(c) \/ StopWithoutReport(c) \/ MarkOutcome(c)
      PROVE CancelWasAsked'
  <2>1. Return(c) /\ UNCHANGED <<asked, verdict>>
    BY <1>4 DEF CallbackStops, StopWithoutReport, MarkOutcome
  <2>2. \A t \in Tasks : stopSource'[t] = "local_api" => stopSource[t] = "local_api"
    BY <2>1 DEF Return, TypeOK
  <2>3. \A d \in Claims : /\ ctx'[d] = "live" => ctx[d] = "live"
                          /\ pc'[d] \in {"queued", "redeem"} => pc[d] \in {"queued", "redeem"}
    BY <2>1 DEF Return, TypeOK
  <2> QED
    BY <2>1, <2>2, <2>3, KeepsAsked
<1>5. ASSUME NEW c \in Claims, NEW failure \in BOOLEAN, NEW answered \in BOOLEAN,
             \/ PrepareWorkspace(c) \/ CallbackGoesOn(c)
             \/ StartCommand(c) \/ CommandReturns(c, failure)
             \/ FinalLost(c) \/ FinalReceived(c, answered) \/ FinalGivenUp(c)
      PROVE CancelWasAsked'
  <2>1. UNCHANGED <<asked, stopSource, verdict, ctx>>
    BY <1>5 DEF PrepareWorkspace, CallbackGoesOn, StartCommand, CommandReturns,
                FinalLost, FinalReceived, FinalGivenUp
  <2>2. \A d \in Claims :
          pc'[d] \in {"queued", "redeem"} => pc[d] \in {"queued", "redeem"}
    BY <1>5 DEF PrepareWorkspace, CallbackGoesOn, StartCommand, CommandReturns,
                FinalLost, FinalReceived, FinalGivenUp, Try, AfterCallback, TypeOK
  <2> QED
    BY <2>1, <2>2, KeepsAsked
<1>6. ASSUME NEW c \in Claims, WorkspaceDone(c) \/ Decide(c) PROVE CancelWasAsked'
  <2>1. UNCHANGED <<asked, stopSource, ctx>>
    BY <1>6 DEF WorkspaceDone, Decide
  <2>2. \A d \in Claims :
          pc'[d] \in {"queued", "redeem"} => pc[d] \in {"queued", "redeem"}
    BY <1>6 DEF WorkspaceDone, Decide, Conclude, TypeOK
  <2>3. \/ UNCHANGED verdict
        \/ \E status \in {"failed", "callback_timeout", "completed"} :
             verdict' = [verdict EXCEPT ![c] = status]
        \/ verdict' = [verdict EXCEPT ![c] = "canceled"] /\ stopSource[TaskOf[c]] = "local_api"
    BY <1>6 DEF WorkspaceDone, Decide, Conclude, CanceledLocally
  <2>4. \A d \in Claims : verdict'[d] = "canceled" =>
          verdict[d] = "canceled" \/ stopSource[TaskOf[d]] = "local_api"
    BY <2>3 DEF TypeOK
  <2> QED
    BY <2>1, <2>2, <2>4, KeepsAsked
<1>7. ASSUME NEW c \in Claims, MonitorStep(c) PROVE CancelWasAsked'
  <2>1. UNCHANGED <<asked, verdict, ctx, pc>>
    BY <1>7, MonitorFrame
  <2>2. \A t \in Tasks : stopSource'[t] = "local_api" => stopSource[t] = "local_api"
    BY <1>7 DEF MonitorStep, MonitorAnswered, MonitorSends, MonitorCancels, WatcherMarks,
                LateWatcherMarks, MarkEntry, TypeOK
  <2> QED
    BY <2>1, <2>2, KeepsAsked
<1>8. ASSUME NEW c \in Claims, Deadline(c) PROVE CancelWasAsked'
  BY <1>8, KeepsAsked DEF Deadline, TypeOK
<1>9. ASSUME NEW t \in Tasks, CancelActiveTask(t) PROVE CancelWasAsked'
  <2> DEFINE o == owner[t]
  <2>1. o \in Claims /\ TaskOf[o] = t /\ pc[o] \notin {"queued", "redeem"}
    <3>1. o # NoClaim
      BY <1>9 DEF CancelActiveTask
    <3>2. o \in Claims
      BY <3>1 DEF TypeOK
    <3> QED
      BY <3>1, <3>2 DEF EntryHasContext, Registered
  <2>2. /\ asked'[o] \in {"other", "running"}
        /\ \A d \in Claims \ {o} : asked'[d] = asked[d] /\ ctx'[d] = ctx[d]
        /\ ctx'[o] # "live"
        /\ UNCHANGED <<pc, verdict>>
    BY <1>9, <2>1 DEF CancelActiveTask, TypeOK
  <2>3. \A s \in Tasks \ {t} : stopSource'[s] = stopSource[s]
    BY <1>9 DEF CancelActiveTask, TypeOK
  <2> HIDE DEF o
  <2>4. \A s \in Tasks : AskedFor(s) => AskedFor(s)'
    BY <2>1, <2>2 DEF AskedFor
  <2>5. AskedFor(t)'
    BY <2>1, <2>2 DEF AskedFor
  <2> QED
    BY <2>1, <2>2, <2>3, <2>4, <2>5 DEF CancelWasAsked
<1>10. CASE Shutdown
  BY <1>10, KeepsAsked DEF Shutdown, TypeOK
<1>11. CASE UNCHANGED vars
  BY <1>11, KeepsAsked DEF vars
<1> HIDE ClaimsAssumption, Ranges
<1> QED
  BY <1>1, <1>2, <1>3, <1>4, <1>5, <1>6, <1>7, <1>8, <1>9, <1>10, <1>11
     DEF Next, MainStep

-----------------------------------------------------------------------------
(* The theorems *)

LEMMA IInvInit == Init => IInv
<1> USE DEF Init
<1>1. Init => VerdictWhenConcluded /\ OneVerdict
  BY DEF VerdictWhenConcluded, OneVerdict
<1>2. Init => ReasonBeforeCut
  <2>1. Init => \A c \in Claims : ~cut[c]
    OBVIOUS
  <2>2. Init => \A c \in Claims, m \in Monitors : monitor[c][m] = "off"
    OBVIOUS
  <2> HIDE DEF Init
  <2> QED
    BY <2>1, <2>2 DEF ReasonBeforeCut
<1>3. Init => EntryHasContext
  BY DEF EntryHasContext
<1>4. Init => CancelWasAsked
  BY ClaimsAssumption DEF ClaimsAssumption, CancelWasAsked
<1> QED
  BY <1>1, <1>2, <1>3, <1>4, TypeInit DEF IInv

\* The inductive invariant holds of every behaviour of execute, its monitors,
\* the runtime API and the control plane.
THEOREM IInvHolds == Spec => []IInv
<1>1. IInv /\ [Next]_vars => IInv'
  BY TypeStep, VerdictStep, ReasonStep, EntryStep, AskedStep DEF IInv
<1> QED
  BY IInvInit, <1>1, PTL DEF Spec

\* Every variable keeps its type: the channel, the counters and the maps that
\* execute and its monitors share stay within their ranges.
THEOREM TypeCorrect == Spec => []TypeOK
BY IInvHolds, PTL DEF IInv

\* However often a callback is sent again, and whoever stops the claim, the
\* control plane hears at most one final status of it, the one that
\* markOutcome counts.
THEOREM OneVerdictHolds == Spec => []OneVerdict
BY IInvHolds, PTL DEF IInv

\* What executeTaskCommand reports of a command that a monitor has cancelled is
\* never a failure, a timeout or a success.
THEOREM StopIsNotAFailureHolds == Spec => []StopIsNotAFailure
<1>1. IInv => StopIsNotAFailure
  BY DEF IInv, VerdictWhenConcluded, ReasonBeforeCut, StopIsNotAFailure
<1> QED
  BY IInvHolds, <1>1, PTL

\* A claim reports "canceled" only when CancelActiveTask has accepted a request
\* for an attempt of its task.
THEOREM CanceledOnlyIfAskedHolds == Spec => []CanceledOnlyIfAsked
<1>1. IInv => CanceledOnlyIfAsked
  BY DEF IInv, CancelWasAsked, AskedFor, CanceledOnlyIfAsked
<1> QED
  BY IInvHolds, <1>1, PTL

\* registerActiveTask and the deferred unregisterActiveTask keep the active map
\* exact, as far as one task id stands for one attempt.
THEOREM ActiveViewExactHolds == Spec => []ActiveViewExact
<1>1. IInv => ActiveViewExact
  BY ClaimsAssumption DEF ClaimsAssumption, IInv, EntryHasContext, ActiveViewExact
<1> QED
  BY IInvHolds, <1>1, PTL

\* executeTaskCommand starts no process for a claim that a monitor has cut, or
\* that a cancellation has reached during a command.
THEOREM NothingStartsAfterStopHolds == Spec => NothingStartsAfterStop
<1>1. ASSUME IInv, [Next]_vars, NEW c \in Claims, cut[c] \/ asked[c] = "running"
      PROVE  ~(alive'[c] /\ ~alive[c])
  <2>1. ASSUME NEW d \in Claims, StartCommand(d) PROVE ~(alive'[c] /\ ~alive[c])
    <3>1. CASE d = c
      <4>1. ctx[c] # "live"
        BY <1>1, <2>1, <3>1 DEF StartCommand, IInv, ReasonBeforeCut, CancelWasAsked
      <4> QED
        BY <1>1, <2>1, <3>1, <4>1 DEF StartCommand, IInv, TypeOK
    <3>2. CASE d # c
      BY <1>1, <2>1, <3>2 DEF StartCommand, IInv, TypeOK
    <3> QED
      BY <3>1, <3>2
  <2>2. ASSUME NEW d \in Claims, NEW failure \in BOOLEAN, CommandReturns(d, failure)
        PROVE ~(alive'[c] /\ ~alive[c])
    BY <1>1, <2>2 DEF CommandReturns, IInv, TypeOK
  <2>3. CASE UNCHANGED alive
    BY <2>3
  <2> QED
    BY <1>1, <2>1, <2>2, <2>3
       DEF Next, MainStep, MonitorStep, Claim, ControlPlaneStops, Redeem, PrepareWorkspace,
           WorkspaceDone, CallbackStops, CallbackGoesOn, StopWithoutReport, Decide,
           FinalLost, FinalReceived, FinalGivenUp, MarkOutcome, MonitorAnswered,
           WatcherMarks, LateWatcherMarks, MonitorSends, MonitorCancels, Deadline,
           CancelActiveTask, Shutdown, commandVars, vars
<1>2. IInv /\ [Next]_vars =>
        [\A c \in Claims : cut[c] \/ asked[c] = "running" => ~(alive'[c] /\ ~alive[c])]_vars
  BY <1>1
<1> QED
  BY IInvHolds, <1>2, PTL DEF Spec, NothingStartsAfterStop

-----------------------------------------------------------------------------
(* A cancellation that was accepted                                        *)

\* How the control plane ends a claim by itself.
Stopped == {"canceled", "callback_timeout"}

\* While one attempt alone has been handed out, the entry of its task says "control_plane"
\* only if the control plane has ended it.
WatchIsTrue ==
  /\ \A t \in Tasks :
       attempt[t] # NoClaim => TaskOf[attempt[t]] = t /\ cp[attempt[t]] # "queued"
  /\ \A c \in Claims :
       /\ lateWatch[c] => pc[c] # "queued"
       /\ pc[c] \notin {"final", "mark", "done"} => cp[c] \in {"queued", "running"} \cup Stopped
       /\ SoleAttempt(c) /\ (monitor[c]["status"] = "stop" \/ lateWatch[c]) => cp[c] \in Stopped

\* An accepted cancellation is in the entry and in the context until it has been reported.
CancelOnItsWay(c) ==
  \/ /\ pc[c] \in {"run", "logCallback", "decide"}
     /\ ctx[c] = "canceled" /\ stopSource[TaskOf[c]] = "local_api"
  \/ verdict[c] = "canceled"
  \/ cp[c] \in Stopped

CancelKept == \A c \in Claims : asked[c] = "running" /\ SoleAttempt(c) => CancelOnItsWay(c)


LEMMA CancelInit == Init => WatchIsTrue /\ CancelKept
BY DEF Init, WatchIsTrue, CancelKept, Monitors

\* Nobody takes an attempt back.
LEMMA SoleBefore ==
  ASSUME TypeOK, VerdictWhenConcluded, [Next]_vars, NEW c \in Claims, SoleAttempt(c)'
  PROVE  SoleAttempt(c)
<1> SUFFICES ASSUME NEW d \in Claims, cp'[d] = "queued" PROVE cp[d] = "queued"
  BY DEF SoleAttempt
<1>1. ASSUME NEW e \in Claims, Claim(e) PROVE cp[d] = "queued"
  BY <1>1 DEF Claim, TypeOK
<1>2. ASSUME NEW e \in Claims, NEW status \in {"canceled", "callback_timeout"},
             ControlPlaneStops(e, status)
      PROVE cp[d] = "queued"
  BY <1>2 DEF ControlPlaneStops, TypeOK
<1>3. ASSUME NEW e \in Claims, NEW answered \in BOOLEAN, FinalReceived(e, answered)
      PROVE cp[d] = "queued"
  <2>1. verdict[e] # "queued"
    BY <1>3, Ranges DEF FinalReceived, Try, VerdictWhenConcluded
  <2> QED
    BY <1>3, <2>1 DEF FinalReceived, TypeOK
<1>4. CASE UNCHANGED cp
  BY <1>4
<1> QED
  BY <1>1, <1>2, <1>3, <1>4 DEF Next, MainStep, MonitorStep, Redeem, PrepareWorkspace, WorkspaceDone,
     CallbackStops, CallbackGoesOn, StartCommand, CommandReturns, StopWithoutReport, Decide,
     FinalLost, FinalGivenUp, MarkOutcome, MonitorAnswered, WatcherMarks, LateWatcherMarks,
     MonitorSends, MonitorCancels, Deadline, CancelActiveTask, Shutdown, cpVars, vars

\* A stop that a status watcher reads comes from the control plane, if there is one attempt.
LEMMA WatcherReadsTruth ==
  ASSUME TypeOK, WatchIsTrue, NEW c \in Claims, SoleAttempt(c), pc[c] = "run", TaskStopped(TaskOf[c])
  PROVE  cp[c] \in Stopped
<1> DEFINE a == attempt[TaskOf[c]]
<1>1. TaskOf[c] \in Tasks
  BY ClaimsAssumption DEF ClaimsAssumption
<1>2. a \in Claims /\ TaskOf[a] = TaskOf[c] /\ cp[a] # "queued" /\ cp[a] \in Final
  BY <1>1 DEF TaskStopped, WatchIsTrue, TypeOK
<1>3. a = c
  BY <1>2 DEF SoleAttempt
<1> QED
  BY <1>2, <1>3, Ranges DEF WatchIsTrue

LEMMA WatchStep ==
  ASSUME IInv, WatchIsTrue, [Next]_vars
  PROVE  WatchIsTrue'
<1> USE Ranges DEF IInv, TypeOK, WatchIsTrue, Stopped
<1>1. ASSUME NEW c \in Claims, SoleAttempt(c)' PROVE SoleAttempt(c)
  BY <1>1, SoleBefore
<1>2. ASSUME NEW c \in Claims, Claim(c) PROVE WatchIsTrue'
  <2> HIDE DEF IInv, TypeOK, WatchIsTrue, Stopped
  <2>0. cp[c] = "queued"
    BY <1>2 DEF Claim
  <2>1. TaskOf[c] \in Tasks /\ c # NoClaim /\ pc[c] = "queued" /\ cp[c] = "queued"
    <3>1. TaskOf[c] \in Tasks /\ c # NoClaim
      BY ClaimsAssumption DEF ClaimsAssumption
    <3>2. pc[c] = "queued"
      BY <2>0 DEF IInv, VerdictWhenConcluded
    <3> QED
      BY <2>0, <3>1, <3>2
  <2>2. ~lateWatch[c] /\ monitor[c]["status"] = "off"
    BY <2>1 DEF IInv, WatchIsTrue, ReasonBeforeCut, Monitors
  <2>3. /\ cp' = [cp EXCEPT ![c] = "running"] /\ attempt' = [attempt EXCEPT ![TaskOf[c]] = c]
        /\ pc' = [pc EXCEPT ![c] = "redeem"] /\ UNCHANGED <<lateWatch, monitor>>
    BY <1>2 DEF Claim, Goto, commandVars
  <2> QED
    BY <1>1, <2>1, <2>2, <2>3 DEF IInv, TypeOK, WatchIsTrue, Stopped
<1>3. ASSUME NEW c \in Claims, NEW status \in {"canceled", "callback_timeout"},
             ControlPlaneStops(c, status)
      PROVE WatchIsTrue'
  BY <1>1, <1>3 DEF ControlPlaneStops, agentVars, commandVars
\* The main goroutine moves on, and leaves the control plane and its watchers alone.
<1>4. ASSUME NEW c \in Claims, NEW l \in Locations \ {"queued"}, pc' = [pc EXCEPT ![c] = l],
             pc[c] \notin {"queued", "final", "mark", "done"} \/ l \in {"final", "mark", "done"},
             UNCHANGED <<cp, attempt, lateWatch, monitor>>
      PROVE WatchIsTrue'
  BY <1>1, <1>4
<1>5. ASSUME NEW c \in Claims,
             \/ Redeem(c) \/ PrepareWorkspace(c) \/ WorkspaceDone(c) \/ CallbackStops(c)
             \/ CallbackGoesOn(c) \/ StopWithoutReport(c) \/ Decide(c)
             \/ FinalLost(c) \/ FinalGivenUp(c) \/ MarkOutcome(c)
      PROVE WatchIsTrue'
  <2>1. UNCHANGED <<cp, attempt, lateWatch, monitor>>
    BY <1>5 DEF Redeem, PrepareWorkspace, WorkspaceDone, CallbackStops, CallbackGoesOn,
       StopWithoutReport, Decide, FinalLost, FinalGivenUp, MarkOutcome, commandVars, cpVars
  <2>2. CASE UNCHANGED pc
    BY <1>1, <2>1, <2>2
  <2>3. CASE \E l \in Locations \ {"queued"} :
                /\ pc' = [pc EXCEPT ![c] = l]
                /\ pc[c] \notin {"queued", "final", "mark", "done"} \/ l \in {"final", "mark", "done"}
    BY <1>4, <2>1, <2>3
  <2> HIDE DEF IInv, TypeOK, WatchIsTrue
  <2> QED
    BY <1>5, <2>2, <2>3 DEF Redeem, PrepareWorkspace, WorkspaceDone, CallbackStops, CallbackGoesOn,
       StopWithoutReport, Decide, FinalLost, FinalGivenUp, MarkOutcome, Return, Conclude, Goto, AfterCallback
<1>6. ASSUME NEW c \in Claims, StartCommand(c) PROVE WatchIsTrue'
  <2>1. monitor'[c]["status"] = "idle" /\ \A d \in Claims \ {c} : monitor'[d] = monitor[d]
    BY <1>6 DEF StartCommand
  <2>2. pc[c] = "start" /\ pc' = [pc EXCEPT ![c] = "run"] /\ UNCHANGED <<cp, attempt, lateWatch>>
    BY <1>6 DEF StartCommand, Goto, cpVars
  <2> QED
    BY <1>1, <2>1, <2>2
<1>7. ASSUME NEW c \in Claims, NEW answered \in BOOLEAN, FinalReceived(c, answered) PROVE WatchIsTrue'
  <2>1. /\ pc[c] = "final" /\ verdict[c] # "queued" /\ UNCHANGED <<attempt, lateWatch, monitor>>
        /\ pc' = [pc EXCEPT ![c] = IF answered /\ Current(c) THEN "mark" ELSE "final"]
    BY <1>7 DEF FinalReceived, Try, Goto, commandVars, VerdictWhenConcluded
  <2>2. /\ \A d \in Claims \ {c} : cp'[d] = cp[d]
        /\ cp'[c] \in {cp[c], verdict[c]} /\ (cp[c] \in Stopped => cp'[c] = cp[c])
    BY <1>7 DEF FinalReceived
  <2> QED
    BY <1>1, <2>1, <2>2
<1>8. ASSUME NEW c \in Claims, NEW failure \in BOOLEAN, CommandReturns(c, failure) PROVE WatchIsTrue'
  <2>1. /\ pc[c] = "run" /\ pc' = [pc EXCEPT ![c] = "logCallback"] /\ UNCHANGED <<cp, attempt>>
        /\ lateWatch' = [lateWatch EXCEPT ![c] = @ \/ monitor[c]["status"] = "stop"]
        /\ monitor'[c]["status"] = "off" /\ \A d \in Claims \ {c} : monitor'[d] = monitor[d]
    BY <1>8 DEF CommandReturns, Goto, cpVars
  <2> QED
    BY <1>1, <2>1
<1>9. ASSUME NEW c \in Claims, NEW m \in Monitors, MonitorAnswered(c, m) PROVE WatchIsTrue'
  <2>1. /\ UNCHANGED <<pc, cp, attempt, lateWatch>> /\ \A d \in Claims \ {c} : monitor'[d] = monitor[d]
        /\ m = "heartbeat" => monitor'[c]["status"] = monitor[c]["status"]
        /\ m # "heartbeat" => TaskStopped(TaskOf[c])
    BY <1>9 DEF MonitorAnswered, SetMonitor, agentVars, cpVars
  <2>2. pc[c] = "run"
    BY <1>9 DEF MonitorAnswered, ReasonBeforeCut
  <2>3. SoleAttempt(c) /\ m # "heartbeat" => cp[c] \in Stopped
    BY <2>1, <2>2, WatcherReadsTruth
  <2>4. SoleAttempt(c) /\ (monitor'[c]["status"] = "stop" \/ lateWatch[c]) => cp[c] \in Stopped
    <3>1. CASE m = "heartbeat"
      BY <2>1, <3>1
    <3>2. CASE m # "heartbeat"
      BY <2>3, <3>2
    <3> QED
      BY <3>1, <3>2
  <2> HIDE DEF Stopped
  <2> QED
    BY <1>1, <2>1, <2>4
<1>10. ASSUME NEW c \in Claims, NEW m \in Monitors,
              MonitorSends(c, m) \/ MonitorCancels(c, m) \/ WatcherMarks(c) \/ LateWatcherMarks(c)
       PROVE WatchIsTrue'
  <2>1. /\ UNCHANGED <<pc, cp, attempt>>
        /\ \A d \in Claims : (monitor'[d]["status"] = "stop" => monitor[d]["status"] = "stop")
        /\ \A d \in Claims : (lateWatch'[d] => lateWatch[d])
    <3>1. CASE MonitorSends(c, m) \/ MonitorCancels(c, m)
      <4>1. /\ UNCHANGED <<pc, cp, attempt, lateWatch>>
            /\ \E s \in {"sent", "off"} : monitor' = [monitor EXCEPT ![c][m] = s]
        <5> HIDE DEF IInv, TypeOK, WatchIsTrue
        <5> QED
          BY <3>1 DEF MonitorSends, MonitorCancels, SetMonitor, agentVars, cpVars
      <4>2. ASSUME NEW s \in {"sent", "off"}, monitor' = [monitor EXCEPT ![c][m] = s], NEW d \in Claims,
                   monitor'[d]["status"] = "stop"
            PROVE  monitor[d]["status"] = "stop"
        <5>1. CASE d = c /\ m = "status"
          BY <4>2, <5>1 DEF Monitors
        <5>2. CASE d # c \/ m # "status"
          BY <4>2, <5>2 DEF Monitors
        <5> QED
          BY <5>1, <5>2
      <4> QED
        BY <4>1, <4>2
    <3>2. CASE WatcherMarks(c)
      BY <3>2 DEF WatcherMarks, SetMonitor, agentVars, cpVars
    <3>3. CASE LateWatcherMarks(c)
      BY <3>3 DEF LateWatcherMarks, agentVars, cpVars
    <3> QED
      BY <1>10, <3>1, <3>2, <3>3
  <2> QED
    BY <1>1, <2>1
<1>11. CASE UNCHANGED <<pc, cp, attempt, lateWatch, monitor>>
  BY <1>1, <1>11
<1>12. CASE \/ \E c \in Claims : Deadline(c)
            \/ \E t \in Tasks : CancelActiveTask(t)
            \/ Shutdown \/ UNCHANGED vars
  BY <1>11, <1>12 DEF Deadline, CancelActiveTask, Shutdown, agentVars, commandVars, cpVars, vars
<1> HIDE DEF IInv, TypeOK, WatchIsTrue
<1> QED
  BY <1>2, <1>3, <1>5, <1>6, <1>7, <1>8, <1>9, <1>10, <1>12 DEF Next, MainStep, MonitorStep

\* A verdict is not taken back.
LEMMA VerdictStays ==
  ASSUME IInv, [Next]_vars, NEW c \in Claims, verdict[c] = "canceled"
  PROVE  verdict'[c] = "canceled"
<1>1. pc[c] \in {"final", "mark", "done"}
  BY DEF IInv, VerdictWhenConcluded
<1>2. ASSUME NEW d \in Claims, NEW status, Conclude(d, status), pc[d] \in {"redeem", "workspaceDone", "decide"}
      PROVE  verdict'[c] = "canceled"
  BY <1>1, <1>2 DEF Conclude, IInv, TypeOK
<1>3. CASE UNCHANGED verdict
  BY <1>3
<1> QED
  BY <1>2, <1>3 DEF Next, MainStep, MonitorStep, Claim, ControlPlaneStops, Redeem, PrepareWorkspace,
     WorkspaceDone, CallbackStops, CallbackGoesOn, StartCommand, CommandReturns, StopWithoutReport,
     Decide, FinalLost, FinalReceived, FinalGivenUp, MarkOutcome, MonitorAnswered, WatcherMarks,
     LateWatcherMarks, MonitorSends, MonitorCancels, Deadline, CancelActiveTask, Shutdown, agentVars, vars

\* What the control plane has ended stays so.
LEMMA StoppedStays ==
  ASSUME IInv, [Next]_vars, NEW c \in Claims, cp[c] \in Stopped
  PROVE  cp'[c] \in Stopped
<1> USE DEF IInv, TypeOK, Stopped
<1>1. ASSUME NEW d \in Claims, Claim(d) PROVE cp'[c] \in Stopped
  BY <1>1 DEF Claim
<1>2. ASSUME NEW d \in Claims, NEW status \in {"canceled", "callback_timeout"},
             ControlPlaneStops(d, status)
      PROVE cp'[c] \in Stopped
  BY <1>2 DEF ControlPlaneStops
<1>3. ASSUME NEW d \in Claims, NEW answered \in BOOLEAN, FinalReceived(d, answered)
      PROVE cp'[c] \in Stopped
  BY <1>3, Ranges DEF FinalReceived
<1>4. CASE UNCHANGED cp
  BY <1>4
<1> QED
  BY <1>1, <1>2, <1>3, <1>4 DEF Next, MainStep, MonitorStep, Redeem, PrepareWorkspace, WorkspaceDone,
     CallbackStops, CallbackGoesOn, StartCommand, CommandReturns, StopWithoutReport, Decide,
     FinalLost, FinalGivenUp, MarkOutcome, MonitorAnswered, WatcherMarks, LateWatcherMarks,
     MonitorSends, MonitorCancels, Deadline, CancelActiveTask, Shutdown, cpVars, vars

LEMMA CancelStep ==
  ASSUME IInv, WatchIsTrue, CancelKept, [Next]_vars
  PROVE  CancelKept'
<1> SUFFICES ASSUME NEW c \in Claims, asked'[c] = "running", SoleAttempt(c)' PROVE CancelOnItsWay(c)'
  BY DEF CancelKept
<1> USE Ranges DEF IInv, TypeOK, CancelOnItsWay, Stopped
<1>1. SoleAttempt(c) /\ TaskOf[c] \in Tasks /\ c # NoClaim
  BY SoleBefore, ClaimsAssumption DEF ClaimsAssumption
<1>2. asked[c] = "running" => CancelOnItsWay(c)
  BY <1>1 DEF CancelKept
\* Another attempt has not begun.
<1>3. \A d \in Claims \ {c} : TaskOf[d] = TaskOf[c] =>
        pc[d] = "queued" /\ cp[d] = "queued" /\ ~lateWatch[d] /\ monitor[d]["status"] = "off"
  BY <1>1 DEF SoleAttempt, VerdictWhenConcluded, WatchIsTrue, ReasonBeforeCut
<1>4. ASSUME NEW t \in Tasks, CancelActiveTask(t) PROVE CancelOnItsWay(c)'
  <2>1. UNCHANGED <<pc, cp, verdict>> /\ stopSource' = [stopSource EXCEPT ![t] = "local_api"]
        /\ owner[t] \in Claims
        /\ ctx' = [ctx EXCEPT ![owner[t]] = IF @ = "live" THEN "canceled" ELSE @]
        /\ asked' = [asked EXCEPT ![owner[t]] =
             IF @ = "running" \/ (pc[owner[t]] = "run" /\ ctx[owner[t]] = "live")
             THEN "running" ELSE "other"]
    BY <1>4 DEF CancelActiveTask, agentVars, cpVars
  <2>2. owner[t] = c => t = TaskOf[c]
    BY <1>1 DEF EntryHasContext
  <2>3. CASE asked[c] = "running"
    BY <1>1, <1>2, <2>1, <2>3
  <2>4. CASE asked[c] # "running"
    BY <1>1, <2>1, <2>2, <2>4
  <2> QED
    BY <2>3, <2>4
<1>5. ASSUME UNCHANGED asked PROVE CancelOnItsWay(c)
  BY <1>2, <1>5
\* The verdict stays, and so does what the control plane has ended.
<1>6. CASE asked[c] = "running" /\ (verdict[c] = "canceled" \/ cp[c] \in Stopped)
  <2>1. verdict[c] = "canceled" => verdict'[c] = "canceled"
    BY VerdictStays
  <2>2. cp[c] \in Stopped => cp'[c] \in Stopped
    BY StoppedStays
  <2> QED
    BY <1>6, <2>1, <2>2
\* The entry and the context are of this claim alone.
<1>7. CASE /\ asked[c] = "running" /\ pc[c] \in {"run", "logCallback", "decide"}
           /\ ctx[c] = "canceled" /\ stopSource[TaskOf[c]] = "local_api"
  <2>1. ASSUME /\ pc'[c] \in {"run", "logCallback", "decide"}
               /\ ctx'[c] = "canceled" /\ stopSource'[TaskOf[c]] = "local_api"
        PROVE  CancelOnItsWay(c)'
    BY <2>1
  <2>2. ASSUME NEW d \in Claims, MainStep(d), d # c PROVE CancelOnItsWay(c)'
    <3>1. TaskOf[d] # TaskOf[c]
      BY <1>3, <2>2 DEF MainStep, Redeem, PrepareWorkspace, WorkspaceDone, CallbackStops, CallbackGoesOn,
        StartCommand, StopWithoutReport, Decide, FinalLost, FinalReceived, FinalGivenUp, MarkOutcome,
        Try, AfterCallback
    <3>2. pc'[c] = pc[c] /\ ctx'[c] = ctx[c] /\ stopSource'[TaskOf[c]] = stopSource[TaskOf[c]]
      <4> HIDE DEF IInv, CancelOnItsWay
      <4> QED
      BY <1>1, <2>2, <3>1 DEF IInv, MainStep, Redeem, PrepareWorkspace, WorkspaceDone, CallbackStops,
        CallbackGoesOn, StartCommand, StopWithoutReport, Decide, FinalLost, FinalReceived, FinalGivenUp,
        MarkOutcome, Try, Return, Conclude, Goto, activeVars
    <3> QED
      BY <1>7, <2>1, <3>2
  <2>3. ASSUME MainStep(c) PROVE CancelOnItsWay(c)'
    <3>1. CASE CallbackGoesOn(c)
      <4>1. pc'[c] = "decide" /\ UNCHANGED <<ctx, stopSource>>
        BY <1>7, <3>1 DEF CallbackGoesOn, AfterCallback, Goto, activeVars
      <4> QED
        BY <1>7, <2>1, <4>1
    <3>2. CASE Decide(c)
      <4>1. CanceledLocally(c)
        BY <1>7 DEF CanceledLocally
      <4>2. verdict'[c] = "canceled"
        BY <1>7, <3>2, <4>1 DEF Decide, Conclude
      <4> QED
        BY <4>2
    <3> QED
      BY <1>7, <2>3, <3>1, <3>2 DEF MainStep, Redeem, PrepareWorkspace, WorkspaceDone, CallbackStops,
        StartCommand, StopWithoutReport, FinalLost, FinalReceived, FinalGivenUp, MarkOutcome,
        Try, AfterCallback, CanceledLocally
  <2>4. ASSUME NEW d \in Claims, NEW failure \in BOOLEAN, CommandReturns(d, failure) PROVE CancelOnItsWay(c)'
    BY <1>7, <2>1, <2>4 DEF CommandReturns, Goto, activeVars
  <2>5. ASSUME NEW d \in Claims, WatcherMarks(d) \/ LateWatcherMarks(d) PROVE CancelOnItsWay(c)'
    <3>1. CASE TaskOf[d] = TaskOf[c]
      <4>1. d = c
        BY <1>3, <2>5, <3>1 DEF WatcherMarks, LateWatcherMarks
      <4>2. cp[c] \in Stopped /\ cp' = cp
        BY <1>1, <2>5, <4>1 DEF WatcherMarks, LateWatcherMarks, WatchIsTrue, cpVars
      <4> QED
        BY <4>2
    <3>2. CASE TaskOf[d] # TaskOf[c]
      BY <1>1, <1>7, <2>1, <2>5, <3>2 DEF WatcherMarks, LateWatcherMarks, MarkEntry, agentVars
    <3> QED
      BY <3>1, <3>2
  <2>6. ASSUME NEW d \in Claims, NEW m \in Monitors,
               MonitorAnswered(d, m) \/ MonitorSends(d, m) \/ MonitorCancels(d, m)
        PROVE  CancelOnItsWay(c)'
    BY <1>7, <2>1, <2>6 DEF MonitorAnswered, MonitorSends, MonitorCancels, agentVars, activeVars
  <2>7. ASSUME NEW d \in Claims, Claim(d) PROVE CancelOnItsWay(c)'
    BY <1>7, <2>1, <2>7 DEF Claim, Goto, activeVars, VerdictWhenConcluded
  <2>8. ASSUME NEW d \in Claims,
               Deadline(d) \/ \E status \in {"canceled", "callback_timeout"} : ControlPlaneStops(d, status)
        PROVE  CancelOnItsWay(c)'
    BY <1>7, <2>1, <2>8 DEF Deadline, ControlPlaneStops, agentVars, activeVars
  <2>9. CASE Shutdown \/ UNCHANGED vars
    BY <1>7, <2>1, <2>9 DEF Shutdown, vars, agentVars, activeVars
  <2> HIDE DEF IInv, TypeOK, CancelOnItsWay
  <2> QED
    BY <1>4, <2>2, <2>3, <2>4, <2>5, <2>6, <2>7, <2>8, <2>9 DEF Next, MonitorStep
\* Only the runtime API makes it a cancellation.
<1>8. CASE asked[c] # "running"
  <2>1. \E t \in Tasks : CancelActiveTask(t)
    BY <1>8 DEF Next, MainStep, MonitorStep, Claim, ControlPlaneStops, Redeem, PrepareWorkspace,
      WorkspaceDone, CallbackStops, CallbackGoesOn, StartCommand, CommandReturns, StopWithoutReport,
      Decide, FinalLost, FinalReceived, FinalGivenUp, MarkOutcome, MonitorAnswered, WatcherMarks,
      LateWatcherMarks, MonitorSends, MonitorCancels, Deadline, Shutdown, vars
  <2> QED
    BY <1>4, <2>1
<1> QED
  BY <1>2, <1>6, <1>7, <1>8

\* A cancellation that CancelActiveTask accepted while a command was running is what the
\* claim reports, unless the control plane has ended the claim: nothing on the way to the
\* final callback loses it, whichever of the monitors, the deadline and the shutdown come too.
THEOREM CancelIsReportedHolds == Spec => []CancelIsReported
<1>1. CancelKept => CancelIsReported
  BY DEF CancelKept, CancelOnItsWay, Stopped, CancelIsReported
<1>2. IInv /\ WatchIsTrue /\ CancelKept /\ [Next]_vars => WatchIsTrue' /\ CancelKept'
  BY WatchStep, CancelStep
<1> QED
  BY <1>1, <1>2, CancelInit, IInvHolds, PTL DEF Spec

-----------------------------------------------------------------------------
(* ExecutionTask implements TaskLifecycle: what the mapping of steps needs  *)
(* besides IInv                                                            *)

\* A process is alive in one place only, and only the attempt that the control plane holds
\* as current can be running.
MappingInv ==
  \A c \in Claims :
    /\ alive[c] => pc[c] = "run"
    /\ cp[c] = "running" => Current(c)

\* The three variables that the mapping looks at.
Mapped == <<cp, alive, verdict>>

LEMMA MappingInit == Init => MappingInv
BY DEF Init, MappingInv

\* An action that starts no process and moves no claim into the hands of another attempt.
LEMMA MappingKept ==
  ASSUME TypeOK, MappingInv, NEW c \in Claims, NEW l \in Locations,
         pc' = [pc EXCEPT ![c] = l], ~alive[c], alive' = alive, UNCHANGED <<cp, attempt>>
  PROVE  MappingInv'
BY DEF TypeOK, MappingInv, Current

LEMMA MappingStep ==
  ASSUME IInv, MappingInv, [Next]_vars
  PROVE  MappingInv'
<1> USE Ranges DEF IInv
<1> USE DEF agentVars, commandVars, cpVars, Goto
<1>1. ASSUME NEW c \in Claims, Claim(c) PROVE MappingInv'
  <2>1. TaskOf[c] \in Tasks /\ c # NoClaim
    BY ClaimsAssumption DEF ClaimsAssumption
  <2>2. ASSUME NEW d \in Claims, cp'[d] = "running" PROVE attempt'[TaskOf[d]] = d
    <3>1. CASE d = c
      BY <1>1, <2>1, <3>1 DEF Claim, TypeOK
    <3>2. CASE d # c
      <4>1. cp[d] = "running" /\ attempt[TaskOf[d]] = d
        BY <1>1, <2>2, <3>2 DEF Claim, TypeOK, MappingInv, Current
      <4>2. TaskOf[d] # TaskOf[c]
        BY <1>1, <4>1, ClaimsAssumption DEF ClaimsAssumption, Claim, TaskStopped
      <4> QED
        BY <1>1, <4>1, <4>2 DEF Claim, TypeOK
    <3> QED
      BY <3>1, <3>2
  <2>3. ~alive[c]
    BY <1>1 DEF Claim, VerdictWhenConcluded, MappingInv
  <2>4. \A d \in Claims : alive'[d] => pc'[d] = "run"
    BY <1>1, <2>3 DEF Claim, TypeOK, MappingInv
  <2> QED
    BY <2>2, <2>4 DEF MappingInv, Current
<1>2. ASSUME NEW c \in Claims, NEW status \in {"canceled", "callback_timeout"},
             ControlPlaneStops(c, status)
      PROVE MappingInv'
  BY <1>2 DEF ControlPlaneStops, TypeOK, MappingInv, Current
<1>3. ASSUME NEW c \in Claims,
             \/ Redeem(c) \/ PrepareWorkspace(c) \/ WorkspaceDone(c) \/ CallbackStops(c)
             \/ CallbackGoesOn(c) \/ StopWithoutReport(c) \/ Decide(c)
             \/ FinalGivenUp(c) \/ MarkOutcome(c)
      PROVE MappingInv'
  <2>1. pc[c] # "run" /\ UNCHANGED <<alive, cp, attempt>>
    BY <1>3 DEF Redeem, PrepareWorkspace, WorkspaceDone, CallbackStops, CallbackGoesOn,
       StopWithoutReport, Decide, FinalGivenUp, MarkOutcome, AfterCallback
  <2>2. PICK l \in Locations : pc' = [pc EXCEPT ![c] = l]
    BY <1>3 DEF Redeem, PrepareWorkspace, WorkspaceDone, CallbackStops, CallbackGoesOn,
       StopWithoutReport, Decide, FinalGivenUp, MarkOutcome, AfterCallback, Conclude, Return
  <2>3. ~alive[c]
    BY <2>1 DEF MappingInv
  <2> QED
    BY <2>1, <2>2, <2>3, MappingKept
<1>4. ASSUME NEW c \in Claims, StartCommand(c) PROVE MappingInv'
  BY <1>4 DEF StartCommand, TypeOK, MappingInv, Current
<1>5. ASSUME NEW c \in Claims, FinalLost(c) PROVE MappingInv'
  BY <1>5 DEF FinalLost, MappingInv, Current
<1>6. ASSUME NEW c \in Claims, NEW answered \in BOOLEAN, FinalReceived(c, answered)
      PROVE MappingInv'
  <2>1. pc[c] = "final" /\ verdict[c] \in Final /\ ~alive[c]
    BY <1>6 DEF FinalReceived, Try, VerdictWhenConcluded, MappingInv
  <2>2. \A d \in Claims : cp'[d] = "running" => cp[d] = "running"
    BY <1>6, <2>1 DEF FinalReceived, TypeOK
  <2> QED
    BY <1>6, <2>1, <2>2 DEF FinalReceived, TypeOK, MappingInv, Current
<1>7. ASSUME NEW c \in Claims, NEW failure \in BOOLEAN, CommandReturns(c, failure) PROVE MappingInv'
  BY <1>7 DEF CommandReturns, TypeOK, MappingInv, Current
<1>8. ASSUME NEW c \in Claims, MonitorStep(c) PROVE MappingInv'
  <2>1. UNCHANGED <<pc, cp, alive, attempt>>
    BY <1>8 DEF MonitorStep, MonitorAnswered, MonitorSends, MonitorCancels, WatcherMarks,
       LateWatcherMarks
  <2> QED
    BY <2>1 DEF MappingInv, Current
<1>9. ASSUME NEW c \in Claims, Deadline(c) PROVE MappingInv'
  BY <1>9 DEF Deadline, MappingInv, Current
<1>10. ASSUME NEW t \in Tasks, CancelActiveTask(t) PROVE MappingInv'
  BY <1>10 DEF CancelActiveTask, MappingInv, Current
<1>11. CASE Shutdown \/ UNCHANGED vars
  BY <1>11 DEF Shutdown, vars, MappingInv, Current
<1> HIDE Ranges
<1> QED
  BY <1>1, <1>2, <1>3, <1>4, <1>5, <1>6, <1>7, <1>8, <1>9, <1>10, <1>11 DEF Next, MainStep

-----------------------------------------------------------------------------
(* The steps                                                               *)

\* execute concludes: the report of the lifecycle.
LEMMA ConcludeIsReport ==
  ASSUME IInv, MappingInv, NEW c \in Claims, NEW status \in Final, Conclude(c, status),
         pc[c] \notin {"queued", "run", "final", "mark", "done"}, UNCHANGED <<cp, alive>>
  PROVE  Lifecycle!Next
<1>1. Lifecycle!Report(c, status)
  BY DEF IInv, VerdictWhenConcluded, MappingInv, Conclude, Lifecycle!Report
<1> QED
  BY <1>1 DEF Lifecycle!Next, Lifecycle!Verdicts, Final

LEMMA StepIsLifecycle ==
  ASSUME IInv, MappingInv, [Next]_vars
  PROVE  [Lifecycle!Next]_(Lifecycle!vars)
<1> DEFINE Goal == Lifecycle!Next \/ UNCHANGED Mapped
<1>0. SUFFICES Goal
  BY DEF Mapped, Lifecycle!vars
<1> USE Ranges DEF IInv
<1> USE DEF agentVars, commandVars, cpVars, Goto
<1>1. ASSUME NEW c \in Claims, Claim(c) PROVE Goal
  <2>1. ASSUME NEW d \in Claims, TaskOf[d] = TaskOf[c], cp[d] = "running" PROVE FALSE
    BY <1>1, <2>1, ClaimsAssumption DEF ClaimsAssumption, Claim, TaskStopped, MappingInv, Current
  <2>2. Lifecycle!Offer(c)
    BY <1>1, <2>1 DEF Claim, Lifecycle!Offer
  <2> QED
    BY <2>2 DEF Lifecycle!Next
<1>2. ASSUME NEW c \in Claims, NEW status \in {"canceled", "callback_timeout"},
             ControlPlaneStops(c, status)
      PROVE Goal
  <2>1. Lifecycle!Stop(c, status)
    BY <1>2 DEF ControlPlaneStops, Lifecycle!Stop
  <2> QED
    BY <2>1 DEF Lifecycle!Next
<1>3. ASSUME NEW c \in Claims, Redeem(c) \/ WorkspaceDone(c) \/ Decide(c) PROVE Goal
  <2>1. pc[c] \in {"redeem", "workspaceDone", "decide"} /\ UNCHANGED <<cp, alive>>
    BY <1>3 DEF Redeem, WorkspaceDone, Decide
  <2>2. (\E status \in Final : Conclude(c, status)) \/ UNCHANGED verdict
    BY <1>3 DEF Redeem, WorkspaceDone, Decide
  <2>3. CASE \E status \in Final : Conclude(c, status)
    BY <2>1, <2>3, ConcludeIsReport
  <2> QED
    BY <2>1, <2>2, <2>3 DEF Mapped
<1>4. ASSUME NEW c \in Claims, StartCommand(c) PROVE Goal
  <2>1. cp[c] # "queued" /\ verdict[c] = "none" /\ ~alive[c]
    BY <1>4 DEF StartCommand, VerdictWhenConcluded, MappingInv
  <2>2. CASE ctx[c] = "live"
    <3>1. Lifecycle!Begin(c)
      BY <1>4, <2>1, <2>2 DEF StartCommand, Lifecycle!Begin
    <3> QED
      BY <3>1 DEF Lifecycle!Next
  <2>3. CASE ctx[c] # "live"
    BY <1>4, <2>1, <2>3 DEF StartCommand, TypeOK, Mapped
  <2> QED
    BY <2>2, <2>3
<1>5. ASSUME NEW c \in Claims, NEW failure \in BOOLEAN, CommandReturns(c, failure) PROVE Goal
  <2>1. CASE alive[c]
    <3>1. Lifecycle!End(c)
      BY <1>5, <2>1 DEF CommandReturns, Lifecycle!End
    <3> QED
      BY <3>1 DEF Lifecycle!Next
  <2>2. CASE ~alive[c]
    BY <1>5, <2>2 DEF CommandReturns, TypeOK, Mapped
  <2> QED
    BY <2>1, <2>2
<1>6. ASSUME NEW c \in Claims, NEW answered \in BOOLEAN, FinalReceived(c, answered) PROVE Goal
  <2>1. verdict[c] # "none" /\ cp[c] # "queued" /\ UNCHANGED <<alive, verdict>>
    BY <1>6 DEF FinalReceived, Try, VerdictWhenConcluded
  <2>2. CASE Current(c) /\ cp[c] \notin Final
    <3>1. Lifecycle!Deliver(c)
      BY <1>6, <2>1, <2>2 DEF FinalReceived, TypeOK, CpStatus, Lifecycle!Deliver
    <3> QED
      BY <3>1 DEF Lifecycle!Next
  <2>3. CASE ~(Current(c) /\ cp[c] \notin Final)
    BY <1>6, <2>1, <2>3 DEF FinalReceived, TypeOK, Mapped
  <2> QED
    BY <2>2, <2>3
<1>7. ASSUME NEW c \in Claims,
             \/ PrepareWorkspace(c) \/ CallbackStops(c) \/ CallbackGoesOn(c)
             \/ StopWithoutReport(c) \/ FinalLost(c) \/ FinalGivenUp(c) \/ MarkOutcome(c)
             \/ MonitorStep(c) \/ Deadline(c)
      PROVE Goal
  BY <1>7 DEF PrepareWorkspace, CallbackStops, CallbackGoesOn, StopWithoutReport, FinalLost,
     FinalGivenUp, MarkOutcome, MonitorStep, MonitorAnswered, MonitorSends, MonitorCancels,
     WatcherMarks, LateWatcherMarks, Deadline, Mapped
<1>8. ASSUME NEW t \in Tasks, CancelActiveTask(t) PROVE Goal
  BY <1>8 DEF CancelActiveTask, Mapped
<1>9. CASE Shutdown \/ UNCHANGED vars
  BY <1>9 DEF Shutdown, vars, Mapped
<1> HIDE Ranges
<1> HIDE DEF Goal
<1> QED
  BY <1>1, <1>2, <1>3, <1>4, <1>5, <1>6, <1>7, <1>8, <1>9 DEF Next, MainStep

-----------------------------------------------------------------------------
\* Whatever its monitors, the runtime API, the control plane and lost callbacks do, the
\* runner's part in a task is that of TaskLifecycle: one attempt at a time, one report, and
\* none before its process is over for good.
THEOREM LifecycleKept == Spec => KeepsLifecycle
<1>1. Init => Lifecycle!Init
  BY DEF Init, Lifecycle!Init
<1>2. Spec => []MappingInv
  BY MappingInit, MappingStep, IInvHolds, PTL DEF Spec
<1> QED
  BY <1>1, <1>2, StepIsLifecycle, IInvHolds, PTL DEF Spec, KeepsLifecycle, Lifecycle!Spec

-----------------------------------------------------------------------------
(* The workspace that tasks share.                                         *)

Repos == [present : BOOLEAN, origin : Urls \cup {"none"}, tracking : [Branches -> Nat],
          local : [Branches -> Nat], known : SUBSET Nat]
WorkSteps ==
  {"queued", "cloning", "fetch", "checkout", "list", "run", "publish", "finish", "over", "completed"}

WorkTypes ==
  /\ spec \in [Builds -> Wanted] /\ wPc \in [Builds -> WorkSteps]
  /\ branches \in [Urls -> [Branches -> Nat]] /\ pushes \in Nat
  /\ repo \in Repos /\ head \in Nat /\ saw \in [Builds -> SUBSET Nat] /\ wAsked \in [Builds -> Nat]
  /\ file \in Builds \cup {"none"} /\ listed \in [Builds -> Builds \cup {"none"}]
  /\ report \in [Builds -> Builds \cup {"none"}]

\* One task at a time clones, and what it clones is its own.
OneClones ==
  \A t \in Builds :
    /\ wPc[t] \in {"cloning", "fetch"} => spec[t].url # "none"
    /\ wPc[t] = "cloning" =>
         /\ repo.present /\ repo.origin = spec[t].url
         /\ \A u \in Builds : wPc[u] = "cloning" => u = t

\* A task that is not mixed up with another is alone at work.
AloneAtWork == \A t, u \in TaskWorkspaces!AtWork : t # u => t \in mixed

\* What such a task fetched is what it checks out, what is checked out is what its commands run
\* on, and what it published is in the file.
OnTrack(t) ==
  /\ wPc[t] \in {"queued", "cloning", "fetch", "checkout", "list", "run"} => saw[t] = {}
  /\ wPc[t] \in {"queued", "cloning", "fetch"} => wAsked[t] = 0
  /\ wAsked[t] # 0 => spec[t].ref \in Branches
  /\ wAsked[t] # 0 /\ repo.origin = spec[t].url =>
       /\ wPc[t] = "checkout" => repo.tracking[spec[t].ref] = wAsked[t]
       /\ wPc[t] \in {"list", "run", "publish"} => head = wAsked[t]
       /\ wPc[t] \in {"publish", "finish"} => saw[t] \subseteq {wAsked[t]}
  /\ wPc[t] = "finish" /\ spec[t].publishes => file = t
  /\ spec[t].publishes => report[t] \in {"none", t}

WorkInv == WorkTypes /\ OneClones /\ AloneAtWork /\ \A t \in Builds \ mixed : OnTrack(t)


\* The clone that a task starts with.
LEMMA NoRepoType ==
  /\ TaskWorkspaces!NoRepo \in Repos /\ TaskWorkspaces!NoRepo.present = FALSE
BY DEF Repos, TaskWorkspaces!NoRepo, TaskWorkspaces!Nowhere, TaskWorkspaces!None

LEMMA FreshClone ==
  ASSUME NEW u \in Urls \cup {"none"}
  PROVE  LET fresh == [TaskWorkspaces!NoRepo EXCEPT !.present = TRUE, !.origin = u]
         IN  fresh \in Repos /\ fresh.present = TRUE /\ fresh.origin = u
BY NoRepoType DEF Repos

LEMMA WorkInit == TaskWorkspaces!Init => WorkInv
<1> SUFFICES ASSUME TaskWorkspaces!Init PROVE WorkInv
  OBVIOUS
<1>1. WorkTypes
  BY NoRepoType DEF TaskWorkspaces!Init, WorkTypes, WorkSteps, TaskWorkspaces!None
<1>2. \A t \in Builds : wPc[t] = "queued" /\ saw[t] = {} /\ wAsked[t] = 0 /\ report[t] = "none"
  BY DEF TaskWorkspaces!Init, TaskWorkspaces!None
<1>3. OneClones /\ AloneAtWork /\ \A t \in Builds \ mixed : OnTrack(t)
  BY <1>2 DEF OneClones, AloneAtWork, OnTrack, TaskWorkspaces!AtWork
<1> QED
  BY <1>1, <1>3 DEF WorkInv

\* A task moves, and the others stay where they are.
WorkMoves(t, l) ==
  /\ wPc' \in [Builds -> WorkSteps] /\ wPc'[t] = l
  /\ \A u \in Builds \ {t} : wPc'[u] = wPc[u]

LEMMA WorkGoto ==
  ASSUME WorkInv, NEW t \in Builds, NEW l \in WorkSteps, TaskWorkspaces!Goto(t, l)
  PROVE  WorkMoves(t, l)
BY DEF WorkInv, WorkTypes, TaskWorkspaces!Goto, WorkMoves

\* What a step of a task leaves to the others: nobody else is at work and unmixed.
OthersKept(t) ==
  /\ spec' = spec
  /\ \A u \in Builds \ {t} :
       wPc'[u] = wPc[u] /\ saw'[u] = saw[u] /\ wAsked'[u] = wAsked[u] /\ report'[u] = report[u]

LEMMA OthersOnTrack ==
  ASSUME WorkInv, NEW t \in Builds, OthersKept(t), mixed \subseteq mixed',
         \A u \in TaskWorkspaces!AtWork \ {t} : u \in mixed'
  PROVE  \A u \in Builds \ mixed' : u # t => OnTrack(u)'
<1> SUFFICES ASSUME NEW u \in Builds \ mixed', u # t PROVE OnTrack(u)'
  OBVIOUS
<1>1. wPc[u] \in {"queued", "over", "completed"}
  BY DEF TaskWorkspaces!AtWork, TaskWorkspaces!Ended
<1>2. OnTrack(u)
  BY DEF WorkInv
<1> QED
  BY <1>1, <1>2 DEF OnTrack, OthersKept

\* A task that was at work goes on.
LEMMA GoesOn ==
  ASSUME WorkInv, NEW t \in TaskWorkspaces!AtWork, OthersKept(t), UNCHANGED mixed,
         t \notin mixed => OnTrack(t)'
  PROVE  AloneAtWork' /\ (\A u \in Builds \ mixed : OnTrack(u))'
<1>1. t \in Builds /\ \A u \in TaskWorkspaces!AtWork \ {t} : u \in mixed
  BY DEF WorkInv, AloneAtWork, TaskWorkspaces!AtWork
<1>2. TaskWorkspaces!AtWork' \subseteq TaskWorkspaces!AtWork
  BY DEF OthersKept, TaskWorkspaces!AtWork, TaskWorkspaces!Ended
<1>3. AloneAtWork'
  BY <1>2 DEF WorkInv, AloneAtWork
<1>4. \A u \in Builds \ mixed' : u # t => OnTrack(u)'
  BY <1>1, OthersOnTrack
<1> QED
  BY <1>3, <1>4

\* The clone's own facts stand while its origin does and nobody begins to clone.
LEMMA CloningKept ==
  ASSUME WorkInv, NEW t \in Builds, OthersKept(t), wPc'[t] # "cloning",
         wPc[t] = "cloning" \/ (repo'.present = repo.present /\ repo'.origin = repo.origin),
         wPc'[t] = "fetch" => spec[t].url # "none"
  PROVE  OneClones'
<1>1. OneClones
  BY DEF WorkInv
<1> QED
  BY <1>1 DEF OneClones, OthersKept

LEMMA WorkStep == WorkInv /\ TaskWorkspaces!Next => WorkInv'
<1> SUFFICES ASSUME WorkInv, TaskWorkspaces!Next PROVE WorkInv'
  OBVIOUS
<1>0. WorkTypes /\ OneClones /\ AloneAtWork /\ \A t \in Builds \ mixed : OnTrack(t)
  BY DEF WorkInv
<1> USE DEF TaskWorkspaces!None
<1>1. ASSUME NEW t \in Builds, TaskWorkspaces!Start(t) PROVE WorkInv'
  <2>1. /\ wPc[t] = "queued"
        /\ mixed' = IF TaskWorkspaces!AtWork = {} THEN mixed ELSE mixed \cup TaskWorkspaces!AtWork \cup {t}
        /\ UNCHANGED <<spec, branches, pushes, head, file, listed, report, saw, wAsked>>
    BY <1>1 DEF TaskWorkspaces!Start
  <2>2. PICK l \in {"list", "fetch", "over", "cloning"} :
          /\ TaskWorkspaces!Goto(t, l)
          /\ l \in {"fetch", "cloning"} => spec[t].url # "none"
          /\ IF l = "cloning"
             THEN ~repo.present /\ repo' = [TaskWorkspaces!NoRepo EXCEPT !.present = TRUE, !.origin = spec[t].url]
             ELSE repo' = repo
    BY <1>1 DEF TaskWorkspaces!Start
  <2>3. WorkMoves(t, l)
    BY <2>2, WorkGoto DEF WorkSteps
  <2>4. spec[t].url \in Urls \cup {"none"}
    BY <1>0, WorkspaceAssumption DEF WorkTypes
  <2>5. repo' \in Repos /\ (l = "cloning" => repo'.present /\ repo'.origin = spec[t].url)
    BY <1>0, <2>2, <2>4, FreshClone DEF WorkTypes
  <2>6. WorkTypes'
    BY <1>0, <2>1, <2>3, <2>5 DEF WorkTypes, WorkMoves
  <2>7. OneClones'
    BY <1>0, <2>1, <2>2, <2>3, <2>5 DEF OneClones, WorkMoves
  <2>8. OthersKept(t) /\ mixed \subseteq mixed' /\ \A u \in TaskWorkspaces!AtWork \ {t} : u \in mixed'
    BY <2>1, <2>3 DEF OthersKept, WorkMoves
  <2>9. AloneAtWork'
    <3>1. TaskWorkspaces!AtWork' \subseteq TaskWorkspaces!AtWork \cup {t}
      BY <2>3 DEF WorkMoves, TaskWorkspaces!AtWork
    <3> QED
      BY <2>1, <3>1 DEF AloneAtWork
  <2>10. t \notin mixed' => OnTrack(t)'
    <3> SUFFICES ASSUME t \notin mixed' PROVE OnTrack(t)'
      OBVIOUS
    <3>1. OnTrack(t)
      BY <1>0, <2>8
    <3> QED
      BY <2>1, <2>2, <2>3, <3>1 DEF OnTrack, WorkMoves
  <2> QED
    BY <2>6, <2>7, <2>8, <2>9, <2>10, OthersOnTrack DEF WorkInv
<1>2. ASSUME NEW t \in Builds, TaskWorkspaces!CloneEnds(t) PROVE WorkInv'
  <2>1. wPc[t] = "cloning" /\ UNCHANGED <<spec, branches, pushes, listed, report, saw, wAsked, mixed>>
    BY <1>2 DEF TaskWorkspaces!CloneEnds, TaskWorkspaces!history
  <2>2. t \in TaskWorkspaces!AtWork /\ spec[t].url # "none"
    BY <1>0, <2>1 DEF TaskWorkspaces!AtWork, TaskWorkspaces!Ended, OneClones
  <2>3. PICK l \in {"fetch", "over"} : TaskWorkspaces!Goto(t, l)
    BY <1>2 DEF TaskWorkspaces!CloneEnds
  <2>4. WorkMoves(t, l)
    BY <2>3, WorkGoto DEF WorkSteps
  <2>5. OthersKept(t)
    BY <2>1, <2>4 DEF OthersKept, WorkMoves
  <2>6. repo' \in Repos /\ head' \in Nat /\ file' \in Builds \cup {"none"}
    <3>1. repo \in Repos /\ repo.origin \in Urls
      BY <1>0, <2>1, WorkspaceAssumption DEF WorkTypes, OneClones
    <3>2. /\ branches[repo.origin] \in [Branches -> Nat] /\ branches[repo.origin][Default] \in Nat
          /\ TaskWorkspaces!Seen(repo.origin) \in SUBSET Nat
          /\ [TaskWorkspaces!Nowhere EXCEPT ![Default] = branches[repo.origin][Default]] \in [Branches -> Nat]
      BY <1>0, <3>1, WorkspaceAssumption DEF WorkTypes, TaskWorkspaces!Seen, TaskWorkspaces!Nowhere
    <3>3. CASE /\ repo' = [repo EXCEPT !.tracking = branches[repo.origin],
                             !.known = @ \cup TaskWorkspaces!Seen(repo.origin),
                             !.local = [TaskWorkspaces!Nowhere EXCEPT ![Default] = branches[repo.origin][Default]]]
               /\ head' = branches[repo.origin][Default] /\ UNCHANGED file
      <4> DEFINE b == branches[repo.origin]
                 n == [TaskWorkspaces!Nowhere EXCEPT ![Default] = branches[repo.origin][Default]]
                 k == repo.known \cup TaskWorkspaces!Seen(repo.origin)
      <4>1. repo' = [repo EXCEPT !.tracking = b, !.known = k, !.local = n]
        BY <3>3
      <4>2. b \in [Branches -> Nat] /\ n \in [Branches -> Nat] /\ k \in SUBSET Nat
        BY <3>1, <3>2 DEF Repos
      <4> HIDE DEF b, n, k
      <4>3. repo' \in Repos
        BY <3>1, <4>1, <4>2 DEF Repos
      <4> QED
        BY <1>0, <3>2, <3>3, <4>3 DEF WorkTypes
    <3>4. CASE repo' = TaskWorkspaces!NoRepo /\ head' = 0 /\ file' = "none"
      BY <3>4, NoRepoType
    <3> QED
      BY <1>2, <3>3, <3>4 DEF TaskWorkspaces!CloneEnds
  <2>7. WorkTypes'
    BY <1>0, <2>1, <2>4, <2>6 DEF WorkTypes, WorkMoves
  <2>8. OneClones'
    BY <2>1, <2>2, <2>4, <2>5, CloningKept DEF WorkMoves
  <2>9. t \notin mixed => OnTrack(t)'
    <3> SUFFICES ASSUME t \notin mixed PROVE OnTrack(t)'
      OBVIOUS
    <3>1. OnTrack(t)
      BY <1>0
    <3> QED
      BY <2>1, <2>4, <3>1 DEF OnTrack, WorkMoves
  <2> QED
    BY <2>1, <2>2, <2>5, <2>7, <2>8, <2>9, GoesOn DEF WorkInv
<1>3. ASSUME NEW t \in Builds, TaskWorkspaces!Fetch(t) PROVE WorkInv'
  <2> DEFINE l == IF spec[t].ref = "none" THEN "list" ELSE "checkout"
             r == IF spec[t].ref \in Branches THEN branches[spec[t].url][spec[t].ref] ELSE 0
  <2>1. /\ wPc[t] = "fetch" /\ TaskWorkspaces!Goto(t, l)
        /\ wAsked' = [wAsked EXCEPT ![t] = r]
        /\ UNCHANGED <<spec, branches, pushes, head, file, listed, report, saw, mixed>>
    BY <1>3 DEF TaskWorkspaces!Fetch
  <2>2. t \in TaskWorkspaces!AtWork /\ spec[t].url # "none" /\ spec[t].url \in Urls
    BY <1>0, <2>1, WorkspaceAssumption DEF TaskWorkspaces!AtWork, TaskWorkspaces!Ended, OneClones, WorkTypes
  <2>3. l \in WorkSteps /\ l \in {"list", "checkout"} /\ (l = "list" => spec[t].ref \notin Branches)
    BY WorkspaceAssumption DEF WorkSteps
  <2>4. r \in Nat /\ (r # 0 => spec[t].ref \in Branches /\ r = branches[spec[t].url][spec[t].ref])
    BY <1>0, <2>2 DEF WorkTypes
  <2> HIDE DEF l, r
  <2>5. WorkMoves(t, l)
    BY <2>1, <2>3, WorkGoto
  <2>6. wAsked' \in [Builds -> Nat] /\ wAsked'[t] = r /\ \A u \in Builds \ {t} : wAsked'[u] = wAsked[u]
    BY <1>0, <2>1, <2>4 DEF WorkTypes
  <2>7. OthersKept(t)
    BY <2>1, <2>5, <2>6 DEF OthersKept, WorkMoves
  <2>8. /\ repo' \in Repos /\ repo'.present = repo.present /\ repo'.origin = repo.origin
        /\ repo.origin # "none" => repo'.tracking = branches[repo.origin]
    <3>1. repo \in Repos /\ repo.origin \in Urls \cup {"none"}
      BY <1>0 DEF WorkTypes, Repos
    <3>2. CASE repo.origin = "none"
      BY <1>3, <3>1, <3>2 DEF TaskWorkspaces!Fetch, TaskWorkspaces!Fetches
    <3>3. CASE repo.origin # "none"
      <4> DEFINE b == branches[repo.origin]
                 k == repo.known \cup TaskWorkspaces!Seen(repo.origin)
      <4>1. repo' = [repo EXCEPT !.tracking = b, !.known = k]
        BY <1>3, <3>3 DEF TaskWorkspaces!Fetch, TaskWorkspaces!Fetches
      <4>2. b \in [Branches -> Nat] /\ k \in SUBSET Nat
        BY <1>0, <3>1, <3>3 DEF WorkTypes, Repos, TaskWorkspaces!Seen
      <4> HIDE DEF b, k
      <4>3. /\ repo' \in Repos /\ repo'.present = repo.present /\ repo'.origin = repo.origin
            /\ repo'.tracking = b
        BY <3>1, <4>1, <4>2 DEF Repos
      <4> QED
        BY <4>3 DEF b
    <3> QED
      BY <3>2, <3>3
  <2>9. WorkTypes'
    BY <1>0, <2>1, <2>5, <2>6, <2>8 DEF WorkTypes, WorkMoves
  <2>10. OneClones'
    BY <2>1, <2>3, <2>5, <2>7, <2>8, CloningKept DEF WorkMoves
  <2>11. t \notin mixed => OnTrack(t)'
    <3> SUFFICES ASSUME t \notin mixed PROVE OnTrack(t)'
      OBVIOUS
    <3>1. OnTrack(t)
      BY <1>0
    <3> QED
      BY <2>1, <2>2, <2>3, <2>4, <2>5, <2>6, <2>8, <3>1 DEF OnTrack, WorkMoves
  <2> QED
    BY <2>1, <2>2, <2>7, <2>9, <2>10, <2>11, GoesOn DEF WorkInv
<1>4. ASSUME NEW t \in Builds, TaskWorkspaces!Checkout(t) PROVE WorkInv'
  <2>1. /\ wPc[t] = "checkout" /\ TaskWorkspaces!Goto(t, "list")
        /\ UNCHANGED <<spec, branches, pushes, file, listed, report, saw, wAsked, mixed>>
    BY <1>4 DEF TaskWorkspaces!Checkout, TaskWorkspaces!history
  <2>2. t \in TaskWorkspaces!AtWork
    BY <2>1 DEF TaskWorkspaces!AtWork, TaskWorkspaces!Ended
  <2>3. WorkMoves(t, "list")
    BY <2>1, WorkGoto DEF WorkSteps
  <2>4. OthersKept(t)
    BY <2>1, <2>3 DEF OthersKept, WorkMoves
  <2>5. /\ repo' \in Repos /\ repo'.present = repo.present /\ repo'.origin = repo.origin /\ head' \in Nat
        /\ spec[t].ref \in Branches /\ repo.tracking[spec[t].ref] # 0 => head' = repo.tracking[spec[t].ref]
    <3>1. repo \in Repos
      BY <1>0 DEF WorkTypes
    <3>2. ASSUME NEW b \in Branches, spec[t].ref = b, head' = TaskWorkspaces!Tip(b),
                 repo' = [repo EXCEPT !.local[b] = TaskWorkspaces!Tip(b)]
          PROVE  /\ repo' \in Repos /\ repo'.present = repo.present /\ repo'.origin = repo.origin
                 /\ head' \in Nat
                 /\ repo.tracking[b] # 0 => head' = repo.tracking[b]
      <4>1. TaskWorkspaces!Tip(b) \in Nat /\ (repo.tracking[b] # 0 => TaskWorkspaces!Tip(b) = repo.tracking[b])
        BY <3>1 DEF Repos, TaskWorkspaces!Tip
      <4> DEFINE n == [repo.local EXCEPT ![b] = TaskWorkspaces!Tip(b)]
      <4>2. n \in [Branches -> Nat]
        BY <3>1, <4>1 DEF Repos
      <4>3. repo' = [repo EXCEPT !.local = n]
        BY <3>1, <3>2
      <4> HIDE DEF n
      <4>4. repo' \in Repos /\ repo'.present = repo.present /\ repo'.origin = repo.origin
        BY <3>1, <4>2, <4>3 DEF Repos
      <4> QED
        BY <3>2, <4>1, <4>4
    <3>3. CASE spec[t].ref = "commit" /\ head' = 1 /\ repo' = repo
      BY <3>1, <3>3, WorkspaceAssumption
    <3> QED
      BY <1>4, <3>2, <3>3 DEF TaskWorkspaces!Checkout
  <2>6. WorkTypes'
    BY <1>0, <2>1, <2>3, <2>5 DEF WorkTypes, WorkMoves
  <2>7. OneClones'
    BY <2>1, <2>3, <2>4, <2>5, CloningKept DEF WorkMoves
  <2>8. t \notin mixed => OnTrack(t)'
    <3> SUFFICES ASSUME t \notin mixed PROVE OnTrack(t)'
      OBVIOUS
    <3>1. OnTrack(t)
      BY <1>0
    <3> QED
      BY <2>1, <2>3, <2>5, <3>1 DEF OnTrack, WorkMoves
  <2> QED
    BY <2>1, <2>2, <2>4, <2>6, <2>7, <2>8, GoesOn DEF WorkInv
<1>5. ASSUME NEW t \in Builds, TaskWorkspaces!List(t) PROVE WorkInv'
  <2>1. /\ wPc[t] = "list" /\ TaskWorkspaces!Goto(t, "run") /\ listed' = [listed EXCEPT ![t] = file]
        /\ UNCHANGED <<spec, branches, pushes, repo, head, file, report, saw, wAsked, mixed>>
    BY <1>5 DEF TaskWorkspaces!List, TaskWorkspaces!history, TaskWorkspaces!clone
  <2>2. t \in TaskWorkspaces!AtWork
    BY <2>1 DEF TaskWorkspaces!AtWork, TaskWorkspaces!Ended
  <2>3. WorkMoves(t, "run")
    BY <2>1, WorkGoto DEF WorkSteps
  <2>4. OthersKept(t)
    BY <2>1, <2>3 DEF OthersKept, WorkMoves
  <2>5. WorkTypes'
    BY <1>0, <2>1, <2>3 DEF WorkTypes, WorkMoves
  <2>6. OneClones'
    BY <2>1, <2>3, <2>4, CloningKept DEF WorkMoves
  <2>7. t \notin mixed => OnTrack(t)'
    BY <1>0, <2>1, <2>3 DEF OnTrack, WorkMoves
  <2> QED
    BY <2>1, <2>2, <2>4, <2>5, <2>6, <2>7, GoesOn DEF WorkInv
<1>6. ASSUME NEW t \in Builds, TaskWorkspaces!Run(t) \/ TaskWorkspaces!Publish(t) PROVE WorkInv'
  <2>1. /\ wPc[t] \in {"run", "publish"} /\ saw' = [saw EXCEPT ![t] = @ \cup {head}]
        /\ UNCHANGED <<spec, branches, pushes, repo, head, listed, report, wAsked, mixed>>
        /\ \/ wPc[t] = "run" /\ file' = file
           \/ wPc[t] = "publish" /\ file' = t
    BY <1>6 DEF TaskWorkspaces!Run, TaskWorkspaces!Publish
  <2>2. PICK l \in {"publish", "finish"} :
          /\ TaskWorkspaces!Goto(t, l)
          /\ wPc[t] = "run" => (l = "publish" <=> spec[t].publishes)
          /\ wPc[t] = "publish" => l = "finish"
    BY <1>6 DEF TaskWorkspaces!Run, TaskWorkspaces!Publish
  <2>3. t \in TaskWorkspaces!AtWork
    BY <2>1 DEF TaskWorkspaces!AtWork, TaskWorkspaces!Ended
  <2>4. WorkMoves(t, l)
    BY <2>2, WorkGoto DEF WorkSteps
  <2>5. saw' \in [Builds -> SUBSET Nat] /\ saw'[t] = saw[t] \cup {head} /\ \A u \in Builds \ {t} : saw'[u] = saw[u]
    BY <1>0, <2>1 DEF WorkTypes
  <2>6. OthersKept(t)
    BY <2>1, <2>4, <2>5 DEF OthersKept, WorkMoves
  <2>7. WorkTypes'
    BY <1>0, <2>1, <2>4, <2>5 DEF WorkTypes, WorkMoves
  <2>8. OneClones'
    BY <2>1, <2>4, <2>6, CloningKept DEF WorkMoves
  <2>9. t \notin mixed => OnTrack(t)'
    <3> SUFFICES ASSUME t \notin mixed PROVE OnTrack(t)'
      OBVIOUS
    <3>1. OnTrack(t)
      BY <1>0
    <3> QED
      BY <2>1, <2>2, <2>4, <2>5, <3>1 DEF OnTrack, WorkMoves
  <2> QED
    BY <2>1, <2>3, <2>6, <2>7, <2>8, <2>9, GoesOn DEF WorkInv
<1>7. ASSUME NEW t \in Builds, TaskWorkspaces!Finish(t) PROVE WorkInv'
  <2>1. /\ wPc[t] = "finish" /\ TaskWorkspaces!Goto(t, "completed")
        /\ report' = [report EXCEPT ![t] = TaskWorkspaces!Digest(t)]
        /\ UNCHANGED <<spec, branches, pushes, repo, head, file, listed, saw, wAsked, mixed>>
    BY <1>7 DEF TaskWorkspaces!Finish, TaskWorkspaces!history, TaskWorkspaces!clone
  <2>2. t \in TaskWorkspaces!AtWork
    BY <2>1 DEF TaskWorkspaces!AtWork, TaskWorkspaces!Ended
  <2>3. WorkMoves(t, "completed")
    BY <2>1, WorkGoto DEF WorkSteps
  <2>4. TaskWorkspaces!Digest(t) \in {"none", file}
    BY DEF TaskWorkspaces!Digest
  <2>5. /\ report' \in [Builds -> Builds \cup {"none"}] /\ report'[t] \in {"none", file}
        /\ \A u \in Builds \ {t} : report'[u] = report[u]
    BY <1>0, <2>1, <2>4 DEF WorkTypes
  <2>6. OthersKept(t)
    BY <2>1, <2>3, <2>5 DEF OthersKept, WorkMoves
  <2>7. WorkTypes'
    BY <1>0, <2>1, <2>3, <2>5 DEF WorkTypes, WorkMoves
  <2>8. OneClones'
    BY <2>1, <2>3, <2>6, CloningKept DEF WorkMoves
  <2>9. t \notin mixed => OnTrack(t)'
    <3> SUFFICES ASSUME t \notin mixed PROVE OnTrack(t)'
      OBVIOUS
    <3>1. OnTrack(t)
      BY <1>0
    <3> QED
      BY <2>1, <2>3, <2>5, <3>1 DEF OnTrack, WorkMoves
  <2> QED
    BY <2>1, <2>2, <2>6, <2>7, <2>8, <2>9, GoesOn DEF WorkInv
<1>8. ASSUME NEW t \in Builds, TaskWorkspaces!Fails(t) PROVE WorkInv'
  <2>1. /\ t \in TaskWorkspaces!AtWork /\ TaskWorkspaces!Goto(t, "over")
        /\ UNCHANGED <<spec, branches, pushes, head, file, listed, report, saw, wAsked, mixed>>
        /\ repo' = repo \/ (wPc[t] = "cloning" /\ repo' = [repo EXCEPT !.origin = "none"])
    BY <1>8 DEF TaskWorkspaces!Fails, TaskWorkspaces!history
  <2>2. WorkMoves(t, "over")
    BY <2>1, WorkGoto DEF WorkSteps
  <2>3. OthersKept(t)
    BY <2>1, <2>2 DEF OthersKept, WorkMoves
  <2>4. repo' \in Repos
    BY <1>0, <2>1 DEF WorkTypes, Repos
  <2>5. WorkTypes'
    BY <1>0, <2>1, <2>2, <2>4 DEF WorkTypes, WorkMoves
  <2>6. OneClones'
    BY <2>1, <2>2, <2>3, CloningKept DEF WorkMoves
  <2>7. t \notin mixed => OnTrack(t)'
    BY <1>0, <2>1, <2>2 DEF OnTrack, WorkMoves
  <2> QED
    BY <2>1, <2>3, <2>5, <2>6, <2>7, GoesOn DEF WorkInv
<1>9. ASSUME NEW u \in Urls, NEW b \in Branches, TaskWorkspaces!Push(u, b) PROVE WorkInv'
  <2>1. /\ UNCHANGED <<spec, wPc, repo, head, file, listed, report, saw, wAsked, mixed>>
        /\ pushes' = pushes + 1
        /\ \E c \in {0, pushes + 1} : branches' = [branches EXCEPT ![u][b] = c]
    BY <1>9 DEF TaskWorkspaces!Push, TaskWorkspaces!history, TaskWorkspaces!clone
  <2>2. branches' \in [Urls -> [Branches -> Nat]] /\ pushes' \in Nat
    BY <1>0, <2>1 DEF WorkTypes
  <2>3. WorkTypes' /\ OneClones' /\ AloneAtWork'
    BY <1>0, <2>1, <2>2 DEF WorkTypes, OneClones, AloneAtWork, TaskWorkspaces!AtWork
  <2>4. \A t \in Builds \ mixed : OnTrack(t)'
    BY <1>0, <2>1 DEF OnTrack
  <2> QED
    BY <2>1, <2>3, <2>4 DEF WorkInv
<1> QED
  BY <1>1, <1>2, <1>3, <1>4, <1>5, <1>6, <1>7, <1>8, <1>9 DEF TaskWorkspaces!Next

LEMMA WorkInvSuffices == WorkInv => TaskWorkspaces!RunsWhatWasFetched /\ TaskWorkspaces!ReportsOwnDigest
<1> SUFFICES ASSUME WorkInv PROVE TaskWorkspaces!RunsWhatWasFetched /\ TaskWorkspaces!ReportsOwnDigest
  OBVIOUS
<1>1. TaskWorkspaces!RunsWhatWasFetched
  <2> SUFFICES ASSUME NEW t \in Builds \ mixed, wAsked[t] # 0, repo.origin = spec[t].url,
                      t \in TaskWorkspaces!AtWork
               PROVE  saw[t] \subseteq {wAsked[t]}
    BY DEF TaskWorkspaces!RunsWhatWasFetched, TaskWorkspaces!None
  <2>1. OnTrack(t) /\ wPc[t] \in WorkSteps \ {"over", "completed"}
    BY DEF WorkInv, WorkTypes, TaskWorkspaces!AtWork, TaskWorkspaces!Ended
  <2> QED
    BY <2>1 DEF OnTrack, WorkSteps
<1>2. TaskWorkspaces!ReportsOwnDigest
  BY DEF WorkInv, OnTrack, TaskWorkspaces!ReportsOwnDigest
<1> QED
  BY <1>1, <1>2

-----------------------------------------------------------------------------
(* A task whose effect is outside the runner.                              *)

SupTypes ==
  /\ kind \in {"helm", "manifest", "ssh"} /\ sAsked \in BOOLEAN /\ missed \in BOOLEAN /\ stopped \in BOOLEAN
  /\ sCp \in {"running", "canceling", "completed", "failed", "callback_timeout", "canceled"}
  /\ worker \in [SupervisedTask!Workers -> {"off", "waiting", "asking", "gone"}]

\* What a task may be called canceled for.
Excused == sAsked \/ missed \/ sCp = "callback_timeout"

\* Nobody asks after the work is joined, and a verdict is recorded when all is over.
AskersAtWork ==
  /\ \A w \in SupervisedTask!Workers :
       worker[w] \in {"waiting", "asking"} => sPc \in {"exec", "join"} /\ kind # "ssh"
  /\ sCp \in {"completed", "failed"} => sPc = "over"
  /\ sCp = "canceling" => sAsked
  /\ sCp = "canceled" => sAsked \/ missed
  /\ sPc \in {"kill", "final"} => sVerdict \in SupervisedTask!Verdicts

\* Whatever says canceled is excused.
CancelsExcused ==
  /\ kind # "ssh" /\ sCtx = "canceled" => sAsked
  /\ kind # "ssh" /\ run = "canceled" /\ sPc \in {"claimed", "start", "exec"} => Excused
  /\ err = "canceled" => Excused
  /\ sVerdict = "canceled" => Excused

\* What goes on in the cluster has an executor that waits for it, or is not reported as stopped.
ClusterWork ==
  kind # "ssh" =>
    /\ sPc \notin SupervisedTask!Stages \cup {"kill"}
    /\ sPc \in {"claimed", "start"} => work = "none"
    /\ sPc \in {"claimed", "start", "exec", "join", "judge"} => sVerdict = "none"
    /\ work = "running" =>
         \/ sPc = "exec"
         \/ kind = "manifest" /\ err = "unstopped" /\ sPc \in {"join", "judge"}
         \/ kind = "manifest" /\ sPc \in {"final", "over"} /\ sVerdict = "failed"
         \/ kind = "helm" /\ ~stopped /\ (sPc = "join" \/ (sPc = "over" /\ sVerdict = "none"))

\* What is known of a process on another host.
RemoteProcess ==
  kind = "ssh" =>
    /\ sPc \notin {"join", "judge"}
    /\ sPc \in SupervisedTask!Stages \cup {"claimed", "start"} =>
         effect = "not_started" /\ work = "none" /\ sVerdict = "none"
    /\ sPc = "exec" => effect = "unknown"
    /\ sPc = "kill" => effect # "not_started"
    /\ effect = "not_started" => work = "none"
    /\ effect = "exited" => work = "over" /\ sVerdict \in {"completed", "failed"}
    /\ sVerdict = "completed" => effect = "exited"
    /\ sVerdict # "canceled"

SupInv == SupTypes /\ AskersAtWork /\ CancelsExcused /\ ClusterWork /\ RemoteProcess

LEMMA SupInit == SupervisedTask!Init => SupInv
BY KindsAssumption DEF SupervisedTask!Init, SupInv, SupTypes, AskersAtWork, CancelsExcused, ClusterWork,
     RemoteProcess,
       SupervisedTask!Stages, SupervisedTask!None, SupervisedTask!Verdicts

LEMMA SupStep == SupInv /\ SupervisedTask!Next => SupInv'
<1> SUFFICES ASSUME SupInv, SupervisedTask!Next PROVE SupInv'
  OBVIOUS
<1>0. SupTypes /\ AskersAtWork /\ CancelsExcused /\ ClusterWork /\ RemoteProcess
  BY DEF SupInv
<1> USE DEF SupervisedTask!remote, SupervisedTask!context, SupervisedTask!report, SupervisedTask!None,
            SupervisedTask!Verdicts, SupervisedTask!Stages, SupervisedTask!Stops, Excused
<1>1. CASE SupervisedTask!Cancel
  <2>1. SupTypes'
    BY <1>0, <1>1 DEF SupTypes, SupervisedTask!Cancel
  <2>2. AskersAtWork'
    BY <1>0, <1>1 DEF AskersAtWork, SupTypes, SupervisedTask!Cancel
  <2>3. CancelsExcused'
    BY <1>0, <1>1 DEF CancelsExcused, SupTypes, SupervisedTask!Cancel
  <2>4. ClusterWork'
    BY <1>0, <1>1 DEF ClusterWork, SupTypes, SupervisedTask!Cancel
  <2>5. RemoteProcess'
    BY <1>0, <1>1 DEF RemoteProcess, SupTypes, SupervisedTask!Cancel
  <2> QED
    BY <2>1, <2>2, <2>3, <2>4, <2>5 DEF SupInv
<1>2. CASE SupervisedTask!Expire
  <2>1. SupTypes'
    BY <1>0, <1>2 DEF SupTypes, SupervisedTask!Expire
  <2>2. AskersAtWork'
    BY <1>0, <1>2 DEF AskersAtWork, SupTypes, SupervisedTask!Expire
  <2>3. CancelsExcused'
    BY <1>0, <1>2 DEF CancelsExcused, SupTypes, SupervisedTask!Expire
  <2>4. ClusterWork'
    BY <1>0, <1>2 DEF ClusterWork, SupTypes, SupervisedTask!Expire
  <2>5. RemoteProcess'
    BY <1>0, <1>2 DEF RemoteProcess, SupTypes, SupervisedTask!Expire
  <2> QED
    BY <2>1, <2>2, <2>3, <2>4, <2>5 DEF SupInv
<1>3. CASE SupervisedTask!Reassign
  <2>1. SupTypes'
    BY <1>0, <1>3 DEF SupTypes, SupervisedTask!Reassign
  <2>2. AskersAtWork'
    BY <1>0, <1>3 DEF AskersAtWork, SupTypes, SupervisedTask!Reassign
  <2>3. CancelsExcused'
    BY <1>0, <1>3 DEF CancelsExcused, SupTypes, SupervisedTask!Reassign
  <2>4. ClusterWork'
    BY <1>0, <1>3 DEF ClusterWork, SupTypes, SupervisedTask!Reassign
  <2>5. RemoteProcess'
    BY <1>0, <1>3 DEF RemoteProcess, SupTypes, SupervisedTask!Reassign
  <2> QED
    BY <2>1, <2>2, <2>3, <2>4, <2>5 DEF SupInv
<1>4. CASE SupervisedTask!Deadline
  <2>1. SupTypes'
    BY <1>0, <1>4 DEF SupTypes, SupervisedTask!Deadline, SupervisedTask!EndContext
  <2>2. AskersAtWork'
    BY <1>0, <1>4 DEF AskersAtWork, SupTypes, SupervisedTask!Deadline, SupervisedTask!EndContext
  <2>3. CancelsExcused'
    BY <1>0, <1>4 DEF CancelsExcused, SupTypes, SupervisedTask!Deadline, SupervisedTask!EndContext
  <2>4. ClusterWork'
    BY <1>0, <1>4 DEF ClusterWork, SupTypes, SupervisedTask!Deadline, SupervisedTask!EndContext
  <2>5. RemoteProcess'
    BY <1>0, <1>4 DEF RemoteProcess, SupTypes, SupervisedTask!Deadline, SupervisedTask!EndContext
  <2> QED
    BY <2>1, <2>2, <2>3, <2>4, <2>5 DEF SupInv
<1>5. CASE SupervisedTask!CancelActiveTask
  <2>1. SupTypes'
    BY <1>0, <1>5 DEF SupTypes, SupervisedTask!CancelActiveTask, SupervisedTask!EndContext
  <2>2. AskersAtWork'
    BY <1>0, <1>5 DEF AskersAtWork, SupTypes, SupervisedTask!CancelActiveTask, SupervisedTask!EndContext
  <2>3. CancelsExcused'
    BY <1>0, <1>5 DEF CancelsExcused, SupTypes, SupervisedTask!CancelActiveTask, SupervisedTask!EndContext
  <2>4. ClusterWork'
    BY <1>0, <1>5 DEF ClusterWork, SupTypes, SupervisedTask!CancelActiveTask, SupervisedTask!EndContext
  <2>5. RemoteProcess'
    BY <1>0, <1>5 DEF RemoteProcess, SupTypes, SupervisedTask!CancelActiveTask, SupervisedTask!EndContext
  <2> QED
    BY <2>1, <2>2, <2>3, <2>4, <2>5 DEF SupInv
<1>6. CASE SupervisedTask!Refuse
  <2>1. SupTypes'
    BY <1>0, <1>6 DEF SupTypes, SupervisedTask!Refuse
  <2>2. AskersAtWork'
    BY <1>0, <1>6 DEF AskersAtWork, SupTypes, SupervisedTask!Refuse
  <2>3. CancelsExcused'
    BY <1>0, <1>6 DEF CancelsExcused, SupTypes, SupervisedTask!Refuse
  <2>4. ClusterWork'
    BY <1>0, <1>6 DEF ClusterWork, SupTypes, SupervisedTask!Refuse
  <2>5. RemoteProcess'
    BY <1>0, <1>6 DEF RemoteProcess, SupTypes, SupervisedTask!Refuse
  <2> QED
    BY <2>1, <2>2, <2>3, <2>4, <2>5 DEF SupInv
<1>7. CASE SupervisedTask!Announce
  <2>1. SupTypes'
    BY <1>0, <1>7 DEF SupTypes, SupervisedTask!Announce
  <2>2. AskersAtWork'
    BY <1>0, <1>7 DEF AskersAtWork, SupTypes, SupervisedTask!Announce
  <2>3. CancelsExcused'
    BY <1>0, <1>7 DEF CancelsExcused, SupTypes, SupervisedTask!Announce
  <2>4. ClusterWork'
    BY <1>0, <1>7 DEF ClusterWork, SupTypes, SupervisedTask!Announce
  <2>5. RemoteProcess'
    BY <1>0, <1>7 DEF RemoteProcess, SupTypes, SupervisedTask!Announce
  <2> QED
    BY <2>1, <2>2, <2>3, <2>4, <2>5 DEF SupInv
<1>8. CASE SupervisedTask!StartAnswered
  <2>1. SupTypes'
    BY <1>0, <1>8 DEF SupTypes, SupervisedTask!StartAnswered, SupervisedTask!Execute
  <2>2. AskersAtWork'
    BY <1>0, <1>8 DEF AskersAtWork, SupTypes, SupervisedTask!StartAnswered, SupervisedTask!Execute
  <2>3. CancelsExcused'
    BY <1>0, <1>8 DEF CancelsExcused, SupTypes, AskersAtWork, SupervisedTask!StartAnswered,
         SupervisedTask!Execute
  <2>4. ClusterWork'
    BY <1>0, <1>8 DEF ClusterWork, SupTypes, SupervisedTask!StartAnswered, SupervisedTask!Execute
  <2>5. RemoteProcess'
    BY <1>0, <1>8 DEF RemoteProcess, SupTypes, SupervisedTask!StartAnswered, SupervisedTask!Execute
  <2> QED
    BY <2>1, <2>2, <2>3, <2>4, <2>5 DEF SupInv
<1>9. CASE SupervisedTask!StartUnanswered
  <2>1. SupTypes'
    BY <1>0, <1>9 DEF SupTypes, SupervisedTask!StartUnanswered
  <2>2. AskersAtWork'
    BY <1>0, <1>9 DEF AskersAtWork, SupTypes, SupervisedTask!StartUnanswered
  <2>3. CancelsExcused'
    BY <1>0, <1>9 DEF CancelsExcused, SupTypes, SupervisedTask!StartUnanswered
  <2>4. ClusterWork'
    BY <1>0, <1>9 DEF ClusterWork, SupTypes, SupervisedTask!StartUnanswered
  <2>5. RemoteProcess'
    BY <1>0, <1>9 DEF RemoteProcess, SupTypes, SupervisedTask!StartUnanswered
  <2> QED
    BY <2>1, <2>2, <2>3, <2>4, <2>5 DEF SupInv
<1>10. CASE SupervisedTask!Join
  <2>1. SupTypes'
    BY <1>0, <1>10 DEF SupTypes, SupervisedTask!Join, SupervisedTask!ReportsResult
  <2>2. AskersAtWork'
    BY <1>0, <1>10 DEF AskersAtWork, SupTypes, SupervisedTask!Join, SupervisedTask!ReportsResult
  <2>3. CancelsExcused'
    BY <1>0, <1>10 DEF CancelsExcused, SupTypes, SupervisedTask!Join, SupervisedTask!ReportsResult
  <2>4. ClusterWork'
    BY <1>0, <1>10 DEF ClusterWork, SupTypes, SupervisedTask!Join, SupervisedTask!ReportsResult
  <2>5. RemoteProcess'
    BY <1>0, <1>10 DEF RemoteProcess, SupTypes, SupervisedTask!Join, SupervisedTask!ReportsResult
  <2> QED
    BY <2>1, <2>2, <2>3, <2>4, <2>5 DEF SupInv
<1>11. CASE SupervisedTask!Judge
  <2>1. SupTypes'
    BY <1>0, <1>11 DEF SupTypes, SupervisedTask!Judge, SupervisedTask!Status
  <2>2. AskersAtWork'
    BY <1>0, <1>11 DEF AskersAtWork, SupTypes, SupervisedTask!Judge, SupervisedTask!Status
  <2>3. CancelsExcused'
    BY <1>0, <1>11 DEF CancelsExcused, SupTypes, RemoteProcess, SupervisedTask!Judge, SupervisedTask!Status
  <2>4. ClusterWork'
    BY <1>0, <1>11 DEF ClusterWork, SupTypes, SupervisedTask!Judge, SupervisedTask!Status
  <2>5. RemoteProcess'
    BY <1>0, <1>11 DEF RemoteProcess, SupTypes, SupervisedTask!Judge, SupervisedTask!Status
  <2> QED
    BY <2>1, <2>2, <2>3, <2>4, <2>5 DEF SupInv
<1>12. CASE SupervisedTask!Prepare
  <2>0. kind = "ssh" /\ sPc' \in SupervisedTask!Stages \cup {"start"}
    BY <1>0, <1>12 DEF ClusterWork, SupervisedTask!Prepare, SupervisedTask!Following
  <2>1. SupTypes'
    BY <1>0, <1>12, <2>0 DEF SupTypes, SupervisedTask!Prepare, SupervisedTask!Authorized
  <2>2. AskersAtWork'
    BY <1>0, <1>12, <2>0 DEF AskersAtWork, SupTypes, SupervisedTask!Prepare, SupervisedTask!Authorized
  <2>3. CancelsExcused'
    BY <1>0, <1>12, <2>0 DEF CancelsExcused, SupTypes, SupervisedTask!Prepare, SupervisedTask!Authorized
  <2>4. ClusterWork'
    BY <1>0, <1>12, <2>0 DEF ClusterWork, SupTypes, SupervisedTask!Prepare, SupervisedTask!Authorized
  <2>5. RemoteProcess'
    BY <1>0, <1>12, <2>0 DEF RemoteProcess, SupTypes, SupervisedTask!Prepare, SupervisedTask!Authorized
  <2> QED
    BY <2>1, <2>2, <2>3, <2>4, <2>5 DEF SupInv
<1>13. CASE SupervisedTask!PrepareFails
  <2>1. SupTypes'
    BY <1>0, <1>13 DEF SupTypes, SupervisedTask!PrepareFails
  <2>2. AskersAtWork'
    BY <1>0, <1>13 DEF AskersAtWork, SupTypes, SupervisedTask!PrepareFails
  <2>3. CancelsExcused'
    BY <1>0, <1>13 DEF CancelsExcused, SupTypes, SupervisedTask!PrepareFails
  <2>4. ClusterWork'
    BY <1>0, <1>13 DEF ClusterWork, SupTypes, SupervisedTask!PrepareFails
  <2>5. RemoteProcess'
    BY <1>0, <1>13 DEF RemoteProcess, SupTypes, SupervisedTask!PrepareFails
  <2> QED
    BY <2>1, <2>2, <2>3, <2>4, <2>5 DEF SupInv
<1>14. CASE SupervisedTask!Start
  <2>1. SupTypes'
    BY <1>0, <1>14 DEF SupTypes, SupervisedTask!Start
  <2>2. AskersAtWork'
    BY <1>0, <1>14 DEF AskersAtWork, SupTypes, SupervisedTask!Start
  <2>3. CancelsExcused'
    BY <1>0, <1>14 DEF CancelsExcused, SupTypes, SupervisedTask!Start
  <2>4. ClusterWork'
    BY <1>0, <1>14 DEF ClusterWork, SupTypes, SupervisedTask!Start
  <2>5. RemoteProcess'
    BY <1>0, <1>14 DEF RemoteProcess, SupTypes, SupervisedTask!Start
  <2> QED
    BY <2>1, <2>2, <2>3, <2>4, <2>5 DEF SupInv
<1>15. CASE SupervisedTask!Waited
  <2>1. SupTypes'
    BY <1>0, <1>15 DEF SupTypes, SupervisedTask!Waited, SupervisedTask!ExitKnown
  <2>2. AskersAtWork'
    BY <1>0, <1>15 DEF AskersAtWork, SupTypes, SupervisedTask!Waited, SupervisedTask!ExitKnown
  <2>3. CancelsExcused'
    BY <1>0, <1>15 DEF CancelsExcused, SupTypes, SupervisedTask!Waited, SupervisedTask!ExitKnown
  <2>4. ClusterWork'
    BY <1>0, <1>15 DEF ClusterWork, SupTypes, SupervisedTask!Waited, SupervisedTask!ExitKnown
  <2>5. RemoteProcess'
    BY <1>0, <1>15 DEF RemoteProcess, SupTypes, SupervisedTask!Waited, SupervisedTask!ExitKnown
  <2> QED
    BY <2>1, <2>2, <2>3, <2>4, <2>5 DEF SupInv
<1>16. CASE SupervisedTask!Interrupted
  <2>1. SupTypes'
    BY <1>0, <1>16 DEF SupTypes, SupervisedTask!Interrupted
  <2>2. AskersAtWork'
    BY <1>0, <1>16 DEF AskersAtWork, SupTypes, SupervisedTask!Interrupted
  <2>3. CancelsExcused'
    BY <1>0, <1>16 DEF CancelsExcused, SupTypes, SupervisedTask!Interrupted
  <2>4. ClusterWork'
    BY <1>0, <1>16 DEF ClusterWork, SupTypes, SupervisedTask!Interrupted
  <2>5. RemoteProcess'
    BY <1>0, <1>16 DEF RemoteProcess, SupTypes, SupervisedTask!Interrupted
  <2> QED
    BY <2>1, <2>2, <2>3, <2>4, <2>5 DEF SupInv
<1>17. CASE SupervisedTask!CheckAuthorization
  <2>1. SupTypes'
    BY <1>0, <1>17 DEF SupTypes, SupervisedTask!CheckAuthorization
  <2>2. AskersAtWork'
    BY <1>0, <1>17 DEF AskersAtWork, SupTypes, SupervisedTask!CheckAuthorization
  <2>3. CancelsExcused'
    BY <1>0, <1>17 DEF CancelsExcused, SupTypes, SupervisedTask!CheckAuthorization
  <2>4. ClusterWork'
    BY <1>0, <1>17 DEF ClusterWork, SupTypes, SupervisedTask!CheckAuthorization
  <2>5. RemoteProcess'
    BY <1>0, <1>17 DEF RemoteProcess, SupTypes, SupervisedTask!CheckAuthorization
  <2> QED
    BY <2>1, <2>2, <2>3, <2>4, <2>5 DEF SupInv
<1>18. CASE SupervisedTask!Kill
  <2>1. SupTypes'
    BY <1>0, <1>18 DEF SupTypes, SupervisedTask!Kill
  <2>2. AskersAtWork'
    BY <1>0, <1>18 DEF AskersAtWork, SupTypes, SupervisedTask!Kill
  <2>3. CancelsExcused'
    BY <1>0, <1>18 DEF CancelsExcused, SupTypes, SupervisedTask!Kill
  <2>4. ClusterWork'
    BY <1>0, <1>18 DEF ClusterWork, SupTypes, SupervisedTask!Kill
  <2>5. RemoteProcess'
    BY <1>0, <1>18 DEF RemoteProcess, SupTypes, SupervisedTask!Kill
  <2> QED
    BY <2>1, <2>2, <2>3, <2>4, <2>5 DEF SupInv
<1>19. CASE SupervisedTask!WorkEnds
  <2>1. SupTypes'
    BY <1>0, <1>19 DEF SupTypes, SupervisedTask!WorkEnds
  <2>2. AskersAtWork'
    BY <1>0, <1>19 DEF AskersAtWork, SupTypes, SupervisedTask!WorkEnds
  <2>3. CancelsExcused'
    BY <1>0, <1>19 DEF CancelsExcused, SupTypes, SupervisedTask!WorkEnds
  <2>4. ClusterWork'
    BY <1>0, <1>19 DEF ClusterWork, SupTypes, SupervisedTask!WorkEnds
  <2>5. RemoteProcess'
    BY <1>0, <1>19 DEF RemoteProcess, SupTypes, SupervisedTask!WorkEnds
  <2> QED
    BY <2>1, <2>2, <2>3, <2>4, <2>5 DEF SupInv
<1>20. ASSUME NEW ends \in {"ok", "error", "unstopped"}, SupervisedTask!ExecReturns(ends) PROVE SupInv'
  <2>1. SupTypes'
    BY <1>0, <1>20 DEF SupTypes, SupervisedTask!ExecReturns, SupervisedTask!ExecError
  <2>2. AskersAtWork'
    BY <1>0, <1>20 DEF AskersAtWork, SupTypes, SupervisedTask!ExecReturns, SupervisedTask!ExecError
  <2>3. CancelsExcused'
    BY <1>0, <1>20 DEF CancelsExcused, SupTypes, SupervisedTask!ExecReturns, SupervisedTask!ExecError
  <2>4. ClusterWork'
    BY <1>0, <1>20 DEF ClusterWork, SupTypes, SupervisedTask!ExecReturns, SupervisedTask!ExecError
  <2>5. RemoteProcess'
    BY <1>0, <1>20 DEF RemoteProcess, SupTypes, SupervisedTask!ExecReturns, SupervisedTask!ExecError
  <2> QED
    BY <2>1, <2>2, <2>3, <2>4, <2>5 DEF SupInv
<1>21. ASSUME NEW received \in BOOLEAN, SupervisedTask!Final(received) PROVE SupInv'
  <2>1. SupTypes'
    BY <1>0, <1>21 DEF SupTypes, AskersAtWork, SupervisedTask!Final, SupervisedTask!Records
  <2>2. AskersAtWork'
    BY <1>0, <1>21 DEF AskersAtWork, SupTypes, CancelsExcused, SupervisedTask!Final, SupervisedTask!Records
  <2>3. CancelsExcused'
    BY <1>0, <1>21 DEF CancelsExcused, SupTypes, SupervisedTask!Final, SupervisedTask!Records
  <2>4. ClusterWork'
    BY <1>0, <1>21 DEF ClusterWork, SupTypes, SupervisedTask!Final, SupervisedTask!Records
  <2>5. RemoteProcess'
    BY <1>0, <1>21 DEF RemoteProcess, SupTypes, SupervisedTask!Final, SupervisedTask!Records
  <2> QED
    BY <2>1, <2>2, <2>3, <2>4, <2>5 DEF SupInv
<1>22. ASSUME NEW w \in SupervisedTask!Workers, SupervisedTask!WorkerAsks(w) PROVE SupInv'
  <2>1. SupTypes'
    BY <1>0, <1>22 DEF SupTypes, SupervisedTask!WorkerAsks, SupervisedTask!WorkerCancels,
         SupervisedTask!Unwanted
  <2>2. AskersAtWork'
    BY <1>0, <1>22 DEF AskersAtWork, SupTypes, SupervisedTask!WorkerAsks, SupervisedTask!WorkerCancels,
         SupervisedTask!Unwanted
  <2>3. CancelsExcused'
    BY <1>0, <1>22 DEF CancelsExcused, SupTypes, SupervisedTask!WorkerAsks,
         SupervisedTask!WorkerCancels, SupervisedTask!Unwanted
  <2>4. ClusterWork'
    BY <1>0, <1>22 DEF ClusterWork, SupTypes, SupervisedTask!WorkerAsks, SupervisedTask!WorkerCancels,
         SupervisedTask!Unwanted
  <2>5. RemoteProcess'
    BY <1>0, <1>22 DEF RemoteProcess, SupTypes, SupervisedTask!WorkerAsks, SupervisedTask!WorkerCancels,
         SupervisedTask!Unwanted
  <2> QED
    BY <2>1, <2>2, <2>3, <2>4, <2>5 DEF SupInv
<1>23. ASSUME NEW w \in SupervisedTask!Workers, SupervisedTask!WorkerAnswered(w) PROVE SupInv'
  <2>1. SupTypes'
    BY <1>0, <1>23 DEF SupTypes, SupervisedTask!WorkerAnswered, SupervisedTask!WorkerCancels,
         SupervisedTask!Unwanted
  <2>2. AskersAtWork'
    BY <1>0, <1>23 DEF AskersAtWork, SupTypes, SupervisedTask!WorkerAnswered,
         SupervisedTask!WorkerCancels, SupervisedTask!Unwanted
  <2>3. CancelsExcused'
    BY <1>0, <1>23 DEF CancelsExcused, SupTypes, AskersAtWork, SupervisedTask!WorkerAnswered,
         SupervisedTask!WorkerCancels, SupervisedTask!Unwanted
  <2>4. ClusterWork'
    BY <1>0, <1>23 DEF ClusterWork, SupTypes, SupervisedTask!WorkerAnswered,
         SupervisedTask!WorkerCancels, SupervisedTask!Unwanted
  <2>5. RemoteProcess'
    BY <1>0, <1>23 DEF RemoteProcess, SupTypes, SupervisedTask!WorkerAnswered,
         SupervisedTask!WorkerCancels, SupervisedTask!Unwanted
  <2> QED
    BY <2>1, <2>2, <2>3, <2>4, <2>5 DEF SupInv
<1>24. ASSUME NEW w \in SupervisedTask!Workers, SupervisedTask!WorkerUnanswered(w) PROVE SupInv'
  <2>1. SupTypes'
    BY <1>0, <1>24 DEF SupTypes, SupervisedTask!WorkerUnanswered, SupervisedTask!WorkerCancels,
         SupervisedTask!Unwanted
  <2>2. AskersAtWork'
    BY <1>0, <1>24 DEF AskersAtWork, SupTypes, SupervisedTask!WorkerUnanswered,
         SupervisedTask!WorkerCancels, SupervisedTask!Unwanted
  <2>3. CancelsExcused'
    BY <1>0, <1>24 DEF CancelsExcused, SupTypes, SupervisedTask!WorkerUnanswered,
         SupervisedTask!WorkerCancels, SupervisedTask!Unwanted
  <2>4. ClusterWork'
    BY <1>0, <1>24 DEF ClusterWork, SupTypes, SupervisedTask!WorkerUnanswered,
         SupervisedTask!WorkerCancels, SupervisedTask!Unwanted
  <2>5. RemoteProcess'
    BY <1>0, <1>24 DEF RemoteProcess, SupTypes, SupervisedTask!WorkerUnanswered,
         SupervisedTask!WorkerCancels, SupervisedTask!Unwanted
  <2> QED
    BY <2>1, <2>2, <2>3, <2>4, <2>5 DEF SupInv
<1>25. ASSUME NEW w \in SupervisedTask!Workers, SupervisedTask!WorkerStops(w) PROVE SupInv'
  <2>1. SupTypes'
    BY <1>0, <1>25 DEF SupTypes, SupervisedTask!WorkerStops, SupervisedTask!WorkerCancels,
         SupervisedTask!Unwanted
  <2>2. AskersAtWork'
    BY <1>0, <1>25 DEF AskersAtWork, SupTypes, SupervisedTask!WorkerStops, SupervisedTask!WorkerCancels,
         SupervisedTask!Unwanted
  <2>3. CancelsExcused'
    BY <1>0, <1>25 DEF CancelsExcused, SupTypes, SupervisedTask!WorkerStops,
         SupervisedTask!WorkerCancels, SupervisedTask!Unwanted
  <2>4. ClusterWork'
    BY <1>0, <1>25 DEF ClusterWork, SupTypes, SupervisedTask!WorkerStops, SupervisedTask!WorkerCancels,
         SupervisedTask!Unwanted
  <2>5. RemoteProcess'
    BY <1>0, <1>25 DEF RemoteProcess, SupTypes, SupervisedTask!WorkerStops,
         SupervisedTask!WorkerCancels, SupervisedTask!Unwanted
  <2> QED
    BY <2>1, <2>2, <2>3, <2>4, <2>5 DEF SupInv
<1> QED
  BY <1>0, <1>1, <1>2, <1>3, <1>4, <1>5, <1>6, <1>7, <1>8, <1>9, <1>10, <1>11, <1>12, <1>13, <1>14,
     <1>15, <1>16, <1>17, <1>18, <1>19, <1>20, <1>21, <1>22, <1>23, <1>24, <1>25
  DEF SupervisedTask!Next, SupervisedTask!TaskStep, SupervisedTask!ExecutorReturns, SupervisedTask!WorkerStep

LEMMA SupInvSuffices ==
  SupInv => /\ SupervisedTask!StopConfirmed /\ SupervisedTask!EffectIsTrue
            /\ SupervisedTask!CanceledOnlyIfAsked
BY DEF SupInv, SupTypes, CancelsExcused, ClusterWork, RemoteProcess, Excused,
     SupervisedTask!StopConfirmed, SupervisedTask!EffectIsTrue, SupervisedTask!CanceledOnlyIfAsked,
     SupervisedTask!Reported, SupervisedTask!None, SupervisedTask!Stages

LEMMA IdleSupervised == MCInit => SupInv
<1> SUFFICES ASSUME MCInit PROVE SupInv
  OBVIOUS
<1>1. CASE part = "supervised"
  BY <1>1, SupInit DEF MCInit
<1>2. CASE part # "supervised"
  BY <1>2 DEF MCInit, SupInv, SupTypes, AskersAtWork, CancelsExcused, ClusterWork, RemoteProcess,
       SupervisedTask!Stages, SupervisedTask!Workers
<1> QED
  BY <1>1, <1>2

\* What is said of a supervised task is true, however the executor, the workers, the control plane
\* and the contexts interleave; and an execution task that had its workspace to itself ran on what it
\* fetched and reports its own digest, whatever earlier tasks left there and whatever is pushed
\* meanwhile: for any number of tasks, repositories, branches and pushes.
THEOREM VerdictIsTrueHolds == MCSpec => []VerdictIsTrue
<1>1. MCInit => WorkInv /\ SupInv
  BY WorkInit, IdleSupervised DEF MCInit
<1>2. WorkInv /\ SupInv /\ [MCNext]_<<part, vars, bVars, sVars, oVars, wVars>> => WorkInv' /\ SupInv'
  <2> SUFFICES ASSUME WorkInv, SupInv, [MCNext]_<<part, vars, bVars, sVars, oVars, wVars>>
               PROVE  WorkInv' /\ SupInv'
    OBVIOUS
  <2>1. WorkInv'
    <3>1. CASE TaskWorkspaces!Next
      BY <3>1, WorkStep
    <3>2. CASE UNCHANGED wVars
      BY <3>2 DEF wVars, WorkInv, WorkTypes, OneClones, AloneAtWork, OnTrack, TaskWorkspaces!AtWork
    <3> QED
      BY <3>1, <3>2 DEF MCNext
  <2>2. SupInv'
    <3>1. CASE SupervisedTask!Next
      BY <3>1, SupStep
    <3>2. CASE UNCHANGED sVars
      BY <3>2 DEF sVars, SupInv, SupTypes, AskersAtWork, CancelsExcused, Excused, ClusterWork, RemoteProcess
    <3> QED
      BY <3>1, <3>2 DEF MCNext
  <2> QED
    BY <2>1, <2>2
<1>3. WorkInv /\ SupInv => VerdictIsTrue
  BY WorkInvSuffices, SupInvSuffices DEF VerdictIsTrue
<1> QED
  BY <1>1, <1>2, <1>3, PTL DEF MCSpec

-----------------------------------------------------------------------------
(* Builds: one at a time, and what each leaves behind.                     *)

\* What the provers need of the types.
BuildTypes ==
  /\ bLoop \in {"idle", "slot", "open"} /\ slot \in BOOLEAN /\ blocked \in BOOLEAN
  /\ containers \subseteq Builds /\ crashes \in Nat
  /\ bPc \in [Builds -> Buildpacks!Locations]
  /\ bCtx \in [Builds -> Buildpacks!Contexts] /\ bRun \in [Builds -> Buildpacks!Contexts]
  /\ bErr \in [Builds -> {"none", "failed", "canceled", "deadline"}]
  /\ unconfirmed \in [Builds -> BOOLEAN] /\ left \in [Builds -> BOOLEAN]
  /\ reported \in [Builds -> {"none", "canceling"} \cup Buildpacks!Final]
  /\ stopAsked \in [Builds -> BOOLEAN]

\* The slot is with the loop or with one task.
OneAtATime ==
  /\ bLoop # "idle" => slot /\ \A t \in Builds : bPc[t] \notin Buildpacks!InHand
  /\ \A t \in Builds : bPc[t] \in Buildpacks!InHand => slot
  /\ \A t, u \in Builds : bPc[t] \in Buildpacks!InHand /\ bPc[u] \in Buildpacks!InHand => t = u

\* The loop asks for a task only when it has read that the runner is not blocked.
GateRead == bLoop = "open" => ~blocked

\* Where a task has something in the daemon, and what it may have said of it.
DaemonKnown ==
  \A t \in Builds :
    /\ bPc[t] = "checkout" => containers = {}
    /\ bPc[t] \in {"build", "containers"} => containers \subseteq {t}
    /\ bPc[t] \in {"queued", "redeem", "check", "checkout", "cache"} => t \notin containers
    /\ bPc[t] \in Buildpacks!Monitored \cup {"queued", "redeem", "report"} => reported[t] = "none"
    /\ bPc[t] \in {"workspace", "snapshot", "report"} /\ ~unconfirmed[t] => t \notin containers
    /\ reported[t] \in Buildpacks!Final => t \notin containers

\* A build without an error has cleaned its workspace once it is past that.
WorkspaceKnown ==
  \A t \in Builds :
    /\ bPc[t] \in Buildpacks!Monitored => bRun[t] # "none"
    /\ bPc[t] \in {"snapshot", "report"} /\ bErr[t] = "none" => ~left[t]
    /\ bPc[t] \in {"queued", "redeem", "check"} => ~left[t]
    /\ reported[t] = "completed" => ~left[t]

\* Short of a crash, whatever is left belongs to a build in hand or blocks the runner.
LeftoversAccounted ==
  crashes = 0 /\ ~blocked =>
    \A t \in Builds :
      /\ t \in containers => bPc[t] \in {"build", "containers"}
      /\ left[t] => bPc[t] \in {"checkout", "build", "containers", "cache", "workspace"}

BuildInv == BuildTypes /\ OneAtATime /\ GateRead /\ DaemonKnown /\ WorkspaceKnown /\ LeftoversAccounted

LEMMA BuildInit == Buildpacks!Init => BuildInv
<1> SUFFICES ASSUME Buildpacks!Init PROVE BuildInv
  OBVIOUS
<1> USE DEF Buildpacks!InHand, Buildpacks!Monitored, Buildpacks!Locations, Buildpacks!Contexts, Buildpacks!Final, Buildpacks!Init
<1>1. BuildTypes
  BY DEF BuildTypes
<1>2. \A t \in Builds : bPc[t] = "queued" /\ reported[t] = "none" /\ ~left[t] /\ t \notin containers
  OBVIOUS
<1>3. OneAtATime /\ GateRead
  BY <1>2 DEF OneAtATime, GateRead
<1>4. DaemonKnown
  BY <1>2 DEF DaemonKnown
<1>5. WorkspaceKnown /\ LeftoversAccounted
  BY <1>2 DEF WorkspaceKnown, LeftoversAccounted
<1> QED
  BY <1>1, <1>3, <1>4, <1>5 DEF BuildInv

-----------------------------------------------------------------------------
(* Every step keeps the invariant of the builds.  The daemon and the workspaces are of   *)
(* one task because only one is in hand, and the loop with it.             *)

LEMMA BuildSteps == BuildInv /\ [Buildpacks!Next]_Buildpacks!vars => BuildInv'
<1> SUFFICES ASSUME BuildInv, [Buildpacks!Next]_Buildpacks!vars PROVE BuildInv'
  OBVIOUS
<1> USE DEF Buildpacks!InHand, Buildpacks!Monitored, Buildpacks!Locations, Buildpacks!Contexts, Buildpacks!Final, Buildpacks!loopVars, Buildpacks!daemonVars, Buildpacks!taskVars, Buildpacks!Goto,
            BuildInv, BuildTypes, OneAtATime, GateRead, DaemonKnown, WorkspaceKnown, LeftoversAccounted
<1>1. ASSUME Buildpacks!TakeSlot PROVE BuildInv'
  BY <1>1 DEF Buildpacks!TakeSlot
<1>2. ASSUME Buildpacks!Gate PROVE BuildInv'
  BY <1>2 DEF Buildpacks!Gate
<1>3. ASSUME Buildpacks!ClaimMissed PROVE BuildInv'
  BY <1>3 DEF Buildpacks!ClaimMissed
<1>4. ASSUME Buildpacks!Crash PROVE BuildInv'
  <2>1. crashes' \in Nat /\ crashes' # 0 /\ bPc' \in [Builds -> Buildpacks!Locations]
    BY <1>4 DEF Buildpacks!Crash
  <2>2. \A t \in Builds : bPc'[t] \notin Buildpacks!InHand /\ bPc'[t] \in {bPc[t], "lost"}
    BY <1>4 DEF Buildpacks!Crash
  <2>3. /\ bCtx' \in [Builds -> Buildpacks!Contexts] /\ bRun' \in [Builds -> Buildpacks!Contexts]
        /\ bLoop' = "idle" /\ slot' = FALSE /\ blocked' = FALSE
        /\ slot' \in BOOLEAN /\ blocked' \in BOOLEAN
        /\ UNCHANGED <<containers, bErr, unconfirmed, left, reported, stopAsked>>
    BY <1>4 DEF Buildpacks!Crash
  <2>4. BuildTypes'
    BY <2>1, <2>3
  <2>5. OneAtATime' /\ GateRead' /\ LeftoversAccounted'
    BY <2>1, <2>2, <2>3
  <2>6. DaemonKnown'
    BY <2>2, <2>3
  <2>7. WorkspaceKnown'
    BY <2>2, <2>3
  <2> QED
    BY <2>4, <2>5, <2>6, <2>7
<1>5. ASSUME Buildpacks!Recover PROVE BuildInv'
  BY <1>5 DEF Buildpacks!Recover
<1>6. ASSUME NEW t \in Builds, Buildpacks!Claim(t) PROVE BuildInv'
  BY <1>6 DEF Buildpacks!Claim
<1>7. ASSUME NEW t \in Builds, Buildpacks!Redeem(t) PROVE BuildInv'
  BY <1>7 DEF Buildpacks!Redeem
<1>8. ASSUME NEW t \in Builds, Buildpacks!CheckDaemon(t) PROVE BuildInv'
  BY <1>8 DEF Buildpacks!CheckDaemon
<1>9. ASSUME NEW t \in Builds, Buildpacks!CheckFails(t) PROVE BuildInv'
  BY <1>9 DEF Buildpacks!CheckFails
<1>10. ASSUME NEW t \in Builds, Buildpacks!Checkout(t) PROVE BuildInv'
  BY <1>10 DEF Buildpacks!Checkout
<1>11. ASSUME NEW t \in Builds, Buildpacks!CheckoutFails(t) PROVE BuildInv'
  BY <1>11 DEF Buildpacks!CheckoutFails
<1>12. ASSUME NEW t \in Builds, Buildpacks!ContainerStarts(t) PROVE BuildInv'
  BY <1>12 DEF Buildpacks!ContainerStarts
<1>13. ASSUME NEW t \in Builds, NEW e \in {"none", "failed"}, Buildpacks!BuildReturns(t, e) PROVE BuildInv'
  BY <1>13 DEF Buildpacks!BuildReturns
<1>14. ASSUME NEW t \in Builds, Buildpacks!CleanContainers(t) PROVE BuildInv'
  BY <1>14 DEF Buildpacks!CleanContainers
<1>15. ASSUME NEW t \in Builds, Buildpacks!CleanupUnconfirmed(t) PROVE BuildInv'
  BY <1>15 DEF Buildpacks!CleanupUnconfirmed
<1>16. ASSUME NEW t \in Builds, Buildpacks!TrimCache(t) PROVE BuildInv'
  <2>1. BuildTypes'
    BY <1>16 DEF Buildpacks!TrimCache, Buildpacks!Joined
  <2>2. OneAtATime'
    BY <1>16 DEF Buildpacks!TrimCache, Buildpacks!Joined
  <2>3. GateRead'
    BY <1>16 DEF Buildpacks!TrimCache, Buildpacks!Joined
  <2>4. DaemonKnown'
    BY <1>16 DEF Buildpacks!TrimCache, Buildpacks!Joined
  <2>5. WorkspaceKnown'
    BY <1>16 DEF Buildpacks!TrimCache, Buildpacks!Joined
  <2>6. LeftoversAccounted'
    BY <1>16 DEF Buildpacks!TrimCache, Buildpacks!Joined
  <2> QED
    BY <2>1, <2>2, <2>3, <2>4, <2>5, <2>6
<1>17. ASSUME NEW t \in Builds, Buildpacks!CleanWorkspace(t) PROVE BuildInv'
  <2>1. BuildTypes'
    BY <1>17 DEF Buildpacks!CleanWorkspace, Buildpacks!Joined
  <2>2. OneAtATime'
    BY <1>17 DEF Buildpacks!CleanWorkspace, Buildpacks!Joined
  <2>3. GateRead'
    BY <1>17 DEF Buildpacks!CleanWorkspace, Buildpacks!Joined
  <2>4. DaemonKnown'
    BY <1>17 DEF Buildpacks!CleanWorkspace, Buildpacks!Joined
  <2>5. WorkspaceKnown'
    BY <1>17 DEF Buildpacks!CleanWorkspace, Buildpacks!Joined
  <2>6. LeftoversAccounted'
    BY <1>17 DEF Buildpacks!CleanWorkspace, Buildpacks!Joined
  <2> QED
    BY <2>1, <2>2, <2>3, <2>4, <2>5, <2>6
<1>18. ASSUME NEW t \in Builds, Buildpacks!Snapshot(t) PROVE BuildInv'
  BY <1>18 DEF Buildpacks!Snapshot
<1>19. ASSUME NEW t \in Builds, Buildpacks!Report(t) PROVE BuildInv'
  BY <1>19 DEF Buildpacks!Report, Buildpacks!Status
<1>20. ASSUME NEW t \in Builds, Buildpacks!ReleaseSlot(t) PROVE BuildInv'
  <2>1. BuildTypes'
    BY <1>20 DEF Buildpacks!ReleaseSlot
  <2>2. OneAtATime'
    BY <1>20 DEF Buildpacks!ReleaseSlot
  <2>3. GateRead'
    BY <1>20 DEF Buildpacks!ReleaseSlot
  <2>4. DaemonKnown'
    BY <1>20 DEF Buildpacks!ReleaseSlot
  <2>5. WorkspaceKnown'
    BY <1>20 DEF Buildpacks!ReleaseSlot
  <2>6. LeftoversAccounted'
    BY <1>20 DEF Buildpacks!ReleaseSlot
  <2> QED
    BY <2>1, <2>2, <2>3, <2>4, <2>5, <2>6
<1>21. ASSUME NEW t \in Builds, Buildpacks!StopAsked(t) PROVE BuildInv'
  BY <1>21 DEF Buildpacks!StopAsked
<1>22. ASSUME NEW t \in Builds, Buildpacks!MonitorCancels(t) PROVE BuildInv'
  BY <1>22 DEF Buildpacks!MonitorCancels, Buildpacks!EndRun
<1>23. ASSUME NEW t \in Builds, NEW why \in {"canceled", "deadline"}, Buildpacks!EndTask(t, why) PROVE BuildInv'
  BY <1>23 DEF Buildpacks!EndTask, Buildpacks!EndRun
<1>24. CASE UNCHANGED Buildpacks!vars
  BY <1>24 DEF Buildpacks!vars
<1> HIDE DEF BuildInv, BuildTypes, OneAtATime, GateRead, DaemonKnown, WorkspaceKnown, LeftoversAccounted
<1> QED
  BY <1>1, <1>2, <1>3, <1>4, <1>5, <1>6, <1>7, <1>8, <1>9, <1>10, <1>11, <1>12,
    <1>13, <1>14, <1>15, <1>16, <1>17, <1>18, <1>19, <1>20, <1>21, <1>22, <1>23, <1>24 DEF Buildpacks!Next, Buildpacks!TaskStep, Buildpacks!Deadline

\* Short of what the other parts do, which is nothing to a build.
LEMMA BuildPart ==
  /\ MCInit => BuildInv
  /\ BuildInv /\ [MCNext]_<<part, vars, bVars, sVars, oVars, wVars>> => BuildInv'
<1>1. BuildInv /\ UNCHANGED bVars => BuildInv'
  BY BuildSteps DEF bVars, Buildpacks!vars, Buildpacks!loopVars, Buildpacks!daemonVars, Buildpacks!taskVars
<1> QED
  BY <1>1, BuildInit, BuildSteps DEF MCInit, MCNext

\* What cleanupBuildpacksContainers removes by force is the build's own; a task that
\* executeBuildpacksTask has reported as over has no container left, and one reported as
\* completed no credentials either; what a build leaves behind has set buildpacksBlocked.
LEMMA BuildConfined ==
  BuildInv => Buildpacks!BuildOwnsDaemon /\ Buildpacks!OverMeansStopped /\ Buildpacks!LeftoversBlock
<1>1. BuildInv => Buildpacks!BuildOwnsDaemon
  BY DEF BuildInv, DaemonKnown, Buildpacks!BuildOwnsDaemon
<1>2. BuildInv => Buildpacks!OverMeansStopped
  BY DEF BuildInv, DaemonKnown, WorkspaceKnown, Buildpacks!OverMeansStopped
<1>3. BuildInv => Buildpacks!LeftoversBlock
  BY DEF BuildInv, BuildTypes, LeftoversAccounted, Buildpacks!LeftoversBlock, Buildpacks!InHand, Buildpacks!Monitored
<1> QED
  BY <1>1, <1>2, <1>3

LEMMA BuildClaims ==
ASSUME BuildInv, Buildpacks!Next, blocked, NEW t \in Builds, bPc[t] = "queued"
PROVE  bPc'[t] = "queued"
<1>1. bLoop # "open"
  BY DEF BuildInv, GateRead
<1>2. bPc \in [Builds -> Buildpacks!Locations]
  BY DEF BuildInv, BuildTypes
<1>3. ASSUME NEW u \in Builds, bPc[u] # "queued", NEW l, Buildpacks!Goto(u, l) PROVE bPc'[t] = "queued"
  BY <1>2, <1>3 DEF Buildpacks!Goto
<1>4. ASSUME UNCHANGED bPc PROVE bPc'[t] = "queued"
  BY <1>4
<1>5. CASE Buildpacks!TakeSlot \/ Buildpacks!Gate \/ Buildpacks!ClaimMissed \/ Buildpacks!Recover
  BY <1>4, <1>5 DEF Buildpacks!TakeSlot, Buildpacks!Gate, Buildpacks!ClaimMissed, Buildpacks!Recover
<1>6. CASE Buildpacks!Crash
  BY <1>6 DEF Buildpacks!Crash, Buildpacks!InHand, Buildpacks!Monitored
<1>7. ASSUME NEW u \in Builds, Buildpacks!TaskStep(u) \/ \E e \in {"none", "failed"} : Buildpacks!BuildReturns(u, e)
      PROVE  bPc'[t] = "queued"
  BY <1>3, <1>7 DEF Buildpacks!TaskStep, Buildpacks!Redeem, Buildpacks!CheckDaemon, Buildpacks!CheckFails, Buildpacks!Checkout, Buildpacks!CheckoutFails, Buildpacks!BuildReturns,
    Buildpacks!CleanContainers, Buildpacks!CleanupUnconfirmed, Buildpacks!TrimCache, Buildpacks!CleanWorkspace, Buildpacks!Snapshot, Buildpacks!Report, Buildpacks!ReleaseSlot
<1>8. ASSUME NEW u \in Builds,
             \/ Buildpacks!ContainerStarts(u) \/ Buildpacks!StopAsked(u) \/ Buildpacks!MonitorCancels(u)
             \/ Buildpacks!EndTask(u, "canceled") \/ Buildpacks!Deadline(u)
      PROVE  bPc'[t] = "queued"
  BY <1>4, <1>8 DEF Buildpacks!ContainerStarts, Buildpacks!StopAsked, Buildpacks!MonitorCancels, Buildpacks!EndTask, Buildpacks!Deadline
<1> QED
  BY <1>1, <1>5, <1>6, <1>7, <1>8 DEF Buildpacks!Next, Buildpacks!Claim

-----------------------------------------------------------------------------
(* The paths of a source, and the order of the checkouts.                  *)

\* The first i steps of a path.
LEMMA PathShape ==
  ASSUME NEW p \in BuildSources!Paths
  PROVE  /\ p \in Seq(Nat) /\ Len(p) \in 0..2
         /\ \A i \in 1..Len(p) : p[i] \in Names /\ p[i] \in Nat
<1>1. ASSUME p = <<>> PROVE p \in Seq(Nat) /\ Len(p) = 0
  BY <1>1
<1>2. ASSUME NEW n \in Names, p = <<n>> PROVE p \in Seq(Nat) /\ Len(p) = 1 /\ p[1] = n
  BY <1>2, SourcesAssumption
<1>3. ASSUME NEW n \in Names, NEW m \in Names, p = <<n, m>>
      PROVE  p \in Seq(Nat) /\ Len(p) = 2 /\ p[1] = n /\ p[2] = m
  BY <1>3, SourcesAssumption
<1> QED
  BY <1>1, <1>2, <1>3, SourcesAssumption DEF BuildSources!Paths, BuildSources!Root

LEMMA PrefixIs ==
  ASSUME NEW p \in Seq(Nat), NEW q \in Seq(Nat)
  PROVE  BuildSources!IsPrefix(p, q) <=> Len(p) <= Len(q) /\ \A i \in 1..Len(p) : p[i] = q[i]
<1>1. ASSUME Len(p) <= Len(q) PROVE SubSeq(p, 1, Len(p)) = SubSeq(q, 1, Len(p)) <=> \A i \in 1..Len(p) : p[i] = q[i]
  BY <1>1
<1> QED
  BY <1>1 DEF BuildSources!IsPrefix

LEMMA SubSeqIs ==
  ASSUME NEW p \in Seq(Nat), NEW q \in Seq(Nat), NEW k \in Nat, k <= Len(p), k <= Len(q)
  PROVE  SubSeq(p, 1, k) = SubSeq(q, 1, k) <=> \A i \in 1..k : p[i] = q[i]
  OBVIOUS

LEMMA PathEqual ==
  ASSUME NEW p \in Seq(Nat), NEW q \in Seq(Nat), Len(p) = Len(q), \A i \in 1..Len(p) : p[i] = q[i]
  PROVE  p = q
  BY SeqEqual

\* The two steps of a path as numbers, which order the paths as their strings do.
Step1(p) == IF Len(p) = 0 THEN 0 ELSE p[1] + 1
Step2(p) == IF Len(p) < 2 THEN 0 ELSE p[2] + 1

LEMMA StepsOf ==
  ASSUME NEW p \in BuildSources!Paths
  PROVE  \/ Len(p) = 0 /\ Step1(p) = 0 /\ Step2(p) = 0
         \/ Len(p) = 1 /\ p[1] \in Nat /\ Step1(p) = p[1] + 1 /\ Step2(p) = 0
         \/ Len(p) = 2 /\ p[1] \in Nat /\ p[2] \in Nat /\ Step1(p) = p[1] + 1 /\ Step2(p) = p[2] + 1
<1>1. Len(p) \in 0..2 /\ \A i \in 1..Len(p) : p[i] \in Nat
  BY PathShape
<1>2. CASE Len(p) = 0
  BY <1>2 DEF Step1, Step2
<1>3. CASE Len(p) = 1
  <2>1. p[1] \in Nat
    BY <1>1, <1>3
  <2> QED
    BY <1>3, <2>1 DEF Step1, Step2
<1>4. CASE Len(p) = 2
  <2>1. p[1] \in Nat /\ p[2] \in Nat
    BY <1>1, <1>4
  <2> QED
    BY <1>4, <2>1 DEF Step1, Step2
<1> QED
  BY <1>1, <1>2, <1>3, <1>4

LEMMA BeforeIs ==
  ASSUME NEW p \in BuildSources!Paths, NEW q \in BuildSources!Paths
  PROVE  /\ BuildSources!Before(p, q) <=>
              Step1(p) < Step1(q) \/ (Step1(p) = Step1(q) /\ Step2(p) < Step2(q))
         /\ Step1(p) \in Nat /\ Step2(p) \in Nat
         /\ Step1(p) = Step1(q) /\ Step2(p) = Step2(q) => p = q
<1>1. p \in Seq(Nat) /\ Len(p) \in 0..2 /\ q \in Seq(Nat) /\ Len(q) \in 0..2
  BY PathShape
<1>2. Step1(p) \in Nat /\ Step2(p) \in Nat /\ Step1(q) \in Nat /\ Step2(q) \in Nat
  BY StepsOf
<1> DEFINE Agree == \A i \in 1..Len(p) : p[i] = q[i]
<1>3. Len(p) = Len(q) /\ Agree => p = q
  BY <1>1, PathEqual
<1>4. DOMAIN p = 1..Len(p) /\ DOMAIN q = 1..Len(q)
  BY <1>1
<1>5. ASSUME NEW i \in 1..Len(p), i <= Len(q)
      PROVE  SubSeq(p, 1, i - 1) = SubSeq(q, 1, i - 1) <=> \A j \in 1..i - 1 : p[j] = q[j]
  <2>1. i - 1 \in Nat /\ i - 1 <= Len(p) /\ i - 1 <= Len(q)
    BY <1>1, <1>5
  <2> QED
    BY <1>1, <2>1, SubSeqIs
<1>6. BuildSources!IsPrefix(p, q) <=> Len(p) <= Len(q) /\ Agree
  BY <1>1, PrefixIs
<1>7. BuildSources!Before(p, q) <=>
        \/ p # q /\ Len(p) <= Len(q) /\ Agree
        \/ \E i \in 1..Len(p) : i <= Len(q) /\ (\A j \in 1..i - 1 : p[j] = q[j]) /\ p[i] < q[i]
  <2>1. DOMAIN p \cap DOMAIN q = {i \in 1..Len(p) : i <= Len(q)}
    BY <1>1, <1>4
  <2> HIDE DEF Agree
  <2> QED
    BY <1>5, <1>6, <2>1 DEF BuildSources!Before
<1>8. /\ Len(p) = 0 => Agree
      /\ Len(p) = 1 => (Agree <=> p[1] = q[1])
      /\ Len(p) = 2 => (Agree <=> p[1] = q[1] /\ p[2] = q[2])
  BY <1>1
<1> DEFINE At(i) == i <= Len(q) /\ (\A j \in 1..i - 1 : p[j] = q[j]) /\ p[i] < q[i]
<1>9. /\ Len(p) = 0 => ~\E i \in 1..Len(p) : At(i)
      /\ Len(p) = 1 => ((\E i \in 1..Len(p) : At(i)) <=> At(1))
      /\ Len(p) = 2 => ((\E i \in 1..Len(p) : At(i)) <=> At(1) \/ At(2))
  <2>1. /\ Len(p) = 0 => 1..Len(p) = {}
        /\ Len(p) = 1 => 1..Len(p) = {1}
        /\ Len(p) = 2 => 1..Len(p) = {1, 2}
    OBVIOUS
  <2> HIDE DEF At
  <2> QED
    BY <2>1
<1>10. /\ At(1) <=> 1 <= Len(q) /\ p[1] < q[1]
       /\ At(2) <=> 2 <= Len(q) /\ p[1] = q[1] /\ p[2] < q[2]
  BY <1>1
<1>11. p = q => Len(p) = Len(q)
  OBVIOUS
<1>12. BuildSources!Before(p, q) <=>
         \/ p # q /\ Len(p) <= Len(q) /\ Agree
         \/ Len(p) \in {1, 2} /\ 1 <= Len(q) /\ p[1] < q[1]
         \/ Len(p) = 2 /\ 2 <= Len(q) /\ p[1] = q[1] /\ p[2] < q[2]
  <2> HIDE DEF Agree, At
  <2>1. (\E i \in 1..Len(p) : At(i)) <=>
          \/ Len(p) \in {1, 2} /\ 1 <= Len(q) /\ p[1] < q[1]
          \/ Len(p) = 2 /\ 2 <= Len(q) /\ p[1] = q[1] /\ p[2] < q[2]
    BY <1>1, <1>9, <1>10
  <2> QED
    BY <1>7, <2>1 DEF At
<1> HIDE DEF Agree, At
<1>13. Step1(p) = Step1(q) /\ Step2(p) = Step2(q) => p = q
  BY StepsOf, <1>3, <1>8
<1>14. BuildSources!Before(p, q) <=>
         Step1(p) < Step1(q) \/ (Step1(p) = Step1(q) /\ Step2(p) < Step2(q))
  <2>1. /\ Len(p) = 0 \/ Len(p) = 1 \/ Len(p) = 2
        /\ Len(q) = 0 \/ Len(q) = 1 \/ Len(q) = 2
    BY <1>1
  <2>2. CASE Len(p) = 0
    <3>1. Step1(p) = 0 /\ Step2(p) = 0
      BY <2>2, StepsOf
    <3>2. \/ Len(q) = 0 /\ Step1(q) = 0 /\ Step2(q) = 0
          \/ Len(q) # 0 /\ Step1(q) > 0
      BY StepsOf
    <3> QED
      BY <2>1, <2>2, <3>1, <3>2, <1>3, <1>8, <1>11, <1>12
  <2>3. CASE Len(p) = 1
    <3>1. p[1] \in Nat /\ Step1(p) = p[1] + 1 /\ Step2(p) = 0
      BY <2>3, StepsOf
    <3>2. \/ Len(q) = 0 /\ Step1(q) = 0 /\ Step2(q) = 0
          \/ Len(q) = 1 /\ q[1] \in Nat /\ Step1(q) = q[1] + 1 /\ Step2(q) = 0
          \/ Len(q) = 2 /\ q[1] \in Nat /\ Step1(q) = q[1] + 1 /\ Step2(q) > 0
      BY StepsOf
    <3> QED
      BY <2>3, <3>1, <3>2, <1>3, <1>8, <1>11, <1>12
  <2>4. CASE Len(p) = 2
    <3>1. p[1] \in Nat /\ p[2] \in Nat /\ Step1(p) = p[1] + 1 /\ Step2(p) = p[2] + 1
      BY <2>4, StepsOf
    <3>2. \/ Len(q) = 0 /\ Step1(q) = 0 /\ Step2(q) = 0
          \/ Len(q) = 1 /\ q[1] \in Nat /\ Step1(q) = q[1] + 1 /\ Step2(q) = 0
          \/ Len(q) = 2 /\ q[1] \in Nat /\ q[2] \in Nat /\ Step1(q) = q[1] + 1 /\ Step2(q) = q[2] + 1
      BY StepsOf
    <3> QED
      BY <2>4, <3>1, <3>2, <1>3, <1>8, <1>11, <1>12
  <2> QED
    BY <2>1, <2>2, <2>3, <2>4
<1> QED
  BY <1>2, <1>13, <1>14

-----------------------------------------------------------------------------
(* What is built and published                                             *)

\* What the steps of a build leave for the later ones.
ImageInv ==
  /\ step \notin {"validate", "over"} => frozen = "configured"
  /\ environment \cap BuildSources!Withheld = {}
  /\ given \cap ({"builder"} \X BuildSources!Withheld) = {}
  /\ exported # "none" => exported = "approved" /\ frozen = "configured"
  /\ phase \in 0..5
  /\ step \notin {"phases", "verify", "trim", "over"} => phase = 0
  /\ step = "phases" =>
       /\ phase \in 1..4 => analyzed = "approved"
       /\ phase = 5 => exported = "approved"
  /\ step = "verify" => exported = "approved"
  /\ step \notin {"trim", "over"} => result = "none"
  /\ result # "none" => result = "ours" /\ exported = "approved" /\ sbom = "files"

LEMMA ImageSteps == ImageInv /\ [BuildSources!Next]_(BuildSources!vars) => ImageInv'
<1> SUFFICES ASSUME ImageInv, [BuildSources!Next]_(BuildSources!vars) PROVE ImageInv'
  OBVIOUS
<1>1. CASE BuildSources!Validate
  BY <1>1 DEF ImageInv, BuildSources!Validate, BuildSources!Frozen, BuildSources!buildVars
<1>2. CASE BuildSources!TrimCache \/ BuildSources!TrimFails
  BY <1>2 DEF ImageInv, BuildSources!TrimCache, BuildSources!TrimFails, BuildSources!buildVars
<1>3. CASE BuildSources!Fails
  BY <1>3 DEF ImageInv, BuildSources!Fails, BuildSources!buildVars
<1>4. CASE BuildSources!MakeWorkspace \/ BuildSources!ListSources
  BY <1>4 DEF ImageInv, BuildSources!MakeWorkspace, BuildSources!ListSources, BuildSources!buildVars
<1>5. CASE BuildSources!PrepareEnvironment
  BY <1>5 DEF ImageInv, BuildSources!PrepareEnvironment, BuildSources!BuildSecrets, BuildSources!buildVars
<1>6. CASE BuildSources!Checkout
  BY <1>6 DEF ImageInv, BuildSources!Checkout, BuildSources!buildVars
<1>7. CASE BuildSources!StartBuild
  BY <1>7 DEF ImageInv, BuildSources!StartBuild, BuildSources!buildVars
<1>8. CASE BuildSources!RunPhase
  <2> DEFINE name == BuildSources!Phases[phase + 1]
  <2>1. phase \in 0..4 /\ phase' = phase + 1 /\ step = "phases"
    BY <1>8 DEF ImageInv, BuildSources!RunPhase, BuildSources!Phases
  <2>2. /\ name = "exporter" <=> phase = 4
        /\ name = "analyzer" <=> phase = 0
    BY <2>1 DEF BuildSources!Phases
  <2>3. UNCHANGED <<frozen, environment, step, result>>
    BY <1>8 DEF BuildSources!RunPhase
  <2>4. phase # 4 => analyzed' = "approved" /\ UNCHANGED exported
    BY <1>8, <2>2 DEF BuildSources!RunPhase, BuildSources!AnalyzedKept
  <2>5. phase = 4 => exported' = analyzed
    BY <1>8, <2>2 DEF BuildSources!RunPhase
  <2>6. given' \cap ({"builder"} \X BuildSources!Withheld) = {}
    <3> DEFINE secret == IF BuildSources!Registry(name) THEN secrets \cap {"REGISTRY_AUTH"} ELSE environment
    <3>1. given' = given \cup {BuildSources!Image(name)} \X secret
      BY <1>8 DEF BuildSources!RunPhase
    <3>2. BuildSources!Image(name) = "builder" => secret = environment
      BY DEF BuildSources!Image
    <3> HIDE DEF secret
    <3>3. given \cap ({"builder"} \X BuildSources!Withheld) = {} /\ environment \cap BuildSources!Withheld = {}
      BY DEF ImageInv
    <3> QED
      BY <3>1, <3>2, <3>3
  <2> HIDE DEF name
  <2> QED
    BY <2>1, <2>3, <2>4, <2>5, <2>6 DEF ImageInv
<1>9. CASE BuildSources!PhasesDone
  BY <1>9 DEF ImageInv, BuildSources!PhasesDone, BuildSources!Phases, BuildSources!buildVars
<1>10. CASE BuildSources!Pack
  <2>1. given' \cap ({"builder"} \X BuildSources!Withheld) = {}
    BY <1>10 DEF ImageInv, BuildSources!Pack
  <2> QED
    BY <1>10, <2>1 DEF ImageInv, BuildSources!Pack
<1>11. CASE BuildSources!TagMoves
  BY <1>11 DEF ImageInv, BuildSources!TagMoves
<1>12. CASE BuildSources!Verify
  BY <1>12 DEF ImageInv, BuildSources!Verify, BuildSources!TagIsReported
<1>13. CASE UNCHANGED BuildSources!vars
  BY <1>13 DEF ImageInv, BuildSources!vars, BuildSources!buildVars
<1> QED
  BY <1>1, <1>2, <1>3, <1>4, <1>5, <1>6, <1>7, <1>8, <1>9, <1>10, <1>11, <1>12, <1>13 DEF BuildSources!Next

-----------------------------------------------------------------------------
(* The cache of the daemon                                                 *)

CacheInv ==
  /\ cache = [v \in DOMAIN cache |-> cache[v]]
  /\ step \in {"workspace", "environment", "list", "sources"} /\ runtime = "pack" =>
       BuildSources!Size(cache) <= CacheLimit
  /\ \A volumes \in Caches : DOMAIN volumes \ DOMAIN cache \subseteq CacheNames

\* A cache without volumes takes no room.
LEMMA NothingTakesNoRoom ==
  ASSUME NEW volumes, BuildSources!Owned(volumes) = {}
  PROVE  BuildSources!Size(volumes) = 0
  BY DEF BuildSources!Size, BuildSources!MapThenSumSet, BuildSources!MapThenFoldSet

\* What is evicted is of the cache, and what stays fits.
LEMMA Trimmed ==
  ASSUME CacheInv, NEW gone, gone \subseteq BuildSources!Evictions(cache)
  PROVE  LET kept == [v \in DOMAIN cache \ gone |-> cache[v]]
         IN  /\ kept = [v \in DOMAIN kept |-> kept[v]]
             /\ \A volumes \in Caches : DOMAIN volumes \ DOMAIN kept \subseteq CacheNames
             /\ gone = BuildSources!Evictions(cache) => BuildSources!Size(kept) <= CacheLimit
<1> DEFINE kept == [v \in DOMAIN cache \ gone |-> cache[v]]
<1>1. DOMAIN kept = DOMAIN cache \ gone /\ gone \subseteq CacheNames
  BY DEF BuildSources!Evictions, BuildSources!Owned
<1>2. kept = [v \in DOMAIN kept |-> kept[v]]
  BY <1>1
<1>3. \A volumes \in Caches : DOMAIN volumes \ DOMAIN kept \subseteq CacheNames
  BY <1>1 DEF CacheInv
<1>4. ASSUME gone = BuildSources!Evictions(cache) PROVE BuildSources!Size(kept) <= CacheLimit
  <2>1. CASE BuildSources!Size(cache) <= CacheLimit
    <3>1. gone = {}
      BY <1>4, <2>1 DEF BuildSources!Evictions
    <3>2. kept = cache
      BY <3>1 DEF CacheInv
    <3> QED
      BY <2>1, <3>2
  <2>2. CASE ~(BuildSources!Size(cache) <= CacheLimit)
    <3>1. gone = CacheNames \cap DOMAIN cache
      BY <1>4, <2>2 DEF BuildSources!Evictions, BuildSources!Owned
    <3>2. CacheNames \cap DOMAIN kept = {}
      BY <1>1, <3>1
    <3> HIDE DEF kept
    <3>3. BuildSources!Size(kept) = 0
      BY <3>2, NothingTakesNoRoom DEF BuildSources!Owned
    <3> QED
      BY <3>3, SourcesAssumption
  <2> QED
    BY <2>1, <2>2
<1> QED
  BY <1>2, <1>3, <1>4

LEMMA CacheSteps == CacheInv /\ [BuildSources!Next]_(BuildSources!vars) => CacheInv'
<1> SUFFICES ASSUME CacheInv, [BuildSources!Next]_(BuildSources!vars) PROVE CacheInv'
  OBVIOUS
<1>1. ASSUME UNCHANGED cache, runtime' = runtime,
             step' \in {"workspace", "environment", "list", "sources"} =>
               step \in {"workspace", "environment", "list", "sources"}
      PROVE  CacheInv'
  <2>1. BuildSources!Size(cache)' = BuildSources!Size(cache)
    BY <1>1 DEF BuildSources!Size, BuildSources!Owned, BuildSources!MapThenSumSet, BuildSources!MapThenFoldSet
  <2> QED
    BY <1>1, <2>1 DEF CacheInv
<1>2. CASE BuildSources!TrimCache
  <2>1. CASE runtime = "podman"
    <3>1. UNCHANGED cache /\ runtime' = "podman"
      BY <1>2, <2>1 DEF BuildSources!TrimCache
    <3> QED
      BY <3>1 DEF CacheInv
  <2>2. CASE runtime # "podman"
    <3>1. cache' = [v \in DOMAIN cache \ BuildSources!Evictions(cache) |-> cache[v]]
      BY <1>2, <2>2 DEF BuildSources!TrimCache
    <3> DEFINE kept == [v \in DOMAIN cache \ BuildSources!Evictions(cache) |-> cache[v]]
    <3>2. /\ kept = [v \in DOMAIN kept |-> kept[v]]
          /\ \A volumes \in Caches : DOMAIN volumes \ DOMAIN kept \subseteq CacheNames
          /\ BuildSources!Size(kept) <= CacheLimit
      BY Trimmed
    <3>3. cache' = kept
      BY <3>1
    <3> HIDE DEF kept
    <3>4. BuildSources!Size(cache)' <= CacheLimit
      BY <3>2, <3>3 DEF BuildSources!Size, BuildSources!Owned, BuildSources!MapThenSumSet, BuildSources!MapThenFoldSet
    <3> QED
      BY <3>2, <3>3, <3>4 DEF CacheInv
  <2> QED
    BY <2>1, <2>2
<1>3. CASE BuildSources!TrimFails
  <2>1. step' = "over"
    BY <1>3 DEF BuildSources!TrimFails
  <2>2. PICK gone \in SUBSET BuildSources!Evictions(cache) : cache' = [v \in DOMAIN cache \ gone |-> cache[v]]
    BY <1>3 DEF BuildSources!TrimFails
  <2> DEFINE kept == [v \in DOMAIN cache \ gone |-> cache[v]]
  <2>3. /\ kept = [v \in DOMAIN kept |-> kept[v]]
        /\ \A volumes \in Caches : DOMAIN volumes \ DOMAIN kept \subseteq CacheNames
    BY Trimmed
  <2>4. cache' = kept
    BY <2>2
  <2> HIDE DEF kept
  <2> QED
    BY <2>1, <2>3, <2>4 DEF CacheInv
<1>4. CASE BuildSources!Pack
  <2>1. step' = "verify" /\ (cache' = cache \/ \E v \in DOMAIN cache : cache' = [cache EXCEPT ![v].size = @ + 1])
    BY <1>4 DEF BuildSources!Pack, BuildSources!Owned
  <2>2. DOMAIN cache' = DOMAIN cache /\ cache' = [v \in DOMAIN cache' |-> cache'[v]]
    BY <2>1 DEF CacheInv
  <2> QED
    BY <2>1, <2>2 DEF CacheInv
<1>5. CASE BuildSources!Validate
  BY <1>1, <1>5 DEF CacheInv, BuildSources!Validate
<1>6. CASE BuildSources!Fails
  BY <1>1, <1>6 DEF BuildSources!Fails
<1>7. CASE BuildSources!MakeWorkspace
  BY <1>1, <1>7 DEF BuildSources!MakeWorkspace
<1>8. CASE BuildSources!PrepareEnvironment
  BY <1>1, <1>8 DEF BuildSources!PrepareEnvironment
<1>9. CASE BuildSources!ListSources
  BY <1>1, <1>9 DEF BuildSources!ListSources
<1>10. CASE BuildSources!Checkout
  BY <1>1, <1>10 DEF BuildSources!Checkout
<1>11. CASE BuildSources!StartBuild
  BY <1>1, <1>11 DEF BuildSources!StartBuild
<1>12. CASE BuildSources!RunPhase
  BY <1>1, <1>12 DEF BuildSources!RunPhase
<1>13. CASE BuildSources!PhasesDone \/ BuildSources!TagMoves \/ BuildSources!Verify
  BY <1>1, <1>13 DEF BuildSources!PhasesDone, BuildSources!TagMoves, BuildSources!Verify
<1>14. CASE UNCHANGED BuildSources!vars
  BY <1>1, <1>14 DEF BuildSources!vars
<1> QED
  BY <1>2, <1>3, <1>4, <1>5, <1>6, <1>7, <1>8, <1>9, <1>10, <1>11, <1>12, <1>13, <1>14 DEF BuildSources!Next

-----------------------------------------------------------------------------
(* The sources                                                             *)

AllOf(l) == {l[i] : i \in DOMAIN l}
LeftToDo == {todo[i] : i \in DOMAIN todo}

\* A checkout has been made, nothing has disturbed it, and its submodules are in the list.
InPlace(c) ==
  /\ from[c.path] = <<c.repo, c.ref>>
  /\ \A p \in BuildSources!Paths : BuildSources!IsPrefix(p, c.path) => disk[p] = "full"
  /\ \A p \in BuildSources!Under(c.path) :
       LET entry == Tree[<<c.repo, c.ref>>][BuildSources!Last(p)]
       IN  entry \in {"file", "dir", "link"} => disk[p] = (IF entry = "dir" THEN "full" ELSE entry)
  /\ c.submodules => BuildSources!SubmodulesMatch(c)

Sourced == step = "sources" \/ BuildSources!Building

SourceInv ==
  /\ step # "over" => list \in Lists /\ DOMAIN from = BuildSources!Paths
  /\ Sourced => /\ BuildSources!Accepted(list) /\ todo \in Seq(AllOf(list))
                /\ \A c \in AllOf(list) \ LeftToDo : InPlace(c)
  /\ BuildSources!Building => todo = <<>>

\* A list of checkouts has finitely many of them, one for each path.
LEMMA ListFacts ==
  ASSUME NEW l \in Lists, BuildSources!Accepted(l)
  PROVE  /\ IsFiniteSet(AllOf(l))
         /\ \A c \in AllOf(l) : c.path \in BuildSources!Paths /\ c.ref \in SourceCommits
         /\ \A c, d \in AllOf(l) : c.path = d.path => c = d
<1>1. l \in Seq(AllOf(l))
  BY SourcesAssumption DEF AllOf
<1>2. IsFiniteSet(AllOf(l))
  BY <1>1, FiniteMembers DEF AllOf
<1> QED
  BY <1>2 DEF AllOf, BuildSources!Accepted

LEMMA SameCount == \A S : BuildSources!Cardinality(S) = Cardinality(S)
  BY Zenon DEF BuildSources!Cardinality, Cardinality

\* The order of the checkouts holds all of them.
LEMMA ParentsFirstIs ==
  ASSUME NEW l \in Lists, BuildSources!Accepted(l)
  PROVE  LET q == BuildSources!ParentsFirst(AllOf(l))
         IN  q \in Seq(AllOf(l)) /\ \A c \in AllOf(l) : \E i \in DOMAIN q : q[i] = c
<1> DEFINE S == AllOf(l)
           R == {e \in S \X S : BuildSources!Before(e[1].path, e[2].path)}
           q == BuildSources!ParentsFirst(S)
<1>1. \A c \in S : c.path \in BuildSources!Paths
  BY ListFacts
<1>2. \A c, d \in S : c.path = d.path => c = d
  BY ListFacts
<1>3. \A c, d \in S : <<c, d>> \in R <=> BuildSources!Before(c.path, d.path)
  OBVIOUS
<1>4. Orders(R, S)
  <2> HIDE DEF S, R
  <2>1. ASSUME NEW c \in S PROVE <<c, c>> \notin R
    <3>1. Step1(c.path) \in Nat /\ Step2(c.path) \in Nat
      BY <1>1, BeforeIs
    <3>2. ~BuildSources!Before(c.path, c.path)
      BY <1>1, <3>1, BeforeIs
    <3> QED
      BY <1>3, <3>2
  <2>2. ASSUME NEW c \in S, NEW d \in S, c # d PROVE <<c, d>> \in R \/ <<d, c>> \in R
    <3>1. c.path # d.path
      BY <1>2, <2>2
    <3>2. BuildSources!Before(c.path, d.path) \/ BuildSources!Before(d.path, c.path)
      BY <1>1, <3>1, BeforeIs
    <3> QED
      BY <1>3, <3>2
  <2>3. ASSUME NEW c \in S, NEW d \in S, NEW e \in S, <<c, d>> \in R, <<d, e>> \in R PROVE <<c, e>> \in R
    <3>1. BuildSources!Before(c.path, d.path) /\ BuildSources!Before(d.path, e.path)
      BY <1>3, <2>3
    <3>2. BuildSources!Before(c.path, e.path)
      BY <1>1, <3>1, BeforeIs
    <3> QED
      BY <1>3, <3>2
  <2> QED
    BY <2>1, <2>2, <2>3 DEF Orders
<1>5. q = Ranked(S, R)
  <2>1. \A c \in S : {d \in S : BuildSources!Before(d.path, c.path)} = Earlier(S, R, c)
    BY <1>3 DEF Earlier
  <2> HIDE DEF S, R
  <2>2. \A c \in S : BuildSources!Cardinality({d \in S : BuildSources!Before(d.path, c.path)}) = Rank(S, R, c)
    BY <2>1, SameCount DEF Rank
  <2>3. BuildSources!Cardinality(S) = Cardinality(S)
    BY SameCount
  <2> QED
    BY <2>2, <2>3 DEF BuildSources!ParentsFirst, Ranked
<1>6. IsFiniteSet(S)
  BY ListFacts
<1> HIDE DEF S, R, q
<1>7. /\ q \in Seq(S) /\ Len(q) = Cardinality(S)
      /\ \A e \in S : Rank(S, R, e) + 1 \in 1..Cardinality(S) /\ q[Rank(S, R, e) + 1] = e
  BY <1>4, <1>5, <1>6, RankedList
<1>8. DOMAIN q = 1..Cardinality(S)
  BY <1>7
<1>9. \A c \in S : \E i \in DOMAIN q : q[i] = c
  BY <1>7, <1>8
<1> QED
  BY <1>7, <1>9 DEF S, q

\* What is right under a directory, and what is above one.
LEMMA UnderIs ==
  ASSUME NEW q \in BuildSources!Paths, NEW p \in BuildSources!Under(q)
  PROVE  /\ p \in BuildSources!Paths /\ BuildSources!IsPrefix(q, p) /\ ~BuildSources!IsPrefix(p, q)
         /\ \A r \in BuildSources!Paths : p \in BuildSources!Under(r) => r = q
<1>1. q \in Seq(Nat) /\ Len(q) \in Nat
  BY PathShape
<1>2. p \in BuildSources!Paths /\ \E n \in Names : p = Append(q, n)
  BY DEF BuildSources!Under
<1>3. PICK n \in Nat : p = Append(q, n)
  BY <1>2, SourcesAssumption
<1>4. p \in Seq(Nat) /\ Len(p) = Len(q) + 1 /\ \A i \in 1..Len(q) : p[i] = q[i]
  BY <1>1, <1>3
<1>5. BuildSources!IsPrefix(q, p) /\ ~BuildSources!IsPrefix(p, q)
  BY <1>1, <1>4, PrefixIs
<1>6. ASSUME NEW r \in BuildSources!Paths, p \in BuildSources!Under(r) PROVE r = q
  <2>1. r \in Seq(Nat) /\ Len(r) \in Nat
    BY PathShape
  <2>2. PICK m \in Nat : p = Append(r, m)
    BY <1>6, SourcesAssumption DEF BuildSources!Under
  <2>3. Len(p) = Len(r) + 1 /\ \A i \in 1..Len(r) : p[i] = r[i]
    BY <2>1, <2>2
  <2>4. Len(r) = Len(q) /\ \A i \in 1..Len(r) : r[i] = q[i]
    BY <1>1, <1>4, <2>1, <2>3
  <2> QED
    BY <1>1, <2>1, <2>4, PathEqual
<1> QED
  BY <1>2, <1>5, <1>6

LEMMA PrefixOrder ==
  /\ \A p \in BuildSources!Paths : BuildSources!IsPrefix(p, p)
  /\ \A p, q, r \in BuildSources!Paths :
       BuildSources!IsPrefix(p, q) /\ BuildSources!IsPrefix(q, r) => BuildSources!IsPrefix(p, r)
<1>1. ASSUME NEW p \in BuildSources!Paths PROVE BuildSources!IsPrefix(p, p)
  BY PathShape, PrefixIs
<1>2. ASSUME NEW p \in BuildSources!Paths, NEW q \in BuildSources!Paths, NEW r \in BuildSources!Paths,
             BuildSources!IsPrefix(p, q), BuildSources!IsPrefix(q, r)
      PROVE  BuildSources!IsPrefix(p, r)
  <2>1. p \in Seq(Nat) /\ q \in Seq(Nat) /\ r \in Seq(Nat) /\ Len(p) \in Nat /\ Len(q) \in Nat /\ Len(r) \in Nat
    BY PathShape
  <2>2. Len(p) <= Len(q) /\ \A i \in 1..Len(p) : p[i] = q[i]
    BY <1>2, <2>1, PrefixIs
  <2>3. Len(q) <= Len(r) /\ \A i \in 1..Len(q) : q[i] = r[i]
    BY <1>2, <2>1, PrefixIs
  <2>4. Len(p) <= Len(r) /\ \A i \in 1..Len(p) : p[i] = r[i]
    BY <2>1, <2>2, <2>3
  <2> QED
    BY <2>1, <2>4, PrefixIs
<1> QED
  BY <1>1, <1>2

\* What stands above a free place is a directory.
LEMMA FreeIs ==
  ASSUME NEW q \in BuildSources!Paths, BuildSources!Free(q)
  PROVE  /\ disk[q] \in {"none", "empty"}
         /\ \A p \in BuildSources!Paths :
              BuildSources!IsPrefix(p, q) => disk[p] \in {"none", "empty", "full"}
<1>1. disk[q] \in {"none", "empty"}
  BY DEF BuildSources!Free
<1>2. ASSUME NEW p \in BuildSources!Paths, BuildSources!IsPrefix(p, q) PROVE disk[p] \in {"none", "empty", "full"}
  <2>1. p \in Seq(Nat) /\ q \in Seq(Nat) /\ Len(p) \in Nat /\ Len(q) \in Nat
    BY PathShape
  <2>2. Len(p) <= Len(q) /\ \A i \in 1..Len(p) : p[i] = q[i]
    BY <1>2, <2>1, PrefixIs
  <2>3. CASE Len(p) = Len(q)
    BY <1>1, <2>1, <2>2, <2>3, PathEqual
  <2>4. CASE Len(p) # Len(q)
    <3>1. Len(p) \in 0..Len(q) - 1
      BY <2>1, <2>2, <2>4
    <3>2. p = SubSeq(q, 1, Len(p))
      <4>1. SubSeq(p, 1, Len(p)) = SubSeq(q, 1, Len(p))
        BY <1>2 DEF BuildSources!IsPrefix
      <4>2. SubSeq(p, 1, Len(p)) = p
        BY <2>1
      <4> QED
        BY <4>1, <4>2
    <3> QED
      BY <3>1, <3>2 DEF BuildSources!Free
  <2> QED
    BY <2>3, <2>4
<1> QED
  BY <1>1, <1>2

\* What a checkout leaves on the disk.
LEMMA WrittenIs ==
  ASSUME NEW q \in BuildSources!Paths, NEW source
  PROVE  LET new == BuildSources!Written(q, source)
         IN  \A p \in BuildSources!Paths :
               /\ BuildSources!IsPrefix(p, q) => new[p] = "full"
               /\ p \in BuildSources!Under(q) =>
                    LET entry == Tree[source][BuildSources!Last(p)]
                    IN  entry \in {"file", "dir", "link"} => new[p] = (IF entry = "dir" THEN "full" ELSE entry)
               /\ ~BuildSources!IsPrefix(p, q) /\ p \notin BuildSources!Under(q) => new[p] = disk[p]
<1> SUFFICES ASSUME NEW p \in BuildSources!Paths
             PROVE  /\ BuildSources!IsPrefix(p, q) => BuildSources!Written(q, source)[p] = "full"
                    /\ p \in BuildSources!Under(q) =>
                         LET entry == Tree[source][BuildSources!Last(p)]
                         IN  entry \in {"file", "dir", "link"} =>
                               BuildSources!Written(q, source)[p] = (IF entry = "dir" THEN "full" ELSE entry)
                    /\ ~BuildSources!IsPrefix(p, q) /\ p \notin BuildSources!Under(q) =>
                         BuildSources!Written(q, source)[p] = disk[p]
  OBVIOUS
<1>1. p = q => BuildSources!IsPrefix(p, q)
  BY PrefixOrder
<1>2. p \in BuildSources!Under(q) => ~BuildSources!IsPrefix(p, q)
  BY UnderIs
<1> DEFINE entry == Tree[source][BuildSources!Last(p)]
<1>3. BuildSources!Written(q, source)[p] =
        IF p = q THEN "full"
        ELSE IF BuildSources!IsPrefix(p, q) THEN "full"
        ELSE IF p \in BuildSources!Under(q)
        THEN CASE entry \in SourceCommits -> "empty" [] entry = "dir" -> "full" [] OTHER -> entry
        ELSE disk[p]
  BY DEF BuildSources!Written
<1>4. entry \in {"file", "dir", "link"} => entry \notin SourceCommits
  BY SourcesAssumption
<1>5. BuildSources!IsPrefix(p, q) => BuildSources!Written(q, source)[p] = "full"
  BY <1>3
<1>6. ASSUME p \in BuildSources!Under(q), entry \in {"file", "dir", "link"}
      PROVE  BuildSources!Written(q, source)[p] = (IF entry = "dir" THEN "full" ELSE entry)
  <2> HIDE DEF entry
  <2> QED
    BY <1>1, <1>2, <1>3, <1>4, <1>6
<1>7. ~BuildSources!IsPrefix(p, q) /\ p \notin BuildSources!Under(q) =>
        BuildSources!Written(q, source)[p] = disk[p]
  BY <1>1, <1>3
<1> QED
  BY <1>5, <1>6, <1>7

LEMMA CheckoutKeeps ==
  ASSUME SourceInv, BuildSources!Checkout
  PROVE  SourceInv'
<1>0. PICK c : c = Head(todo)
  OBVIOUS
<1> DEFINE source == <<c.repo, c.ref>>
<1>1. /\ step = "sources" /\ todo # <<>> /\ todo' = Tail(todo) /\ UNCHANGED <<step, list>>
      /\ BuildSources!Free(c.path) /\ (c.submodules => BuildSources!SubmodulesMatch(c))
  BY <1>0 DEF BuildSources!Checkout
<1>2. /\ list \in Lists /\ DOMAIN from = BuildSources!Paths
      /\ BuildSources!Accepted(list) /\ todo \in Seq(AllOf(list))
      /\ \A d \in AllOf(list) \ LeftToDo : InPlace(d)
  BY <1>1 DEF SourceInv, Sourced
<1>3. c \in AllOf(list) /\ todo' \in Seq(AllOf(list))
  BY <1>0, <1>1, <1>2
<1>4. c.path \in BuildSources!Paths
  BY <1>2, <1>3, ListFacts
<1>5. disk' = BuildSources!Written(c.path, source) /\ from' = [from EXCEPT ![c.path] = source]
  BY <1>0 DEF BuildSources!Checkout, BuildSources!SameCommit
<1>6. AllOf(list)' = AllOf(list) /\ c \in LeftToDo /\ \A d \in LeftToDo : d = c \/ d \in LeftToDo'
  <2>1. DOMAIN todo = 1..Len(todo) /\ Len(todo) \in Nat \ {0} /\ c = todo[1]
    BY <1>0, <1>1, <1>2
  <2>2. Len(Tail(todo)) = Len(todo) - 1 /\ DOMAIN Tail(todo) = 1..Len(todo) - 1
    BY <1>1, <1>2
  <2>3. \A i \in 1..Len(todo) - 1 : Tail(todo)[i] = todo[i + 1]
    BY <1>1, <1>2
  <2>4. ASSUME NEW i \in 1..Len(todo), i # 1 PROVE todo[i] \in LeftToDo'
    <3>1. i - 1 \in 1..Len(todo) - 1 /\ i - 1 + 1 = i
      BY <2>1, <2>4
    <3>2. i - 1 \in DOMAIN todo' /\ todo'[i - 1] = todo[i]
      BY <1>1, <2>2, <2>3, <3>1
    <3> QED
      BY <3>2 DEF LeftToDo
  <2> QED
    BY <1>1, <2>1, <2>4 DEF LeftToDo, AllOf
<1>7. \A d : BuildSources!SubmodulesMatch(d)' <=> BuildSources!SubmodulesMatch(d)
  BY <1>1 DEF BuildSources!SubmodulesMatch, BuildSources!Bound, BuildSources!Links
<1> HIDE DEF source
<1>8. disk[c.path] \in {"none", "empty"}
  BY <1>1, <1>4, FreeIs
<1>9. \A p \in BuildSources!Paths : BuildSources!IsPrefix(p, c.path) => disk'[p] = "full"
  BY <1>4, <1>5, WrittenIs
<1>10. \A p \in BuildSources!Paths :
          ~BuildSources!IsPrefix(p, c.path) /\ p \notin BuildSources!Under(c.path) => disk'[p] = disk[p]
  BY <1>4, <1>5, WrittenIs
<1>11. InPlace(c)'
  <2>1. from'[c.path] = source
    BY <1>2, <1>4, <1>5
  <2>2. \A p \in BuildSources!Under(c.path) :
          LET entry == Tree[source][BuildSources!Last(p)]
          IN  entry \in {"file", "dir", "link"} => disk'[p] = (IF entry = "dir" THEN "full" ELSE entry)
    <3>1. \A p \in BuildSources!Under(c.path) : p \in BuildSources!Paths
      BY <1>4, UnderIs
    <3> QED
      BY <1>4, <1>5, <3>1, WrittenIs
  <2> QED
    BY <1>1, <1>6, <1>7, <1>9, <2>1, <2>2 DEF InPlace, source
<1>12. ASSUME NEW d \in AllOf(list), d \notin LeftToDo PROVE InPlace(d)'
  <2>1. InPlace(d) /\ d # c
    BY <1>2, <1>6, <1>12
  <2>2. d.path \in BuildSources!Paths /\ d.path # c.path
    BY <1>2, <1>3, <2>1, ListFacts
  <2>3. from'[d.path] = <<d.repo, d.ref>>
    BY <1>2, <1>5, <2>1, <2>2 DEF InPlace
  <2>4. ASSUME NEW p \in BuildSources!Paths, BuildSources!IsPrefix(p, d.path) PROVE disk'[p] = "full"
    <3>1. disk[p] = "full"
      BY <2>1, <2>4 DEF InPlace
    <3>2. ASSUME p \in BuildSources!Under(c.path) PROVE FALSE
      <4>1. BuildSources!IsPrefix(c.path, p)
        BY <1>4, <3>2, UnderIs
      <4>2. BuildSources!IsPrefix(c.path, d.path)
        BY <1>4, <2>2, <2>4, <4>1, PrefixOrder
      <4>3. disk[c.path] = "full"
        BY <1>4, <2>1, <4>2 DEF InPlace
      <4> QED
        BY <1>8, <4>3
    <3> QED
      BY <1>9, <1>10, <3>1, <3>2
  <2>5. ASSUME NEW p \in BuildSources!Under(d.path),
               Tree[<<d.repo, d.ref>>][BuildSources!Last(p)] \in {"file", "dir", "link"}
        PROVE  disk'[p] = (IF Tree[<<d.repo, d.ref>>][BuildSources!Last(p)] = "dir" THEN "full"
                           ELSE Tree[<<d.repo, d.ref>>][BuildSources!Last(p)])
    <3> DEFINE value == IF Tree[<<d.repo, d.ref>>][BuildSources!Last(p)] = "dir" THEN "full"
                        ELSE Tree[<<d.repo, d.ref>>][BuildSources!Last(p)]
    <3>1. disk[p] = value /\ value \in {"full", "file", "link"}
      BY <2>1, <2>5 DEF InPlace
    <3>2. p \in BuildSources!Paths /\ p \notin BuildSources!Under(c.path)
      BY <1>4, <2>2, UnderIs
    <3> HIDE DEF value
    <3>3. CASE BuildSources!IsPrefix(p, c.path)
      <4>1. disk[p] \in {"none", "empty", "full"}
        BY <1>1, <1>4, <3>2, <3>3, FreeIs
      <4>2. value = "full"
        BY <3>1, <4>1
      <4> QED
        BY <1>9, <3>2, <3>3, <4>2 DEF value
    <3>4. CASE ~BuildSources!IsPrefix(p, c.path)
      BY <1>10, <3>1, <3>2, <3>4 DEF value
    <3> QED
      BY <3>3, <3>4
  <2>6. d.submodules => BuildSources!SubmodulesMatch(d)'
    BY <1>7, <2>1 DEF InPlace
  <2> QED
    BY <2>3, <2>4, <2>5, <2>6 DEF InPlace
<1>13. DOMAIN from' = BuildSources!Paths
  BY <1>2, <1>5
<1>14. ~BuildSources!Building'
  BY <1>1 DEF BuildSources!Building
<1>15. \A d \in AllOf(list)' \ LeftToDo' : InPlace(d)'
  BY <1>6, <1>11, <1>12
<1>16. BuildSources!Accepted(list)' /\ list' \in Lists /\ todo' \in Seq(AllOf(list)')
  BY <1>1, <1>2, <1>3, <1>6
<1> QED
  BY <1>13, <1>14, <1>15, <1>16 DEF SourceInv

LEMMA SourceSteps == SourceInv /\ [BuildSources!Next]_(BuildSources!vars) => SourceInv'
<1> SUFFICES ASSUME SourceInv, [BuildSources!Next]_(BuildSources!vars) PROVE SourceInv'
  OBVIOUS
\* What stands is only moved by Checkout.
<1>1. ASSUME UNCHANGED <<list, disk, from, todo>>,
             step' # "over" => step # "over",
             Sourced' => Sourced,
             BuildSources!Building' => BuildSources!Building \/ todo = <<>>
      PROVE  SourceInv'
  <2>1. /\ AllOf(list)' = AllOf(list) /\ LeftToDo' = LeftToDo
        /\ BuildSources!Accepted(list)' <=> BuildSources!Accepted(list)
    BY <1>1 DEF AllOf, LeftToDo, BuildSources!Accepted
  <2>2. \A c : InPlace(c)' <=> InPlace(c)
    BY <1>1 DEF InPlace, BuildSources!SubmodulesMatch, BuildSources!Bound, BuildSources!Links
  <2> QED
    BY <1>1, <2>1, <2>2 DEF SourceInv
<1>2. CASE BuildSources!Validate
  BY <1>1, <1>2 DEF BuildSources!Validate, Sourced, BuildSources!Building
<1>3. CASE BuildSources!TrimCache
  BY <1>1, <1>3 DEF BuildSources!TrimCache, Sourced, BuildSources!Building
<1>4. CASE BuildSources!TrimFails
  BY <1>1, <1>4 DEF BuildSources!TrimFails, Sourced, BuildSources!Building
<1>5. CASE BuildSources!Fails
  BY <1>1, <1>5 DEF BuildSources!Fails, Sourced, BuildSources!Building
<1>6. CASE BuildSources!MakeWorkspace
  <2>1. step = "workspace" /\ step' = "environment" /\ UNCHANGED <<list, from>>
    BY <1>6 DEF BuildSources!MakeWorkspace
  <2> QED
    BY <2>1 DEF SourceInv, Sourced, BuildSources!Building
<1>7. CASE BuildSources!PrepareEnvironment
  BY <1>1, <1>7 DEF BuildSources!PrepareEnvironment, Sourced, BuildSources!Building
<1>8. CASE BuildSources!ListSources
  <2>1. /\ step = "list" /\ step' = "sources" /\ UNCHANGED <<list, from>>
        /\ BuildSources!Accepted(list) /\ todo' = BuildSources!ParentsFirst(AllOf(list))
    BY <1>8 DEF BuildSources!ListSources, BuildSources!ToSet, AllOf
  <2>2. list \in Lists /\ DOMAIN from = BuildSources!Paths
    BY <2>1 DEF SourceInv
  <2>3. todo' \in Seq(AllOf(list)) /\ \A c \in AllOf(list) : \E i \in DOMAIN todo' : todo'[i] = c
    BY <2>1, <2>2, ParentsFirstIs
  <2>4. AllOf(list)' = AllOf(list) /\ AllOf(list) \ LeftToDo' = {}
    BY <2>1, <2>3 DEF AllOf, LeftToDo
  <2>5. BuildSources!Accepted(list)'
    BY <2>1 DEF BuildSources!Accepted
  <2> QED
    BY <2>1, <2>2, <2>3, <2>4, <2>5 DEF SourceInv, BuildSources!Building
<1>9. CASE BuildSources!Checkout
  BY <1>9, CheckoutKeeps
<1>10. CASE BuildSources!StartBuild
  BY <1>1, <1>10 DEF BuildSources!StartBuild, Sourced, BuildSources!Building
<1>11. CASE BuildSources!RunPhase
  BY <1>1, <1>11 DEF BuildSources!RunPhase, Sourced, BuildSources!Building
<1>12. CASE BuildSources!PhasesDone
  BY <1>1, <1>12 DEF BuildSources!PhasesDone, Sourced, BuildSources!Building
<1>13. CASE BuildSources!Pack
  BY <1>1, <1>13 DEF BuildSources!Pack, Sourced, BuildSources!Building
<1>14. CASE BuildSources!TagMoves \/ BuildSources!Verify
  BY <1>1, <1>14 DEF BuildSources!TagMoves, BuildSources!Verify, Sourced, BuildSources!Building
<1>15. CASE UNCHANGED BuildSources!vars
  BY <1>1, <1>15 DEF BuildSources!vars, Sourced, BuildSources!Building
<1> QED
  BY <1>2, <1>3, <1>4, <1>5, <1>6, <1>7, <1>8, <1>9, <1>10, <1>11, <1>12, <1>13, <1>14, <1>15 DEF BuildSources!Next

\* When the build starts everything in the list has been checked out.
LEMMA AllInPlace == SourceInv => BuildSources!SourcesAsBound
<1> SUFFICES ASSUME SourceInv, BuildSources!Building PROVE BuildSources!SourcesAsBound
  BY DEF BuildSources!SourcesAsBound
<1>1. /\ list \in Lists /\ BuildSources!Accepted(list) /\ todo = <<>>
      /\ \A c \in AllOf(list) \ LeftToDo : InPlace(c)
  BY DEF SourceInv, Sourced, BuildSources!Building
<1>2. LeftToDo = {}
  BY <1>1 DEF LeftToDo
<1>3. \A i \in DOMAIN list : InPlace(list[i])
  BY <1>1, <1>2 DEF AllOf
<1>4. ASSUME NEW i \in DOMAIN list, list[i].submodules,
             NEW n \in BuildSources!Links(<<list[i].repo, list[i].ref>>)
      PROVE  from[Append(list[i].path, n)][2] = Tree[<<list[i].repo, list[i].ref>>][n]
  <2> DEFINE c == list[i]
  <2>1. BuildSources!SubmodulesMatch(c)
    BY <1>3, <1>4 DEF InPlace
  <2>2. PICK m \in Modules[<<c.repo, c.ref>>] : m.path = n /\ BuildSources!Bound(c, m)
    BY <1>4, <2>1 DEF BuildSources!SubmodulesMatch
  <2>3. PICK j \in DOMAIN list :
          list[j].path = Append(c.path, n) /\ list[j].ref = Tree[<<c.repo, c.ref>>][n]
    BY <2>2 DEF BuildSources!Bound
  <2>4. from[list[j].path] = <<list[j].repo, list[j].ref>>
    BY <1>3 DEF InPlace
  <2> QED
    BY <2>3, <2>4
<1>5. ASSUME NEW i \in DOMAIN list
      PROVE  /\ from[list[i].path] = <<list[i].repo, list[i].ref>>
             /\ \A p \in BuildSources!Under(list[i].path) :
                  Tree[<<list[i].repo, list[i].ref>>][BuildSources!Last(p)] \in {"file", "dir", "link"} =>
                    disk[p] = (IF Tree[<<list[i].repo, list[i].ref>>][BuildSources!Last(p)] = "dir" THEN "full"
                               ELSE Tree[<<list[i].repo, list[i].ref>>][BuildSources!Last(p)])
  BY <1>3 DEF InPlace
<1> QED
  BY <1>4, <1>5 DEF BuildSources!SourcesAsBound

-----------------------------------------------------------------------------
SourcesInv == SourceInv /\ ImageInv /\ CacheInv

LEMMA SourcesPart ==
  /\ MCInit => SourcesInv
  /\ SourcesInv /\ [MCNext]_<<part, vars, bVars, sVars, oVars, wVars>> => SourcesInv'
<1>1. ASSUME MCInit PROVE SourcesInv
  <2>1. /\ part = "sources" \/ step = "over"
        /\ part = "sources" => BuildSources!Init
        /\ step \in {"validate", "over"} /\ environment = {} /\ given = {} /\ exported = "none" /\ phase = 0
        /\ result = "none"
    BY <1>1 DEF MCInit, BuildSources!Init
  <2>2. cache \in Caches
    BY <1>1, SourcesAssumption DEF MCInit, BuildSources!Init
  <2>3. SourceInv
    BY <2>1 DEF SourceInv, Sourced, BuildSources!Building, BuildSources!Init
  <2>4. ImageInv
    BY <2>1 DEF ImageInv
  <2>5. CacheInv
    BY <2>1, <2>2, SourcesAssumption DEF CacheInv
  <2> QED
    BY <2>3, <2>4, <2>5 DEF SourcesInv
<1>2. ASSUME SourcesInv, [MCNext]_<<part, vars, bVars, sVars, oVars, wVars>> PROVE SourcesInv'
  <2>1. BuildSources!Next \/ UNCHANGED BuildSources!vars
    BY <1>2 DEF MCNext, oVars, BuildSources!vars
  <2> QED
    BY <1>2, <2>1, SourceSteps, ImageSteps, CacheSteps DEF SourcesInv
<1> QED
  BY <1>1, <1>2

-----------------------------------------------------------------------------
(* The theorems about builds.                                              *)

\* A build removes by force no container but its own, what was reported as over has stopped and
\* what was completed has no credentials left, and what a build leaves behind blocks the runner;
\* it builds the commits that its task names, with their submodules, on the run image that the
\* task was frozen with, without the secrets of the sources and of the registry, within the limit
\* of the cache, and reports the image that it published: for any number of builds and crashes,
\* any lists of checkouts, repositories with any contents, and any volumes in the daemon.
THEOREM BuildsContainedHolds == MCSpec => []BuildsContained
<1>1. MCInit => BuildInv /\ SourcesInv
  BY BuildPart, SourcesPart
<1>2. BuildInv /\ SourcesInv /\ [MCNext]_<<part, vars, bVars, sVars, oVars, wVars>> => BuildInv' /\ SourcesInv'
  BY BuildPart, SourcesPart
<1>3. BuildInv /\ SourcesInv => BuildsContained
  <2>1. ImageInv => BuildSources!ImageAsApproved
    BY DEF ImageInv, BuildSources!ImageAsApproved
  <2>2. CacheInv => BuildSources!CacheKept
    BY DEF CacheInv, BuildSources!CacheKept
  <2> QED
    BY <2>1, <2>2, BuildConfined, AllInPlace DEF SourcesInv, BuildsContained
<1> QED
  BY <1>1, <1>2, <1>3, PTL DEF MCSpec

\* claim asks for no task while buildpacksBlocked is set.
THEOREM NoClaimWhileBlockedHolds == MCSpec => NoClaimWhileBlocked
<1> DEFINE A == \A t \in Builds : blocked /\ bPc[t] = "queued" => bPc'[t] = "queued"
<1>1. BuildInv /\ [MCNext]_<<part, vars, bVars, sVars, oVars, wVars>> => [A]_(Buildpacks!vars)
  <2>1. ASSUME BuildInv, Buildpacks!Next PROVE A
    BY <2>1, BuildClaims
  <2>2. UNCHANGED bVars => UNCHANGED Buildpacks!vars
    BY DEF bVars, Buildpacks!vars, Buildpacks!loopVars, Buildpacks!daemonVars, Buildpacks!taskVars
  <2> HIDE DEF A
  <2> QED
    BY <2>1, <2>2 DEF MCNext
<1>2. BuildInv /\ [MCNext]_<<part, vars, bVars, sVars, oVars, wVars>> => BuildInv'
  BY BuildPart
<1>3. MCInit => BuildInv
  BY BuildPart
<1> QED
  BY <1>1, <1>2, <1>3, PTL DEF MCSpec, NoClaimWhileBlocked, Buildpacks!NoClaimWhileBlocked

=============================================================================
