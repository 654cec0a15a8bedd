------------------------------ MODULE GuestData ------------------------------
(***************************************************************************)
(* The data disk of a personal guest: a root command formats it once,      *)
(* mounts it, limits it and opens the workspace of the user, and a         *)
(* reconciliation does the same after a boot, without the formatting.      *)
(* What has been done is kept in a receipt, which is replaced at once; a   *)
(* file lock keeps two commands apart, and falls with the process.         *)
(***************************************************************************)
EXTENDS Naturals

CONSTANTS
  Procs,      \* processes of the command
  Plans,      \* operations of the control plane that name the disk
  Devices,    \* numbers that the kernel may give to the disk
  MaxFaults   \* crashes, boots and failures of a tool

VARIABLES
  disk,      \* [fs, dev]: blank, ours, partly (an mkfs that was killed) or foreign
  mounted,   \* where the disk is mounted: nowhere, ours or elsewhere
  limited,   \* the quotas that are in force, of project ("p") and of user ("u")
  workspace, \* the directory of the user: none, root's (made and not handed over) or the user's
  receipt,   \* [stage, plan, dev], stage none without a file
  granted,   \* the plans that the control plane authorises now
  proc,      \* the processes: [pc, plan, have], have being the receipt that was read
  holder,    \* the processes that hold the lock
  stray,     \* an mkfs whose command has died is still at work
  formats,   \* mkfs commands so far
  data,      \* the user has written data
  faults

vars == <<disk, mounted, limited, workspace, receipt, granted, proc, holder, stray, formats, data, faults>>

NoPlan == "no plan"
NoReceipt == [stage |-> "none", plan |-> NoPlan, dev |-> 0]
Idle == [pc |-> "idle", plan |-> NoPlan, have |-> NoReceipt]

Init ==
  /\ disk \in [fs : {"blank", "foreign"}, dev : Devices]
  /\ mounted = "nowhere" /\ limited = {} /\ workspace = "none"
  /\ receipt = NoReceipt
  /\ granted = Plans
  /\ proc = [p \in Procs |-> Idle]
  /\ holder = {} /\ stray = FALSE /\ formats = 0 /\ data = (disk.fs = "foreign") /\ faults = 0

At(p, pc) == proc[p].pc = pc
Goto(p, pc) == proc' = [proc EXCEPT ![p].pc = pc]
Exit(p) == proc' = [proc EXCEPT ![p] = Idle] /\ holder' = holder \ {p}
Authorized(p) == proc[p].plan \in granted

\* requireBlank: no filesystem, no signature, no mount.
Blank == disk.fs = "blank" /\ mounted = "nowhere"

diskVars == <<disk, mounted, limited, workspace, stray, formats, data>>

-----------------------------------------------------------------------------
(* The two commands.                                                       *)

\* InitializeData takes the operator's plan; ReconcileData wants a completed receipt, and takes
\* the plan of the lease of now.
Start(p, plan) ==
  /\ At(p, "idle") /\ holder = {}
  /\ holder' = {p}
  /\ proc' = [proc EXCEPT ![p] = [Idle EXCEPT !.pc = "load", !.plan = plan]]
  /\ UNCHANGED <<diskVars, receipt, granted, faults>>

\* A receipt is for one workspace, and until it is complete for one plan.
Matches(plan) == receipt.stage = "complete" \/ receipt.plan = plan

\* A device number may change with a boot, and is followed only by a confirmed filesystem.
Follows == receipt.dev = disk.dev \/ (receipt.stage = "complete" /\ disk.fs = "ours")

\* What is read of the receipt and the disk decides what is left to do.
Load(p) ==
  /\ At(p, "load")
  /\ IF ~Authorized(p) THEN Exit(p)
     ELSE IF receipt.stage = "none"
     THEN IF Blank THEN Goto(p, "reserve") /\ UNCHANGED holder ELSE Exit(p)
     ELSE IF ~Matches(proc[p].plan) \/ ~Follows THEN Exit(p)
     ELSE /\ proc' = [proc EXCEPT ![p].pc = IF receipt.stage = "reserved" THEN "format" ELSE "mount",
                                  ![p].have = receipt]
          /\ UNCHANGED holder
  /\ UNCHANGED <<diskVars, receipt, granted, faults>>

\* The receipt is written aside and renamed: a failure leaves the old one or the new one.
Saves(p, new, next) ==
  \/ /\ receipt' = new
     /\ proc' = [proc EXCEPT ![p].have = new, ![p].pc = next]
     /\ UNCHANGED <<holder, faults>>
  \/ /\ faults < MaxFaults /\ faults' = faults + 1
     /\ receipt' \in {receipt, new}
     /\ Exit(p)

Reserve(p) ==
  /\ At(p, "reserve")
  /\ Saves(p, [stage |-> "reserved", plan |-> proc[p].plan, dev |-> disk.dev], "format")
  /\ UNCHANGED <<diskVars, granted>>

-----------------------------------------------------------------------------
(* The formatting.                                                         *)

\* Mutant: the mark is made once the disk is formatted.
MarksAfter(p) ==
  /\ At(p, "format")
  /\ IF disk.dev = proc[p].have.dev /\ Authorized(p) /\ Blank
     THEN Goto(p, "mkfs") /\ UNCHANGED <<holder, receipt, faults>>
     ELSE Exit(p) /\ UNCHANGED <<receipt, faults>>
  /\ UNCHANGED <<diskVars, granted>>

\* The disk and the authority are looked at again, right before the mark.
Dispatch(p) ==
  /\ At(p, "format")
  /\ IF disk.dev = proc[p].have.dev /\ Authorized(p) /\ Blank
     THEN Saves(p, [proc[p].have EXCEPT !.stage = "format_dispatched"], "mkfs")
     ELSE Exit(p) /\ UNCHANGED <<receipt, faults>>
  /\ UNCHANGED <<diskVars, granted>>

Mkfs(p) ==
  /\ At(p, "mkfs")
  /\ formats' = formats + 1
  /\ disk' = [disk EXCEPT !.fs = "ours"]
  /\ Goto(p, "mount")
  /\ UNCHANGED <<mounted, limited, workspace, stray, data, receipt, granted, holder, faults>>

\* It fails, or is killed after its 30 seconds, before or after it has written.
MkfsFails(p) ==
  /\ At(p, "mkfs") /\ faults < MaxFaults
  /\ faults' = faults + 1
  /\ formats' = formats + 1
  /\ disk' \in {[disk EXCEPT !.fs = f] : f \in {"blank", "partly", "ours"}}
  /\ Exit(p)
  /\ UNCHANGED <<mounted, limited, workspace, stray, data, receipt, granted>>

\* The process dies and its mkfs does not: nothing ties the tool to it.
Outlives(p) ==
  /\ At(p, "mkfs") /\ faults < MaxFaults
  /\ faults' = faults + 1
  /\ formats' = formats + 1
  /\ stray' = TRUE
  /\ Exit(p)
  /\ UNCHANGED <<disk, mounted, limited, workspace, data, receipt, granted>>

StrayEnds ==
  /\ stray
  /\ stray' = FALSE
  /\ disk' = [disk EXCEPT !.fs = "ours"]
  /\ UNCHANGED <<mounted, limited, workspace, formats, data, receipt, granted, proc, holder, faults>>

-----------------------------------------------------------------------------
(* The mount, the quotas and the workspace.                                *)

\* Whoever did the formatting, only a disk with the identity of the receipt is mounted, and
\* none that a formatting has in use.
Mount(p) ==
  /\ At(p, "mount")
  /\ IF disk.fs = "ours" /\ ~stray /\ Authorized(p) /\ mounted # "elsewhere"
     THEN mounted' = "ours" /\ Goto(p, "quota") /\ UNCHANGED holder
     ELSE Exit(p) /\ UNCHANGED mounted
  /\ UNCHANGED <<disk, limited, workspace, formats, stray, data, receipt, granted, faults>>

\* The mount is looked at again before the quotas, and each limit is read back.
Quota(p) ==
  /\ At(p, "quota")
  /\ IF mounted = "ours" /\ Authorized(p)
     THEN limited' = {"p", "u"} /\ Goto(p, "complete") /\ UNCHANGED holder
     ELSE Exit(p) /\ UNCHANGED limited
  /\ UNCHANGED <<disk, mounted, workspace, formats, stray, data, receipt, granted, faults>>

\* A tool fails, with the first limit set or none.
ToolFails(p) ==
  /\ proc[p].pc \in {"mount", "quota"} /\ faults < MaxFaults
  /\ faults' = faults + 1
  /\ limited' \in {limited} \cup (IF At(p, "quota") THEN {limited \cup {"p"}} ELSE {})
  /\ Exit(p)
  /\ UNCHANGED <<disk, mounted, workspace, formats, stray, data, receipt, granted>>

\* The plan of the first receipt stays, and so does its device number.
Complete(p) ==
  /\ At(p, "complete")
  /\ Saves(p, [proc[p].have EXCEPT !.stage = "complete"], "expose")
  /\ UNCHANGED <<diskVars, granted>>

\* exposeDataWorkspace: a workspace that is there must be the user's.
MakeWorkspace(p) ==
  /\ At(p, "expose")
  /\ IF workspace = "none"
     THEN workspace' = "root's" /\ Goto(p, "own") /\ UNCHANGED holder
     ELSE Exit(p) /\ UNCHANGED workspace
  /\ UNCHANGED <<disk, mounted, limited, formats, stray, data, receipt, granted, faults>>

OwnWorkspace(p) ==
  /\ At(p, "own")
  /\ workspace' = "user's"
  /\ Exit(p)
  /\ UNCHANGED <<disk, mounted, limited, formats, stray, data, receipt, granted, faults>>

-----------------------------------------------------------------------------
(* The machine, the user and the control plane.                            *)

\* The process is killed, between any two steps; the lock falls with it.
Crash(p) ==
  /\ proc[p].pc # "idle" /\ faults < MaxFaults
  /\ faults' = faults + 1
  /\ Exit(p)
  /\ UNCHANGED <<diskVars, receipt, granted>>

Reboot ==
  /\ faults < MaxFaults
  /\ faults' = faults + 1
  /\ \E dev \in Devices : disk' = [disk EXCEPT !.dev = dev]
  /\ mounted' = "nowhere" /\ limited' = {}
  /\ proc' = [p \in Procs |-> Idle] /\ holder' = {}
  /\ stray' = FALSE
  /\ UNCHANGED <<workspace, formats, data, receipt, granted>>

\* The operator mounts the disk somewhere else.
Elsewhere ==
  /\ faults < MaxFaults /\ disk.fs \in {"ours", "foreign"} /\ mounted = "nowhere" /\ ~stray
  /\ faults' = faults + 1
  /\ mounted' = "elsewhere"
  /\ UNCHANGED <<disk, limited, workspace, formats, stray, data, receipt, granted, proc, holder>>

Withdraw(plan) ==
  /\ plan \in granted
  /\ granted' = granted \ {plan}
  /\ UNCHANGED <<diskVars, receipt, proc, holder, faults>>

UserWrites ==
  /\ mounted = "ours" /\ workspace = "user's" /\ ~data
  /\ data' = TRUE
  /\ UNCHANGED <<disk, mounted, limited, workspace, formats, stray, receipt, granted, proc, holder, faults>>

Next ==
  \/ \E p \in Procs :
       \/ \E plan \in Plans : Start(p, plan)
       \/ Load(p) \/ Reserve(p) \/ Dispatch(p) \/ Mkfs(p) \/ MkfsFails(p) \/ Outlives(p)
       \/ Mount(p) \/ Quota(p) \/ ToolFails(p) \/ Complete(p)
       \/ MakeWorkspace(p) \/ OwnWorkspace(p) \/ Crash(p)
  \/ \E plan \in Plans : Withdraw(plan)
  \/ StrayEnds \/ Reboot \/ Elsewhere \/ UserWrites

Spec == Init /\ [][Next]_vars

-----------------------------------------------------------------------------
\* The disk is formatted once, whatever became of the command, and never over data.
FormatsOnce == formats <= 1 /\ (data => disk.fs \in {"ours", "foreign"})

\* Whoever is told that the disk is ready has it mounted in its place, with both limits.
ReadyMeansLimited ==
  \A p \in Procs : proc[p].pc \in {"complete", "expose", "own"} =>
    disk.fs = "ours" /\ mounted = "ours" /\ limited = {"p", "u"}

\* A receipt that is complete has a filesystem of ours, whatever crashed on the way.
CompleteMeansFormatted == receipt.stage = "complete" => disk.fs = "ours"

=============================================================================
