------------------------ MODULE ProvisionerDiskProofs ------------------------
(***************************************************************************)
(* Proofs about what the provisioner and the disk layout program together  *)
(* do to the disk, over any sequence of boots, failures and crashes.       *)
(***************************************************************************)
EXTENDS ProvisionerProofs, FiniteSetTheorems

-----------------------------------------------------------------------------
(* The hook, the kernel and the table.                                     *)

WriteTo(next) == pc = "write" /\ ret = next

RelocatedPositions ==
  {"resizeFS", "remount", "setup", "steps", "stepDone", "sealGrub",
   "sealMaskUpdate", "sealMaskOEM", "stopServices", "cleanup", "rmdir",
   "scrub"}

\* The program that edits the table runs only at a shutdown that was prepared
\* for it, and never after a success; until then the kernel and the table
\* agree on the OEM partition.
BootInv ==
  /\ hook # "idle" => armed /\ pc \in {"reboot", "poweroff", "off"}
  /\ armed => pc \in {"journal", "reboot", "ended", "poweroff", "off"}
  /\ armed => outcome # "succeeded"
  /\ outcome = "succeeded" => pc \in {"ended", "poweroff", "off"}
  /\ pc \notin {"reboot", "poweroff", "off"} => boot.oem = table["oem"]
  /\ pc \in RelocatedPositions \/ WriteTo("steps") \/ outcome = "succeeded" =>
       ~NeedsRelocation
  /\ pc = "scrub" \/ outcome = "succeeded" => file = Missing

LEMMA BootInit == Init => BootInv
BY DEF Init, HookInit, BootInv, RelocatedPositions, WriteTo

LEMMA BootStart ==
  ASSUME TypeOK, BootInv, StartStep
  PROVE  BootInv'
<1> USE DEF Pass, Goto, DirStep, procVars, dirVars, diskVars, histVars,
            worldVars, crashVars, hookVars, RelocatedPositions, WriteTo,
            NeedsRelocation, OEMAfterSDA3, StateReclaimed
<1>1. CASE Startup \/ InitStateMkdir \/ UnpackBegin \/ UnpackEnd
  BY <1>1 DEF Startup, InitStateMkdir, UnpackBegin, UnpackEnd, BootInv
<1>2. CASE InitStateWrite
  BY <1>2 DEF InitStateWrite, BeginWrite, BootInv
<1>3. CASE FinishWrite
  BY <1>3 DEF FinishWrite, BootInv, TypeOK
<1>4. CASE LoadState
  BY <1>4 DEF LoadState, BootInv
<1>5. CASE LoadStateFails
  BY <1>5 DEF LoadStateFails, Fail, BootInv
<1> QED BY <1>1, <1>2, <1>3, <1>4, <1>5 DEF StartStep

LEMMA BootRepartition ==
  ASSUME TypeOK, BootInv, RepartitionStep
  PROVE  BootInv'
<1> USE DEF Pass, Goto, procVars, dirVars, diskVars, histVars,
            worldVars, crashVars, hookVars, RelocatedPositions, WriteTo,
            NeedsRelocation, OEMAfterSDA3, StateReclaimed
<1>1. CASE SwitchRootSkip \/ SwitchRootCopy \/ ShrinkSkip \/ WaitSkip
             \/ WaitReadSize \/ WaitAnnounce
  BY <1>1 DEF SwitchRootSkip, SwitchRootCopy, ShrinkSkip, WaitSkip,
              WaitReadSize, WaitAnnounce, BootInv
<1>2. CASE SwitchRootPrioritize \/ RelocateReboot
  BY <1>2 DEF SwitchRootPrioritize, RelocateReboot, RequestReboot, BootInv
<1>3. CASE ShrinkSDA3
  BY <1>3 DEF ShrinkSDA3, RequestReboot, BootInv
<1>4. CASE WaitResized
  BY <1>4 DEF WaitResized, BeginWrite, BootInv
<1>5. CASE WaitTimeout \/ ResizeFSFails \/ RemountFails
  BY <1>5 DEF WaitTimeout, ResizeFSFails, RemountFails, Fail, BootInv
<1>6. CASE RelocateSkip
  BY <1>6 DEF RelocateSkip, BootInv
<1>7. CASE RelocateArm
  BY <1>7 DEF RelocateArm, BootInv
<1>8. CASE ResizeFSSkip \/ ResizeFS \/ Remount
  BY <1>8 DEF ResizeFSSkip, ResizeFS, Remount, BootInv
<1> QED
  BY <1>1, <1>2, <1>3, <1>4, <1>5, <1>6, <1>7, <1>8 DEF RepartitionStep

LEMMA BootBuild ==
  ASSUME TypeOK, BootInv, BuildStep
  PROVE  BootInv'
<1> USE DEF Pass, Goto, DirStep, procVars, dirVars, diskVars, histVars,
            worldVars, crashVars, hookVars, RelocatedPositions, WriteTo,
            NeedsRelocation, OEMAfterSDA3, StateReclaimed
<1>1. CASE Setup \/ StepsDone \/ StopServices \/ CleanupEmpty \/ CleanupRmdir
  BY <1>1 DEF Setup, StepsDone, StopServices, CleanupEmpty, CleanupRmdir,
              BootInv
<1>2. CASE RunScript \/ InstallGPU \/ InstallPackages \/ DisableAutoUpdate
             \/ SealMaskOEM
  BY <1>2 DEF RunScript, InstallGPU, InstallPackages, DisableAutoUpdate,
              SealMaskOEM, AtStep, StepEnds, BootInv
<1>3. CASE SealFormat \/ SealGrub \/ SealMaskUpdate
  BY <1>3 DEF SealFormat, SealGrub, SealMaskUpdate, AtStep, BootInv
<1>4. CASE StepFails
  BY <1>4 DEF StepFails, Fail, BootInv
<1>5. CASE SaveStep
  BY <1>5 DEF SaveStep, BeginWrite, BootInv
<1>6. CASE Succeed
  BY <1>6 DEF Succeed, BootInv
<1> QED BY <1>1, <1>2, <1>3, <1>4, <1>5, <1>6 DEF BuildStep

LEMMA BootNext == TypeOK /\ BootInv /\ [Next]_vars => BootInv'
<1> SUFFICES ASSUME TypeOK, BootInv, [Next]_vars PROVE BootInv'
  OBVIOUS
<1> USE DEF Pass, Goto, procVars, dirVars, diskVars, histVars,
            worldVars, crashVars, hookVars, RelocatedPositions, WriteTo,
            NeedsRelocation, OEMAfterSDA3, StateReclaimed
<1>1. CASE StartStep \/ RepartitionStep \/ BuildStep
  BY <1>1, BootStart, BootRepartition, BootBuild
<1>2. CASE Shutdown \/ PowerOff
  BY <1>2 DEF Shutdown, PowerOff, BootInv
<1>3. CASE ShutdownHook
  <2>1. armed /\ pc \in {"reboot", "poweroff"}
    BY <1>3 DEF ShutdownHook, HookStart, Stopping, HookStep, HookShrink,
       HookPlan, HookMoveState, HookMoveOem, HookExtend, HookRefused,
       HookFault, BootInv
  <2> QED BY <1>3, <2>1 DEF ShutdownHook, BootInv
<1>4. CASE Reboot \/ Crash
  BY <1>4 DEF Reboot, Crash, Reset, BootInv
<1>5. CASE CommandFails
  BY <1>5 DEF CommandFails, Fail, Running, Positions, BootInv
<1>6. CASE DaisyResize
  BY <1>6 DEF DaisyResize, BootInv
<1>7. CASE UNCHANGED vars
  BY <1>7 DEF vars, BootInv
<1> QED
  BY <1>1, <1>2, <1>3, <1>4, <1>5, <1>6, <1>7
     DEF Next, VMStep, MachineStep, Stopped

-----------------------------------------------------------------------------
(* The root partition.                                                     *)

SwitchedPositions ==
  {"shrink", "readSize", "announce", "poll", "relocate", "journal"}

\* Where sda3 is given up, the machine runs from the copy of it on sda5.
RootInv ==
  /\ priority = "sda5" => copied
  /\ boot.root = "sda5" => priority = "sda5"
  /\ pc = "prioritize" => copied
  /\ conf.reclaim /\ (pc \in SwitchedPositions \/ WriteTo("relocate") \/ armed)
       => boot.root = "sda5"
  /\ table["sda3"] # InitTable["sda3"] => boot.root = "sda5"

LEMMA RootInit == Init => RootInv
BY DEF Init, HookInit, RootInv, SwitchedPositions, WriteTo

LEMMA RootNext == TypeOK /\ BootInv /\ RootInv /\ [Next]_vars => RootInv'
<1> SUFFICES ASSUME TypeOK, BootInv, RootInv, [Next]_vars PROVE RootInv'
  OBVIOUS
<1> USE DEF Pass, Goto, DirStep, procVars, dirVars, diskVars, histVars,
            worldVars, crashVars, hookVars, SwitchedPositions, WriteTo
<1>1. CASE StartStep
  BY <1>1 DEF StartStep, Startup, InitStateMkdir, UnpackBegin, UnpackEnd,
     InitStateWrite, FinishWrite, LoadState, LoadStateFails, BeginWrite, Fail,
     RootInv, TypeOK
<1>2. CASE SwitchRootSkip
  <2>1. conf.reclaim => boot.root = "sda5"
    BY <1>2 DEF SwitchRootSkip, NeedsSwitch
  <2> QED BY <1>2, <2>1 DEF SwitchRootSkip, RootInv
<1>3. CASE SwitchRootCopy
  BY <1>3 DEF SwitchRootCopy, RootInv
<1>4. CASE SwitchRootPrioritize
  <2>1. ~armed
    BY <1>4 DEF SwitchRootPrioritize, RequestReboot, BootInv
  <2> QED
    BY <1>4, <2>1 DEF SwitchRootPrioritize, RequestReboot, RootInv
<1>5. CASE ShrinkSDA3
  <2>1. conf.reclaim /\ boot.root = "sda5"
    BY <1>5 DEF ShrinkSDA3, NeedsShrink, RequestReboot, RootInv
  <2> QED BY <1>5, <2>1 DEF ShrinkSDA3, RequestReboot, RootInv
<1>6. CASE ShrinkSkip \/ WaitSkip \/ WaitReadSize \/ WaitAnnounce
             \/ WaitResized \/ WaitTimeout
  BY <1>6 DEF ShrinkSkip, WaitSkip, WaitReadSize, WaitAnnounce, WaitResized,
     WaitTimeout, BeginWrite, Fail, RootInv
<1>7. CASE RelocateSkip \/ RelocateArm \/ RelocateReboot \/ ResizeFSSkip
             \/ ResizeFS \/ ResizeFSFails \/ Remount \/ RemountFails
  BY <1>7 DEF RelocateSkip, RelocateArm, RelocateReboot, ResizeFSSkip,
     ResizeFS, ResizeFSFails, Remount, RemountFails, RequestReboot, Fail,
     RootInv
<1>8. CASE BuildStep
  <2>1. UNCHANGED <<priority, copied, boot, conf, armed, table>>
        /\ pc' \notin SwitchedPositions \cup {"prioritize"}
        /\ (pc' = "write" => ret' = "steps")
    BY <1>8 DEF BuildStep, Setup, RunScript, InstallGPU, InstallPackages,
       DisableAutoUpdate, SealMaskOEM, AtStep, StepEnds, MaskUnit, SealFormat,
       SealGrub, SealMaskUpdate, StepFails, Fail, SaveStep, BeginWrite,
       StepsDone, StopServices, CleanupEmpty, CleanupRmdir, Succeed
  <2> QED BY <2>1 DEF RootInv
<1>9. CASE Shutdown \/ PowerOff
  BY <1>9 DEF Shutdown, PowerOff, RootInv
<1>10. CASE ShutdownHook
  <2>1. UNCHANGED <<pc, ret, priority, copied, boot, conf, armed>>
    BY <1>10 DEF ShutdownHook
  <2>2. table'["sda3"] = table["sda3"] \/ (conf.reclaim /\ armed)
    BY <1>10 DEF ShutdownHook, HookStart, Stopping, HookStep, HookShrink,
       HookPlan, HookMoveState, HookMoveOem, HookExtend, HookRefused,
       HookFault, BootInv, MovePartition, ExtendPartition, TypeOK, HookTypeOK,
       Table, Parts
  <2> QED BY <2>1, <2>2 DEF RootInv
<1>11. CASE Reboot \/ Crash
  BY <1>11 DEF Reboot, Crash, Reset, RootInv
<1>12. CASE CommandFails
  BY <1>12 DEF CommandFails, Fail, RootInv
<1>13. CASE DaisyResize \/ UNCHANGED vars
  BY <1>13 DEF DaisyResize, vars, RootInv
<1> QED
  BY <1>1, <1>2, <1>3, <1>4, <1>5, <1>6, <1>7, <1>8, <1>9, <1>10, <1>11,
     <1>12, <1>13 DEF Next, VMStep, MachineStep, RepartitionStep, Stopped

-----------------------------------------------------------------------------
(* The size of the disk.                                                   *)

WaitedPositions == {"relocate", "journal"}

\* A build that waits for its disk knows that it has been enlarged before it
\* prepares the move of a partition.
ResizeInv ==
  /\ diskEnd \in {ImageEnd, GrownEnd}
  /\ pc \in {"announce", "poll"} =>
       startSize = diskEnd \/ diskEnd = GrownEnd
  /\ mem.resized \/ file.data.resized => diskEnd = GrownEnd
  /\ conf.wait /\ (pc \in WaitedPositions \/ WriteTo("relocate")) =>
       mem.resized
  /\ conf.wait /\ (armed \/ table["state"] # InitTable["state"]) =>
       diskEnd = GrownEnd

LEMMA ResizeInit == Init => ResizeInv
BY DEF Init, HookInit, ResizeInv, WaitedPositions, WriteTo, NoMem, Missing,
       File

LEMMA ResizeNext ==
  TypeOK /\ BootInv /\ ResizeInv /\ [Next]_vars => ResizeInv'
<1> SUFFICES ASSUME TypeOK, BootInv, ResizeInv, [Next]_vars PROVE ResizeInv'
  OBVIOUS
<1> USE DEF Pass, Goto, DirStep, procVars, dirVars, diskVars, histVars,
            worldVars, crashVars, hookVars, WaitedPositions, WriteTo
<1>1. CASE StartStep
  BY <1>1 DEF StartStep, Startup, InitStateMkdir, UnpackBegin, UnpackEnd,
     InitStateWrite, FinishWrite, LoadState, LoadStateFails, BeginWrite, Fail,
     ResizeInv, TypeOK, Empty, Saved, Corrupt, File, NoMem
<1>2. CASE SwitchRootSkip \/ SwitchRootCopy \/ SwitchRootPrioritize
             \/ ShrinkSkip
  BY <1>2 DEF SwitchRootSkip, SwitchRootCopy, SwitchRootPrioritize,
     RequestReboot, ShrinkSkip, ResizeInv
<1>3. CASE ShrinkSDA3
  <2>1. table'["state"] = table["state"]
    BY <1>3 DEF ShrinkSDA3, MinimizePartition, TypeOK, HookTypeOK, Table,
                Parts
  <2> QED BY <1>3, <2>1 DEF ShrinkSDA3, RequestReboot, ResizeInv
<1>4. CASE WaitSkip
  BY <1>4 DEF WaitSkip, NeedsWait, ResizeInv
<1>5. CASE WaitReadSize \/ WaitAnnounce
  BY <1>5 DEF WaitReadSize, WaitAnnounce, ResizeInv
<1>6. CASE WaitResized
  <2>1. diskEnd = GrownEnd /\ mem'.resized /\ file' = Corrupt /\ ~armed
    BY <1>6 DEF WaitResized, BeginWrite, ResizeInv, BootInv, TypeOK, MemType
  <2> QED
    BY <1>6, <2>1 DEF WaitResized, BeginWrite, ResizeInv, Corrupt, File, NoMem
<1>7. CASE WaitTimeout \/ RelocateSkip
  BY <1>7 DEF WaitTimeout, RelocateSkip, Fail, ResizeInv
<1>8. CASE RelocateArm
  BY <1>8 DEF RelocateArm, ResizeInv
<1>9. CASE RelocateReboot \/ ResizeFSSkip \/ ResizeFS \/ ResizeFSFails
             \/ Remount \/ RemountFails
  BY <1>9 DEF RelocateReboot, ResizeFSSkip, ResizeFS, ResizeFSFails, Remount,
     RemountFails, RequestReboot, Fail, ResizeInv
<1>10. CASE BuildStep
  <2>1. UNCHANGED <<diskEnd, conf, armed, table>> /\ mem'.resized = mem.resized
        /\ (file'.data.resized => file.data.resized)
        /\ pc' \notin {"announce", "poll", "relocate", "journal"}
        /\ (pc' = "write" => ret' = "steps")
    BY <1>10 DEF BuildStep, Setup, RunScript, InstallGPU, InstallPackages,
       DisableAutoUpdate, SealMaskOEM, AtStep, StepEnds, MaskUnit, SealFormat,
       SealGrub, SealMaskUpdate, StepFails, Fail, SaveStep, BeginWrite,
       StepsDone, StopServices, CleanupEmpty, CleanupRmdir, Succeed, TypeOK,
       MemType, Empty, Missing, Corrupt, File, NoMem
  <2> QED BY <2>1 DEF ResizeInv
<1>11. CASE Shutdown \/ PowerOff
  BY <1>11 DEF Shutdown, PowerOff, ResizeInv
<1>12. CASE ShutdownHook
  <2>1. armed
    BY <1>12 DEF ShutdownHook, HookStart, Stopping, HookStep, HookShrink,
       HookPlan, HookMoveState, HookMoveOem, HookExtend, HookRefused,
       HookFault, BootInv
  <2> QED BY <1>12, <2>1 DEF ShutdownHook, Stopping, ResizeInv
<1>13. CASE Reboot \/ Crash
  BY <1>13 DEF Reboot, Crash, Reset, NoMem, ResizeInv
<1>14. CASE CommandFails
  BY <1>14 DEF CommandFails, Fail, ResizeInv
<1>15. CASE DaisyResize \/ UNCHANGED vars
  BY <1>15 DEF DaisyResize, vars, ResizeInv
<1> QED
  BY <1>1, <1>2, <1>3, <1>4, <1>5, <1>6, <1>7, <1>8, <1>9, <1>10, <1>11,
     <1>12, <1>13, <1>14, <1>15
     DEF Next, VMStep, MachineStep, RepartitionStep, Stopped

-----------------------------------------------------------------------------
(* The OEM file system.                                                    *)

SealsOEM == \E i \in 1 .. NumSteps : conf.steps[i] = "SealOEM"

ResizedPositions ==
  {"remount", "setup", "steps", "stepDone", "sealGrub", "sealMaskUpdate",
   "sealMaskOEM"}

\* The file system stays inside its partition, and a build that seals has
\* given it the size that the hash tree starts at.
FSInv ==
  /\ oemFS \in Nat /\ oemFS <= table["oem"].size
  /\ sealed = "valid" => oemFS <= conf.fsSize /\ conf.fsSize < table["oem"].size
  /\ SealsOEM /\ (pc \in ResizedPositions \/ WriteTo("steps")) =>
       oemFS = conf.fsSize

LEMMA SealingConfig ==
  ASSUME TypeOK, SealsOEM
  PROVE  conf.oemSize # 0 /\ conf.fsSize # 0
<1>1. conf \in Configs /\ conf.steps \in Seq(StepTypes)
  BY ProvisionerAssumption DEF TypeOK, HookTypeOK, ConfigType
<1>2. DOMAIN conf.steps = 1 .. NumSteps
  BY <1>1 DEF NumSteps
<1> QED BY <1>1, <1>2, SealAssumption DEF SealsOEM

\* A build that seals always resizes the file system: its OEM partition is
\* behind sda3.
LEMMA SealingResizes ==
  ASSUME TypeOK, BootInv, pc = "resizeFS", SealsOEM
  PROVE  ~FSResizeUnneeded
<1>1. conf.oemSize # 0
  BY SealingConfig
<1>2. table["oem"].start > SDA3End(table)
  BY <1>1 DEF BootInv, RelocatedPositions, NeedsRelocation, OEMAfterSDA3
<1>3. table["oem"].start \in Nat /\ SDA3End(table) \in Int
  BY DEF TypeOK, HookTypeOK, Table, Extent, Parts, SDA3End
<1> QED BY <1>1, <1>2, <1>3 DEF FSResizeUnneeded

LEMMA FSInit == Init => FSInv
<1> SUFFICES ASSUME Init PROVE FSInv
  OBVIOUS
<1>1. oemFS = table["oem"].size /\ oemFS \in Nat
  BY ImageAssumption DEF Init, HookInit, Table, Extent, Parts
<1> QED BY <1>1 DEF Init, FSInv, ResizedPositions, WriteTo

\* The disk layout program never makes the OEM partition smaller.
LEMMA HookGrowsOEM ==
  ASSUME TypeOK, ShutdownHook
  PROVE  table'["oem"].size \in Nat /\ table'["oem"].size >= table["oem"].size
<1>0. table \in [Parts -> Extent] /\ table["oem"].size \in Nat
  BY DEF TypeOK, HookTypeOK, Table, Extent, Parts
<1>1. CASE HookStart \/ HookPlan \/ HookRefused \/ HookFault
  BY <1>0, <1>1 DEF HookStart, HookPlan, HookRefused, HookFault
<1>2. CASE HookShrink
  <2>1. table'["oem"] = table["oem"]
    BY <1>0, <1>2 DEF HookShrink, MinimizePartition, Parts
  <2> QED BY <1>0, <2>1
<1>3. CASE HookMoveState \/ HookMoveOem
  <2>1. table'["oem"].size = table["oem"].size
    BY <1>0, <1>3 DEF HookMoveState, HookMoveOem, MovePartition, Parts, Extent
  <2> QED BY <1>0, <2>1
<1>4. CASE HookExtend
  <2>1. table'["oem"].size = ExtendedSize(table, "oem", newState - 1)
    BY <1>0, <1>4 DEF HookExtend, ExtendPartition, Parts, Extent
  <2>2. ExtendedSize(table, "oem", newState - 1) \in Int
    BY DEF ExtendedSize, TypeOK, HookTypeOK, Table, Extent, Parts
  <2> QED BY <1>0, <1>4, <2>1, <2>2 DEF HookExtend, Grows
<1> QED BY <1>1, <1>2, <1>3, <1>4 DEF ShutdownHook, HookStep

LEMMA FSNext == TypeOK /\ BootInv /\ FSInv /\ [Next]_vars => FSInv'
<1> SUFFICES ASSUME TypeOK, BootInv, FSInv, [Next]_vars PROVE FSInv'
  OBVIOUS
<1> USE DEF Pass, Goto, DirStep, procVars, dirVars, diskVars, histVars,
            worldVars, crashVars, hookVars, ResizedPositions, WriteTo
<1>0. table["oem"].size \in Nat /\ conf.fsSize \in Nat
  BY ProvisionerAssumption
     DEF TypeOK, HookTypeOK, ConfigType, Table, Extent, Parts
<1>1. ASSUME UNCHANGED conf PROVE SealsOEM' = SealsOEM
  BY <1>1 DEF SealsOEM, NumSteps
<1>2. CASE StartStep
  <2>1. UNCHANGED <<oemFS, sealed, table, conf>>
    BY <1>2 DEF StartStep, Startup, InitStateMkdir, UnpackBegin, UnpackEnd,
       InitStateWrite, FinishWrite, LoadState, LoadStateFails, BeginWrite,
       Fail
  <2>2. \/ pc' \notin ResizedPositions \cup {"write"}
        \/ pc' = "write" /\ ret' = "unpack"
        \/ pc = "write" /\ pc' = ret
    BY <1>2 DEF StartStep, Startup, InitStateMkdir, UnpackBegin, UnpackEnd,
       InitStateWrite, FinishWrite, LoadState, LoadStateFails, BeginWrite,
       Fail
  <2> QED BY <1>1, <2>1, <2>2 DEF FSInv, TypeOK
<1>3. CASE ShrinkSDA3
  <2>1. table'["oem"] = table["oem"]
    BY <1>3 DEF ShrinkSDA3, MinimizePartition, TypeOK, HookTypeOK, Table,
                Parts
  <2> QED BY <1>1, <1>3, <2>1 DEF ShrinkSDA3, RequestReboot, FSInv
<1>4. CASE SwitchRootSkip \/ SwitchRootCopy \/ SwitchRootPrioritize
             \/ ShrinkSkip \/ WaitSkip \/ WaitReadSize \/ WaitAnnounce
             \/ WaitResized \/ WaitTimeout \/ RelocateSkip \/ RelocateArm
             \/ RelocateReboot
  <2>1. UNCHANGED <<oemFS, sealed, table, conf>>
        /\ pc' \notin ResizedPositions
        /\ (pc' = "write" => ret' = "relocate")
    BY <1>4 DEF SwitchRootSkip, SwitchRootCopy, SwitchRootPrioritize,
       ShrinkSkip, WaitSkip, WaitReadSize, WaitAnnounce, WaitResized,
       WaitTimeout, RelocateSkip, RelocateArm, RelocateReboot, RequestReboot,
       BeginWrite, Fail
  <2> QED BY <1>1, <2>1 DEF FSInv
<1>5. CASE ResizeFSSkip
  <2>1. ~SealsOEM
    BY <1>5, SealingResizes DEF ResizeFSSkip
  <2> QED BY <1>1, <1>5, <2>1 DEF ResizeFSSkip, FSInv
<1>6. CASE ResizeFS
  <2>1. boot.oem = table["oem"]
    BY <1>6 DEF ResizeFS, BootInv
  <2>2. sealed' # "valid"
    BY <1>6 DEF ResizeFS, Stale
  <2>3. SealsOEM => oemFS' = conf.fsSize
    BY <1>6, SealingConfig DEF ResizeFS, NewFSSize
  <2>4. oemFS' \in Nat /\ oemFS' <= table["oem"].size
    BY <1>0, <1>6, <2>1 DEF ResizeFS, NewFSSize
  <2> QED BY <1>1, <1>6, <2>2, <2>3, <2>4 DEF ResizeFS, FSInv
<1>7. CASE ResizeFSFails
  BY <1>1, <1>7 DEF ResizeFSFails, Fail, Stale, FSInv
<1>8. CASE Remount \/ RemountFails
  BY <1>1, <1>8 DEF Remount, RemountFails, Fail, FSInv
<1>9. CASE SealFormat
  <2>1. SealsOEM
    <3>1. Current \in 1 .. NumSteps /\ conf.steps[Current] = "SealOEM"
      BY <1>9, ProvisionerAssumption
         DEF SealFormat, AtStep, Current, NumSteps, TypeOK, MemType,
             HookTypeOK, ConfigType
    <3> QED BY <3>1 DEF SealsOEM
  <2>2. boot.oem = table["oem"] /\ pc = "steps"
    BY <1>9 DEF SealFormat, AtStep, BootInv
  <2>3. oemFS = conf.fsSize /\ conf.fsSize < table["oem"].size
    BY <1>9, <2>1, <2>2 DEF SealFormat, FSInv
  <2> QED BY <1>0, <1>1, <1>9, <2>1, <2>3 DEF SealFormat, FSInv
<1>10. CASE BuildStep /\ ~SealFormat
  <2>1. UNCHANGED <<oemFS, sealed, table, conf>>
        /\ (pc' \in ResizedPositions \/ pc' = "write" => pc \in ResizedPositions)
    BY <1>10 DEF BuildStep, Setup, RunScript, InstallGPU, InstallPackages,
       DisableAutoUpdate, SealMaskOEM, AtStep, StepEnds, MaskUnit,
       SealGrub, SealMaskUpdate, StepFails, Fail, SaveStep, BeginWrite,
       StepsDone, StopServices, CleanupEmpty, CleanupRmdir, Succeed
  <2> QED BY <1>1, <2>1 DEF FSInv
<1>11. CASE Shutdown \/ PowerOff
  BY <1>1, <1>11 DEF Shutdown, PowerOff, FSInv
<1>12. CASE ShutdownHook
  <2>1. UNCHANGED <<oemFS, sealed, conf, pc, ret>>
    BY <1>12 DEF ShutdownHook
  <2> QED BY <1>0, <1>1, <1>12, <2>1, HookGrowsOEM DEF FSInv
<1>13. CASE Reboot \/ Crash
  BY <1>1, <1>13 DEF Reboot, Crash, Reset, FSInv
<1>14. CASE CommandFails
  BY <1>1, <1>14 DEF CommandFails, Fail, FSInv
<1>15. CASE DaisyResize \/ UNCHANGED vars
  BY <1>1, <1>15 DEF DaisyResize, vars, FSInv
<1> QED
  BY <1>2, <1>3, <1>4, <1>5, <1>6, <1>7, <1>8, <1>9, <1>10, <1>11, <1>12,
     <1>13, <1>14, <1>15
     DEF Next, VMStep, MachineStep, RepartitionStep, Stopped

-----------------------------------------------------------------------------
(* Sealed images.                                                          *)

OEMMount == "usr-share-oem.mount"

SealedUpTo(c, n) ==
  \E i \in 1 .. Len(c.steps) : i <= n /\ c.steps[i] = "SealOEM"

TreeIsFound == grub.tree = "current" \/ grub.entries > 2

\* Before the steps of a boot, but for the reboots.
EarlyPositions ==
  {"startup", "mkdir", "create", "unpack", "extract", "load", "switchRoot",
   "prioritize", "shrink", "readSize", "announce", "poll", "relocate",
   "resizeFS", "remount"}
Early == pc \in EarlyPositions \/ WriteTo("unpack") \/ WriteTo("relocate")

SealingPositions ==
  {"steps", "stepDone", "sealGrub", "sealMaskUpdate", "sealMaskOEM",
   "stopServices", "cleanup", "rmdir", "scrub"}
Sealing ==
  pc \in SealingPositions \/ WriteTo("steps") \/ outcome = "succeeded"

(* A seal-oem that an earlier boot has completed left the mask of the OEM  *)
(* mount on the kernel's command line, so that this boot, which has had    *)
(* the file system checked, does not get past the remount.  In a boot that *)
(* gets to the steps, a completed seal-oem is thus one of this boot.       *)
SealInv ==
  /\ file.kind = "ok" /\ SealedUpTo(conf, file.data.step) =>
       OEMMount \in grub.masked
  /\ SealedUpTo(conf, mem.step) => OEMMount \in grub.masked
  /\ Early /\ file.kind = "ok" /\ SealedUpTo(conf, file.data.step) =>
       OEMMount \in boot.masked
  /\ Early /\ SealedUpTo(conf, mem.step) => OEMMount \in boot.masked
  /\ pc = "setup" => ~SealedUpTo(conf, mem.step)
  /\ Sealing /\ SealedUpTo(conf, mem.step) =>
       sealed = "valid" /\ (pc # "sealGrub" => TreeIsFound)
  /\ pc \in {"sealGrub", "sealMaskUpdate", "sealMaskOEM"} => sealed = "valid"
  /\ pc \in {"sealMaskUpdate", "sealMaskOEM"} => TreeIsFound
  /\ pc = "stepDone" /\ SealedUpTo(conf, mem.step + 1) =>
       sealed = "valid" /\ TreeIsFound /\ OEMMount \in grub.masked
  /\ grub.entries >= 1 /\ (grub.tree # "none" => grub.entries >= 2)
  /\ pc \in LatePositions \/ outcome = "succeeded" => mem.step >= NumSteps

LEMMA NothingSealed == \A c : ~SealedUpTo(c, 0)
BY DEF SealedUpTo

\* The step after those up to n.
LEMMA SealedNext ==
  ASSUME NEW c \in ConfigType, NEW n \in Nat, n < Len(c.steps),
         c.steps[n + 1] # "SealOEM"
  PROVE  SealedUpTo(c, n + 1) => SealedUpTo(c, n)
<1>1. Len(c.steps) \in Nat
  BY DEF ConfigType
<1> QED BY <1>1 DEF SealedUpTo

LEMMA SealInit == Init => SealInv
BY NothingSealed
   DEF Init, SealInv, NoMem, Missing, File, WriteTo, Sealing,
       SealingPositions, LatePositions

LEMMA SealStart ==
  ASSUME TypeOK, BootInv, SealInv, StartStep
  PROVE  SealInv'
<1> USE DEF Pass, Goto, DirStep, procVars, diskVars, histVars, worldVars,
            crashVars, hookVars, WriteTo, Early, EarlyPositions, Sealing,
            SealingPositions, LatePositions, TreeIsFound, NumSteps
<1>1. CASE Startup \/ InitStateMkdir \/ UnpackBegin \/ UnpackEnd
  BY <1>1 DEF Startup, InitStateMkdir, UnpackBegin, UnpackEnd, dirVars,
              Empty, File, SealInv
<1>2. CASE InitStateWrite
  BY <1>2, NothingSealed
     DEF InitStateWrite, BeginWrite, NoMem, Corrupt, File, SealInv, BootInv
<1>3. CASE FinishWrite
  BY <1>3 DEF FinishWrite, Saved, File, SealInv, TypeOK
<1>4. CASE LoadState
  BY <1>4 DEF LoadState, dirVars, SealInv, BootInv
<1>5. CASE LoadStateFails
  BY <1>5 DEF LoadStateFails, Fail, dirVars, SealInv
<1> QED BY <1>1, <1>2, <1>3, <1>4, <1>5 DEF StartStep

LEMMA SealRepartition ==
  ASSUME TypeOK, BootInv, SealInv, RepartitionStep
  PROVE  SealInv'
<1> USE DEF Pass, Goto, procVars, dirVars, diskVars, histVars, worldVars,
            crashVars, hookVars, WriteTo, Early, EarlyPositions, Sealing,
            SealingPositions, LatePositions, TreeIsFound, NumSteps
<1>1. CASE SwitchRootSkip \/ SwitchRootCopy \/ ShrinkSkip \/ WaitSkip
             \/ WaitReadSize \/ WaitAnnounce \/ RelocateSkip \/ RelocateArm
  BY <1>1 DEF SwitchRootSkip, SwitchRootCopy, ShrinkSkip, WaitSkip,
     WaitReadSize, WaitAnnounce, RelocateSkip, RelocateArm, SealInv
<1>2. CASE SwitchRootPrioritize \/ RelocateReboot \/ ShrinkSDA3
  BY <1>2 DEF SwitchRootPrioritize, RelocateReboot, ShrinkSDA3, RequestReboot,
              SealInv
<1>3. CASE WaitResized
  <2>1. mem'.step = mem.step
    BY <1>3 DEF WaitResized, BeginWrite, TypeOK, MemType
  <2> QED
    BY <1>3, <2>1 DEF WaitResized, BeginWrite, Corrupt, File, SealInv, BootInv
<1>4. CASE WaitTimeout \/ RemountFails
  BY <1>4 DEF WaitTimeout, RemountFails, Fail, SealInv
<1>5. CASE ResizeFSFails
  BY <1>5 DEF ResizeFSFails, Fail, SealInv
<1>6. CASE ResizeFSSkip
  <2>1. ~SealsOEM
    BY <1>6, SealingResizes DEF ResizeFSSkip
  <2>2. ~SealedUpTo(conf, mem.step)
    BY <2>1 DEF SealsOEM, SealedUpTo
  <2> QED BY <1>6, <2>2 DEF ResizeFSSkip, SealInv
<1>7. CASE ResizeFS
  BY <1>7 DEF ResizeFS, SealInv, BootInv
<1>8. CASE Remount
  <2>1. ~SealedUpTo(conf, mem.step)
    BY <1>8 DEF Remount, OEMMountMasked, OEMMount, SealInv
  <2> QED BY <1>8, <2>1 DEF Remount, SealInv
<1> QED
  BY <1>1, <1>2, <1>3, <1>4, <1>5, <1>6, <1>7, <1>8 DEF RepartitionStep

LEMMA SealBuild ==
  ASSUME TypeOK, BootInv, SealInv, BuildStep
  PROVE  SealInv'
<1> USE DEF Pass, Goto, DirStep, procVars, diskVars, histVars, worldVars,
            crashVars, hookVars, WriteTo, Early, EarlyPositions, Sealing,
            SealingPositions, LatePositions, TreeIsFound, NumSteps
<1>0. conf \in ConfigType /\ mem.step \in Nat /\ grub.entries \in Nat
      /\ grub \in GrubType
  BY ProvisionerAssumption DEF TypeOK, HookTypeOK, MemType, GrubType
<1>1. CASE Setup
  BY <1>1 DEF Setup, dirVars, SealInv, BootInv
<1>2. CASE StepsDone \/ StopServices \/ CleanupEmpty \/ CleanupRmdir
  BY <1>2 DEF StepsDone, StopServices, CleanupEmpty, CleanupRmdir, dirVars,
              Empty, Missing, File, SealInv
<1>3. CASE RunScript \/ InstallGPU \/ InstallPackages
  <2>1. pc = "steps" /\ mem.step < Len(conf.steps)
        /\ conf.steps[mem.step + 1] # "SealOEM"
    BY <1>3 DEF RunScript, InstallGPU, InstallPackages, AtStep, Current
  <2>2. SealedUpTo(conf, mem.step + 1) => SealedUpTo(conf, mem.step)
    BY <1>0, <2>1, SealedNext
  <2> QED
    BY <1>3, <2>1, <2>2 DEF RunScript, InstallGPU, InstallPackages, StepEnds,
                            dirVars, SealInv
<1>4. CASE DisableAutoUpdate
  <2>1. pc = "steps" /\ mem.step < Len(conf.steps)
        /\ conf.steps[mem.step + 1] # "SealOEM"
    BY <1>4 DEF DisableAutoUpdate, AtStep, Current
  <2>2. SealedUpTo(conf, mem.step + 1) => SealedUpTo(conf, mem.step)
    BY <1>0, <2>1, SealedNext
  <2>3. grub'.entries = grub.entries /\ grub'.tree = grub.tree
        /\ (OEMMount \in grub.masked => OEMMount \in grub'.masked)
    BY <1>0, <1>4 DEF DisableAutoUpdate, MaskUnit, GrubType
  <2> QED
    BY <1>4, <2>1, <2>2, <2>3
       DEF DisableAutoUpdate, StepEnds, MaskUnit, dirVars, SealInv
<1>5. CASE StepFails
  BY <1>5 DEF StepFails, Fail, dirVars, SealInv
<1>6. CASE SealFormat
  <2>1. grub'.entries = grub.entries /\ grub'.masked = grub.masked
        /\ (grub'.tree # "none" => grub.tree # "none")
    BY <1>0, <1>6 DEF SealFormat, GrubType
  <2> QED BY <1>6, <2>1 DEF SealFormat, AtStep, dirVars, SealInv
<1>7. CASE SealGrub
  <2>1. grub'.entries = grub.entries + 1 /\ grub'.masked = grub.masked
        /\ grub'.tree = (IF grub.tree = "none" THEN "current" ELSE grub.tree)
    BY <1>0, <1>7 DEF SealGrub, GrubType
  <2>2. TreeIsFound' /\ grub'.entries >= 2
    BY <1>0, <2>1 DEF SealInv
  <2>3. UNCHANGED <<file, mem, conf, sealed, boot, outcome, ret>>
        /\ pc = "sealGrub" /\ pc' = "sealMaskUpdate"
    BY <1>7 DEF SealGrub, dirVars
  <2> HIDE DEF TreeIsFound
  <2> QED BY <1>0, <2>1, <2>2, <2>3 DEF SealInv
<1>8. CASE SealMaskUpdate \/ SealMaskOEM
  <2>1. grub'.entries = grub.entries /\ grub'.tree = grub.tree
        /\ (OEMMount \in grub.masked => OEMMount \in grub'.masked)
        /\ (SealMaskOEM => OEMMount \in grub'.masked)
    BY <1>0, <1>8 DEF SealMaskUpdate, SealMaskOEM, MaskUnit, GrubType, OEMMount
  <2> QED
    BY <1>8, <2>1 DEF SealMaskUpdate, SealMaskOEM, StepEnds, MaskUnit,
                      dirVars, SealInv
<1>9. CASE SaveStep
  <2>1. mem'.step = mem.step + 1 /\ file'.kind # "ok" /\ pc = "stepDone"
        /\ UNCHANGED <<conf, grub, sealed, outcome, boot>>
        /\ pc' = "write" /\ ret' = "steps"
    BY <1>9 DEF SaveStep, BeginWrite, TypeOK, MemType, Corrupt, File
  <2>2. outcome # "succeeded"
    BY <2>1 DEF BootInv
  <2> QED BY <2>1, <2>2 DEF SealInv
<1>10. CASE Succeed
  BY <1>10 DEF Succeed, dirVars, SealInv
<1> QED
  BY <1>1, <1>2, <1>3, <1>4, <1>5, <1>6, <1>7, <1>8, <1>9, <1>10 DEF BuildStep

LEMMA SealNext == TypeOK /\ BootInv /\ SealInv /\ [Next]_vars => SealInv'
<1> SUFFICES ASSUME TypeOK, BootInv, SealInv, [Next]_vars PROVE SealInv'
  OBVIOUS
<1> USE DEF Pass, Goto, procVars, dirVars, diskVars, histVars, worldVars,
            crashVars, hookVars, WriteTo, Early, EarlyPositions, Sealing,
            SealingPositions, LatePositions, TreeIsFound, NumSteps
<1>1. CASE StartStep \/ RepartitionStep \/ BuildStep
  BY <1>1, SealStart, SealRepartition, SealBuild
<1>2. CASE Shutdown \/ PowerOff
  BY <1>2 DEF Shutdown, PowerOff, SealInv
<1>3. CASE ShutdownHook
  BY <1>3 DEF ShutdownHook, SealInv
<1>4. CASE Reboot \/ Crash
  <2>1. UNCHANGED <<file, grub, conf, sealed>> /\ mem' = NoMem
        /\ pc' = "startup" /\ boot'.masked = grub.masked /\ outcome' = "none"
    BY <1>4 DEF Reboot, Crash, Reset
  <2>2. ~SealedUpTo(conf, mem'.step)
    BY <2>1, NothingSealed DEF NoMem
  <2> QED BY <2>1, <2>2 DEF SealInv
<1>5. CASE CommandFails
  BY <1>5 DEF CommandFails, Fail, SealInv
<1>6. CASE DaisyResize \/ UNCHANGED vars
  BY <1>6 DEF DaisyResize, vars, SealInv
<1> QED
  BY <1>1, <1>2, <1>3, <1>4, <1>5, <1>6
     DEF Next, VMStep, MachineStep, Stopped

-----------------------------------------------------------------------------
(* The disk layout program as the provisioner runs it.                     *)

LEMMA LayoutHolds ==
  TypeOK /\ TypeOK' /\ BootInv /\ ResizeInv /\ LayoutInv /\ [Next]_vars
    => LayoutInv'
<1> SUFFICES ASSUME TypeOK, TypeOK', BootInv, ResizeInv, LayoutInv,
                    [Next]_vars
             PROVE  LayoutInv'
  OBVIOUS
<1> USE DEF Pass, Goto, DirStep, procVars, dirVars, diskVars, histVars,
            worldVars, crashVars, hookVars
<1>1. HookTypeOK /\ HookTypeOK'
  BY DEF TypeOK
<1>2. ASSUME UNCHANGED <<conf, diskEnd, table, hook, startPoint, newState>>
      PROVE  LayoutInv'
  BY <1>1, <1>2 DEF LayoutInv, RootsInPlace, Aligned, StateAfterSDA3,
                    PlanHolds, After
<1>3. CASE StartStep
  BY <1>2, <1>3 DEF StartStep, Startup, InitStateMkdir, UnpackBegin,
     UnpackEnd, InitStateWrite, FinishWrite, LoadState, LoadStateFails,
     BeginWrite, Fail
<1>4. CASE RepartitionStep /\ ~ShrinkSDA3
  BY <1>2, <1>4 DEF RepartitionStep, SwitchRootSkip, SwitchRootCopy,
     SwitchRootPrioritize, ShrinkSkip, WaitSkip, WaitReadSize, WaitAnnounce,
     WaitResized, WaitTimeout, RelocateSkip, RelocateArm, RelocateReboot,
     RequestReboot, BeginWrite, Fail, ResizeFSSkip, ResizeFS, ResizeFSFails,
     Remount, RemountFails
<1>5. CASE ShrinkSDA3
  <2>1. /\ table' = [table EXCEPT !["sda3"].size = MinSize]
        /\ MinSize < table["sda3"].size
    BY <1>5, <1>1, GeometryAssumption
       DEF ShrinkSDA3, NeedsShrink, MinimizePartition, IsPartitionMinimal,
           HookTypeOK, Table, Extent, Parts
  <2>2. hook = "idle" /\ UNCHANGED <<conf, diskEnd, hook, startPoint>>
    BY <1>5, <1>1 DEF ShrinkSDA3, RequestReboot, BootInv
  <2> QED
    BY <1>1, <2>1, <2>2, ImageAssumption, GeometryAssumption
       DEF LayoutInv, RootsInPlace, Aligned, StateAfterSDA3,
           PlanHolds, HookTypeOK, Table, Extent, Parts
<1>6. CASE BuildStep
  BY <1>2, <1>6 DEF BuildStep, Setup, RunScript, InstallGPU, InstallPackages,
     DisableAutoUpdate, SealMaskOEM, AtStep, StepEnds, MaskUnit, SealFormat,
     SealGrub, SealMaskUpdate, StepFails, Fail, SaveStep, BeginWrite,
     StepsDone, StopServices, CleanupEmpty, CleanupRmdir, Succeed
<1>7. CASE Shutdown \/ PowerOff
  BY <1>2, <1>7 DEF Shutdown, PowerOff
<1>8. CASE ShutdownHook
  <2>1. CASE HookStep
    BY <1>8, <2>1, LayoutInvStep DEF ShutdownHook
  <2>2. CASE HookStart
    BY <1>1, <1>8, <2>2
       DEF ShutdownHook, HookStart, LayoutInv, RootsInPlace, Aligned,
           StateAfterSDA3, PlanHolds
  <2> QED BY <1>8, <2>1, <2>2 DEF ShutdownHook
<1>9. CASE Reboot \/ Crash
  <2>1. UNCHANGED <<conf, diskEnd, table>> /\ hook' = "idle"
        /\ startPoint' = 0
    BY <1>9 DEF Reboot, Crash, Reset
  <2>2. 0 % Align = 0
    BY GeometryAssumption
  <2> QED
    BY <1>1, <2>1, <2>2 DEF LayoutInv, RootsInPlace, Aligned, StateAfterSDA3,
                            PlanHolds
<1>10. CASE CommandFails
  BY <1>2, <1>10 DEF CommandFails, Fail
<1>11. CASE DaisyResize
  <2>1. diskEnd <= diskEnd' /\ diskEnd \in Nat /\ diskEnd' \in Nat
    BY <1>11, ProvisionerAssumption, DiskAssumption
       DEF DaisyResize, ResizeInv
  <2>2. UNCHANGED <<conf, hookVars>>
    BY <1>11 DEF DaisyResize
  <2> QED
    BY <1>1, <2>1, <2>2 DEF LayoutInv, RootsInPlace, Aligned, StateAfterSDA3,
                            PlanHolds, After, HookTypeOK
<1>12. CASE UNCHANGED vars
  BY <1>2, <1>12 DEF vars
<1> QED
  BY <1>3, <1>4, <1>5, <1>6, <1>7, <1>8, <1>9, <1>10, <1>11, <1>12
     DEF Next, VMStep, MachineStep, Stopped

-----------------------------------------------------------------------------
(* Where the OEM partition is, and that it has been extended.              *)

OEMInPlace == table["oem"].start = InitTable["oem"].start

\* The OEM partition is where the image has it until it is moved behind sda3,
\* which the program leaves, unless it is stopped there, only with the OEM
\* partition reaching up to the stateful one.
ExtendInv ==
  /\ OEMInPlace \/ table["oem"].start >= After(table, "sda3")
  /\ conf.oemSize # 0 /\ armed /\ hook \notin {"extend", "done", "error"} =>
       OEMInPlace
  /\ conf.oemSize # 0 /\ ~cutShort /\ ~OEMInPlace =>
       hook = "extend" \/ After(table, "oem") = table["state"].start

\* The check of disk_layout.go:195, which sees the move and not the extension.
LEMMA OEMMoved == ASSUME LayoutInv, ExtendInv PROVE OEMAfterSDA3 <=> ~OEMInPlace
<1>1. /\ InitTable["oem"].start + InitTable["oem"].size
           <= InitTable["sda3"].start
      /\ table["sda3"].start = InitTable["sda3"].start
  BY ImageAssumption DEF LayoutInv, RootsInPlace, After
<1>2. /\ table["sda3"].start \in Nat /\ table["sda3"].size \in Nat \ {0}
      /\ table["oem"].start \in Nat /\ InitTable["oem"].start \in Nat
      /\ InitTable["oem"].size \in Nat \ {0}
  BY ImageAssumption DEF LayoutInv, HookTypeOK, Table, Extent, Parts
<1> QED BY <1>1, <1>2 DEF OEMAfterSDA3, OEMInPlace, SDA3End, After, ExtendInv

\* Shrinking sda3 leaves the other partitions and the start of sda3 alone.
LEMMA OnlySDA3Shrinks ==
  ASSUME NEW t \in Table, NEW u, u = MinimizePartition(t, "sda3")
  PROVE  /\ u["oem"] = t["oem"] /\ u["state"] = t["state"]
         /\ u["sda3"].start = t["sda3"].start
         /\ u["sda3"].size \in Nat /\ u["sda3"].size <= t["sda3"].size
<1>1. t["sda3"] \in Extent /\ t \in [Parts -> Extent]
  BY DEF Table, Parts
<1>2. CASE IsPartitionMinimal(t, "sda3")
  BY <1>1, <1>2 DEF MinimizePartition, Extent
<1>3. CASE ~IsPartitionMinimal(t, "sda3")
  <2>1. u = [t EXCEPT !["sda3"].size = MinSize]
    BY <1>3 DEF MinimizePartition
  <2>2. MinSize \in Nat /\ MinSize <= t["sda3"].size
    BY <1>1, <1>3, GeometryAssumption DEF IsPartitionMinimal, Extent
  <2> QED BY <1>1, <2>1, <2>2 DEF Parts, Extent
<1> QED BY <1>2, <1>3

LEMMA ExtendInit == Init => ExtendInv
BY DEF Init, HookInit, ExtendInv, OEMInPlace

LEMMA ExtendHook ==
  ASSUME TypeOK, BootInv, LayoutInv, LayoutInv', ExtendInv, ShutdownHook
  PROVE  ExtendInv'
<1>01. table \in [Parts -> Extent] /\ startPoint \in Nat /\ newState \in Nat
       /\ InitTable["oem"].start \in Nat /\ conf.oemSize \in Nat
  BY ConfigAssumption, ImageAssumption
     DEF TypeOK, HookTypeOK, Table, Parts, Extent
<1>02. UNCHANGED <<conf, armed>>
       /\ cutShort' = (cutShort \/ (hook = "extend" /\ HookFault))
  BY DEF ShutdownHook, procVars
<1> USE <1>01, <1>02 DEF ExtendInv, OEMInPlace, After
<1>1. armed
  BY DEF ShutdownHook, HookStart, Stopping, HookStep, HookShrink, HookPlan,
     HookMoveState, HookMoveOem, HookExtend, HookRefused, HookFault, BootInv
<1>2. CASE HookStart \/ HookPlan
  BY <1>1, <1>2 DEF HookStart, HookPlan
<1>3. CASE HookShrink
  <2>1. /\ table'["oem"] = table["oem"] /\ table'["state"] = table["state"]
        /\ table'["sda3"].start = table["sda3"].start
        /\ table'["sda3"].size \in Nat
        /\ table'["sda3"].size <= table["sda3"].size
    BY <1>3, OnlySDA3Shrinks DEF HookShrink, TypeOK, HookTypeOK
  <2>2. table["sda3"].start \in Nat /\ table["sda3"].size \in Nat
        /\ table["oem"].start \in Nat
    BY DEF Parts, Extent
  <2> QED BY <1>1, <1>3, <2>1, <2>2 DEF HookShrink
<1>4. CASE HookMoveState
  <2>1. table'["oem"] = table["oem"] /\ table'["sda3"] = table["sda3"]
    BY <1>4 DEF HookMoveState, MovePartition, Parts
  <2> QED BY <1>1, <1>4, <2>1 DEF HookMoveState
<1>5. CASE HookMoveOem
  <2>1. /\ table'["oem"].start = startPoint
        /\ table'["sda3"] = table["sda3"] /\ hook' = "extend"
    BY <1>5 DEF HookMoveOem, MovePartition, Parts, Extent
  <2>2. After(table, "sda3") <= startPoint
    BY <1>5 DEF HookMoveOem, LayoutInv, PlanHolds
  <2> QED BY <2>1, <2>2
<1>6. CASE HookExtend
  <2>1. /\ table'["oem"].start = table["oem"].start
        /\ table'["oem"].size = newState - 1 - table["oem"].start + 1
        /\ table'["sda3"] = table["sda3"] /\ table'["state"] = table["state"]
        /\ hook' \in {"done", "error"}
    BY <1>6 DEF HookExtend, ExtendPartition, ExtendedSize, Parts, Extent
  <2>2. table["state"].start = newState /\ table["oem"].start \in Nat
    BY <1>6 DEF HookExtend, LayoutInv, PlanHolds, Parts, Extent
  <2> QED BY <2>1, <2>2
<1>7. CASE HookRefused
  <2>1. UNCHANGED <<table, faults>> /\ hook' = "error"
    BY <1>7 DEF HookRefused
  <2>2. CASE hook # "extend"
    BY <1>1, <1>7, <2>1, <2>2 DEF HookRefused
  <2>3. CASE hook = "extend"
    <3>1. ~Grows
      BY <1>7, <2>3, LayoutInvImplies
         DEF HookRefused, NoRefusalAfterStateMove
    <3>2. table["oem"].start = startPoint /\ table["state"].start = newState
      BY <2>3 DEF LayoutInv, PlanHolds
    <3>3. startPoint + table["oem"].size <= newState
      BY <2>3, OldSizeFits
    <3>4. table["oem"].size \in Nat
      BY DEF Parts, Extent
    <3>5. After(table, "oem") = table["state"].start
      BY <3>1, <3>2, <3>3, <3>4 DEF Grows, ExtendedSize
    <3> QED BY <2>1, <3>5
  <2> QED BY <2>2, <2>3
<1>8. CASE HookFault
  BY <1>8 DEF HookFault
<1> QED
  BY <1>2, <1>3, <1>4, <1>5, <1>6, <1>7, <1>8 DEF ShutdownHook, HookStep

LEMMA ExtendNext ==
  TypeOK /\ BootInv /\ LayoutInv /\ LayoutInv' /\ ExtendInv /\ [Next]_vars
    => ExtendInv'
<1> SUFFICES ASSUME TypeOK, BootInv, LayoutInv, LayoutInv', ExtendInv,
                    [Next]_vars
             PROVE  ExtendInv'
  OBVIOUS
<1> USE DEF Pass, Goto, DirStep, procVars, dirVars, diskVars, histVars,
            worldVars, crashVars, hookVars
<1>1. ASSUME UNCHANGED <<conf, table, hook, armed, cutShort>>
      PROVE  ExtendInv'
  BY <1>1 DEF ExtendInv, OEMInPlace, After
<1>2. CASE StartStep
  BY <1>1, <1>2 DEF StartStep, Startup, InitStateMkdir, UnpackBegin,
     UnpackEnd, InitStateWrite, FinishWrite, LoadState, LoadStateFails,
     BeginWrite, Fail
<1>3. CASE RepartitionStep /\ ~ShrinkSDA3 /\ ~RelocateArm
  BY <1>1, <1>3 DEF RepartitionStep, SwitchRootSkip, SwitchRootCopy,
     SwitchRootPrioritize, ShrinkSkip, WaitSkip, WaitReadSize, WaitAnnounce,
     WaitResized, WaitTimeout, RelocateSkip, RelocateReboot,
     RequestReboot, BeginWrite, Fail, ResizeFSSkip, ResizeFS, ResizeFSFails,
     Remount, RemountFails
<1>4. CASE RelocateArm
  <2>1. conf.oemSize # 0 => OEMInPlace
    BY <1>4, OEMMoved DEF RelocateArm, NeedsRelocation
  <2> QED BY <1>4, <2>1 DEF RelocateArm, ExtendInv, OEMInPlace, After
<1>5. CASE ShrinkSDA3
  <2>1. /\ table'["oem"] = table["oem"] /\ table'["state"] = table["state"]
        /\ table'["sda3"].start = table["sda3"].start
        /\ table'["sda3"].size \in Nat
        /\ table'["sda3"].size <= table["sda3"].size
    <3>1. table' = MinimizePartition(table, "sda3") /\ table \in Table
      BY <1>5 DEF ShrinkSDA3, TypeOK, HookTypeOK
    <3> QED BY <3>1, OnlySDA3Shrinks
  <2>2. table["sda3"].start \in Nat /\ table["sda3"].size \in Nat
        /\ table["oem"].start \in Nat
    BY DEF Parts, Extent, TypeOK, HookTypeOK, Table
  <2>3. UNCHANGED <<conf, hook, armed, cutShort>>
    BY <1>5 DEF ShrinkSDA3, RequestReboot
  <2> QED BY <2>1, <2>2, <2>3 DEF ExtendInv, OEMInPlace, After
<1>6. CASE BuildStep
  BY <1>1, <1>6 DEF BuildStep, Setup, RunScript, InstallGPU, InstallPackages,
     DisableAutoUpdate, SealMaskOEM, AtStep, StepEnds, MaskUnit, SealFormat,
     SealGrub, SealMaskUpdate, StepFails, Fail, SaveStep, BeginWrite,
     StepsDone, StopServices, CleanupEmpty, CleanupRmdir, Succeed
<1>7. CASE Shutdown \/ PowerOff
  BY <1>1, <1>7 DEF Shutdown, PowerOff
<1>8. CASE ShutdownHook
  BY <1>8, ExtendHook
<1>9. CASE Reboot
  <2>1. hook # "extend"
    BY <1>9 DEF Reboot, HookFinished, BootInv
  <2> QED BY <1>9, <2>1 DEF Reboot, Reset, ExtendInv, OEMInPlace, After
<1>10. CASE Crash
  <2>1. cutShort' = (cutShort \/ hook = "extend")
    BY <1>10 DEF Crash
  <2> QED BY <1>10, <2>1 DEF Crash, Reset, ExtendInv, OEMInPlace, After
<1>11. CASE CommandFails
  BY <1>1, <1>11 DEF CommandFails, Fail
<1>12. CASE DaisyResize \/ UNCHANGED vars
  BY <1>1, <1>12 DEF DaisyResize, vars
<1> QED
  BY <1>2, <1>3, <1>4, <1>5, <1>6, <1>7, <1>8, <1>9, <1>10, <1>11, <1>12
     DEF Next, VMStep, MachineStep, Stopped

-----------------------------------------------------------------------------
(* The count of the dm= entries.                                           *)

IsSeal(i) == conf.steps[i] = "SealOEM"
SealAhead(n) == \E i \in 1 .. NumSteps : n < i /\ IsSeal(i)
MaskPositions == {"sealMaskUpdate", "sealMaskOEM"}

\* The only seal-oem of a build finds the one entry that the image has.  An
\* entry that an earlier boot has added came with the mask of the OEM mount,
\* if no crash parted them, and a boot with that mask never gets to the steps.
CountInv ==
  ~halfSealed /\ Seals <= 1 =>
    /\ grub.count = grub.entries
    /\ (Early \/ pc \in {"journal", "reboot"}) /\ grub.entries > 1 =>
         OEMMount \in boot.masked /\ OEMMount \in grub.masked
    /\ (pc \in {"setup", "steps", "sealGrub"} \/ WriteTo("steps"))
         /\ SealAhead(mem.step) => grub.entries = 1
    /\ pc = "stepDone" /\ SealAhead(mem.step + 1) => grub.entries = 1
    /\ pc \in {"sealGrub"} \cup MaskPositions =>
         mem.step < NumSteps /\ IsSeal(Current)

LEMMA OneSeal ==
  ASSUME Seals <= 1, NEW i \in 1 .. NumSteps, NEW j \in 1 .. NumSteps,
         IsSeal(i), IsSeal(j), NumSteps \in Nat
  PROVE  i = j
<1> DEFINE S == {k \in 1 .. NumSteps : conf.steps[k] = "SealOEM"}
<1>1. IsFiniteSet(1 .. NumSteps)
  BY FS_Interval
<1>2. IsFiniteSet(S) /\ Cardinality(S) \in Nat
  <2>1. S \in SUBSET (1 .. NumSteps)
    OBVIOUS
  <2>2. IsFiniteSet(S)
    BY <1>1, <2>1, FS_Subset
  <2> QED BY <2>2, FS_CardinalityType
<1>3. i \in S /\ j \in S
  BY DEF IsSeal
<1>4. Cardinality(S) <= 1
  BY DEF Seals
<1>5. Cardinality(S) = 1
  BY <1>2, <1>3, <1>4, FS_EmptySet
<1>6. PICK x : S = {x}
  BY <1>2, <1>5, FS_Singleton
<1> QED BY <1>3, <1>6

LEMMA CountInit == Init => CountInv
<1> SUFFICES ASSUME Init PROVE CountInv
  OBVIOUS
<1> QED BY DEF Init, CountInv, MaskPositions, WriteTo

LEMMA CountNext ==
  TypeOK /\ BootInv /\ SealInv /\ CountInv /\ [Next]_vars => CountInv'
<1> SUFFICES ASSUME TypeOK, BootInv, SealInv, CountInv, [Next]_vars,
                    ~halfSealed', Seals' <= 1
             PROVE  CountInv'
  BY DEF CountInv
<1> USE DEF Pass, Goto, DirStep, procVars, dirVars, diskVars, histVars,
            worldVars, crashVars, hookVars, MaskPositions, WriteTo, Early,
            EarlyPositions
<1>0. /\ mem.step \in Nat /\ grub \in GrubType /\ NumSteps \in Nat
      /\ grub.entries \in Nat /\ grub.entries >= 1
      /\ ret \in {"unpack", "relocate", "steps"}
  BY ProvisionerAssumption
     DEF TypeOK, HookTypeOK, MemType, NumSteps, ConfigType, GrubType, SealInv
<1>1. ASSUME UNCHANGED <<conf, grub, boot, halfSealed>>,
             (Early \/ pc \in {"journal", "reboot"})'
               => Early \/ pc \in {"journal", "reboot"},
             pc' \notin {"setup", "steps", "stepDone", "sealGrub"}
                         \cup MaskPositions,
             ~WriteTo("steps")'
      PROVE  CountInv'
  BY <1>1 DEF CountInv, NumSteps, Seals
<1>2. CASE StartStep
  <2>1. CASE FinishWrite /\ ret = "steps"
    BY <2>1 DEF FinishWrite, CountInv, SealAhead, IsSeal, NumSteps, Seals
  <2>2. CASE ~(FinishWrite /\ ret = "steps")
    BY <1>0, <1>1, <1>2, <2>2 DEF StartStep, Startup, InitStateMkdir,
       UnpackBegin, UnpackEnd, InitStateWrite, FinishWrite, LoadState,
       LoadStateFails, BeginWrite, Fail
  <2> QED BY <2>1, <2>2
<1>3. CASE RepartitionStep
  <2>1. CASE ResizeFSSkip
    <3>1. ~SealsOEM
      BY <2>1, SealingResizes DEF ResizeFSSkip
    <3>2. ~SealAhead(mem.step)
      BY <1>0, <3>1 DEF SealsOEM, SealAhead, IsSeal, NumSteps
    <3> QED
      BY <2>1, <3>2 DEF ResizeFSSkip, CountInv, SealAhead, IsSeal, NumSteps,
                        Seals
  <2>2. CASE Remount
    <3>1. OEMMount \notin boot.masked
      BY <2>2 DEF Remount, OEMMountMasked, OEMMount
    <3> QED
      BY <1>0, <2>2, <3>1 DEF Remount, CountInv, SealAhead, IsSeal, NumSteps,
                              Seals
  <2>3. CASE ~(ResizeFSSkip \/ Remount)
    BY <1>1, <1>3, <2>3 DEF RepartitionStep, SwitchRootSkip, SwitchRootCopy,
     SwitchRootPrioritize, ShrinkSkip, ShrinkSDA3, WaitSkip, WaitReadSize,
     WaitAnnounce, WaitResized, WaitTimeout, RelocateSkip, RelocateArm,
     RelocateReboot, RequestReboot, BeginWrite, ResizeFS, ResizeFSFails,
     RemountFails, Fail
  <2> QED BY <2>1, <2>2, <2>3
<1>4. CASE BuildStep
  <2>1. CASE StepFails \/ Succeed \/ StepsDone \/ StopServices
               \/ CleanupEmpty \/ CleanupRmdir
    BY <1>1, <2>1 DEF StepFails, Fail, Succeed, StepsDone, StopServices,
       CleanupEmpty, CleanupRmdir
  <2>2. CASE Setup
    BY <2>2 DEF Setup, CountInv, SealAhead, IsSeal, NumSteps, Seals
  <2>3. CASE RunScript \/ InstallGPU \/ InstallPackages \/ DisableAutoUpdate
    <3>1. /\ UNCHANGED <<conf, mem, halfSealed>>
          /\ grub'.entries = grub.entries /\ grub'.count = grub.count
          /\ pc = "steps" /\ pc' = "stepDone"
      BY <1>0, <2>3
         DEF RunScript, InstallGPU, InstallPackages, DisableAutoUpdate,
             AtStep, StepEnds, MaskUnit, GrubType
    <3>2. SealAhead(mem.step + 1)' => SealAhead(mem.step)
      BY <1>0, <3>1 DEF SealAhead, IsSeal, NumSteps
    <3> QED BY <3>1, <3>2 DEF CountInv, Seals, NumSteps
  <2>4. CASE SaveStep
    <3>1. mem'.step = mem.step + 1 /\ pc = "stepDone" /\ pc' = "write"
          /\ ret' = "steps" /\ UNCHANGED <<conf, grub, halfSealed>>
      BY <2>4 DEF SaveStep, BeginWrite, TypeOK, MemType
    <3>2. SealAhead(mem.step)' => SealAhead(mem.step + 1)
      BY <3>1 DEF SealAhead, IsSeal, NumSteps
    <3> QED BY <3>1, <3>2 DEF CountInv, Seals, NumSteps
  <2>5. CASE SealFormat
    <3>1. grub'.entries = grub.entries /\ grub'.count = grub.count
          /\ UNCHANGED <<conf, mem, halfSealed>>
          /\ pc = "steps" /\ pc' = "sealGrub"
          /\ mem.step < NumSteps /\ IsSeal(Current)
      BY <1>0, <2>5 DEF SealFormat, AtStep, GrubType, IsSeal
    <3> QED
      BY <3>1 DEF CountInv, SealAhead, IsSeal, NumSteps, Seals, Current
  <2>6. CASE SealGrub
    <3>1. UNCHANGED <<conf, mem, halfSealed>>
          /\ pc = "sealGrub" /\ pc' = "sealMaskUpdate"
          /\ grub'.entries = grub.entries + 1 /\ grub'.count = 2
      BY <1>0, <2>6 DEF SealGrub, GrubType
    <3>2. Seals <= 1 /\ ~halfSealed /\ NumSteps' = NumSteps
      BY <3>1 DEF Seals, NumSteps
    <3>3. mem.step < NumSteps /\ IsSeal(Current)
      BY <3>1, <3>2 DEF CountInv
    <3>4. SealAhead(mem.step)
      BY <1>0, <3>3 DEF SealAhead, Current
    <3>5. grub.entries = 1
      BY <3>1, <3>2, <3>4 DEF CountInv
    <3> QED
      BY <3>1, <3>2, <3>3, <3>5 DEF CountInv, IsSeal, Current
  <2>7. CASE SealMaskUpdate
    <3>1. UNCHANGED <<conf, mem, halfSealed>>
          /\ pc = "sealMaskUpdate" /\ pc' = "sealMaskOEM"
          /\ grub'.entries = grub.entries /\ grub'.count = grub.count
      BY <1>0, <2>7 DEF SealMaskUpdate, MaskUnit, GrubType
    <3> QED BY <3>1 DEF CountInv, Seals, NumSteps, IsSeal, Current
  <2>8. CASE SealMaskOEM
    <3>1. UNCHANGED <<conf, mem, halfSealed>>
          /\ pc = "sealMaskOEM" /\ pc' = "stepDone"
          /\ grub'.entries = grub.entries /\ grub'.count = grub.count
      BY <1>0, <2>8 DEF SealMaskOEM, StepEnds, MaskUnit, GrubType
    <3>2. Seals <= 1 /\ ~halfSealed /\ NumSteps' = NumSteps
      BY <3>1 DEF Seals, NumSteps
    <3>3. Current \in 1 .. NumSteps /\ IsSeal(Current)
      BY <1>0, <3>1, <3>2 DEF CountInv, Current
    <3>4. ~SealAhead(mem.step + 1)
      <4> SUFFICES ASSUME NEW i \in 1 .. NumSteps, mem.step + 1 < i, IsSeal(i)
                   PROVE  FALSE
        BY DEF SealAhead
      <4>1. i = Current
        BY <1>0, <3>2, <3>3, OneSeal
      <4> QED BY <1>0, <4>1 DEF Current
    <3>5. ~SealAhead(mem.step + 1)'
      BY <3>1, <3>4 DEF SealAhead, IsSeal, NumSteps
    <3> QED BY <3>1, <3>2, <3>5 DEF CountInv
  <2> QED
    BY <1>4, <2>1, <2>2, <2>3, <2>4, <2>5, <2>6, <2>7, <2>8 DEF BuildStep
<1>5. CASE Shutdown \/ PowerOff \/ DaisyResize
  BY <1>5 DEF Shutdown, PowerOff, DaisyResize, CountInv, SealAhead, IsSeal,
     NumSteps, Seals, Current
<1>6. CASE ShutdownHook
  BY <1>1, <1>6 DEF ShutdownHook, HookStart, Stopping
<1>7. CASE Reboot
  <2>1. pc = "reboot" /\ pc' = "startup" /\ boot'.masked = grub.masked
        /\ UNCHANGED <<conf, grub, halfSealed>>
    BY <1>7 DEF Reboot, Reset
  <2> QED BY <2>1 DEF CountInv, Seals, NumSteps
<1>8. CASE Crash
  <2>1. pc' = "startup" /\ boot'.masked = grub.masked
        /\ UNCHANGED <<conf, grub>> /\ ~halfSealed
        /\ (grub.entries > 1 => OEMMount \in grub.masked)
    BY <1>8 DEF Crash, Reset, OEMMount
  <2> QED BY <2>1 DEF CountInv, Seals, NumSteps
<1>9. CASE CommandFails
  BY <1>1, <1>9 DEF CommandFails, Fail
<1>10. CASE UNCHANGED vars
  BY <1>10 DEF vars, CountInv, SealAhead, IsSeal, NumSteps, Seals, Current
<1> QED
  BY <1>2, <1>3, <1>4, <1>5, <1>6, <1>7, <1>8, <1>9, <1>10
     DEF Next, VMStep, MachineStep, Stopped

-----------------------------------------------------------------------------
(* The theorems.                                                           *)

LEMMA DiskInvariant ==
  Spec => [](TypeOK /\ ProgressInv /\ BootInv /\ RootInv /\ ResizeInv /\ FSInv
               /\ SealInv /\ LayoutInv /\ ExtendInv /\ CountInv)
<1>1. Init => BootInv /\ RootInv /\ ResizeInv /\ FSInv /\ SealInv
               /\ LayoutInv /\ ExtendInv /\ CountInv
  BY BootInit, RootInit, ResizeInit, FSInit, SealInit, LayoutInvInit,
     ExtendInit, CountInit DEF Init
<1>2. TypeOK /\ TypeOK' /\ ProgressInv /\ BootInv /\ RootInv /\ ResizeInv
        /\ FSInv /\ SealInv /\ LayoutInv /\ ExtendInv /\ CountInv
        /\ [Next]_vars
      => (BootInv /\ RootInv /\ ResizeInv /\ FSInv /\ SealInv /\ LayoutInv
            /\ ExtendInv /\ CountInv)'
  BY BootNext, RootNext, ResizeNext, FSNext, SealNext, LayoutHolds, ExtendNext,
     CountNext
<1> QED BY <1>1, <1>2, ProgressCorrect, PTL DEF Spec

\* BuildSucceeded is printed only by a boot that found the partitions where
\* the configuration wants them, has every step behind it and has removed the
\* state directory (run and cleanup, provisioner.go:320-363).
THEOREM SuccessMeansComplete == Spec => []SuccessIsComplete
<1>1. ProgressInv /\ BootInv => SuccessIsComplete
  BY DEF ProgressInv, BootInv, DoneUpTo, SuccessIsComplete, AllCompleted
<1> QED BY <1>1, DiskInvariant, PTL

\* However often the machine goes down, sda3 is reclaimed only when the
\* machine runs from a complete copy of it (switchRoot, disk_layout.go:69-92).
THEOREM RootIsNeverLost == Spec => []RunningRootIntact
<1>1. RootInv => RunningRootIntact
  BY DEF RootInv, RunningRootIntact
<1> QED BY <1>1, DiskInvariant, PTL

\* No partition after sda3 moves before the disk has its final size
\* (waitForDiskResize before relocatePartitions).
THEOREM ResizeComesFirst == Spec => []RelocationAfterResize
<1>1. ResizeInv => RelocationAfterResize
  BY DEF ResizeInv, RelocationAfterResize
<1> QED BY <1>1, DiskInvariant, PTL

\* The tools that address /dev/sda8 through the kernel see the OEM partition
\* where the table has it (the reboot of relocatePartitions).
THEOREM KernelIsCurrent == Spec => []KernelSeesOEM
<1>1. BootInv => KernelSeesOEM
  BY DEF BootInv, KernelSeesOEM
<1> QED BY <1>1, DiskInvariant, PTL

\* A valid hash tree lies behind the file system and inside the partition, at
\* every moment of every build (resizeOEMFileSystem before SealOEM).
THEOREM HashTreeStaysInRoom == Spec => []HashTreeHasRoom
<1>1. FSInv => HashTreeHasRoom
  BY DEF FSInv, HashTreeHasRoom
<1> QED BY <1>1, DiskInvariant, PTL

\* A sealed image reported as good has an OEM partition that nothing wrote to
\* since its hash tree was made (SealOEMPartition, the mask of the OEM mount).
THEOREM SealedImagesVerify == Spec => []SealedImageVerifies
<1>1. ASSUME TypeOK, BootInv, SealInv PROVE SealedImageVerifies
  <2> SUFFICES ASSUME outcome = "succeeded", Seals > 0
               PROVE  sealed = "valid" /\ OEMMount \in grub.masked
                      /\ TreeIsFound
    BY DEF SealedImageVerifies, OEMMount, TreeIsFound
  <2>1. PICK i \in 1 .. NumSteps : conf.steps[i] = "SealOEM"
    BY FS_EmptySet DEF Seals
  <2>2. mem.step >= NumSteps /\ mem.step \in Nat
    BY <1>1 DEF SealInv, TypeOK, MemType
  <2>3. conf \in ConfigType
    BY <1>1, ProvisionerAssumption DEF TypeOK, HookTypeOK
  <2>4. SealedUpTo(conf, mem.step)
    BY <2>1, <2>2, <2>3 DEF SealedUpTo, NumSteps, ConfigType
  <2>5. pc # "sealGrub"
    BY <1>1 DEF BootInv
  <2> QED BY <1>1, <2>4, <2>5 DEF SealInv, Sealing
<1> QED BY <1>1, DiskInvariant, PTL

\* In a build, as in the program by itself, no edit after the move of the
\* stateful partition is refused: a reboot and Daisy's resize of the disk in
\* between change nothing about it.
THEOREM NothingRefusedInBuild == Spec => []NoRefusalAfterStateMove
BY LayoutInvImplies, DiskInvariant, PTL

\* A boot that takes the OEM partition for relocated finds it extended,
\* whatever failed or crashed before, unless an attempt was stopped between
\* its last two edits (disk_layout.go:195).
THEOREM RelocationIsWhole == Spec => []RelocatedIsExtended
<1>1. LayoutInv /\ BootInv /\ ExtendInv => RelocatedIsExtended
  <2> SUFFICES ASSUME LayoutInv, BootInv, ExtendInv, pc = "resizeFS",
                      conf.oemSize # 0, ~cutShort
               PROVE  After(table, "oem") = table["state"].start
    BY DEF RelocatedIsExtended
  <2>1. OEMAfterSDA3
    BY DEF BootInv, RelocatedPositions, NeedsRelocation
  <2>2. hook # "extend"
    BY DEF BootInv
  <2> QED BY <2>1, <2>2, OEMMoved DEF ExtendInv
<1> QED BY <1>1, DiskInvariant, PTL

\* A build that seals once leaves as many dm= entries in grub.cfg as it says
\* there are, whatever fails and wherever it crashes, but for a crash between
\* the entry of the seal and the mask that follows it (appendDMEntryToGRUB).
THEOREM EntriesAreCounted == Spec => []DMCountIsRight
<1>1. CountInv => DMCountIsRight
  BY DEF CountInv, DMCountIsRight
<1> QED BY <1>1, DiskInvariant, PTL

-----------------------------------------------------------------------------
(* The provisioner implements VMRun.                                       *)

SavedPositions ==
  {"unpack", "extract", "switchRoot", "prioritize", "shrink", "readSize",
   "announce", "poll", "relocate", "journal", "reboot"}

\* Where DiskResizeComplete is read it is what memory says, and memory and
\* state.json agree wherever the provisioner may ask for a reboot.
MemInv ==
  /\ pc \in {"startup", "mkdir", "create", "load"} => ~mem.resized
  /\ file.kind # "ok" => ~file.data.resized
  /\ file.data.resized =>
       mem.resized \/ pc \in {"startup", "load", "ended", "poweroff", "off"}
  /\ pc \in SavedPositions /\ mem.resized => file.data.resized
  /\ pc \in {"announce", "poll"} => startSize \in {ImageEnd, GrownEnd}
  /\ conf.wait /\ (pc \in RelocatedPositions \/ WriteTo("steps")) =>
       mem.resized

LEMMA MemInit == Init => MemInv
BY DEF Init, MemInv, NoMem, Missing, File, SavedPositions, RelocatedPositions,
       WriteTo

LEMMA MemNext == TypeOK /\ ResizeInv /\ MemInv /\ [Next]_vars => MemInv'
<1> SUFFICES ASSUME TypeOK, ResizeInv, MemInv, [Next]_vars PROVE MemInv'
  OBVIOUS
<1>0. mem \in MemType /\ ret \in {"unpack", "relocate", "steps"}
  BY DEF TypeOK
<1> USE DEF Pass, Goto, DirStep, procVars, dirVars, diskVars, histVars,
            worldVars, crashVars, hookVars, RelocatedPositions, WriteTo,
            SavedPositions
<1>1. CASE StartStep
  BY <1>0, <1>1 DEF StartStep, Startup, InitStateMkdir, UnpackBegin,
     UnpackEnd, InitStateWrite, FinishWrite, LoadState, LoadStateFails,
     BeginWrite, Fail, MemInv, Missing, Empty, Saved, Corrupt, File, NoMem
<1>2. CASE SwitchRootSkip \/ SwitchRootCopy \/ ShrinkSkip \/ WaitSkip
             \/ WaitAnnounce
  BY <1>2 DEF SwitchRootSkip, SwitchRootCopy, ShrinkSkip, WaitSkip,
     WaitAnnounce, MemInv
<1>3. CASE SwitchRootPrioritize \/ ShrinkSDA3 \/ RelocateReboot
  BY <1>3 DEF SwitchRootPrioritize, ShrinkSDA3, RelocateReboot, RequestReboot,
     MemInv
<1>4. CASE WaitReadSize
  BY <1>4 DEF WaitReadSize, MemInv, ResizeInv
<1>5. CASE WaitResized
  BY <1>0, <1>5 DEF WaitResized, BeginWrite, MemInv, MemType, Corrupt, File,
     NoMem
<1>6. CASE WaitTimeout \/ ResizeFSFails \/ RemountFails
  BY <1>6 DEF WaitTimeout, ResizeFSFails, RemountFails, Fail, MemInv
<1>7. CASE RelocateSkip \/ RelocateArm
  BY <1>7 DEF RelocateSkip, RelocateArm, MemInv, ResizeInv, WaitedPositions
<1>8. CASE ResizeFSSkip \/ ResizeFS \/ Remount
  BY <1>8 DEF ResizeFSSkip, ResizeFS, Remount, MemInv
<1>9. CASE BuildStep
  <2>1. CASE Setup \/ RunScript \/ InstallGPU \/ InstallPackages
               \/ DisableAutoUpdate \/ SealMaskOEM \/ SealFormat \/ SealGrub
               \/ SealMaskUpdate
    BY <2>1 DEF Setup, RunScript, InstallGPU, InstallPackages,
       DisableAutoUpdate, SealMaskOEM, AtStep, StepEnds, SealFormat, SealGrub,
       SealMaskUpdate, MemInv
  <2>2. CASE StepFails
    BY <2>2 DEF StepFails, Fail, MemInv
  <2>3. CASE SaveStep
    BY <1>0, <2>3 DEF SaveStep, BeginWrite, MemInv, MemType, Corrupt, File,
       NoMem
  <2>4. CASE StepsDone \/ StopServices \/ CleanupEmpty \/ CleanupRmdir
               \/ Succeed
    BY <2>4 DEF StepsDone, StopServices, CleanupEmpty, CleanupRmdir, Succeed,
       MemInv, Empty, Missing, File, NoMem
  <2> QED BY <1>9, <2>1, <2>2, <2>3, <2>4 DEF BuildStep
<1>10. CASE Shutdown \/ PowerOff
  BY <1>10 DEF Shutdown, PowerOff, MemInv
<1>11. CASE ShutdownHook \/ DaisyResize \/ UNCHANGED vars
  BY <1>11 DEF ShutdownHook, DaisyResize, vars, MemInv
<1>12. CASE Reboot \/ Crash
  BY <1>12 DEF Reboot, Crash, Reset, NoMem, MemInv
<1>13. CASE CommandFails
  BY <1>13 DEF CommandFails, Fail, MemInv
<1> QED
  BY <1>1, <1>2, <1>3, <1>4, <1>5, <1>6, <1>7, <1>8, <1>9, <1>10, <1>11,
     <1>12, <1>13 DEF Next, VMStep, MachineStep, RepartitionStep, Stopped

\* MemInv holds throughout.
LEMMA MemInvHolds == Spec => [](TypeOK /\ BootInv /\ ResizeInv /\ MemInv)
<1>1. Init => MemInv
  BY MemInit
<1>2. TypeOK /\ ResizeInv /\ MemInv /\ [Next]_vars => MemInv'
  BY MemNext
<1> QED BY <1>1, <1>2, DiskInvariant, PTL DEF Spec

\* What the console shows, by names that a proof can leave unexpanded.
Stage ==
  CASE pc \in {"startup", "reboot"}  -> "booting"
    [] pc = "announce"               -> "measured"
    [] pc = "poll"                   -> "resizing"
    [] pc \in {"ended", "poweroff"}  ->
         IF outcome = "succeeded" THEN "watching" ELSE "failing"
    [] pc = "off"                    -> "stopped"
    [] OTHER                         -> "building"
Enlarged == diskEnd # ImageEnd
Asked    == asked /\ pc # "off"
ReadLate == pc \in {"announce", "poll"} /\ startSize # ImageEnd
Known    == mem.resized \/ file.data.resized

\* A step of the provisioner is one of VMRun, or changes nothing of it.
ConsoleStep == [Console!RunNext]_(Console!runVars)
Unseen ==
  UNCHANGED <<conf.wait, Enlarged, Stage, Asked, ReadLate, Known>>

LEMMA UnseenSteps == Unseen => ConsoleStep
BY DEF Unseen, ConsoleStep, Console!runVars, Stage, Enlarged, Asked, ReadLate,
       Known

\* Every step of the build and the machine is one that Daisy knows, or none.
LEMMA ConsoleNext ==
  ASSUME TypeOK, BootInv, ResizeInv, MemInv, MemInv', [Next]_vars
  PROVE  ConsoleStep
<1>0. /\ mem \in MemType /\ outcome \in {"none", "succeeded", "failed"}
      /\ pc \in Positions
  BY DEF TypeOK
<1> USE DEF Pass, Goto, DirStep, procVars, dirVars, diskVars, histVars,
            worldVars, crashVars, hookVars
<1> DEFINE Same == UNCHANGED <<conf, diskEnd, asked>>
<1>a. ASSUME Unseen PROVE ConsoleStep
  BY <1>a, UnseenSteps
<1>1. CASE Startup
  BY <1>1 DEF Startup, ConsoleStep, Console!RunNext, Console!Begin, Console!Go,
     Console!Comparing
<1>2. CASE InitStateMkdir \/ InitStateWrite \/ FinishWrite \/ UnpackBegin
             \/ UnpackEnd \/ LoadState
  <2>1. Same /\ Known' = Known
    BY <1>0, <1>2 DEF InitStateMkdir, InitStateWrite, FinishWrite, UnpackBegin,
       UnpackEnd, LoadState, BeginWrite, MemInv, Known, Empty, Saved, Corrupt,
       File, NoMem
  <2>2. Stage = "building" /\ Stage' = "building" /\ ReadLate' = ReadLate
    BY <1>2 DEF InitStateMkdir, InitStateWrite, FinishWrite, UnpackBegin,
       UnpackEnd, LoadState, BeginWrite, Stage, ReadLate, TypeOK
  <2>3. Asked' = Asked
    BY <1>2 DEF InitStateMkdir, InitStateWrite, FinishWrite, UnpackBegin,
       UnpackEnd, LoadState, BeginWrite, Asked, TypeOK
  <2> QED BY <1>a, <2>1, <2>2, <2>3 DEF Unseen, Enlarged
<1>3. CASE SwitchRootSkip \/ SwitchRootCopy \/ ShrinkSkip \/ WaitSkip
             \/ RelocateSkip \/ RelocateArm \/ ResizeFSSkip \/ ResizeFS
             \/ Remount
  BY <1>3, <1>a DEF SwitchRootSkip, SwitchRootCopy, ShrinkSkip, WaitSkip,
     RelocateSkip, RelocateArm, ResizeFSSkip, ResizeFS, Remount, Unseen,
     Stage, Enlarged, Asked, ReadLate, Known
<1>4. CASE SwitchRootPrioritize \/ ShrinkSDA3 \/ RelocateReboot
  BY <1>4 DEF SwitchRootPrioritize, ShrinkSDA3, RelocateReboot, RequestReboot,
     ConsoleStep, Console!RunNext, Console!AskForReboot, Console!Go,
     Console!Comparing
<1>5. CASE WaitReadSize
  BY <1>5 DEF WaitReadSize, NeedsWait, MemInv, ConsoleStep, Console!RunNext,
     Console!Measure, Console!Go, Console!Comparing
<1>6. CASE WaitAnnounce
  BY <1>6 DEF WaitAnnounce, ConsoleStep, Console!RunNext, Console!Announce,
     Console!Go, Console!Comparing
<1>7. CASE WaitResized
  <2>1. mem'.resized /\ diskEnd # startSize /\ pc = "poll" /\ pc' = "write"
        /\ UNCHANGED <<conf, diskEnd, asked>>
    BY <1>0, <1>7 DEF WaitResized, BeginWrite, MemType
  <2> QED
    BY <2>1 DEF MemInv, ResizeInv, ConsoleStep, Console!RunNext,
       Console!Notice, Console!Go, Console!Comparing
<1>8. ASSUME NEW p \in Running, Fail(p) PROVE ConsoleStep
  <2>1. pc \notin {"startup", "reboot", "ended", "poweroff", "off"}
        /\ pc' = "ended" /\ outcome' = "failed"
        /\ UNCHANGED <<conf, diskEnd, asked, mem, file>>
    BY <1>8 DEF Fail, Running
  <2> QED
    BY <2>1 DEF ConsoleStep, Console!RunNext, Console!EndBadly, Console!Go,
       Console!Comparing
<1>9. CASE LoadStateFails \/ WaitTimeout \/ ResizeFSFails \/ RemountFails
             \/ StepFails \/ CommandFails
  BY <1>8, <1>9 DEF LoadStateFails, WaitTimeout, ResizeFSFails, RemountFails,
     StepFails, CommandFails, Running, Positions
<1>10. CASE BuildStep /\ ~StepFails /\ ~Succeed
  <2>1. Same /\ Known' = Known
    BY <1>0, <1>10 DEF BuildStep, Setup, RunScript, InstallGPU,
       InstallPackages, DisableAutoUpdate, SealMaskOEM, AtStep, StepEnds,
       SealFormat, SealGrub, SealMaskUpdate, SaveStep, BeginWrite, StepsDone,
       StopServices, CleanupEmpty, CleanupRmdir, MemInv, MemType, Known,
       Empty, Missing, Corrupt, File, NoMem
  <2>2. Stage = "building" /\ Stage' = "building" /\ ReadLate' = ReadLate
        /\ pc # "off" /\ pc' # "off"
    BY <1>10 DEF BuildStep, Setup, RunScript, InstallGPU, InstallPackages,
       DisableAutoUpdate, SealMaskOEM, AtStep, StepEnds, SealFormat, SealGrub,
       SealMaskUpdate, SaveStep, BeginWrite, StepsDone, StopServices,
       CleanupEmpty, CleanupRmdir, Stage, ReadLate
  <2> QED BY <1>a, <2>1, <2>2 DEF Unseen, Enlarged, Asked
<1>11. CASE Succeed
  BY <1>11 DEF Succeed, MemInv, RelocatedPositions, ConsoleStep,
     Console!RunNext, Console!EndWell, Console!Go, Console!Comparing
<1>12. CASE Shutdown \/ ShutdownHook
  BY <1>12, <1>a DEF Shutdown, ShutdownHook, Unseen, Stage, Enlarged, Asked,
     ReadLate, Known
<1>13. CASE PowerOff
  BY <1>13 DEF PowerOff, ConsoleStep, Console!RunNext, Console!Stop,
     Console!Go, Console!Comparing
<1>14. CASE Reboot
  <2>1. Known' = Known
    BY <1>14 DEF Reboot, Reset, NoMem, MemInv, SavedPositions, Known
  <2> QED
    BY <1>14, <1>a, <2>1 DEF Reboot, Reset, Unseen, Stage, Enlarged, Asked,
       ReadLate
<1>15. CASE Crash
  <2>1. /\ pc # "off" /\ pc' = "startup" /\ ~mem'.resized
        /\ UNCHANGED <<conf, diskEnd, asked, file>>
    BY <1>15 DEF Crash, Reset, NoMem
  <2>2. outcome = "succeeded" => ~file.data.resized
    BY DEF BootInv, Missing, File, NoMem
  <2> QED
    BY <1>0, <2>1, <2>2 DEF BootInv, ConsoleStep, Console!RunNext,
       Console!GoDown, Console!Go, Console!Comparing
<1>16. CASE DaisyResize
  BY <1>16 DEF DaisyResize, ResizeInv, ConsoleStep, Console!RunNext,
     Console!Enlarge
<1>17. CASE UNCHANGED vars
  BY <1>17, <1>a DEF vars, Unseen, Stage, Enlarged, Asked, ReadLate, Known
<1> QED
  BY <1>1, <1>2, <1>3, <1>4, <1>5, <1>6, <1>7, <1>9, <1>10, <1>11, <1>12,
     <1>13, <1>14, <1>15, <1>16, <1>17
     DEF Next, VMStep, MachineStep, StartStep, RepartitionStep, BuildStep,
         Stopped

\* The VM in DaisyWorkflow is the one that Provisioner describes, for every
\* disk and every configuration: what Daisy waits for is what the provisioner
\* does (waitForDiskResize, run_provisioner).
THEOREM ImplementsRun == Spec => ConsoleSpec
<1>1. Init => Console!RunInit
  <2> SUFFICES ASSUME Init PROVE Console!RunInit
    OBVIOUS
  <2>1. conf.wait \in BOOLEAN
    BY TypeInit, ProvisionerAssumption DEF TypeOK, HookTypeOK, ConfigType
  <2> QED
    BY <2>1 DEF Init, Console!RunInit, NoMem, Missing, File
<1>2. TypeOK /\ BootInv /\ ResizeInv /\ MemInv /\ MemInv' /\ [Next]_vars
        => [Console!RunNext]_(Console!runVars)
  BY ConsoleNext DEF ConsoleStep
<1> QED
  BY <1>1, <1>2, MemInvHolds, PTL DEF Spec, ConsoleSpec, Console!RunSpec
=============================================================================
