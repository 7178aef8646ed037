-------------------------- MODULE ProvisionerProofs --------------------------
(***************************************************************************)
(* Proofs about the provisioner, for every disk, every set of              *)
(* configurations and every bound on faults, crashes and reboots.          *)
(***************************************************************************)
EXTENDS Provisioner, HandleDiskLayoutProofs

-----------------------------------------------------------------------------
(* Types.                                                                  *)

LEMMA TypeInit == Init => TypeOK
<1> SUFFICES ASSUME Init PROVE TypeOK
  OBVIOUS
<1>1. HookTypeOK
  BY HookTypeInit DEF Init
<1>2. boot \in [root : {"sda3", "sda5"}, oem : Extent,
                masked : SUBSET MaskedUnits]
  BY ImageAssumption DEF Init, Table, Parts
<1>3. oemFS \in Nat
  BY ImageAssumption DEF Init, Table, Parts, Extent
<1>4. mem \in MemType /\ file \in [kind : FileKinds, data : MemType]
  BY DEF Init, MemType, NoMem, Missing, File, FileKinds
<1>5. grub \in GrubType
  BY DEF Init, GrubType
<1>6. runs \in [1 .. NumSteps -> Nat]
  BY DEF Init
<1>7. crashes \in 0 .. MaxCrashes /\ reboots \in 0 .. MaxReboots
  BY ProvisionerAssumption DEF Init
<1> QED
  BY <1>1, <1>2, <1>3, <1>4, <1>5, <1>6, <1>7 DEF Init, TypeOK, Positions

\* A position and, at most, the state directory change.
LEMMA DirStepTyped ==
  ASSUME TypeOK, NEW from, NEW to \in Positions,
         NEW f \in [kind : FileKinds, data : MemType],
         NEW c \in {"absent", "partial", "whole"},
         DirStep(from, to, f, c)
  PROVE  TypeOK'
BY DEF DirStep, Goto, TypeOK, HookTypeOK, NumSteps, procVars, diskVars,
       histVars, worldVars, crashVars, hookVars

LEMMA PassTyped ==
  ASSUME TypeOK, NEW from, NEW to \in Positions, Pass(from, to)
  PROVE  TypeOK'
BY DEF Pass, Goto, TypeOK, HookTypeOK, NumSteps, procVars, diskVars, dirVars,
       histVars, worldVars, crashVars, hookVars

LEMMA BeginWriteTyped ==
  ASSUME TypeOK, NEW from, NEW data \in MemType,
         NEW next \in {"unpack", "relocate", "steps"},
         BeginWrite(from, data, next)
  PROVE  TypeOK'
<1>1. Corrupt \in [kind : FileKinds, data : MemType]
  BY DEF Corrupt, File, FileKinds, MemType, NoMem
<1> QED
  BY <1>1 DEF BeginWrite, Goto, TypeOK, HookTypeOK, NumSteps, Positions,
              diskVars, histVars, worldVars, crashVars, hookVars

\* The provisioner fails, after a change of the disk that is typed.
LEMMA FailTyped ==
  ASSUME TypeOK, NEW from, Fail(from),
         UNCHANGED <<priority, copied, oemFS, grub>>,
         sealed' \in {"none", "valid", "stale"}
  PROVE  TypeOK'
BY DEF Fail, Goto, TypeOK, HookTypeOK, NumSteps, Positions, dirVars,
       histVars, worldVars, crashVars, hookVars

LEMMA ResetTyped ==
  ASSUME TypeOK, Reset, crashes' \in 0 .. MaxCrashes,
         cutShort' \in BOOLEAN, halfSealed' \in BOOLEAN
  PROVE  TypeOK'
<1>1. boot' \in [root : {"sda3", "sda5"}, oem : Extent,
                 masked : SUBSET MaskedUnits]
  BY DEF Reset, TypeOK, HookTypeOK, Table, Parts, GrubType
<1>2. HookTypeOK'
  BY DEF Reset, TypeOK, HookTypeOK, HookPositions
<1> QED
  BY <1>1, <1>2 DEF Reset, TypeOK, NumSteps, Positions, MemType, NoMem,
                    dirVars, diskVars, histVars

\* Reading the size of runs: a step that ends is counted.
LEMMA StepEndsTyped ==
  ASSUME TypeOK, NEW from, StepEnds(from),
         UNCHANGED <<priority, copied, oemFS, sealed>>,
         grub' \in GrubType
  PROVE  TypeOK'
<1> DEFINE S == 1 .. NumSteps
<1>1. runs' \in [S -> Nat]
  <2>1. runs \in [S -> Nat]
    BY DEF TypeOK
  <2>2. runs' = [runs EXCEPT ![Current] = @ + 1]
    BY DEF StepEnds
  <2> HIDE DEF S
  <2>3. \A i \in S : runs'[i] \in Nat
    BY <2>1, <2>2
  <2> QED BY <2>1, <2>2, <2>3
<1> QED
  BY <1>1 DEF StepEnds, Goto, TypeOK, HookTypeOK, NumSteps, Positions,
              procVars, dirVars, worldVars, crashVars, hookVars

LEMMA StartStepTyped ==
  ASSUME TypeOK, StartStep
  PROVE  TypeOK'
<1> USE DEF Positions
<1>1. file \in [kind : FileKinds, data : MemType]
      /\ Empty \in [kind : FileKinds, data : MemType]
      /\ Saved(mem) \in [kind : FileKinds, data : MemType]
  BY DEF TypeOK, Empty, Saved, File, FileKinds, MemType, NoMem
<1>2. contexts \in {"absent", "partial", "whole"} /\ ret \in Positions
  BY DEF TypeOK
<1>3. CASE Startup
  BY <1>3, PassTyped DEF Startup
<1>4. CASE InitStateMkdir
  BY <1>1, <1>2, <1>4, DirStepTyped DEF InitStateMkdir
<1>5. CASE InitStateWrite
  <2>1. NoMem \in MemType
    BY DEF NoMem, MemType
  <2> QED BY <2>1, <1>5, BeginWriteTyped DEF InitStateWrite
<1>6. CASE FinishWrite
  BY <1>1, <1>2, <1>6 DEF FinishWrite, DirStep, Goto, TypeOK,
     HookTypeOK, NumSteps, procVars, diskVars, histVars, worldVars,
     crashVars, hookVars
<1>7. CASE UnpackBegin
  BY <1>1, <1>7, DirStepTyped DEF UnpackBegin
<1>8. CASE UnpackEnd
  BY <1>1, <1>8, DirStepTyped DEF UnpackEnd
<1>9. CASE LoadState
  <2>1. mem' \in MemType
    BY <1>9 DEF LoadState, TypeOK
  <2> QED
    BY <1>9, <2>1 DEF LoadState, Goto, TypeOK, HookTypeOK, NumSteps, dirVars,
                      diskVars, histVars, worldVars, crashVars, hookVars
<1>10. CASE LoadStateFails
  BY <1>10, FailTyped DEF LoadStateFails, TypeOK, diskVars
<1> QED
  BY <1>3, <1>4, <1>5, <1>6, <1>7, <1>8, <1>9, <1>10 DEF StartStep

\* A requested reboot that changes no more of the disk than typed values.
LEMMA RequestRebootTyped ==
  ASSUME TypeOK, NEW from, RequestReboot(from),
         UNCHANGED <<copied, oemFS, sealed, grub>>,
         UNCHANGED <<conf, diskEnd, hook, startPoint, newState, faults, boot,
                     asked, cutShort, halfSealed, crashes>>,
         table' \in Table, priority' \in {"sda3", "sda5"}
  PROVE  TypeOK'
<1>1. reboots' \in 0 .. MaxReboots
  BY ProvisionerAssumption DEF RequestReboot, TypeOK
<1> QED
  BY <1>1 DEF RequestReboot, Goto, TypeOK, HookTypeOK, NumSteps, Positions,
              procVars, dirVars

LEMMA RepartitionStepTyped ==
  ASSUME TypeOK, RepartitionStep
  PROVE  TypeOK'
<1> USE DEF Positions
<1>1. table \in Table /\ priority \in {"sda3", "sda5"}
      /\ Stale \in {"none", "valid", "stale"}
      /\ sealed \in {"none", "valid", "stale"}
  BY DEF TypeOK, HookTypeOK, Stale
<1>2. CASE SwitchRootSkip
  BY <1>2, PassTyped DEF SwitchRootSkip
<1>3. CASE SwitchRootCopy
  BY <1>3 DEF SwitchRootCopy, Goto, TypeOK, HookTypeOK, NumSteps, procVars,
              dirVars, histVars, worldVars, crashVars, hookVars
<1>4. CASE SwitchRootPrioritize
  BY <1>1, <1>4, RequestRebootTyped
     DEF SwitchRootPrioritize, worldVars, crashVars, hookVars
<1>5. CASE ShrinkSkip
  BY <1>5, PassTyped DEF ShrinkSkip
<1>6. CASE ShrinkSDA3
  <2>1. table' \in Table
    BY <1>1, <1>6, GeometryAssumption
       DEF ShrinkSDA3, MinimizePartition, Table, Extent
  <2> QED
    BY <1>1, <1>6, <2>1, RequestRebootTyped DEF ShrinkSDA3, diskVars, crashVars
<1>7. CASE WaitSkip
  BY <1>7, PassTyped DEF WaitSkip
<1>8. CASE WaitReadSize
  BY <1>8 DEF WaitReadSize, Goto, TypeOK, HookTypeOK, NumSteps, diskVars,
              dirVars, histVars, worldVars, crashVars, hookVars
<1>9. CASE WaitAnnounce
  BY <1>9 DEF WaitAnnounce, Goto, TypeOK, HookTypeOK, NumSteps, procVars,
              diskVars, dirVars, histVars, hookVars, crashVars
<1>10. CASE WaitResized
  <2>1. [mem EXCEPT !.resized = TRUE] \in MemType
    BY DEF TypeOK, MemType
  <2> QED BY <2>1, <1>10, BeginWriteTyped DEF WaitResized
<1>11. CASE WaitTimeout
  BY <1>1, <1>11, FailTyped DEF WaitTimeout, diskVars
<1>12. CASE RelocateSkip
  BY <1>12, PassTyped DEF RelocateSkip
<1>13. CASE RelocateArm
  BY <1>13 DEF RelocateArm, Goto, TypeOK, HookTypeOK, NumSteps, diskVars,
               dirVars, histVars, worldVars, crashVars, hookVars
<1>14. CASE RelocateReboot
  BY <1>1, <1>14, RequestRebootTyped
     DEF RelocateReboot, diskVars, worldVars, crashVars, hookVars
<1>15. CASE ResizeFSSkip
  BY <1>15, PassTyped DEF ResizeFSSkip
<1>16. CASE ResizeFS
  <2>1. oemFS' \in Nat
    BY <1>16, ProvisionerAssumption
       DEF ResizeFS, NewFSSize, TypeOK, HookTypeOK, ConfigType, Extent
  <2> QED
    BY <1>1, <1>16, <2>1 DEF ResizeFS, Goto, TypeOK, HookTypeOK, NumSteps,
       procVars, dirVars, histVars, worldVars, crashVars, hookVars
<1>17. CASE ResizeFSFails
  BY <1>1, <1>17, FailTyped DEF ResizeFSFails
<1>18. CASE Remount
  BY <1>18, PassTyped DEF Remount
<1>19. CASE RemountFails
  BY <1>1, <1>19, FailTyped DEF RemountFails, diskVars
<1> QED
  BY <1>2, <1>3, <1>4, <1>5, <1>6, <1>7, <1>8, <1>9, <1>10, <1>11, <1>12,
     <1>13, <1>14, <1>15, <1>16, <1>17, <1>18, <1>19 DEF RepartitionStep

LEMMA BuildStepTyped ==
  ASSUME TypeOK, BuildStep
  PROVE  TypeOK'
<1> USE DEF Positions
<1>1. grub \in GrubType /\ sealed \in {"none", "valid", "stale"}
      /\ contexts \in {"absent", "partial", "whole"}
      /\ file \in [kind : FileKinds, data : MemType]
  BY DEF TypeOK
<1>2. \A u \in MaskedUnits : [grub EXCEPT !.masked = @ \cup {u}] \in GrubType
  BY <1>1 DEF GrubType
<1>3. Empty \in [kind : FileKinds, data : MemType]
      /\ Missing \in [kind : FileKinds, data : MemType]
  BY DEF Empty, Missing, File, FileKinds, MemType, NoMem
<1>4. CASE Setup
  BY <1>4, PassTyped DEF Setup
<1>5. CASE RunScript
  BY <1>1, <1>5, StepEndsTyped DEF RunScript, diskVars
<1>6. CASE InstallGPU \/ InstallPackages
  BY <1>1, <1>6, StepEndsTyped DEF InstallGPU, InstallPackages, diskVars
<1>7. CASE DisableAutoUpdate
  BY <1>2, <1>7, StepEndsTyped DEF DisableAutoUpdate, MaskUnit, MaskedUnits
<1>8. CASE StepFails
  BY <1>1, <1>8, FailTyped DEF StepFails, diskVars
<1>9. CASE SealFormat
  <2>1. grub' \in GrubType
    BY <1>1, <1>9 DEF SealFormat, GrubType
  <2> QED
    BY <1>9, <2>1 DEF SealFormat, TypeOK, HookTypeOK, NumSteps, procVars, dirVars,
              histVars, worldVars, crashVars, hookVars
<1>10. CASE SealGrub
  <2>1. grub' \in GrubType
    <3>1. grub' = [entries |-> grub.entries + 1, count |-> 2,
                   tree |-> IF grub.tree = "none" THEN "current"
                                                  ELSE grub.tree,
                   masked |-> grub.masked]
      BY <1>1, <1>10 DEF SealGrub, GrubType
    <3>2. /\ grub.entries \in Nat /\ grub.masked \in SUBSET MaskedUnits
          /\ grub.tree \in {"none", "current", "old"}
      BY <1>1 DEF GrubType
    <3> QED BY <3>1, <3>2 DEF GrubType
  <2> QED
    BY <1>10, <2>1 DEF SealGrub, Goto, TypeOK, HookTypeOK, NumSteps,
       procVars, dirVars, histVars, worldVars, crashVars, hookVars
<1>11. CASE SealMaskUpdate
  <2>1. grub' \in GrubType
    BY <1>2, <1>11 DEF SealMaskUpdate, MaskUnit, MaskedUnits
  <2> QED
    BY <1>11, <2>1 DEF SealMaskUpdate, MaskUnit, Goto, TypeOK, HookTypeOK,
       NumSteps, procVars, dirVars, histVars, worldVars, crashVars, hookVars
<1>12. CASE SealMaskOEM
  BY <1>2, <1>12, StepEndsTyped DEF SealMaskOEM, MaskUnit, MaskedUnits
<1>13. CASE SaveStep
  <2>1. [mem EXCEPT !.step = @ + 1] \in MemType
    BY DEF TypeOK, MemType
  <2> QED BY <2>1, <1>13, BeginWriteTyped DEF SaveStep
<1>14. CASE StepsDone
  BY <1>14, PassTyped DEF StepsDone
<1>15. CASE StopServices
  BY <1>15, PassTyped DEF StopServices
<1>16. CASE CleanupEmpty
  BY <1>3, <1>16, DirStepTyped DEF CleanupEmpty
<1>17. CASE CleanupRmdir
  BY <1>1, <1>3, <1>17 DEF CleanupRmdir, DirStep, Goto, TypeOK,
     HookTypeOK, NumSteps, procVars, diskVars, histVars, worldVars,
     crashVars, hookVars
<1>18. CASE Succeed
  BY <1>18 DEF Succeed, Goto, TypeOK, HookTypeOK, NumSteps, dirVars, diskVars,
               histVars, worldVars, crashVars, hookVars
<1> QED
  BY <1>4, <1>5, <1>6, <1>7, <1>8, <1>9, <1>10, <1>11, <1>12, <1>13, <1>14,
     <1>15, <1>16, <1>17, <1>18 DEF BuildStep

LEMMA MachineStepTyped ==
  ASSUME TypeOK, MachineStep
  PROVE  TypeOK'
<1> USE DEF Positions
<1>1. CASE Shutdown
  BY <1>1, PassTyped DEF Shutdown
<1>2. CASE ShutdownHook
  <2>1. HookTypeOK'
    <3>1. CASE HookStart
      BY <1>2, <3>1 DEF ShutdownHook, HookStart, TypeOK, HookTypeOK,
                        HookPositions
    <3>2. CASE HookStep
      BY <1>2, <3>2, HookStepTyped DEF ShutdownHook, TypeOK
    <3> QED BY <1>2, <3>1, <3>2 DEF ShutdownHook
  <2>2. cutShort' \in BOOLEAN
    BY <1>2 DEF ShutdownHook, TypeOK
  <2> QED
    BY <1>2, <2>1, <2>2 DEF ShutdownHook, TypeOK, NumSteps, procVars, dirVars,
                            diskVars, histVars
<1>3. CASE Reboot
  BY <1>3, ResetTyped DEF Reboot, TypeOK, crashVars
<1>4. CASE PowerOff
  BY <1>4, PassTyped DEF PowerOff
<1> QED BY <1>1, <1>2, <1>3, <1>4 DEF MachineStep

\* Every step of the VM or of the machine around it keeps the types.
LEMMA NextTyped ==
  ASSUME TypeOK, [Next]_vars
  PROVE  TypeOK'
<1>1. CASE VMStep
  BY <1>1, StartStepTyped, RepartitionStepTyped, BuildStepTyped,
     MachineStepTyped DEF VMStep
<1>2. CASE CommandFails
  BY <1>2, FailTyped DEF CommandFails, TypeOK, diskVars
<1>3. CASE Crash
  <2>1. crashes' \in 0 .. MaxCrashes
    BY <1>3, ProvisionerAssumption DEF Crash, TypeOK
  <2>2. cutShort' \in BOOLEAN /\ halfSealed' \in BOOLEAN
    BY <1>3 DEF Crash, TypeOK
  <2> QED BY <1>3, <2>1, <2>2, ResetTyped DEF Crash
<1>4. CASE DaisyResize
  BY <1>4, ProvisionerAssumption
     DEF DaisyResize, TypeOK, HookTypeOK, NumSteps, procVars, dirVars,
         diskVars, histVars, hookVars, crashVars
<1>5. CASE UNCHANGED vars
  BY <1>5 DEF vars, TypeOK, HookTypeOK, NumSteps, procVars, dirVars,
              diskVars, histVars, worldVars, crashVars, hookVars
<1> QED BY <1>1, <1>2, <1>3, <1>4, <1>5 DEF Next, Stopped

\* Every variable of the provisioner and of the disk stays in its type, over
\* any sequence of boots, failures and crashes.
THEOREM TypeCorrect == Spec => []TypeOK
<1>1. TypeOK /\ [Next]_vars => TypeOK'
  BY NextTyped
<1> QED BY <1>1, TypeInit, PTL DEF Spec

-----------------------------------------------------------------------------
(* Progress.  What matters about a position is the phase of the build it   *)
(* belongs to: before the steps, at a step, between a step and the write   *)
(* of CurrentStep, after the steps, and after the outcome.                 *)

StepPositions == {"steps", "sealGrub", "sealMaskUpdate", "sealMaskOEM"}
LatePositions == {"stopServices", "cleanup", "rmdir", "scrub"}

Phase ==
  IF pc = "write" THEN IF ret = "steps" THEN "steps" ELSE "early"
  ELSE IF pc \in StepPositions THEN "steps"
  ELSE IF pc = "stepDone" THEN "stepDone"
  ELSE IF pc \in LatePositions THEN "late"
  ELSE IF pc \in {"ended", "poweroff"} THEN "ended"
  ELSE IF pc = "off" THEN "off"
  ELSE "early"

\* The steps up to n have run to their end.
DoneUpTo(n) == \A i \in 1 .. NumSteps : i <= n => Completed(i)

\* No step after n has run since the last unplanned restart.
FreshAfter(n) == \A i \in 1 .. NumSteps : i > n => runs[i] <= crashes

(* The inductive invariant.  What is written is no further than what is    *)
(* done; while a phase lasts, the steps that this boot may still run have  *)
(* been run at most once per crash, and a requested reboot only happens    *)
(* early, when that holds of all steps.                                    *)
ProgressInv ==
  /\ outcome = "none" <=> Phase \notin {"ended", "off"}
  /\ DoneUpTo(mem.step)
  /\ file.kind = "ok" => DoneUpTo(file.data.step)
  /\ Phase = "stepDone" => DoneUpTo(mem.step + 1)
  /\ Phase = "late" \/ outcome = "succeeded" => DoneUpTo(NumSteps)
  /\ Phase = "early" => FreshAfter(0)
  /\ Phase = "steps" => FreshAfter(mem.step)
  /\ Phase = "stepDone" => FreshAfter(mem.step + 1)
  /\ \A i \in 1 .. NumSteps : runs[i] <= 1 + crashes

(* The kinds of step there are, as far as progress goes.                   *)
Quiet ==
  /\ UNCHANGED <<conf, mem, runs, crashes, outcome>>
  /\ file' = file \/ file'.kind # "ok" \/ file' = Saved(mem)
  /\ \/ Phase' = Phase
     \/ Phase = "early" /\ Phase' = "steps"
     \/ Phase = "ended" /\ Phase' = "off"

Loading ==
  /\ Phase = "early" /\ Phase' = "early"
  /\ file.kind = "ok" /\ mem' = file.data
  /\ UNCHANGED <<conf, file, runs, crashes, outcome>>

Writing ==
  /\ Phase = "early" /\ Phase' = "early"
  /\ mem'.step \in {0, mem.step} /\ file' = Corrupt
  /\ UNCHANGED <<conf, runs, crashes, outcome>>

Ending ==
  /\ Phase = "steps" /\ Phase' = "stepDone"
  /\ runs' = [runs EXCEPT ![Current] = @ + 1]
  /\ UNCHANGED <<conf, mem, file, crashes, outcome>>

Counting ==
  /\ Phase = "stepDone" /\ Phase' = "steps"
  /\ mem'.step = mem.step + 1 /\ file' = Corrupt
  /\ UNCHANGED <<conf, runs, crashes, outcome>>

AllDone ==
  /\ Phase = "steps" /\ Phase' = "late"
  /\ mem.step >= NumSteps
  /\ UNCHANGED <<conf, mem, file, runs, crashes, outcome>>

Failing ==
  /\ Phase \notin {"ended", "off"} /\ Phase' = "ended"
  /\ outcome' = "failed"
  /\ UNCHANGED <<conf, mem, file, runs, crashes>>

Succeeding ==
  /\ Phase = "late" /\ Phase' = "ended"
  /\ outcome' = "succeeded"
  /\ UNCHANGED <<conf, mem, file, runs, crashes>>

Restarting ==
  /\ Phase # "off" /\ Phase' = "early"
  /\ \/ crashes' = crashes + 1
     \/ Phase = "early" /\ crashes' = crashes
  /\ mem' = NoMem /\ outcome' = "none"
  /\ UNCHANGED <<conf, file, runs>>

ProgressStep ==
  Quiet \/ Loading \/ Writing \/ Ending \/ Counting \/ AllDone \/ Failing
    \/ Succeeding \/ Restarting

LEMMA StartStepProgress ==
  ASSUME TypeOK, StartStep
  PROVE  ProgressStep
<1> USE DEF Pass, Goto, procVars, dirVars, diskVars, histVars, worldVars,
            crashVars, Phase, StepPositions, LatePositions, ProgressStep
<1>1. CASE Startup
  BY <1>1 DEF Startup, Quiet
<1>2. CASE InitStateMkdir
  BY <1>2 DEF InitStateMkdir, Quiet, DirStep, Empty, File
<1>3. CASE InitStateWrite
  BY <1>3 DEF InitStateWrite, Writing, BeginWrite, NoMem, TypeOK, MemType
<1>4. CASE FinishWrite
  BY <1>4 DEF FinishWrite, Quiet, DirStep, TypeOK
<1>5. CASE UnpackBegin
  BY <1>5 DEF UnpackBegin, Quiet, DirStep
<1>6. CASE UnpackEnd
  BY <1>6 DEF UnpackEnd, Quiet, DirStep
<1>7. CASE LoadState
  BY <1>7 DEF LoadState, Loading
<1>8. CASE LoadStateFails
  BY <1>8 DEF LoadStateFails, Failing, Fail
<1> QED
  BY <1>1, <1>2, <1>3, <1>4, <1>5, <1>6, <1>7, <1>8
     DEF StartStep

LEMMA RepartitionStepProgress ==
  ASSUME TypeOK, RepartitionStep
  PROVE  ProgressStep
<1> USE DEF Pass, Goto, procVars, dirVars, diskVars, histVars, worldVars,
            crashVars, Phase, StepPositions, LatePositions, ProgressStep
<1>1. CASE SwitchRootSkip
  BY <1>1 DEF SwitchRootSkip, Quiet
<1>2. CASE SwitchRootCopy
  BY <1>2 DEF SwitchRootCopy, Quiet
<1>3. CASE SwitchRootPrioritize
  BY <1>3 DEF SwitchRootPrioritize, Quiet, RequestReboot
<1>4. CASE ShrinkSkip
  BY <1>4 DEF ShrinkSkip, Quiet
<1>5. CASE ShrinkSDA3
  BY <1>5 DEF ShrinkSDA3, Quiet, RequestReboot
<1>6. CASE WaitSkip
  BY <1>6 DEF WaitSkip, Quiet
<1>7. CASE WaitReadSize
  BY <1>7 DEF WaitReadSize, Quiet
<1>8. CASE WaitAnnounce
  BY <1>8 DEF WaitAnnounce, Quiet
<1>9. CASE WaitResized
  BY <1>9 DEF WaitResized, Writing, BeginWrite, NoMem, TypeOK, MemType
<1>10. CASE WaitTimeout
  BY <1>10 DEF WaitTimeout, Failing, Fail
<1>11. CASE RelocateSkip
  BY <1>11 DEF RelocateSkip, Quiet
<1>12. CASE RelocateArm
  BY <1>12 DEF RelocateArm, Quiet
<1>13. CASE RelocateReboot
  BY <1>13 DEF RelocateReboot, Quiet, RequestReboot
<1>14. CASE ResizeFSSkip
  BY <1>14 DEF ResizeFSSkip, Quiet
<1>15. CASE ResizeFS
  BY <1>15 DEF ResizeFS, Quiet
<1>16. CASE ResizeFSFails
  BY <1>16 DEF ResizeFSFails, Failing, Fail
<1>17. CASE Remount
  BY <1>17 DEF Remount, Quiet
<1>18. CASE RemountFails
  BY <1>18 DEF RemountFails, Failing, Fail
<1> QED
  BY <1>1, <1>2, <1>3, <1>4, <1>5, <1>6, <1>7, <1>8, <1>9, <1>10, <1>11,
     <1>12, <1>13, <1>14, <1>15, <1>16, <1>17, <1>18
     DEF RepartitionStep

LEMMA BuildStepProgress ==
  ASSUME TypeOK, BuildStep
  PROVE  ProgressStep
<1> USE DEF Pass, Goto, procVars, dirVars, diskVars, histVars, worldVars,
            crashVars, Phase, StepPositions, LatePositions, ProgressStep
<1>1. CASE Setup
  BY <1>1 DEF Setup, Quiet
<1>2. CASE RunScript
  BY <1>2 DEF RunScript, Ending, StepEnds, AtStep
<1>3. CASE InstallGPU \/ InstallPackages
  BY <1>3 DEF InstallGPU, InstallPackages, Ending, StepEnds, AtStep
<1>4. CASE DisableAutoUpdate
  BY <1>4 DEF DisableAutoUpdate, Ending, StepEnds, AtStep
<1>5. CASE StepFails
  BY <1>5 DEF StepFails, Failing, Fail
<1>6. CASE SealFormat
  BY <1>6 DEF SealFormat, Quiet, AtStep
<1>7. CASE SealGrub
  BY <1>7 DEF SealGrub, Quiet
<1>8. CASE SealMaskUpdate
  BY <1>8 DEF SealMaskUpdate, Quiet, MaskUnit
<1>9. CASE SealMaskOEM
  BY <1>9 DEF SealMaskOEM, Ending, StepEnds, AtStep
<1>10. CASE SaveStep
  BY <1>10 DEF SaveStep, Counting, BeginWrite, TypeOK, MemType
<1>11. CASE StepsDone
  BY <1>11 DEF StepsDone, AllDone
<1>12. CASE StopServices
  BY <1>12 DEF StopServices, Quiet
<1>13. CASE CleanupEmpty
  BY <1>13 DEF CleanupEmpty, Quiet, DirStep, Empty, File
<1>14. CASE CleanupRmdir
  BY <1>14 DEF CleanupRmdir, Quiet, DirStep, Missing, File
<1>15. CASE Succeed
  BY <1>15 DEF Succeed, Succeeding
<1> QED
  BY <1>1, <1>2, <1>3, <1>4, <1>5, <1>6, <1>7, <1>8, <1>9, <1>10, <1>11,
     <1>12, <1>13, <1>14, <1>15
     DEF BuildStep

\* Every step of the specification is of one of these kinds.
LEMMA NextProgress ==
  ASSUME TypeOK, [Next]_vars
  PROVE  ProgressStep
<1> USE DEF Pass, Goto, procVars, dirVars, diskVars, histVars, worldVars,
            crashVars, Phase, StepPositions, LatePositions, ProgressStep
<1>1. CASE StartStep \/ RepartitionStep \/ BuildStep
  BY <1>1, StartStepProgress, RepartitionStepProgress, BuildStepProgress
<1>2. CASE Shutdown
  BY <1>2 DEF Shutdown, Quiet
<1>3. CASE ShutdownHook
  BY <1>3 DEF ShutdownHook, Quiet
<1>4. CASE Reboot
  BY <1>4 DEF Reboot, Reset, Restarting
<1>5. CASE PowerOff
  BY <1>5 DEF PowerOff, Quiet
<1>6. CASE CommandFails
  BY <1>6 DEF CommandFails, Fail, Running, Positions, Failing
<1>7. CASE Crash
  BY <1>7 DEF Crash, Reset, Restarting
<1>8. CASE DaisyResize
  BY <1>8 DEF DaisyResize, Quiet
<1>9. CASE UNCHANGED vars
  BY <1>9 DEF vars, Quiet
<1> QED
  BY <1>1, <1>2, <1>3, <1>4, <1>5, <1>6, <1>7, <1>8, <1>9
     DEF Next, VMStep, MachineStep, Stopped

LEMMA ProgressInit == Init => ProgressInv
BY DEF Init, ProgressInv, Phase, StepPositions, LatePositions, DoneUpTo,
       FreshAfter, NoMem, Missing, File

LEMMA ProgressInvStep ==
  ASSUME TypeOK, TypeOK', ProgressInv, ProgressStep
  PROVE  ProgressInv'
<1> USE DEF DoneUpTo, FreshAfter, Completed
<1>1. mem \in MemType /\ file.data \in MemType /\ mem' \in MemType
      /\ runs \in [1 .. NumSteps -> Nat] /\ crashes \in Nat
      /\ crashes' \in Nat /\ NumSteps \in Nat
  BY ProvisionerAssumption DEF TypeOK, HookTypeOK, ConfigType, NumSteps
<1>2. NumSteps' = NumSteps
  BY DEF ProgressStep, Quiet, Loading, Writing, Ending, Counting, AllDone,
         Failing, Succeeding, Restarting, NumSteps
<1>3. CASE Quiet
  BY <1>1, <1>2, <1>3 DEF Quiet, ProgressInv, Saved, File, MemType
<1>4. CASE Loading
  BY <1>1, <1>2, <1>4 DEF Loading, ProgressInv
<1>5. CASE Writing
  BY <1>1, <1>2, <1>5 DEF Writing, ProgressInv, Corrupt, File, MemType
<1>6. CASE Ending
  <2>1. \A i \in 1 .. NumSteps :
          runs'[i] = IF i = Current THEN runs[i] + 1 ELSE runs[i]
    BY <1>1, <1>6 DEF Ending
  <2> QED
    BY <1>1, <1>2, <1>6, <2>1 DEF Ending, ProgressInv, Current, MemType
<1>7. CASE Counting
  BY <1>1, <1>2, <1>7 DEF Counting, ProgressInv, Corrupt, File, MemType
<1>8. CASE AllDone
  BY <1>1, <1>2, <1>8 DEF AllDone, ProgressInv, MemType
<1>9. CASE Failing
  BY <1>1, <1>2, <1>9 DEF Failing, ProgressInv
<1>10. CASE Succeeding
  BY <1>1, <1>2, <1>10 DEF Succeeding, ProgressInv
<1>11. CASE Restarting
  BY <1>1, <1>2, <1>11 DEF Restarting, ProgressInv, NoMem, MemType
<1> QED
  BY <1>3, <1>4, <1>5, <1>6, <1>7, <1>8, <1>9, <1>10, <1>11 DEF ProgressStep

LEMMA ProgressCorrect == Spec => [](TypeOK /\ ProgressInv)
<1>1. Init => TypeOK /\ ProgressInv
  BY TypeInit, ProgressInit
<1>2. TypeOK /\ ProgressInv /\ [Next]_vars => (TypeOK /\ ProgressInv)'
  BY NextTyped, NextProgress, ProgressInvStep
<1> QED BY <1>1, <1>2, PTL DEF Spec

\* Neither CurrentStep in memory nor the one in state.json ever names a step
\* that has not run to its end (executeSteps, provisioner.go:310-317).
THEOREM NothingSkipped == Spec => []PersistedStepNotAhead
<1>1. TypeOK /\ ProgressInv => PersistedStepNotAhead
  BY DEF ProgressInv, PersistedStepNotAhead, DoneUpTo
<1> QED BY <1>1, ProgressCorrect, PTL

\* A step is repeated at most once per unplanned restart; the reboots that
\* repartitioning takes repeat none.
THEOREM RepeatsAreCrashes == Spec => []RepeatsNeedACrash
<1>1. TypeOK /\ ProgressInv => RepeatsNeedACrash
  BY DEF ProgressInv, RepeatsNeedACrash
<1> QED BY <1>1, ProgressCorrect, PTL

-----------------------------------------------------------------------------
(* The provisioner implements ProvisioningFlow.                            *)

DoneSteps == {i \in 1 .. NumSteps : Completed(i)}

Status ==
  IF pc = "off" THEN "off"
  ELSE IF outcome = "none" THEN "building" ELSE outcome

\* Every kind of step is an abstract step, or changes nothing that the
\* abstract specification sees.
LEMMA FlowStep ==
  ASSUME TypeOK, ProgressInv, TypeOK', ProgressInv', ProgressStep
  PROVE  [Flow!FlowNext]_(Flow!flowVars)
<1>1. mem \in MemType /\ runs \in [1 .. NumSteps -> Nat] /\ NumSteps \in Nat
      /\ outcome \in {"none", "succeeded", "failed"}
  BY ProvisionerAssumption DEF TypeOK, HookTypeOK, ConfigType, NumSteps
<1>2. pc = "off" <=> Phase = "off"
  BY DEF Phase, StepPositions, LatePositions
<1>3. pc' = "off" <=> Phase' = "off"
  BY DEF Phase, StepPositions, LatePositions
<1>4. NumSteps' = NumSteps
  BY DEF ProgressStep, Quiet, Loading, Writing, Ending, Counting, AllDone,
         Failing, Succeeding, Restarting, NumSteps
<1>5. ASSUME UNCHANGED runs PROVE DoneSteps' = DoneSteps
  BY <1>4, <1>5 DEF DoneSteps, Completed
<1>6. CASE Ending
  <2>1. \A i \in 1 .. NumSteps :
          runs'[i] = IF i = Current THEN runs[i] + 1 ELSE runs[i]
    BY <1>1, <1>6 DEF Ending
  <2>2. 1 .. (Current - 1) \subseteq DoneSteps \/ Current \notin 1 .. NumSteps
    BY <1>1 DEF ProgressInv, DoneUpTo, DoneSteps, Current, MemType
  <2>3. CASE Current \in 1 .. NumSteps
    <3>1. DoneSteps' = DoneSteps \cup {Current}
      BY <1>1, <1>4, <2>1, <2>3 DEF DoneSteps, Completed
    <3>2. Status = "building" /\ Status' = "building"
      BY <1>2, <1>3, <1>6 DEF Ending, Status, ProgressInv
    <3> QED
      BY <1>4, <2>2, <2>3, <3>1, <3>2
         DEF Flow!FlowNext, Flow!CompleteStep, DoneSteps, Status
  <2>4. CASE Current \notin 1 .. NumSteps
    <3>1. DoneSteps' = DoneSteps
      BY <1>1, <1>4, <2>1, <2>4 DEF DoneSteps, Completed
    <3>2. Status' = Status
      BY <1>2, <1>3, <1>6 DEF Ending, Status
    <3> QED BY <1>4, <3>1, <3>2 DEF Flow!flowVars, DoneSteps, Status
  <2> QED BY <2>3, <2>4
<1>7. CASE Failing
  <2>1. DoneSteps' = DoneSteps
    BY <1>5, <1>7 DEF Failing
  <2>2. Status = "building" /\ Status' = "failed"
    BY <1>2, <1>3, <1>7 DEF Failing, Status, ProgressInv
  <2> QED
    BY <1>4, <2>1, <2>2
       DEF Flow!FlowNext, Flow!ReportFailure, DoneSteps, Status
<1>8. CASE Succeeding
  <2>1. DoneSteps' = DoneSteps
    BY <1>5, <1>8 DEF Succeeding
  <2>2. Status = "building" /\ Status' = "succeeded"
    BY <1>2, <1>3, <1>8 DEF Succeeding, Status, ProgressInv
  <2>3. DoneSteps = 1 .. NumSteps
    BY <1>1, <1>8 DEF Succeeding, ProgressInv, DoneUpTo, DoneSteps
  <2> QED
    BY <1>4, <2>1, <2>2, <2>3
       DEF Flow!FlowNext, Flow!ReportSuccess, DoneSteps, Status
<1>9. CASE Restarting
  <2>1. DoneSteps' = DoneSteps
    BY <1>5, <1>9 DEF Restarting
  <2>2. Status' = "building" /\ Status \in {"building", "succeeded", "failed"}
    BY <1>1, <1>2, <1>3, <1>9 DEF Restarting, Status
  <2> QED
    BY <1>4, <2>1, <2>2 DEF Flow!FlowNext, Flow!Restart, Flow!flowVars,
       DoneSteps, Status
<1>10. CASE Quiet \/ Loading \/ Writing \/ Counting \/ AllDone
  <2>1. DoneSteps' = DoneSteps /\ outcome' = outcome
    BY <1>5, <1>10 DEF Quiet, Loading, Writing, Counting, AllDone
  <2>2. CASE Phase = "ended" /\ Phase' = "off"
    <3>1. Status \in {"succeeded", "failed"} /\ Status' = "off"
      BY <1>1, <1>2, <1>3, <2>2 DEF Status, ProgressInv
    <3> QED
      BY <1>4, <2>1, <3>1 DEF Flow!FlowNext, Flow!End, DoneSteps, Status
  <2>3. CASE ~(Phase = "ended" /\ Phase' = "off")
    <3>1. Status' = Status
      BY <1>2, <1>3, <1>10, <2>1, <2>3
         DEF Quiet, Loading, Writing, Counting, AllDone, Status
    <3> QED BY <1>4, <2>1, <3>1 DEF Flow!flowVars, DoneSteps, Status
  <2> QED BY <2>2, <2>3
<1> QED BY <1>6, <1>7, <1>8, <1>9, <1>10 DEF ProgressStep

\* Through any sequence of boots, failures and crashes the build completes
\* its steps in order, forgets none and reports success only after all.
THEOREM ImplementsFlow == Spec => FlowSpec
<1>1. Init => Flow!FlowInit
  <2> SUFFICES ASSUME Init PROVE Flow!FlowInit
    OBVIOUS
  <2>1. NumSteps \in Nat
    BY TypeInit, ProvisionerAssumption
       DEF TypeOK, HookTypeOK, ConfigType, NumSteps
  <2>2. DoneSteps = {}
    BY DEF Init, DoneSteps, Completed
  <2> QED BY <2>1, <2>2 DEF Init, Flow!FlowInit, DoneSteps
<1>2. TypeOK /\ ProgressInv /\ TypeOK' /\ ProgressInv' /\ [Next]_vars
        => [Flow!FlowNext]_(Flow!flowVars)
  BY NextProgress, FlowStep
<1> QED
  BY <1>1, <1>2, ProgressCorrect, PTL DEF Spec, FlowSpec, Flow!FlowSpec
=============================================================================
