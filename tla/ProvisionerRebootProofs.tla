----------------------- MODULE ProvisionerRebootProofs -----------------------
(***************************************************************************)
(* A proof that bounds the reboots that a build asks for.  Each of them is *)
(* paid for by something that cannot be undone: the switch of the root,    *)
(* the shrinking of sda3, the relocation, a crash or a failed edit.        *)
(***************************************************************************)
EXTENDS ProvisionerDiskProofs

\* What validateOEM sees to: the disk that the build relocates on holds the
\* image and the OEM partition, less what sda3 gives back; and an OEM size,
\* if there is one, is larger than the partition is (not so for a -oem-size
\* of 16M or 17M, the case of AllowedSizesEnd).
BuildsFit ==
  \A c \in Configs :
    /\ c.oemSize # 0 => c.oemSize > InitTable["oem"].size
    /\ (IF c.reclaim THEN ReclaimedStart(InitTable)
                     ELSE InitTable["state"].start)
         + c.oemSize + InitTable["state"].size
       <= (IF c.wait THEN GrownEnd ELSE ImageEnd)

ShrunkPositions == {"readSize", "announce", "poll", "relocate", "journal"}

\* What an attempt at relocation finds and what it aims at.
AimInv ==
  /\ priority = "sda5" /\ boot.root # "sda5" => pc = "reboot"
  /\ pc = "prioritize" => boot.root # "sda5"
  /\ pc = "journal" => armed
  /\ table["state"].size = InitTable["state"].size
  /\ OEMInPlace => table["oem"].size = InitTable["oem"].size
  /\ conf.oemSize = 0 => OEMInPlace
  /\ conf.reclaim /\ (pc \in ShrunkPositions \/ WriteTo("relocate") \/ armed)
       => IsPartitionMinimal(table, "sda3")
  /\ ~conf.wait =>
       diskEnd = ImageEnd /\ ~asked /\ pc \notin {"announce", "poll"}
  /\ armed /\ hook \notin {"extend", "done", "error"} => NeedsRelocation
  /\ hook \in {"extend", "done"} => ~NeedsRelocation
  /\ hook = "stateOnly" => conf.oemSize = 0
  /\ hook = "state" /\ ~conf.reclaim => startPoint = table["state"].start

\* What has been done for good.
Gains ==
  One(priority = "sda5") + One(IsPartitionMinimal(table, "sda3"))
    + One(~NeedsRelocation)

\* A reboot that has not yet relocated anything.
Pending == pc = "reboot" /\ armed /\ NeedsRelocation /\ hook # "error"

\* Half relocated, with no room for another attempt: this is for ever.
Stuck ==
  HalfRelocated /\ hook # "oem"
    /\ NewStateStart(table) + table["state"].size > diskEnd

BoundInv == Stuck \/ reboots <= Gains + One(Pending) + crashes + faults

-----------------------------------------------------------------------------
(* One invocation of the program.                                          *)

LEMMA Sectors ==
  ASSUME TypeOK
  PROVE  /\ table \in [Parts -> Extent] /\ InitTable \in [Parts -> Extent]
         /\ conf \in Configs /\ conf.oemSize \in Nat /\ diskEnd \in Nat
         /\ startPoint \in Nat /\ newState \in Nat
         /\ crashes \in Nat /\ faults \in Nat /\ reboots \in Nat
BY ImageAssumption, ConfigAssumption, DiskAssumption, ProvisionerAssumption
   DEF TypeOK, HookTypeOK, Table

\* An attempt that has begun computes where to move what, and moves it.
LEMMA PlanAims ==
  ASSUME TypeOK, LayoutInv, ExtendInv, AimInv, BuildsFit, armed, HookPlan
  PROVE  /\ NeedsRelocation /\ UNCHANGED table
         /\ hook' = IF conf.oemSize = 0 THEN "stateOnly" ELSE "state"
         /\ ~conf.reclaim => startPoint' = table["state"].start
<1>1. hook = "begin" /\ NeedsRelocation
  BY DEF HookPlan, AimInv
<1>2. OEMInPlace
  BY <1>1, OEMMoved DEF AimInv, NeedsRelocation
<1>3. table["oem"].size = InitTable["oem"].size /\ table["oem"].size \in Nat
  BY <1>2, Sectors DEF AimInv, Parts, Extent
<1>4. OEMSmaller(table) <=> conf.oemSize = 0
  BY <1>3, Sectors DEF OEMSmaller, BuildsFit
<1>5. conf.oemSize = 0 => conf.reclaim
  BY <1>1 DEF NeedsRelocation
<1> QED BY <1>1, <1>4, <1>5 DEF HookPlan, StartPointSector

LEMMA HookAims ==
  ASSUME TypeOK, BootInv, LayoutInv, LayoutInv', ExtendInv, ExtendInv',
         AimInv, BuildsFit, ShutdownHook
  PROVE  AimInv'
<1>1. armed /\ pc \in {"reboot", "poweroff"}
  BY DEF ShutdownHook, HookStart, Stopping, HookStep, HookShrink, HookPlan,
     HookMoveState, HookMoveOem, HookExtend, HookRefused, HookFault, BootInv
<1>2. UNCHANGED <<pc, ret, priority, boot, conf, diskEnd, armed, asked>>
  BY DEF ShutdownHook, procVars, diskVars
<1> USE Sectors DEF Parts, Extent
<1>3. ASSUME UNCHANGED table,
             hook' \notin {"extend", "done", "error"} => NeedsRelocation,
             hook' \in {"extend", "done"} => ~NeedsRelocation,
             hook' = "stateOnly" => conf.oemSize = 0,
             hook' = "state" /\ ~conf.reclaim =>
               startPoint' = table["state"].start
      PROVE  AimInv'
  BY <1>1, <1>2, <1>3
     DEF AimInv, OEMInPlace, NeedsRelocation, OEMAfterSDA3, StateReclaimed,
         WriteTo
<1>4. CASE HookStart
  BY <1>1, <1>3, <1>4 DEF HookStart, AimInv
<1>5. CASE HookPlan
  BY <1>1, <1>3, <1>5, PlanAims
<1>6. CASE HookShrink
  BY <1>1, <1>6 DEF HookShrink, AimInv
<1>7. CASE HookMoveState
  <2>1. /\ table'["oem"] = table["oem"] /\ table'["sda3"] = table["sda3"]
        /\ table'["state"].size = table["state"].size
        /\ table'["state"].start = StateTarget
    BY <1>7 DEF HookMoveState, MovePartition
  <2>2. CASE hook = "stateOnly"
    <3>1. hook' = "done" /\ StateTarget = startPoint /\ conf.oemSize = 0
      BY <1>7, <2>2 DEF HookMoveState, StateTarget, AimInv
    <3>2. conf.reclaim /\ startPoint = ReclaimedStart(InitTable)
      BY <2>2 DEF LayoutInv, PlanHolds
    <3>3. IsPartitionMinimal(table, "sda3")
          /\ ReclaimedStart(table) = ReclaimedStart(InitTable)
      BY <1>1, <3>2 DEF AimInv, LayoutInv, RootsInPlace, ReclaimedStart
    <3>4. ~NeedsRelocation'
      BY <1>2, <2>1, <3>1, <3>2, <3>3
         DEF NeedsRelocation, StateReclaimed, IsPartitionMinimal,
             ReclaimedStart
    <3> QED
      BY <1>1, <1>2, <2>1, <3>1, <3>4
         DEF AimInv, OEMInPlace, WriteTo, IsPartitionMinimal
  <2>3. CASE hook = "state"
    <3>1. hook' = "oem" /\ conf.oemSize # 0
      BY <1>7, <2>3 DEF HookMoveState, LayoutInv, PlanHolds
    <3>2. NeedsRelocation'
      BY <1>1, <1>2, <2>1, <2>3, <3>1
         DEF AimInv, NeedsRelocation, OEMAfterSDA3, SDA3End
    <3> QED
      BY <1>1, <1>2, <2>1, <3>1, <3>2
         DEF AimInv, OEMInPlace, WriteTo, IsPartitionMinimal
  <2> QED BY <1>7, <2>2, <2>3 DEF HookMoveState
<1>8. CASE HookMoveOem
  <2>1. /\ table'["sda3"] = table["sda3"] /\ table'["state"] = table["state"]
        /\ table'["oem"].start = startPoint /\ hook' = "extend"
    BY <1>8 DEF HookMoveOem, MovePartition
  <2>2. conf.oemSize # 0
    BY <1>8 DEF HookMoveOem, LayoutInv, PlanHolds
  <2>3. After(InitTable, "oem") <= InitTable["sda3"].start
        /\ After(table, "sda3") <= startPoint
        /\ table["sda3"].start = InitTable["sda3"].start
    BY <1>8, ImageAssumption
       DEF HookMoveOem, LayoutInv, PlanHolds, RootsInPlace
  <2>4. ~OEMInPlace'
    BY <2>1, <2>3 DEF OEMInPlace, After
  <2>5. ~NeedsRelocation'
    BY <1>2, <2>1, <2>2, <2>3
       DEF NeedsRelocation, OEMAfterSDA3, SDA3End, After
  <2> QED
    BY <1>1, <1>2, <2>1, <2>2, <2>4, <2>5
       DEF AimInv, WriteTo, IsPartitionMinimal
<1>9. CASE HookExtend
  <2>1. /\ table'["sda3"] = table["sda3"] /\ table'["state"] = table["state"]
        /\ table'["oem"].start = table["oem"].start
        /\ hook' \in {"done", "error"}
    BY <1>9 DEF HookExtend, ExtendPartition
  <2>2. conf.oemSize # 0 /\ ~NeedsRelocation
    BY <1>9 DEF HookExtend, LayoutInv, PlanHolds, AimInv
  <2>3. ~OEMInPlace
    BY <2>2, OEMMoved DEF NeedsRelocation
  <2>4. ~NeedsRelocation'
    BY <1>2, <2>1, <2>2 DEF NeedsRelocation, OEMAfterSDA3, SDA3End
  <2> QED
    BY <1>1, <1>2, <2>1, <2>2, <2>3, <2>4
       DEF AimInv, OEMInPlace, WriteTo, IsPartitionMinimal
<1>10. CASE HookRefused \/ HookFault
  BY <1>3, <1>10 DEF HookRefused, HookFault
<1> QED
  BY <1>4, <1>5, <1>6, <1>7, <1>8, <1>9, <1>10 DEF ShutdownHook, HookStep

LEMMA AimInit == Init => AimInv
<1> SUFFICES ASSUME Init PROVE AimInv
  OBVIOUS
<1> QED
  BY DEF Init, HookInit, AimInv, OEMInPlace, ShrunkPositions, WriteTo

LEMMA AimNext ==
  TypeOK /\ BootInv /\ ResizeInv /\ LayoutInv /\ LayoutInv' /\ ExtendInv
    /\ ExtendInv' /\ AimInv /\ BuildsFit /\ [Next]_vars => AimInv'
<1> SUFFICES ASSUME TypeOK, BootInv, ResizeInv, LayoutInv, LayoutInv',
                    ExtendInv, ExtendInv', AimInv, BuildsFit, [Next]_vars
             PROVE  AimInv'
  OBVIOUS
<1> USE DEF Pass, Goto, DirStep, procVars, dirVars, diskVars, histVars,
            worldVars, crashVars, hookVars, WriteTo, ShrunkPositions
\* Steps that change neither the disk nor the hook, by where they lead.
<1>1. ASSUME UNCHANGED <<conf, table, diskEnd, hook, startPoint, armed,
                         priority, boot>>,
             asked' = asked \/ conf.wait,
             pc' \notin {"prioritize", "journal"},
             pc' \in {"announce", "poll"} => conf.wait,
             conf.reclaim /\ (pc' \in ShrunkPositions \/ WriteTo("relocate")')
               => pc \in ShrunkPositions \/ WriteTo("relocate")
                    \/ IsPartitionMinimal(table, "sda3"),
             pc = "reboot" => pc' = "reboot"
      PROVE  AimInv'
  BY <1>1 DEF AimInv, OEMInPlace, NeedsRelocation, OEMAfterSDA3,
              StateReclaimed
<1>2. CASE StartStep
  BY <1>1, <1>2 DEF StartStep, Startup, InitStateMkdir, UnpackBegin,
     UnpackEnd, InitStateWrite, FinishWrite, LoadState, LoadStateFails,
     BeginWrite, Fail, TypeOK
<1>3. CASE RepartitionStep
  <2>1. CASE SwitchRootSkip \/ ShrinkSkip \/ WaitSkip \/ WaitReadSize
               \/ WaitAnnounce \/ WaitResized \/ WaitTimeout
    BY <1>1, <2>1 DEF SwitchRootSkip, ShrinkSkip, NeedsShrink, WaitSkip,
       WaitReadSize, NeedsWait, WaitAnnounce, WaitResized, WaitTimeout,
       BeginWrite, Fail, AimInv
  <2>2. CASE RelocateSkip \/ ResizeFSSkip \/ ResizeFS
               \/ ResizeFSFails \/ Remount \/ RemountFails
    BY <1>1, <2>2 DEF RelocateSkip, ResizeFSSkip, ResizeFS, ResizeFSFails,
       Remount, RemountFails, Fail
  <2>3. CASE SwitchRootCopy
    BY <2>3 DEF SwitchRootCopy, NeedsSwitch, AimInv, OEMInPlace,
       NeedsRelocation, OEMAfterSDA3, StateReclaimed
  <2>4. CASE SwitchRootPrioritize
    BY <2>4 DEF SwitchRootPrioritize, RequestReboot, AimInv, OEMInPlace,
       NeedsRelocation, OEMAfterSDA3, StateReclaimed
  <2>5. CASE ShrinkSDA3
    <3>1. /\ table'["oem"] = table["oem"] /\ table'["state"] = table["state"]
          /\ table'["sda3"].start = table["sda3"].start
      BY <2>5, OnlySDA3Shrinks DEF ShrinkSDA3, TypeOK, HookTypeOK
    <3>2. ~armed /\ hook = "idle" /\ pc = "shrink"
      BY <2>5 DEF ShrinkSDA3, RequestReboot, BootInv
    <3>3. UNCHANGED <<conf, diskEnd, hook, startPoint, armed, priority, boot,
                      asked, ret>> /\ pc' = "reboot"
      BY <2>5 DEF ShrinkSDA3, RequestReboot
    <3> QED BY <3>1, <3>2, <3>3 DEF AimInv, OEMInPlace
  <2>6. CASE RelocateArm
    BY <2>6 DEF RelocateArm, AimInv, OEMInPlace, NeedsRelocation,
       OEMAfterSDA3, StateReclaimed, BootInv
  <2>7. CASE RelocateReboot
    BY <2>7 DEF RelocateReboot, RequestReboot, AimInv, OEMInPlace,
       NeedsRelocation, OEMAfterSDA3, StateReclaimed
  <2> QED
    BY <1>3, <2>1, <2>2, <2>3, <2>4, <2>5, <2>6, <2>7 DEF RepartitionStep
<1>4. CASE BuildStep
  BY <1>1, <1>4 DEF BuildStep, Setup, RunScript, InstallGPU, InstallPackages,
     DisableAutoUpdate, SealMaskOEM, AtStep, StepEnds, MaskUnit, SealFormat,
     SealGrub, SealMaskUpdate, StepFails, Fail, SaveStep, BeginWrite,
     StepsDone, StopServices, CleanupEmpty, CleanupRmdir, Succeed
<1>5. CASE Shutdown \/ PowerOff
  BY <1>1, <1>5 DEF Shutdown, PowerOff
<1>6. CASE ShutdownHook
  BY <1>6, HookAims
<1>7. CASE Reboot \/ Crash
  <2>1. /\ UNCHANGED <<conf, table, diskEnd, priority, asked>>
        /\ pc' = "startup" /\ hook' = "idle" /\ armed' = FALSE
        /\ boot'.root = priority
    BY <1>7 DEF Reboot, Crash, Reset
  <2> QED BY <2>1 DEF AimInv, OEMInPlace
<1>8. CASE CommandFails
  <2>1. PICK p \in Running : Fail(p) /\ UNCHANGED diskVars
    BY <1>8 DEF CommandFails
  <2>2. pc # "reboot" /\ pc' = "ended"
    BY <2>1 DEF Fail, Running
  <2>3. UNCHANGED <<conf, table, diskEnd, hook, startPoint, armed, priority,
                    boot, asked>>
    BY <2>1 DEF Fail
  <2> QED BY <1>1, <2>2, <2>3
<1>9. CASE DaisyResize
  <2>1. conf.wait
    BY <1>9 DEF DaisyResize, AimInv
  <2>2. UNCHANGED <<pc, ret, conf, table, hook, startPoint, armed, priority,
                    boot, asked>>
    BY <1>9 DEF DaisyResize
  <2> QED
    BY <2>1, <2>2 DEF AimInv, OEMInPlace, NeedsRelocation, OEMAfterSDA3,
                      StateReclaimed
<1>10. CASE UNCHANGED vars
  BY <1>10 DEF vars, AimInv, OEMInPlace, NeedsRelocation, OEMAfterSDA3,
               StateReclaimed
<1> QED
  BY <1>2, <1>3, <1>4, <1>5, <1>6, <1>7, <1>8, <1>9, <1>10
     DEF Next, VMStep, MachineStep, Stopped

-----------------------------------------------------------------------------
(* The first edit.                                                         *)

\* No partition is in the way of the stateful one: only the end of the disk
\* can refuse its move.
LEMMA OnlyTheEndRefuses ==
  ASSUME TypeOK, LayoutInv, ExtendInv, AimInv, armed,
         hook \in {"stateOnly", "state"},
         StateTarget + table["state"].size <= diskEnd
  PROVE  StateFits
<1> USE Sectors DEF Parts, Extent
<1>1. OEMInPlace
  BY DEF AimInv, ExtendInv
<1>2. startPoint <= StateTarget
  BY NewStateIsSector DEF StateTarget
<1>3. After(table, "sda3") <= startPoint
  BY DEF LayoutInv, PlanHolds
<1>4. After(table, "sda5") <= table["sda3"].start
      /\ After(InitTable, "oem") <= table["sda3"].start
  BY ImageAssumption DEF LayoutInv, RootsInPlace, After
<1>5. After(table, "oem") = After(InitTable, "oem")
  BY <1>1 DEF AimInv, OEMInPlace, After
<1>6. StateTarget \in Nat
  BY DEF StateTarget
<1>7. \A q \in Parts \ {"state"} : After(table, q) <= StateTarget
  BY <1>2, <1>3, <1>4, <1>5, <1>6 DEF After
<1> QED BY <1>7 DEF StateFits, Fits

\* The first attempt has the room that was asked for, and with sda3 reclaimed
\* each later one has.
LEMMA FirstAttemptFits ==
  ASSUME TypeOK, ResizeInv, LayoutInv, ExtendInv, AimInv, BuildsFit, armed,
         hook \in {"stateOnly", "state"},
         conf.reclaim \/ table["state"].start = InitTable["state"].start
  PROVE  StateFits
<1> USE Sectors DEF Parts, Extent
<1>1. startPoint = IF conf.reclaim THEN ReclaimedStart(InitTable)
                                   ELSE InitTable["state"].start
  BY DEF LayoutInv, PlanHolds, AimInv
<1>2. diskEnd = IF conf.wait THEN GrownEnd ELSE ImageEnd
  BY DEF AimInv, ResizeInv
<1>3. startPoint + conf.oemSize + table["state"].size <= diskEnd
  BY <1>1, <1>2 DEF BuildsFit, AimInv
<1>4. StateTarget <= startPoint + conf.oemSize /\ StateTarget \in Nat
  <2>1. CASE hook = "stateOnly"
    BY <2>1 DEF StateTarget
  <2>2. CASE hook = "state"
    BY <2>2, RoundsDown DEF StateTarget, LayoutInv, PlanHolds
  <2> QED BY <2>1, <2>2
<1> QED BY <1>3, <1>4, OnlyTheEndRefuses

\* An attempt that is refused has no successor that is not.
LEMMA RefusedIsStuck ==
  ASSUME TypeOK, ResizeInv, LayoutInv, ExtendInv, AimInv, BuildsFit, armed,
         hook \in {"stateOnly", "state"}, ~StateFits
  PROVE  /\ HalfRelocated /\ NeedsRelocation
         /\ NewStateStart(table) + table["state"].size > diskEnd
<1> USE Sectors DEF Parts, Extent
<1>1. ~conf.reclaim /\ table["state"].start # InitTable["state"].start
  BY FirstAttemptFits
<1>2. hook = "state" /\ conf.oemSize # 0
  BY <1>1 DEF LayoutInv, PlanHolds
<1>3. StateTarget = NewStateStart(table)
  BY <1>1, <1>2 DEF StateTarget, NewStateStart, StartPointSector, LayoutInv,
                    PlanHolds, AimInv
<1>4. NeedsRelocation /\ ~OEMAfterSDA3
  BY <1>2 DEF AimInv, NeedsRelocation
<1>5. StateTarget \in Nat
  BY DEF StateTarget
<1>6. ~(StateTarget + table["state"].size <= diskEnd)
  BY OnlyTheEndRefuses
<1>7. StateTarget + table["state"].size > diskEnd
  BY <1>5, <1>6
<1> QED BY <1>1, <1>3, <1>4, <1>7 DEF HalfRelocated

-----------------------------------------------------------------------------
(* The bound.                                                              *)

LEMMA GainsTyped ==
  /\ Gains \in Int /\ One(Pending) \in {0, 1}
  /\ One(Pending) = 1 => Gains + One(Pending) <= 3
  /\ Gains <= 3
BY DEF Gains, One, Pending

LEMMA BoundHook ==
  ASSUME TypeOK, TypeOK', BootInv, ResizeInv, LayoutInv, LayoutInv',
         ExtendInv, ExtendInv', AimInv, AimInv', BoundInv, BuildsFit,
         ShutdownHook
  PROVE  BoundInv'
<1>1. armed
  BY DEF ShutdownHook, HookStart, Stopping, HookStep, HookShrink, HookPlan,
     HookMoveState, HookMoveOem, HookExtend, HookRefused, HookFault, BootInv
<1>2. UNCHANGED <<pc, armed, conf, diskEnd, priority, crashes, reboots>>
  BY DEF ShutdownHook, procVars, diskVars, histVars
<1> USE Sectors DEF Parts, Extent, One
<1>3. ASSUME UNCHANGED <<table, faults>>, hook # "error", hook' # "oem",
             hook' # "error" \/ ~NeedsRelocation
      PROVE  BoundInv'
  BY <1>2, <1>3
     DEF BoundInv, Stuck, Gains, Pending, HalfRelocated, NewStateStart,
         StartPointSector, NeedsRelocation, OEMAfterSDA3, StateReclaimed
<1>4. CASE HookStart
  BY <1>3, <1>4 DEF HookStart
<1>5. CASE HookPlan
  BY <1>1, <1>3, <1>5, PlanAims DEF HookPlan
<1>6. CASE HookShrink
  BY <1>1, <1>6 DEF HookShrink, AimInv
<1>7. CASE HookMoveState
  <2>1. /\ table'["oem"] = table["oem"] /\ table'["sda3"] = table["sda3"]
        /\ UNCHANGED faults
    BY <1>7 DEF HookMoveState, MovePartition
  <2>2. ~Stuck
    <3>1. ASSUME Stuck PROVE FALSE
      <4>1. hook = "state" /\ ~conf.reclaim
        BY <1>7, <3>1 DEF HookMoveState, Stuck, HalfRelocated, LayoutInv,
                          PlanHolds
      <4>2. StateTarget = NewStateStart(table)
        BY <4>1 DEF StateTarget, NewStateStart, StartPointSector, LayoutInv,
                    PlanHolds, AimInv
      <4>3. StateTarget + table["state"].size <= diskEnd
        BY <1>7 DEF HookMoveState, StateFits, Fits
      <4>4. StateTarget \in Nat
        BY DEF StateTarget
      <4> QED BY <3>1, <4>2, <4>3, <4>4 DEF Stuck
    <3> QED BY <3>1
  <2>3. reboots <= Gains + One(Pending) + crashes + faults
    BY <2>2 DEF BoundInv
  <2>4. CASE hook = "state"
    <3>1. hook' = "oem"
      BY <1>7, <2>4 DEF HookMoveState
    <3>2. NeedsRelocation' = NeedsRelocation
      <4>1. conf.oemSize # 0
        BY <2>4 DEF LayoutInv, PlanHolds
      <4> QED
        BY <1>2, <2>1, <4>1 DEF NeedsRelocation, OEMAfterSDA3, SDA3End
    <3>3. hook # "error" /\ IsPartitionMinimal(table, "sda3")' =
                              IsPartitionMinimal(table, "sda3")
      BY <2>1, <2>4 DEF IsPartitionMinimal
    <3>4. Gains' = Gains /\ Pending' = Pending
      BY <1>2, <3>1, <3>2, <3>3 DEF Gains, Pending
    <3> QED BY <1>2, <2>1, <2>3, <3>4 DEF BoundInv
  <2>5. CASE hook = "stateOnly"
    <3>1. hook' = "done" /\ NeedsRelocation
      BY <1>1, <1>7, <2>5 DEF HookMoveState, AimInv
    <3>2. ~NeedsRelocation'
      BY <3>1 DEF AimInv
    <3>3. Gains' = Gains + 1
      BY <1>2, <2>1, <3>1, <3>2 DEF Gains, IsPartitionMinimal
    <3>4. Gains' + One(Pending') >= Gains + One(Pending)
      BY <3>3, GainsTyped
    <3> QED BY <1>2, <2>1, <2>3, <3>3, GainsTyped DEF BoundInv
  <2> QED BY <1>7, <2>4, <2>5 DEF HookMoveState
<1>8. CASE HookMoveOem
  <2>1. UNCHANGED faults /\ hook = "oem" /\ hook' = "extend"
        /\ table'["sda3"] = table["sda3"]
    BY <1>8 DEF HookMoveOem, MovePartition
  <2>2. NeedsRelocation /\ ~NeedsRelocation'
    BY <1>1, <2>1 DEF AimInv
  <2>3. Gains' = Gains + 1
    BY <1>2, <2>1, <2>2 DEF Gains, IsPartitionMinimal
  <2>4. reboots <= Gains + One(Pending) + crashes + faults
    BY <2>1 DEF BoundInv, Stuck
  <2> QED BY <1>2, <2>1, <2>3, <2>4, GainsTyped DEF BoundInv
<1>9. CASE HookExtend
  <2>1. /\ table'["sda3"] = table["sda3"] /\ hook = "extend"
        /\ table'["oem"].start = table["oem"].start
        /\ faults' \in {faults, faults + 1}
    BY <1>9 DEF HookExtend, ExtendPartition
  <2> conf.oemSize # 0
    BY <2>1 DEF LayoutInv, PlanHolds
  <2>2. ~NeedsRelocation /\ ~NeedsRelocation'
    BY <1>2, <2>1 DEF AimInv, NeedsRelocation, OEMAfterSDA3, SDA3End
  <2>3. ~Stuck
    BY <2>2 DEF Stuck, HalfRelocated, NeedsRelocation
  <2>4. Gains' = Gains /\ ~Pending /\ ~Pending'
    BY <1>2, <2>1, <2>2 DEF Gains, Pending, IsPartitionMinimal
  <2>5. faults <= faults'
    BY <2>1
  <2>6. faults' \in Nat
    BY <2>1
  <2> HIDE DEF One
  <2>7. One(Pending') = One(Pending)
    BY <2>4 DEF One
  <2>8. One(Pending) \in Nat /\ One(Pending') \in Nat /\ Gains \in Int
    BY <2>7, GainsTyped
  <2> QED BY <1>2, <2>3, <2>4, <2>5, <2>6, <2>7, <2>8 DEF BoundInv
<1>10. CASE HookRefused
  <2>1. UNCHANGED <<table, faults>> /\ hook' = "error" /\ hook # "error"
    BY <1>10 DEF HookRefused
  <2>2. CASE hook \in {"stateOnly", "state"}
    <3>1. Stuck
      BY <1>1, <1>10, <2>2, RefusedIsStuck DEF HookRefused, Stuck
    <3> QED
      BY <1>2, <2>1, <3>1
         DEF BoundInv, Stuck, HalfRelocated, NewStateStart, StartPointSector,
             OEMAfterSDA3
  <2>3. CASE hook = "oem"
    BY <1>10, <2>3, LayoutInvImplies DEF HookRefused, NoRefusalAfterStateMove
  <2>4. CASE hook = "extend"
    BY <1>3, <2>1, <2>4 DEF AimInv
  <2> QED BY <1>10, <2>2, <2>3, <2>4 DEF HookRefused
<1>11. CASE HookFault
  <2>1. UNCHANGED table /\ hook' = "error" /\ faults' = faults + 1
    BY <1>11 DEF HookFault
  <2>2. Gains' = Gains
    BY <1>2, <2>1 DEF Gains, NeedsRelocation, OEMAfterSDA3, StateReclaimed
  <2>3. Stuck => Stuck'
    BY <1>2, <2>1 DEF Stuck, HalfRelocated, NewStateStart, StartPointSector,
                      OEMAfterSDA3
  <2> QED BY <1>2, <2>1, <2>2, <2>3, GainsTyped DEF BoundInv
<1> QED
  BY <1>4, <1>5, <1>6, <1>7, <1>8, <1>9, <1>10, <1>11
     DEF ShutdownHook, HookStep

LEMMA BoundInit == Init => BoundInv
<1> SUFFICES ASSUME Init PROVE BoundInv
  OBVIOUS
<1> QED BY DEF Init, HookInit, BoundInv, Gains, One

LEMMA BoundNext ==
  TypeOK /\ TypeOK' /\ BootInv /\ ResizeInv /\ LayoutInv /\ LayoutInv'
    /\ ExtendInv /\ ExtendInv' /\ AimInv /\ AimInv' /\ BoundInv /\ BuildsFit
    /\ [Next]_vars => BoundInv'
<1> SUFFICES ASSUME TypeOK, TypeOK', BootInv, ResizeInv, LayoutInv, LayoutInv',
                    ExtendInv, ExtendInv', AimInv, AimInv', BoundInv,
                    BuildsFit, [Next]_vars
             PROVE  BoundInv'
  OBVIOUS
<1> USE DEF Pass, Goto, DirStep, procVars, dirVars, diskVars, histVars,
            worldVars, crashVars, hookVars
<1> USE Sectors DEF One
<1>1. ASSUME UNCHANGED <<table, conf, diskEnd, priority, hook, crashes, faults,
                         reboots>>,
             pc = "reboot" => pc' = "reboot" /\ armed' = armed
      PROVE  BoundInv'
  <2>1. Gains' = Gains /\ (Pending => Pending')
    BY <1>1 DEF Gains, Pending, NeedsRelocation, OEMAfterSDA3, StateReclaimed
  <2>2. Stuck' = Stuck
    BY <1>1 DEF Stuck, HalfRelocated, NewStateStart, StartPointSector,
                OEMAfterSDA3
  <2> QED BY <1>1, <2>1, <2>2, GainsTyped DEF BoundInv
<1>2. CASE StartStep
  BY <1>1, <1>2 DEF StartStep, Startup, InitStateMkdir, UnpackBegin,
     UnpackEnd, InitStateWrite, FinishWrite, LoadState, LoadStateFails,
     BeginWrite, Fail
<1>3. CASE SwitchRootPrioritize
  <2>1. priority # "sda5" /\ priority' = "sda5"
        /\ reboots' \in {reboots, reboots + 1}
        /\ UNCHANGED <<table, conf, diskEnd, hook, crashes, faults>>
        /\ pc = "prioritize"
    BY <1>3 DEF SwitchRootPrioritize, RequestReboot, AimInv
  <2>2. Gains' = Gains + 1
    BY <2>1 DEF Gains, NeedsRelocation, OEMAfterSDA3, StateReclaimed
  <2>3. Stuck' = Stuck
    BY <2>1 DEF Stuck, HalfRelocated, NewStateStart, StartPointSector,
                OEMAfterSDA3
  <2>4. ~Pending
    BY <2>1 DEF Pending
  <2> QED BY <2>1, <2>2, <2>3, <2>4, GainsTyped DEF BoundInv
<1>4. CASE ShrinkSDA3
  <2>1. /\ table'["oem"] = table["oem"] /\ table'["state"] = table["state"]
        /\ table'["sda3"].start = table["sda3"].start
    BY <1>4, OnlySDA3Shrinks DEF ShrinkSDA3, TypeOK, HookTypeOK
  <2>2. /\ conf.reclaim /\ ~IsPartitionMinimal(table, "sda3")
        /\ reboots' \in {reboots, reboots + 1} /\ pc = "shrink"
        /\ UNCHANGED <<conf, diskEnd, hook, crashes, faults, priority>>
    BY <1>4 DEF ShrinkSDA3, NeedsShrink, RequestReboot
  <2>3. IsPartitionMinimal(table', "sda3")
    BY <1>4, <2>2, GeometryAssumption
       DEF ShrinkSDA3, MinimizePartition, IsPartitionMinimal, Parts, Extent
  <2>4. table'["sda3"].size \in Nat
        /\ table'["sda3"].size <= table["sda3"].size
    BY <1>4, OnlySDA3Shrinks DEF ShrinkSDA3, TypeOK, HookTypeOK
  <2>5. ~NeedsRelocation => ~NeedsRelocation'
    <3>1. OEMAfterSDA3 => OEMAfterSDA3'
      <4>1. table["oem"].start \in Nat /\ table["sda3"].start \in Nat
            /\ table["sda3"].size \in Nat
        BY DEF Parts, Extent
      <4> QED BY <2>1, <2>4, <4>1 DEF OEMAfterSDA3, SDA3End
    <3>2. ~StateReclaimed
      BY <2>2 DEF StateReclaimed
    <3> QED BY <2>2, <3>1, <3>2 DEF NeedsRelocation
  <2>6. Gains' \in {Gains + 1, Gains + 2} /\ ~Pending
    <3>1. UNCHANGED priority /\ pc # "reboot"
      BY <2>2
    <3> QED BY <2>2, <2>3, <2>5, <3>1 DEF Gains, Pending, IsPartitionMinimal
  <2>7. ~Stuck
    BY <2>2 DEF Stuck, HalfRelocated
  <2> QED BY <2>2, <2>6, <2>7, GainsTyped DEF BoundInv
<1>5. CASE RelocateReboot
  <2>1. /\ UNCHANGED <<table, conf, diskEnd, priority, hook, crashes, faults,
                       armed>>
        /\ reboots' \in {reboots, reboots + 1}
        /\ pc = "journal" /\ pc' = "reboot"
    BY <1>5 DEF RelocateReboot, RequestReboot
  <2>2. armed /\ hook = "idle" /\ NeedsRelocation
    BY <2>1 DEF AimInv, BootInv
  <2>3. Gains' = Gains /\ ~Pending /\ Pending'
    BY <2>1, <2>2 DEF Gains, Pending, NeedsRelocation, OEMAfterSDA3,
                      StateReclaimed
  <2>4. Stuck' = Stuck
    BY <2>1 DEF Stuck, HalfRelocated, NewStateStart, StartPointSector,
                OEMAfterSDA3
  <2> QED BY <2>1, <2>3, <2>4, GainsTyped DEF BoundInv
<1>6. CASE RepartitionStep
             /\ ~(SwitchRootPrioritize \/ ShrinkSDA3 \/ RelocateReboot)
  BY <1>1, <1>6 DEF RepartitionStep, SwitchRootSkip, SwitchRootCopy,
     ShrinkSkip, WaitSkip, WaitReadSize, WaitAnnounce, WaitResized,
     WaitTimeout, RelocateSkip, RelocateArm, BeginWrite, Fail, ResizeFSSkip,
     ResizeFS, ResizeFSFails, Remount, RemountFails
<1>7. CASE BuildStep
  BY <1>1, <1>7 DEF BuildStep, Setup, RunScript, InstallGPU, InstallPackages,
     DisableAutoUpdate, SealMaskOEM, AtStep, StepEnds, MaskUnit, SealFormat,
     SealGrub, SealMaskUpdate, StepFails, Fail, SaveStep, BeginWrite,
     StepsDone, StopServices, CleanupEmpty, CleanupRmdir, Succeed
<1>8. CASE Shutdown \/ PowerOff
  BY <1>1, <1>8 DEF Shutdown, PowerOff
<1>9. CASE ShutdownHook
  BY <1>9, BoundHook
<1>10. CASE Reboot \/ Crash
  <2>1. /\ UNCHANGED <<table, conf, diskEnd, priority, faults, reboots>>
        /\ hook' = "idle" /\ pc' = "startup"
    BY <1>10 DEF Reboot, Crash, Reset
  <2>2. \/ crashes' = crashes /\ ~Pending
        \/ crashes' = crashes + 1
    BY <1>10 DEF Reboot, Crash, HookFinished, Pending, AimInv
  <2>3. Gains' = Gains /\ ~Pending'
    BY <2>1 DEF Gains, Pending, NeedsRelocation, OEMAfterSDA3, StateReclaimed
  <2>4. Stuck => Stuck'
    BY <2>1 DEF Stuck, HalfRelocated, NewStateStart, StartPointSector,
                OEMAfterSDA3
  <2> QED BY <2>1, <2>2, <2>3, <2>4, GainsTyped DEF BoundInv
<1>11. CASE CommandFails
  <2>1. PICK p \in Running : Fail(p) /\ UNCHANGED diskVars
    BY <1>11 DEF CommandFails
  <2> QED BY <1>1, <2>1 DEF Fail, Running
<1>12. CASE DaisyResize
  <2>1. conf.wait /\ diskEnd # GrownEnd
    BY <1>12 DEF DaisyResize, AimInv
  <2>2. ~HalfRelocated
    BY <2>1 DEF ResizeInv, HalfRelocated
  <2>3. Gains' = Gains /\ Pending' = Pending
        /\ UNCHANGED <<reboots, crashes, faults>>
    BY <1>12 DEF DaisyResize, Gains, Pending, NeedsRelocation, OEMAfterSDA3,
                 StateReclaimed
  <2> QED BY <2>2, <2>3 DEF BoundInv, Stuck
<1>13. CASE UNCHANGED vars
  BY <1>1, <1>13 DEF vars
<1> QED
  BY <1>2, <1>3, <1>4, <1>5, <1>6, <1>7, <1>8, <1>9, <1>10, <1>11, <1>12,
     <1>13 DEF Next, VMStep, MachineStep, Stopped

\* A build for which finish-image-build has provided asks for at most three
\* reboots, one more for each crash and each failed edit, and for more only
\* where an interrupted relocation without sda3 has left no room for another
\* (repartitionBootDisk, disk_layout.go:283-309; HandleDiskLayout).
THEOREM RebootsHaveABound ==
  ASSUME BuildsFit
  PROVE  Spec => []RebootsAreBounded
<1>1. Init => AimInv /\ BoundInv
  BY AimInit, BoundInit
<1>2. TypeOK /\ TypeOK' /\ BootInv /\ ResizeInv /\ LayoutInv /\ LayoutInv'
        /\ ExtendInv /\ ExtendInv' /\ AimInv /\ BoundInv /\ [Next]_vars
      => (AimInv /\ BoundInv)'
  BY AimNext, BoundNext
<1>3. TypeOK /\ BoundInv => RebootsAreBounded
  <2> SUFFICES ASSUME TypeOK, BoundInv, ~HalfRelocated
               PROVE  reboots <= 3 + crashes + faults
    BY DEF RebootsAreBounded
  <2>1. reboots <= Gains + One(Pending) + crashes + faults
    BY DEF BoundInv, Stuck
  <2>2. Gains + One(Pending) <= 3
    BY GainsTyped
  <2> QED BY <2>1, <2>2, Sectors, GainsTyped
<1> QED BY <1>1, <1>2, <1>3, DiskInvariant, PTL DEF Spec

-----------------------------------------------------------------------------
(* The end of the build comes nearer with every step.                      *)

\* CurrentStep, in memory and where a resume will read it, stays within the
\* steps of the configuration.
WorkInv ==
  /\ mem.step <= NumSteps
  /\ file.data.step <= NumSteps
  /\ pc \in {"sealGrub", "sealMaskUpdate", "sealMaskOEM", "stepDone"} =>
       mem.step < NumSteps

LEMMA StepsAreCounted ==
  ASSUME TypeOK
  PROVE  NumSteps \in Nat /\ mem \in MemType /\ file.data \in MemType
BY ProvisionerAssumption DEF TypeOK, HookTypeOK, ConfigType, NumSteps

LEMMA WorkInit == Init => WorkInv
<1> SUFFICES ASSUME Init PROVE WorkInv
  OBVIOUS
<1>1. TypeOK
  BY TypeInit
<1> QED
  BY <1>1, StepsAreCounted DEF Init, WorkInv, NoMem, Missing, File, MemType

LEMMA WorkNext == TypeOK /\ WorkInv /\ [Next]_vars => WorkInv'
<1> SUFFICES ASSUME TypeOK, WorkInv, [Next]_vars PROVE WorkInv'
  OBVIOUS
<1> USE StepsAreCounted
        DEF Pass, Goto, DirStep, procVars, dirVars, diskVars, histVars,
            worldVars, crashVars, NumSteps
<1>1. ASSUME UNCHANGED <<conf, mem>>, file' = file \/ file'.data.step = 0,
             pc' \in {"sealGrub", "sealMaskUpdate", "sealMaskOEM", "stepDone"}
               => mem.step < NumSteps
      PROVE  WorkInv'
  BY <1>1 DEF WorkInv
<1>2. CASE StartStep
  BY <1>2 DEF StartStep, Startup, InitStateMkdir, InitStateWrite, FinishWrite,
     UnpackBegin, UnpackEnd, LoadState, LoadStateFails, BeginWrite, Fail,
     Empty, Corrupt, Saved, File, NoMem, MemType, TypeOK, WorkInv
<1>3. CASE RepartitionStep
  <2>1. CASE WaitResized
    BY <2>1 DEF WaitResized, BeginWrite, Corrupt, File, NoMem, MemType,
       WorkInv
  <2> QED
    BY <1>1, <1>3, <2>1 DEF RepartitionStep, SwitchRootSkip, SwitchRootCopy,
       SwitchRootPrioritize, ShrinkSkip, ShrinkSDA3, WaitSkip, WaitReadSize,
       WaitAnnounce, WaitTimeout, RelocateSkip, RelocateArm, RelocateReboot,
       ResizeFSSkip, ResizeFS, ResizeFSFails, Remount, RemountFails,
       RequestReboot, Fail
<1>4. CASE BuildStep
  <2>1. CASE SaveStep
    BY <2>1 DEF SaveStep, BeginWrite, Corrupt, File, NoMem, MemType, WorkInv
  <2> QED
    BY <1>1, <1>4, <2>1 DEF BuildStep, Setup, RunScript, InstallGPU,
       InstallPackages, DisableAutoUpdate, StepFails, Fail, SealFormat,
       SealGrub, SealMaskUpdate, SealMaskOEM, AtStep, StepEnds, StepsDone,
       StopServices, CleanupEmpty, CleanupRmdir, Succeed, Empty, Missing,
       File, NoMem, WorkInv
<1>5. CASE Shutdown \/ PowerOff
  BY <1>1, <1>5 DEF Shutdown, PowerOff
<1>6. CASE ShutdownHook \/ DaisyResize \/ UNCHANGED vars
  BY <1>1, <1>6 DEF ShutdownHook, DaisyResize, vars, WorkInv
<1>7. CASE Reboot \/ Crash
  BY <1>7 DEF Reboot, Crash, Reset, NoMem, WorkInv
<1>8. CASE CommandFails
  BY <1>1, <1>8 DEF CommandFails, Fail
<1> QED
  BY <1>2, <1>3, <1>4, <1>5, <1>6, <1>7, <1>8
     DEF Next, VMStep, MachineStep, Stopped

\* The ways in which a step brings the end nearer.
Closer ==
  /\ PlaceLeft' < PlaceLeft
  /\ UNCHANGED <<conf, diskEnd, crashes, reboots>>
OneBootLess ==
  /\ BootsLeft' = BootsLeft - 1
  /\ UNCHANGED <<conf, diskEnd>>
DiskGrown ==
  /\ One(diskEnd # GrownEnd) = 1 /\ One(diskEnd # GrownEnd)' = 0
  /\ PlaceLeft' = PlaceLeft
  /\ UNCHANGED <<conf, crashes, reboots>>

\* A boot takes fewer steps than BootLength.
Short ==
  /\ NumSteps \in Nat /\ StepsToDo \in 0 .. NumSteps /\ HookLeft \in 0 .. 5
  /\ BootLength \in Nat /\ PlaceLeft \in 0 .. (BootLength - 1)

LEMMA BootIsShort == TypeOK /\ WorkInv => Short
<1> SUFFICES ASSUME TypeOK, WorkInv PROVE Short
  OBVIOUS
<1>1. NumSteps \in Nat /\ StepsToDo \in 0 .. NumSteps
  BY StepsAreCounted DEF WorkInv, StepsToDo, MemType
<1>2. HookLeft \in 0 .. 5
  BY DEF TypeOK, HookTypeOK, HookPositions, HookLeft
<1>3. pc \in Positions /\ ret \in {"unpack", "relocate", "steps"}
  BY DEF TypeOK
<1>4. PlaceLeft \in 0 .. (36 + 6 * NumSteps)
  BY <1>1, <1>2, <1>3 DEF Positions, PlaceLeft
<1> QED BY <1>1, <1>2, <1>4 DEF Short, BootLength

\* A number of whole boots and a part of one.
LEMMA BootsCount ==
  ASSUME NEW boots \in Nat, NEW length \in Nat
  PROVE  /\ boots * length \in Nat
         /\ (boots + 1) * length = boots * length + length
OBVIOUS

LEMMA StepsCountDown ==
  ASSUME Short, Short', BootsLeft \in Int, BootsLeft' \in Nat,
         Closer \/ OneBootLess \/ DiskGrown
  PROVE  StepsLeft' \in 0 .. (StepsLeft - 1)
<1> DEFINE left == One(diskEnd # GrownEnd)
<1>1. /\ PlaceLeft \in 0 .. (BootLength - 1) /\ BootLength \in Nat
      /\ PlaceLeft' \in 0 .. (BootLength' - 1)
  BY DEF Short
<1>2. BootLength' = BootLength
  BY DEF Closer, OneBootLess, DiskGrown, BootLength, NumSteps
<1>3. left \in {0, 1} /\ left' \in {0, 1}
  BY DEF One
<1>4. /\ StepsLeft = BootsLeft * BootLength + PlaceLeft + left
      /\ StepsLeft' = BootsLeft' * BootLength + PlaceLeft' + left'
  BY <1>2 DEF StepsLeft
<1>5. BootsLeft' * BootLength \in Nat
  BY <1>1, BootsCount
<1>6. CASE Closer
  <2>1. BootsLeft' = BootsLeft /\ left' = left
    BY <1>6 DEF Closer, BootsLeft, One
  <2> QED BY <1>1, <1>2, <1>3, <1>4, <1>5, <1>6, <2>1 DEF Closer
<1>7. CASE OneBootLess
  <2>1. BootsLeft = BootsLeft' + 1 /\ left' = left
    BY <1>7 DEF OneBootLess, One
  <2>2. BootsLeft * BootLength = BootsLeft' * BootLength + BootLength
    BY <1>1, <2>1, BootsCount
  <2> QED BY <1>1, <1>2, <1>3, <1>4, <1>5, <2>1, <2>2
<1>8. CASE DiskGrown
  <2>1. BootsLeft' = BootsLeft
    BY <1>8 DEF DiskGrown, BootsLeft
  <2> QED BY <1>1, <1>2, <1>4, <1>5, <1>8, <2>1 DEF DiskGrown
<1> QED BY <1>6, <1>7, <1>8

\* What each position is worth.
Worth ==
  /\ pc = "off" => PlaceLeft = 0
  /\ pc = "poweroff" => PlaceLeft = 1 + HookLeft
  /\ pc = "ended" => PlaceLeft = 7
  /\ pc = "scrub" => PlaceLeft = 8
  /\ pc = "rmdir" => PlaceLeft = 9
  /\ pc = "cleanup" => PlaceLeft = 10
  /\ pc = "stopServices" => PlaceLeft = 11
  /\ pc = "stepDone" => PlaceLeft = 8 + 6 * StepsToDo
  /\ pc = "sealMaskOEM" => PlaceLeft = 9 + 6 * StepsToDo
  /\ pc = "sealMaskUpdate" => PlaceLeft = 10 + 6 * StepsToDo
  /\ pc = "sealGrub" => PlaceLeft = 11 + 6 * StepsToDo
  /\ pc = "steps" => PlaceLeft = 12 + 6 * StepsToDo
  /\ pc = "setup" => PlaceLeft = 13 + 6 * StepsToDo
  /\ pc = "remount" => PlaceLeft = 14 + 6 * StepsToDo
  /\ pc = "resizeFS" => PlaceLeft = 15 + 6 * StepsToDo
  /\ pc = "journal" => PlaceLeft = 16 + 6 * StepsToDo
  /\ pc = "relocate" => PlaceLeft = 17 + 6 * StepsToDo
  /\ pc = "poll" => PlaceLeft = 19 + 6 * StepsToDo
  /\ pc = "announce" => PlaceLeft = 20 + 6 * StepsToDo
  /\ pc = "readSize" => PlaceLeft = 21 + 6 * StepsToDo
  /\ pc = "shrink" => PlaceLeft = 22 + 6 * StepsToDo
  /\ pc = "prioritize" => PlaceLeft = 23 + 6 * StepsToDo
  /\ pc = "switchRoot" => PlaceLeft = 24 + 6 * StepsToDo
  /\ pc \in {"load", "extract"} => PlaceLeft = 25 + 6 * NumSteps
  /\ pc = "unpack" => PlaceLeft = 26 + 6 * NumSteps
  /\ pc = "create" => PlaceLeft = 28 + 6 * NumSteps
  /\ pc = "mkdir" => PlaceLeft = 29 + 6 * NumSteps
  /\ pc = "startup" => PlaceLeft = 30 + 6 * NumSteps
  /\ pc = "reboot" => PlaceLeft = 31 + 6 * NumSteps + HookLeft
  /\ WriteTo("steps") => PlaceLeft = 13 + 6 * StepsToDo
  /\ WriteTo("relocate") => PlaceLeft = 18 + 6 * StepsToDo
  /\ WriteTo("unpack") => PlaceLeft = 27 + 6 * NumSteps

LEMMA PlacesAreWorth == Worth /\ Worth'
<1>1. Worth
  BY DEF Worth, PlaceLeft, WriteTo
<1>2. Worth'
  BY DEF Worth, PlaceLeft, WriteTo
<1> QED BY <1>1, <1>2

LEMMA EveryStepCounts ==
  ASSUME TypeOK, BootInv, WorkInv, Short, Short', Next,
         reboots' < MaxReboots
  PROVE  Closer \/ OneBootLess \/ DiskGrown \/ UNCHANGED vars
<1>1. /\ NumSteps \in Nat /\ StepsToDo \in 0 .. NumSteps
      /\ HookLeft \in 0 .. 5
      /\ StepsToDo' \in 0 .. NumSteps' /\ HookLeft' \in 0 .. 5
      /\ ret \in {"unpack", "relocate", "steps"}
      /\ reboots \in Nat /\ crashes \in Nat
      /\ MaxCrashes \in Nat /\ MaxReboots \in Nat /\ MaxFaults \in Nat
      /\ Worth /\ Worth'
  BY PlacesAreWorth, ProvisionerAssumption, DiskAssumption DEF TypeOK, Short
<1>2. /\ UNCHANGED conf => NumSteps' = NumSteps
      /\ UNCHANGED <<conf, mem>> => StepsToDo' = StepsToDo
  BY DEF StepsToDo, NumSteps
<1> USE <1>1, <1>2 DEF Worth, WriteTo, Closer, Goto, procVars, dirVars,
            diskVars, histVars, worldVars, crashVars, hookVars
<1>3. CASE StartStep
  BY <1>3 DEF StartStep, Startup, InitStateMkdir, InitStateWrite,
     FinishWrite, UnpackBegin, UnpackEnd, LoadState, LoadStateFails, Pass,
     DirStep, BeginWrite, Fail
<1>4. CASE RepartitionStep
  <2>1. CASE SwitchRootPrioritize \/ ShrinkSDA3 \/ RelocateReboot
    <3>1. reboots' = reboots + 1 /\ UNCHANGED <<conf, diskEnd, crashes>>
      BY <2>1 DEF SwitchRootPrioritize, ShrinkSDA3, RelocateReboot,
                  RequestReboot
    <3> QED BY <3>1 DEF OneBootLess, BootsLeft
  <2>2. CASE WaitTimeout \/ ResizeFSFails \/ RemountFails
    BY <2>2 DEF WaitTimeout, ResizeFSFails, RemountFails, Fail
  <2>3. CASE SwitchRootSkip \/ SwitchRootCopy \/ ShrinkSkip \/ WaitSkip
               \/ WaitReadSize \/ WaitAnnounce
    BY <2>3 DEF SwitchRootSkip, SwitchRootCopy, ShrinkSkip, WaitSkip,
       WaitReadSize, WaitAnnounce, Pass
  <2>4. CASE WaitResized
    <3>1. StepsToDo' = StepsToDo
      BY <2>4 DEF WaitResized, BeginWrite, StepsToDo, NumSteps, TypeOK,
                  MemType
    <3> QED BY <2>4, <3>1 DEF WaitResized, BeginWrite
  <2>5. CASE RelocateSkip \/ RelocateArm \/ ResizeFSSkip \/ ResizeFS
               \/ Remount
    BY <2>5 DEF RelocateSkip, RelocateArm, ResizeFSSkip, ResizeFS, Remount,
       Pass
  <2> QED BY <1>4, <2>1, <2>2, <2>3, <2>4, <2>5 DEF RepartitionStep
<1>5. CASE BuildStep
  <2>1. CASE Setup \/ RunScript \/ InstallGPU \/ InstallPackages
               \/ DisableAutoUpdate
    BY <2>1 DEF Setup, Pass, RunScript, InstallGPU, InstallPackages,
       DisableAutoUpdate, AtStep, StepEnds
  <2>2. CASE SealFormat \/ SealGrub \/ SealMaskUpdate \/ SealMaskOEM
    BY <2>2 DEF SealFormat, SealGrub, SealMaskUpdate, SealMaskOEM, AtStep,
       StepEnds
  <2>3. CASE StepFails
    BY <2>3 DEF StepFails, AtStep, Fail
  <2>4. CASE SaveStep
    <3>1. mem'.step = mem.step + 1 /\ mem.step \in Nat
      BY <2>4, StepsAreCounted DEF SaveStep, BeginWrite, MemType
    <3>2. UNCHANGED conf
      BY <2>4 DEF SaveStep, BeginWrite
    <3>3. StepsToDo' = StepsToDo - 1
      BY <3>1, <3>2 DEF StepsToDo
    <3> QED BY <2>4, <3>3 DEF SaveStep, BeginWrite
  <2>5. CASE StepsDone \/ StopServices \/ CleanupEmpty \/ CleanupRmdir
               \/ Succeed
    BY <2>5 DEF StepsDone, StopServices, CleanupEmpty, CleanupRmdir, Succeed,
       Pass, DirStep
  <2> QED BY <1>5, <2>1, <2>2, <2>3, <2>4, <2>5 DEF BuildStep
<1>6. CASE Shutdown \/ PowerOff
  BY <1>6 DEF Shutdown, PowerOff, Pass, HookLeft
<1>7. CASE ShutdownHook
  <2>1. HookLeft' < HookLeft
    BY <1>7 DEF ShutdownHook, HookStart, HookStep, HookShrink, HookPlan,
       HookMoveState, HookMoveOem, HookExtend, HookRefused, HookFault,
       HookLeft
  <2>2. /\ pc \in {"reboot", "poweroff"}
        /\ UNCHANGED <<pc, mem, ret, conf, diskEnd, crashes, reboots>>
    BY <1>7 DEF ShutdownHook, HookStart, Stopping, HookStep, HookShrink,
       HookPlan, HookMoveState, HookMoveOem, HookExtend, HookRefused,
       HookFault, BootInv
  <2> QED BY <2>1, <2>2
<1>8. CASE Reboot
  BY <1>8 DEF Reboot, Reset
<1>9. CASE Crash
  <2>1. crashes' = crashes + 1 /\ UNCHANGED <<conf, diskEnd, reboots>>
    BY <1>9 DEF Crash, Reset
  <2> QED BY <2>1 DEF OneBootLess, BootsLeft
<1>10. CASE CommandFails
  <2>1. PICK p \in Running : Fail(p) /\ UNCHANGED diskVars
    BY <1>10 DEF CommandFails
  <2> QED BY <2>1 DEF Fail, Running, Positions
<1>11. CASE DaisyResize
  <2>1. UNCHANGED <<pc, ret, mem, hook, conf, crashes, reboots>>
        /\ diskEnd # GrownEnd /\ diskEnd' = GrownEnd
    BY <1>11 DEF DaisyResize
  <2>2. HookLeft' = HookLeft
    BY <2>1 DEF HookLeft
  <2>3. PlaceLeft' = PlaceLeft
    <3>1. pc \in Positions
      BY DEF TypeOK
    <3> QED BY <2>1, <2>2, <3>1 DEF Positions
  <2> QED BY <2>1, <2>3 DEF DiskGrown, One
<1>12. CASE Stopped
  BY <1>12 DEF Stopped
<1> QED
  BY <1>3, <1>4, <1>5, <1>6, <1>7, <1>8, <1>9, <1>10, <1>11, <1>12
     DEF Next, VMStep, MachineStep

\* In numbers: r reboots, c of C crashes and f of F failed edits.
LEMMA CrashesAndFaults ==
  ASSUME NEW C \in Nat, NEW F \in Nat, NEW M \in Nat,
         NEW c \in 0 .. C, NEW f \in 0 .. F, NEW r \in 0 .. M,
         r <= 3 + c + f, M > 3 + C + F
  PROVE  (3 + C + F - r) + (C - c) \in Nat /\ r < M
OBVIOUS

LEMMA BootsAreLeft ==
  ASSUME TypeOK, TypeOK', reboots' <= 3 + crashes' + faults',
         MaxReboots > 3 + MaxCrashes + MaxFaults
  PROVE  BootsLeft' \in Nat /\ BootsLeft \in Int /\ reboots' < MaxReboots
<1>1. MaxCrashes \in Nat
  BY ProvisionerAssumption
<1>2. MaxReboots \in Nat
  BY ProvisionerAssumption
<1>3. MaxFaults \in Nat
  BY DiskAssumption
<1>4. crashes' \in 0 .. MaxCrashes
  BY DEF TypeOK
<1>5. faults' \in 0 .. MaxFaults
  BY DEF TypeOK, HookTypeOK
<1>6. reboots' \in 0 .. MaxReboots
  BY DEF TypeOK
<1>7. BootsLeft' \in Nat /\ reboots' < MaxReboots
  BY <1>1, <1>2, <1>3, <1>4, <1>5, <1>6, CrashesAndFaults, Zenon
     DEF BootsLeft
<1>8. BootsLeft \in Int
  BY <1>1, <1>3 DEF TypeOK, BootsLeft
<1> QED BY <1>7, <1>8

\* Every step of a build that finish-image-build has provided for, of the VM,
\* of Daisy, of a failure or of a crash, leaves fewer steps to take than there
\* were, by a number that is known from the start: no sequence of reboots,
\* resumes and repeated attempts goes on for ever, unless half relocated
\* (run, provisioner.go:343-363; HandleDiskLayout).  MaxReboots is only to be
\* more than the reboots that are asked for.
THEOREM BuildsComeToAnEnd ==
  ASSUME BuildsFit, MaxReboots > 3 + MaxCrashes + MaxFaults
  PROVE  Spec => EndComesNearer
<1>1. Init => WorkInv
  BY WorkInit
<1>2. TypeOK /\ WorkInv /\ [Next]_vars => WorkInv'
  BY WorkNext
<1>3. TypeOK /\ WorkInv => Short
  BY BootIsShort
<1>4. TypeOK /\ TypeOK' /\ BootInv /\ WorkInv /\ Short /\ Short'
        /\ RebootsAreBounded' /\ [Next]_vars
      => [~HalfRelocated' => StepsLeft' \in 0 .. (StepsLeft - 1)]_vars
  <2> SUFFICES ASSUME TypeOK, TypeOK', BootInv, WorkInv, Short, Short',
                      RebootsAreBounded', Next, ~HalfRelocated'
               PROVE  \/ StepsLeft' \in 0 .. (StepsLeft - 1)
                      \/ UNCHANGED vars
    OBVIOUS
  <2>1. reboots' <= 3 + crashes' + faults'
    BY DEF RebootsAreBounded
  <2>2. TypeOK /\ TypeOK'
    OBVIOUS
  <2>3. BootsLeft' \in Nat /\ BootsLeft \in Int /\ reboots' < MaxReboots
    BY <2>1, <2>2, BootsAreLeft
  <2> QED BY <2>3, EveryStepCounts, StepsCountDown
<1> QED
  BY <1>1, <1>2, <1>3, <1>4, DiskInvariant, RebootsHaveABound, PTL
     DEF Spec, EndComesNearer
=============================================================================
