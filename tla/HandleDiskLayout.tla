-------------------------- MODULE HandleDiskLayout --------------------------
(***************************************************************************)
(* tools.HandleDiskLayout (src/pkg/tools/handle_disk_layout.go), the       *)
(* program that the last-run.service unit runs at shutdown once the        *)
(* stateful and OEM partitions are unmounted.  It makes up to three edits  *)
(* of the partition table, one after the other, each of which may fail;    *)
(* nothing is undone when one does.  Every invocation starts again from    *)
(* the table as it finds it.                                               *)
(*                                                                         *)
(* hook is the position inside one invocation:                             *)
(*   "idle"       not running                                              *)
(*   "begin"      started, nothing read yet                                *)
(*   "stateOnly"  no OEM extension: move the stateful partition back       *)
(*   "state"      move the stateful partition out of the way               *)
(*   "oem"        move the OEM partition to the start point                *)
(*   "extend"     extend the OEM partition up to the stateful partition    *)
(*   "done", "error"  it returned nil or an error                          *)
(***************************************************************************)
EXTENDS DiskLayout

CONSTANTS
  InitTable,   \* the partition table of the source image
  ImageEnd,    \* sectors of the disk as Daisy creates it
  DiskEnds,    \* the sizes the disk may ever have
  Configs,     \* boot disk configurations: records with reclaim and oemSize
  MaxFaults    \* bound: how many edits fail for a reason outside the code

VARIABLES
  conf,        \* provisioner.Config, fixed (boot disk fields used here)
  table,       \* the partition table on the disk
  diskEnd,     \* sectors of the disk
  hook,        \* position in HandleDiskLayout
  startPoint,  \* startPointSector
  newState,    \* newStateStartSector
  faults       \* edits that failed so far for a reason outside the code

hookVars == <<table, hook, startPoint, newState, faults>>

\* The source image: sound, 4 KB aligned, the stateful partition last, sda3
\* the one before it and large enough to be worth reclaiming.
ASSUME ImageAssumption ==
  /\ InitTable \in Table
  /\ NoOverlap(InitTable)
  /\ \A p \in Parts : After(InitTable, p) <= ImageEnd
  /\ \A p \in Parts \ {"state"} :
        After(InitTable, p) <= InitTable["state"].start
  /\ \A p \in {"oem", "sda5"} :
        After(InitTable, p) <= InitTable["sda3"].start
  /\ ReclaimedStart(InitTable) <= InitTable["state"].start
  /\ \A p \in Parts : InitTable[p].start % Align = 0
  /\ InitTable["oem"].size % Align = 0

ASSUME DiskAssumption ==
  /\ ImageEnd \in DiskEnds
  /\ DiskEnds \subseteq Nat
  /\ MaxFaults \in Nat

ASSUME ConfigAssumption ==
  \A c \in Configs : c.reclaim \in BOOLEAN /\ c.oemSize \in Nat

HookPositions ==
  {"idle", "begin", "stateOnly", "state", "oem", "extend", "done", "error"}

HookTypeOK ==
  /\ conf \in Configs
  /\ table \in Table
  /\ diskEnd \in DiskEnds
  /\ hook \in HookPositions
  /\ startPoint \in Nat
  /\ newState \in Nat
  /\ faults \in 0 .. MaxFaults

HookInit ==
  /\ conf \in Configs
  /\ table = InitTable
  /\ diskEnd \in DiskEnds
  /\ hook = "idle"
  /\ startPoint = 0
  /\ newState = 0
  /\ faults = 0

-----------------------------------------------------------------------------
(* checkAndReclaimSDA3: the start point is fixed by sda3 when sda3 is      *)
(* reclaimed, and is where the stateful partition now is otherwise.        *)
StartPointSector(t) ==
  IF conf.reclaim THEN ReclaimedStart(t) ELSE t["state"].start

NewStateStart(t) == FindLast4KSector(StartPointSector(t) + conf.oemSize)

\* checkNewOEMSizeSmaller: an unset size is 0 and is never larger.
OEMSmaller(t) == conf.oemSize <= t["oem"].size

\* sda3 still has its size: shrink it, and leave the rest to a next boot.
HookShrink ==
  /\ hook = "begin"
  /\ conf.reclaim
  /\ ~IsPartitionMinimal(table, "sda3")
  /\ table' = MinimizePartition(table, "sda3")
  /\ hook' = "done"
  /\ UNCHANGED <<startPoint, newState, faults>>

\* Read the table and decide which edits to make.
HookPlan ==
  /\ hook = "begin"
  /\ conf.reclaim => IsPartitionMinimal(table, "sda3")
  /\ startPoint' = StartPointSector(table)
  /\ newState' = NewStateStart(table)
  /\ hook' = IF ~OEMSmaller(table) THEN "state"
             ELSE IF conf.reclaim THEN "stateOnly" ELSE "done"
  /\ UNCHANGED <<table, faults>>

\* Mutation: the stateful partition goes where the OEM partition should go.
StateTargetIsStartPoint == startPoint

StateTarget == IF hook = "stateOnly" THEN startPoint ELSE newState

StateFits ==
  Fits(table, "state", StateTarget, table["state"].size, diskEnd)
OemFits == Fits(table, "oem", startPoint, table["oem"].size, diskEnd)
ExtendFits ==
  Fits(table, "oem", table["oem"].start,
       ExtendedSize(table, "oem", newState - 1), diskEnd)

\* ExtendPartition returns an error unless the partition really grows.
Grows == ExtendedSize(table, "oem", newState - 1) > table["oem"].size

HookMoveState ==
  /\ hook \in {"stateOnly", "state"}
  /\ StateFits
  /\ table' = MovePartition(table, "state", StateTarget)
  /\ hook' = IF hook = "stateOnly" THEN "done" ELSE "oem"
  /\ UNCHANGED <<startPoint, newState, faults>>

HookMoveOem ==
  /\ hook = "oem"
  /\ OemFits
  /\ table' = MovePartition(table, "oem", startPoint)
  /\ hook' = "extend"
  /\ UNCHANGED <<startPoint, newState, faults>>

\* The e2fsck and resize2fs that follow, and the reading of the new table,
\* change no table entry (they work on the old place of /dev/sda8, since the
\* kernel does not reread the table), but one of them may fail: an error for
\* a partition that has been extended.
HookExtend ==
  /\ hook = "extend"
  /\ Grows
  /\ ExtendFits
  /\ table' = ExtendPartition(table, "oem", newState - 1)
  /\ \/ hook' = "done" /\ faults' = faults
     \/ hook' = "error" /\ faults < MaxFaults /\ faults' = faults + 1
  /\ UNCHANGED <<startPoint, newState>>

\* sfdisk refuses the entry, or the partition would not grow: an error.
HookRefused ==
  /\ \/ hook \in {"stateOnly", "state"} /\ ~StateFits
     \/ hook = "oem" /\ ~OemFits
     \/ hook = "extend" /\ ~(Grows /\ ExtendFits)
  /\ hook' = "error"
  /\ UNCHANGED <<table, startPoint, newState, faults>>

\* A command fails by itself, or TimeoutStopSec ends the unit.
HookFault ==
  /\ hook \in {"begin", "stateOnly", "state", "oem", "extend"}
  /\ faults < MaxFaults
  /\ faults' = faults + 1
  /\ hook' = "error"
  /\ UNCHANGED <<table, startPoint, newState>>

HookStep ==
  HookShrink \/ HookPlan \/ HookMoveState \/ HookMoveOem \/ HookExtend
    \/ HookRefused \/ HookFault

-----------------------------------------------------------------------------
(* When it runs.  relocatePartitions takes the place of the OEM partition  *)
(* as the sign that relocation is done or, without OEM resize, that of the *)
(* stateful one.                                                           *)
OEMAfterSDA3 == table["oem"].start > SDA3End(table)

\* Mutation: the wrong distance from the start of sda3.
StateReclaimedWrongMargin ==
  /\ IsPartitionMinimal(table, "sda3")
  /\ table["state"].start = ReclaimedStart(table) + Align

StateReclaimed ==
  /\ IsPartitionMinimal(table, "sda3")
  /\ table["state"].start = ReclaimedStart(table)

NeedsRelocation ==
  IF conf.oemSize # 0 THEN ~OEMAfterSDA3 ELSE conf.reclaim /\ ~StateReclaimed

\* The program by itself.  Where relocation is needed it is invoked, and
\* invoked again after an error or after the invocation that only shrank sda3
\* (no start point was computed).
Invoke ==
  /\ NeedsRelocation
  /\ \/ hook \in {"idle", "error"}
     \/ hook = "done" /\ conf.reclaim /\ startPoint = 0
  /\ hook' = "begin"
  /\ UNCHANGED <<table, startPoint, newState, faults>>

HookNext == (Invoke \/ HookStep) /\ UNCHANGED <<conf, diskEnd>>

HookSpec == HookInit /\ [][HookNext]_<<conf, diskEnd, hookVars>>

-----------------------------------------------------------------------------
(* Properties.                                                             *)

\* Once the stateful partition is out of the way the two remaining edits are
\* never refused, whatever the sizes and whatever an earlier attempt left
\* behind: a refusal there would leave the OEM partition half relocated
\* (HandleDiskLayout, handle_disk_layout.go:98-122).
NoRefusalAfterStateMove ==
  /\ hook = "oem" => OemFits
  /\ hook = "extend" => ExtendFits
  /\ hook = "extend" /\ conf.oemSize % Align = 0 => Grows

\* The space finish-image-build demands: the disk holds the image and the
\* OEM size, less what sda3 gives back (finish_image_build.go:222-259).
RoomEnough ==
  (IF conf.reclaim THEN ReclaimedStart(InitTable)
                   ELSE InitTable["state"].start)
    + conf.oemSize + InitTable["state"].size <= diskEnd

\* With that space the stateful partition can always be moved: in every
\* attempt when sda3 is reclaimed; otherwise until it has been moved once.
StateMoveFits ==
  hook \in {"stateOnly", "state"} /\ RoomEnough
    /\ (conf.reclaim \/ table["state"].start = InitTable["state"].start)
  => StateFits

\* When an invocation that computed a start point returns nil, the stateful
\* partition follows the OEM partition or, without OEM extension, the margin
\* in sda3, and less than 4 KB of the requested OEM size is missing.
CompletedLayout ==
  hook = "done" /\ startPoint # 0 =>
    IF OEMSmaller(InitTable)
    THEN conf.reclaim => table["state"].start = ReclaimedStart(table)
    ELSE /\ table["oem"].start = startPoint
         /\ After(table, "oem") = table["state"].start
         /\ table["oem"].size + Align > conf.oemSize
=============================================================================
