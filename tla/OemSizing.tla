------------------------------ MODULE OemSizing ------------------------------
(***************************************************************************)
(* What finish-image-build (src/cmd/cos_customizer/finish_image_build.go)  *)
(* makes of -oem-size and -disk-size-gb before it starts a build: it       *)
(* checks them, doubles and shrinks the OEM size, and decides whether the  *)
(* disk is enlarged while the VM runs.  All of it is uint64 arithmetic on  *)
(* bytes, without a check for overflow; -disk-size-gb is a signed integer. *)
(*                                                                         *)
(* stage is the position: flags, valid (validate), loaded (loadConfigs),   *)
(* sized (validateOEM), configured (updateProvConfig and daisyArgs), or    *)
(* rejected with an error.                                                 *)
(***************************************************************************)
EXTENDS Integers

CONSTANTS
  Word,         \* 2^64
  UnitSize,     \* bytes of each unit of a size string
  Block,        \* 4 KB in bytes
  DefaultOEM,   \* defaultOEMSizeMB (16)
  ImgSize,      \* imgSize, the size of a COS image in GB (10)
  ReclaimedMB,  \* reclaimedMB (2046)
  Numbers,      \* bound: the numbers a size string may have
  DiskFlags     \* bound: the values of -disk-size-gb

UnitNames == {"B", "sectors", "K", "M", "G"}
MB == UnitSize["M"]
GB == UnitSize["G"]
ReclaimedBytes == ReclaimedMB * MB

ASSUME SizingAssumption ==
  /\ UnitSize \in [UnitNames -> Nat \ {0}]
  /\ Word \in Nat /\ 2 * DefaultOEM * MB < Word
  /\ Block \in Nat \ {0} /\ MB % Block = 0
  /\ Block < (DefaultOEM - 1) * MB
  /\ DefaultOEM \in Nat /\ DefaultOEM >= 3
  /\ ImgSize \in Nat /\ ReclaimedMB \in Nat
  /\ 2 * DefaultOEM <= ReclaimedMB
  /\ Numbers \subseteq 0 .. (Word - 1)
  /\ DiskFlags \subseteq Int
  /\ \A d \in DiskFlags : -Word <= d /\ d < Word

\* A size string: none (""), one that does not parse, a number with a unit.
NoSize    == [number |-> 0, unit |-> "none"]
Malformed == [number |-> 0, unit |-> "malformed"]
Size(number, unit) == [number |-> number, unit |-> unit]
Sizes == [number : Nat, unit : UnitNames] \cup {NoSize, Malformed}

VARIABLES
  oemFlag,   \* -oem-size
  diskFlag,  \* -disk-size-gb
  seals,     \* hasSealOEM: the provisioner config has a SealOEM step
  boot,      \* provisioner.Config.BootDisk
  disk,      \* the workflow's boot disk: GB it is created with, GB that the
             \* step resize-disk gives it (0: the placeholder)
  stage

vars == <<oemFlag, diskFlag, seals, boot, disk, stage>>

Stages == {"flags", "valid", "loaded", "sized", "configured", "rejected"}

TypeOK ==
  /\ oemFlag \in Sizes
  /\ diskFlag \in DiskFlags
  /\ seals \in BOOLEAN
  /\ boot \in [reclaim : BOOLEAN, oemSize : Sizes, fsSize4K : Nat,
               wait : BOOLEAN]
  /\ disk \in [created : Nat, resized : Nat]
  /\ stage \in Stages

\* seal-oem and disable-auto-update set ReclaimSDA3.
Init ==
  /\ oemFlag \in {Size(n, u) : n \in Numbers, u \in UnitNames}
                   \cup {NoSize, Malformed}
  /\ diskFlag \in DiskFlags
  /\ seals \in BOOLEAN
  /\ \E reclaim \in BOOLEAN :
       /\ seals => reclaim
       /\ boot = [reclaim |-> reclaim, oemSize |-> NoSize, fsSize4K |-> 0,
                  wait |-> FALSE]
  /\ disk = [created |-> ImgSize, resized |-> 0]
  /\ stage = "flags"

-----------------------------------------------------------------------------
Exact(size) == size.number * UnitSize[size.unit]

\* ConvertSizeToBytes, of a size that parses.
ConvertSizeToBytes(size) == Exact(size) % Word

ConvertSizeToGBRoundUp(bytes) ==
  IF bytes % GB = 0 THEN bytes \div GB ELSE bytes \div GB + 1

Parses(size) == size.unit \in UnitNames

Move(from, to) == stage = from /\ stage' = to
Keep == UNCHANGED <<oemFlag, diskFlag, seals>>

FlagIsValid ==
  \/ oemFlag = NoSize
  \/ Parses(oemFlag) /\ ConvertSizeToBytes(oemFlag) >= DefaultOEM * MB

Validate ==
  /\ Move("flags", IF FlagIsValid THEN "valid" ELSE "rejected")
  /\ UNCHANGED <<boot, disk>> /\ Keep

LoadConfigs ==
  /\ Move("valid", "loaded")
  /\ boot' = [boot EXCEPT !.oemSize = oemFlag]
  /\ UNCHANGED disk /\ Keep

\* validateOEM without -oem-size: nothing to do, or the sizes of a sealed
\* partition ("32M", 4096 blocks), with no regard to the disk size.
SizeByDefault ==
  /\ Move("loaded", "sized")
  /\ boot.oemSize = NoSize
  /\ boot' = IF seals
             THEN [boot EXCEPT !.oemSize = Size(2 * DefaultOEM, "M"),
                               !.fsSize4K = (DefaultOEM * MB) \div Block]
             ELSE boot
  /\ UNCHANGED disk /\ Keep

\* Mutation: the size is not doubled for the hash tree.
PartitionBytesSingle == ConvertSizeToBytes(boot.oemSize)

\* The partition that is wanted: doubled to hold the hash tree.
PartitionBytes ==
  IF seals THEN (2 * ConvertSizeToBytes(boot.oemSize)) % Word
  ELSE ConvertSizeToBytes(boot.oemSize)

\* What has to come from enlarging the disk.
ExtraBytes ==
  IF ~boot.reclaim THEN PartitionBytes
  ELSE IF PartitionBytes <= ReclaimedBytes THEN 0
  ELSE PartitionBytes - ReclaimedBytes

\* The conversion of -disk-size-gb to uint64.
DiskSize == IF diskFlag = 0 THEN ImgSize ELSE diskFlag % Word

DiskIsLarge == DiskSize >= ImgSize + ConvertSizeToGBRoundUp(ExtraBytes)

\* Mutation: the partition keeps the megabyte.
ShrunkSizeWhole == Size(PartitionBytes \div MB, "M")

\* The partition is a megabyte smaller, for disks that are that much short.
ShrunkSize == Size((PartitionBytes \div MB - 1) % Word, "M")

SizeByFlag ==
  /\ Move("loaded", "sized")
  /\ boot.oemSize # NoSize
  /\ DiskIsLarge
  /\ boot' = [boot EXCEPT
       !.oemSize = ShrunkSize,
       !.fsSize4K = IF seals THEN ConvertSizeToBytes(boot.oemSize) \div Block
                    ELSE @]
  /\ UNCHANGED disk /\ Keep

DiskTooSmall ==
  /\ Move("loaded", "rejected")
  /\ boot.oemSize # NoSize
  /\ ~DiskIsLarge
  /\ UNCHANGED <<boot, disk>> /\ Keep

\* Mutation: a build that only reclaims sda3 is forgotten.
NeedDiskResizeForOEM == diskFlag > ImgSize /\ boot.oemSize # NoSize

NeedDiskResize ==
  diskFlag > ImgSize /\ (boot.oemSize # NoSize \/ boot.reclaim)

\* daisyArgs passes disk_size_gb in the cases that its own condition finds.
CreatedAtSize ==
  boot.oemSize = NoSize /\ diskFlag > ImgSize /\ ~boot.reclaim

\* The step resize-disk in the workflow, or the placeholder in its place.
ResizeStep == IF NeedDiskResize THEN diskFlag ELSE 0

\* daisyArgs: the workflow's resize-disk step, the VM's WaitForDiskResize and
\* the size that the disk is created with.
Configure ==
  /\ Move("sized", "configured")
  /\ boot' = [boot EXCEPT !.wait = @ \/ NeedDiskResize]
  /\ disk' = [created |-> IF CreatedAtSize THEN diskFlag ELSE ImgSize,
              resized |-> ResizeStep]
  /\ Keep

Finished == stage \in {"configured", "rejected"} /\ UNCHANGED vars

Next ==
  \/ Validate \/ LoadConfigs \/ SizeByDefault \/ SizeByFlag \/ DiskTooSmall
  \/ Configure \/ Finished

Spec == Init /\ [][Next]_vars

-----------------------------------------------------------------------------
(* Properties.                                                             *)

Factor == IF seals THEN 2 ELSE 1

\* Neither the size nor its double overflows.
NoWrap == Parses(oemFlag) => Factor * Exact(oemFlag) < Word

Accepted == stage = "configured" /\ boot.oemSize # NoSize

\* What the VM will do with the sizes: the stateful partition is shifted by
\* the OEM size less the space of sda3, on a disk that grows if it waits.
Shift ==
  ConvertSizeToBytes(boot.oemSize)
    - (IF boot.reclaim THEN ReclaimedBytes ELSE 0)
Growth == IF boot.wait THEN (disk.resized - disk.created) * GB ELSE 0

\* An accepted build has the room on the disk that the VM needs, with the
\* megabyte to spare that the comment at finish_image_build.go:260-268 asks
\* for: either the shift is negative, or the VM waits for the disk to grow.
AcceptedLeavesRoom ==
  Accepted /\ NoWrap /\ diskFlag >= 0 =>
    Shift <= 0 \/ Shift + MB <= Growth

\* A sealed partition has a file system of the size asked for, no smaller
\* than the one it replaces, and at least a quarter of its size is left behind
\* it for the hash tree, which takes about one part in 127 (validateOEM).
HashTreePlanned ==
  Accepted /\ seals /\ NoWrap =>
    LET fs == boot.fsSize4K * Block IN
    /\ fs >= DefaultOEM * MB
    /\ Parses(oemFlag) => Exact(oemFlag) - fs \in 0 .. Block - 1
    /\ fs + fs \div 4 <= ConvertSizeToBytes(boot.oemSize)

\* The disk of the image gets the size that was asked for, in one of two ways
\* that three conditions have to agree on: it is created with it, or the VM
\* waits while a step enlarges it, which the API only does to a larger size
\* (needDiskResize, daisyArgs, preload.go:106-112).
DiskIsAsAsked ==
  stage = "configured" =>
    /\ boot.wait <=> disk.resized # 0
    /\ disk.resized # 0 => disk.created < disk.resized
    /\ diskFlag > ImgSize => diskFlag \in {disk.created, disk.resized}
    /\ disk.created > ImgSize => boot.oemSize = NoSize /\ ~boot.reclaim
=============================================================================
