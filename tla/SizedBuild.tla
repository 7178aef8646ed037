----------------------------- MODULE SizedBuild -----------------------------
(***************************************************************************)
(* One OEM size all the way from the flag to the partition table:          *)
(* finish-image-build (OemSizing) checks and rewrites it in bytes,         *)
(* megabytes and gigabytes, Daisy gives the disk its size, and the disk    *)
(* layout program (HandleDiskLayout) makes sectors of it, on the VM, in as *)
(* many attempts as it takes.  The two programs never meet: all that the   *)
(* second gets from the first is a string and a disk.                      *)
(***************************************************************************)
EXTENDS OemSizing, HandleDiskLayout

Sector == UnitSize["sectors"]

\* The image that the constants of both modules speak of: the units agree,
\* the image fills its disk, its OEM partition has the size that validate
\* takes for granted, and sda3 gives back what validateOEM counts on.
ASSUME HandOverAssumption ==
  /\ Block = Align * Sector
  /\ GB % Sector = 0
  /\ ImgSize * GB = ImageEnd * Sector
  /\ InitTable["oem"].size * Sector = DefaultOEM * MB
  /\ ReclaimedBytes <=
       (InitTable["state"].start - ReclaimedStart(InitTable)) * Sector
  /\ [reclaim : BOOLEAN, oemSize : 0 .. Word \div Sector] \subseteq Configs
  /\ \A d \in DiskFlags : d > ImgSize => (d * GB) \div Sector \in DiskEnds

buildVars == <<vars, conf, diskEnd, hookVars>>

NoConfig == [reclaim |-> FALSE, oemSize |-> 0]

BuildInit == Init /\ HookInit /\ conf = NoConfig /\ diskEnd = ImageEnd

\* Mutation: the number in the string is taken for sectors.
OEMSectorsUnitless == boot.oemSize.number

\* HandleDiskLayout reads the size again, "" as 0, and takes whole sectors.
OEMSectors ==
  IF boot.oemSize = NoSize THEN 0
  ELSE ConvertSizeToBytes(boot.oemSize) \div Sector

\* Mutation: relocation does not wait for the disk to grow.
DiskSectorsAsCreated == (disk.created * GB) \div Sector

\* The disk at relocation: a VM that waits has seen it enlarged.
DiskSectors ==
  ((IF boot.wait THEN disk.resized ELSE disk.created) * GB) \div Sector

\* The VM runs the disk layout program for the first time, if the boot disk
\* configuration has anything for it to do.
LayoutBegins ==
  /\ stage = "configured" /\ hook = "idle"
  /\ boot.reclaim \/ boot.oemSize # NoSize
  /\ conf' = [reclaim |-> boot.reclaim, oemSize |-> OEMSectors]
  /\ diskEnd' = DiskSectors
  /\ hook' = "begin"
  /\ UNCHANGED <<vars, table, startPoint, newState, faults>>

LayoutGoesOn == hook # "idle" /\ HookNext /\ UNCHANGED vars

BuildNext ==
  \/ Next /\ UNCHANGED <<conf, diskEnd, hookVars>>
  \/ LayoutBegins
  \/ LayoutGoesOn

\* Every variable of the two programs is in its type: what the sizes come to
\* after all the conversions is a whole number of sectors of a word, and the
\* disk has one of the sizes it may have.
BuildTypeOK == TypeOK /\ HookTypeOK

BuildSpec == BuildInit /\ [][BuildNext]_buildVars

-----------------------------------------------------------------------------
(* Properties.                                                             *)

Sound == NoWrap /\ diskFlag >= 0

\* What finish-image-build accepts, the VM never refuses: every edit that the
\* disk layout program comes to fits, in every attempt if sda3 is reclaimed,
\* and in those before the first failed edit if not.  The check is made in
\* gigabytes rounded up, the edits in sectors rounded down to 4 KB, on a disk
\* that was enlarged or not (validateOEM against HandleDiskLayout).
AcceptedIsNotRefused ==
  Sound /\ (conf.reclaim \/ faults = 0) =>
    /\ hook \in {"stateOnly", "state"} => StateFits
    /\ hook = "oem" => OemFits
    /\ hook = "extend" => Grows /\ ExtendFits

\* A stateful partition that is moved towards the end of the disk stops a
\* megabyte short of it, where the second partition table is: that is what
\* the last lines of validateOEM take the megabyte away for ("to deal with
\* cases where disk size is 1MB smaller than needed").
EndOfDiskIsSpared ==
  /\ Sound
  /\ conf.reclaim \/ faults = 0
  /\ table["state"].start > InitTable["state"].start
  =>
    After(table, "state") * Sector + MB <= diskEnd * Sector

\* The partition that a completed layout leaves has, in bytes, what the user
\* asked for in his own unit, less the megabyte and the rounding to one; or,
\* sealed, room for the file system of that size with a hash tree behind it,
\* for all that was doubled, shrunk, printed, parsed and rounded in between.
OEMIsAsAsked ==
  hook = "done" /\ startPoint # 0 /\ NoWrap =>
    LET bytes == table["oem"].size * Sector
        fs    == boot.fsSize4K * Block
    IN IF seals THEN fs + fs \div 4 <= bytes
       ELSE Parses(oemFlag) => Exact(oemFlag) < bytes + 2 * MB

\* "The file system size of the extended OEM partition" (README.md:244), for
\* every size that is accepted, also one that is too large for a word.
OEMIsAsDocumented ==
  hook = "done" /\ startPoint # 0 /\ Parses(oemFlag) /\ diskFlag >= 0 =>
    Exact(oemFlag) < table["oem"].size * Sector + 2 * MB
=============================================================================
