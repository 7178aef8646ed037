----------------------------- MODULE DiskLayout -----------------------------
(***************************************************************************)
(* The boot disk as src/pkg/tools/partutil sees it: a GPT table giving     *)
(* every partition a first sector and a size in sectors, and the edits     *)
(* that sfdisk is asked to make.  Only the four partitions whose place or  *)
(* size matters are kept:                                                  *)
(*                                                                         *)
(*    "oem"   /dev/sda8, the OEM partition                                 *)
(*    "sda5"  /dev/sda5, the second root partition                         *)
(*    "sda3"  /dev/sda3, the first root partition, reclaimed on request    *)
(*    "state" /dev/sda1, the stateful partition, the last one on the disk  *)
(*                                                                         *)
(* The module has no state.                                                *)
(***************************************************************************)
EXTENDS Integers

CONSTANTS
  Align,     \* sectors in 4 KB (8 in the code)
  MinSize,   \* minPartitionSizeSectors (8 in the code)
  Margin     \* sda3Margin, sectors kept free after the start of sda3 (4096)

\* The margin holds the minimal sda3, so what follows the margin never
\* touches it.
ASSUME GeometryAssumption ==
  /\ Align \in Nat \ {0}
  /\ MinSize \in Nat \ {0}
  /\ Margin \in Nat
  /\ MinSize <= Margin
  /\ Margin % Align = 0

Parts  == {"oem", "sda5", "sda3", "state"}
Extent == [start : Nat, size : Nat \ {0}]
Table  == [Parts -> Extent]

\* The first sector after a partition.
After(t, p) == t[p].start + t[p].size

Apart(t, p, q) == After(t, p) <= t[q].start \/ After(t, q) <= t[p].start

NoOverlap(t) == \A p, q \in Parts : p # q => Apart(t, p, q)

\* sfdisk accepts an entry that stays on the disk and clear of the others.
Fits(t, p, start, size, diskEnd) ==
  /\ start + size <= diskEnd
  /\ \A q \in Parts \ {p} :
        start + size <= t[q].start \/ After(t, q) <= start

\* FindLast4KSector: the last 4 KB boundary at or before a sector.
FindLast4KSector(sector) == sector - (sector % Align)

\* Mutation: a partition of exactly the minimal size is not minimal.
IsPartitionMinimalStrict(t, p) == t[p].size < MinSize

IsPartitionMinimal(t, p) == t[p].size <= MinSize

\* Mutation: the partition is deleted instead of kept at its minimum.
MinimizePartitionDeletes(t, p) == [t EXCEPT ![p].size = 0]

\* MinimizePartition: nothing is written when the partition is that small.
MinimizePartition(t, p) ==
  IF IsPartitionMinimal(t, p) THEN t ELSE [t EXCEPT ![p].size = MinSize]

\* MovePartition: sfdisk --move-data keeps the size and changes the start.
MovePartition(t, p, start) == [t EXCEPT ![p].start = start]

\* Mutation: the inclusive end sector is taken as exclusive.
ExtendedSizeExclusive(t, p, end) == end - t[p].start

\* ExtendPartition: the partition ends at sector "end" (inclusive).
ExtendedSize(t, p, end) == end - t[p].start + 1
ExtendPartition(t, p, end) ==
  [t EXCEPT ![p].size = ExtendedSize(t, p, end)]

\* calcSDA3End: the last sector of sda3.
SDA3End(t) == t["sda3"].start + t["sda3"].size - 1

\* Where a reclaimed sda3 lets the next partition start.
ReclaimedStart(t) == t["sda3"].start + Margin
=============================================================================
