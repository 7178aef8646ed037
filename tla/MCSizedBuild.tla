---------------------------- MODULE MCSizedBuild ----------------------------
(***************************************************************************)
(* SizedBuild with small units: a sector has 2 bytes, 4 KB are 4 sectors,  *)
(* a megabyte 8 and a gigabyte 32, and a word wraps at 16 GB.  The image   *)
(* has 3 GB, which its four partitions fill: an OEM partition of 3 MB, and *)
(* sda3 with the margin and the 6 MB that it gives back.                   *)
(***************************************************************************)
EXTENDS SizedBuild

MCUnitSize == [B |-> 1, sectors |-> 2, K |-> 4, M |-> 16, G |-> 64]
MCNumbers == 0 .. 40
MCDiskFlags == -1 .. 9

MCInitTable ==
  [p \in Parts |-> CASE p = "oem"   -> [start |-> 0,  size |-> 24]
                     [] p = "sda5"  -> [start |-> 24, size |-> 4]
                     [] p = "sda3"  -> [start |-> 28, size |-> 52]
                     [] p = "state" -> [start |-> 80, size |-> 16]]

MCDiskEnds == {d * 32 : d \in 3 .. 9}
MCConfigs == [reclaim : BOOLEAN, oemSize : 0 .. 512]
=============================================================================
