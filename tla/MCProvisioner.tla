--------------------------- MODULE MCProvisioner ---------------------------
(***************************************************************************)
(* The provisioner on a disk of a few sectors, on configurations that      *)
(* finish-image-build lets through, one of each kind.  "4 KB" is two       *)
(* sectors, the minimal partition is two sectors, the margin four, and     *)
(* sda3 gives four sectors back.  Twelve gigabytes less the image leave    *)
(* ten sectors to grow by.                                                 *)
(***************************************************************************)
EXTENDS Provisioner

MCInitTable ==
  [p \in Parts |-> CASE p = "oem"   -> [start |-> 2,  size |-> 2]
                     [] p = "sda5"  -> [start |-> 4,  size |-> 8]
                     [] p = "sda3"  -> [start |-> 12, size |-> 8]
                     [] p = "state" -> [start |-> 20, size |-> 6]]

Build(reclaim, oemSize, fsSize, wait, steps) ==
  [reclaim |-> reclaim, oemSize |-> oemSize, fsSize |-> fsSize,
   wait |-> wait, steps |-> steps]

MCConfigs ==
  { \* no repartitioning
    Build(FALSE, 0, 0, FALSE, <<"RunScript", "InstallGPU", "RunScript">>),
    \* -oem-size on a larger disk
    Build(FALSE, 6, 0, TRUE, <<"InstallPackages", "RunScript">>),
    \* disable-auto-update on the image's own disk size
    Build(TRUE, 0, 0, FALSE, <<"RunScript", "DisableAutoUpdate">>),
    \* disable-auto-update on a larger disk
    Build(TRUE, 0, 0, TRUE, <<"DisableAutoUpdate">>),
    \* disable-auto-update and -oem-size within the reclaimed space
    Build(TRUE, 4, 0, FALSE, <<"DisableAutoUpdate", "InstallGPU">>),
    \* seal-oem without -oem-size: twice the original size
    Build(TRUE, 4, 2, FALSE, <<"RunScript", "SealOEM">>),
    \* seal-oem twice
    Build(TRUE, 4, 2, FALSE, <<"SealOEM", "SealOEM">>),
    \* seal-oem and -oem-size on a larger disk
    Build(TRUE, 8, 4, TRUE, <<"SealOEM", "DisableAutoUpdate">>) }

\* An OEM size of 16M or 17M without seal-oem, which validateOEM turns into
\* 15M or 16M: not more than the partition has.
MCSmallOEMConfigs ==
  { Build(FALSE, 2, 0, TRUE, <<"RunScript">>),
    Build(TRUE, 2, 0, FALSE, <<"DisableAutoUpdate">>) }
=============================================================================
