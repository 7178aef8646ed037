-------------------------------- MODULE VMRun --------------------------------
(***************************************************************************)
(* The VM of a build as far as Daisy can tell: it boots, builds, may wait  *)
(* for a larger disk, ends with a verdict and stops, and may go down in    *)
(* between.  Provisioner implements this, so that DaisyWorkflow, whose VM  *)
(* is made of these actions, has the VM that Provisioner describes.        *)
(***************************************************************************)
EXTENDS Naturals

VARIABLES
  waitSet,    \* the VM is told to wait for a resize: WaitForDiskResize
  resized,    \* the boot disk has been enlarged
  vm,         \* what the VM is doing
  asked,      \* "waiting for the boot disk size to change" is on the port
  startSize,  \* resized, when waitForDiskResize read the size to compare with
  resizeDone  \* DiskResizeComplete in the provisioner's state

\* Where waitForDiskResize compares sizes.
Comparing == {"measured", "resizing"}

RunInit ==
  /\ waitSet \in BOOLEAN
  /\ resized = FALSE
  /\ vm = "booting"
  /\ asked = FALSE
  /\ startSize = FALSE
  /\ resizeDone = FALSE

\* The size that was read is lost where it is no longer compared with.
Go(from, to) ==
  /\ vm \in from /\ vm' = to
  /\ to \notin Comparing => startSize' = FALSE
  /\ UNCHANGED <<waitSet, resized>>

\* startup.sh starts the provisioner.
Begin == Go({"booting"}, "building") /\ UNCHANGED <<asked, resizeDone>>

\* waitForDiskResize reads the size of the disk.
Measure ==
  /\ waitSet /\ ~resizeDone
  /\ Go({"building"}, "measured")
  /\ startSize' = resized
  /\ UNCHANGED <<asked, resizeDone>>

\* Then it logs that it waits.
Announce ==
  /\ Go({"measured"}, "resizing")
  /\ asked' = TRUE
  /\ UNCHANGED <<startSize, resizeDone>>

\* The size has changed.
Notice ==
  /\ resized # startSize
  /\ Go({"resizing"}, "building")
  /\ resizeDone' = TRUE
  /\ UNCHANGED asked

\* The provisioner exits with 3; its state is on the disk.
AskForReboot == Go({"building"}, "booting") /\ UNCHANGED <<asked, resizeDone>>

\* It exits with another code, at any point, a timed out resize among them.
EndBadly ==
  Go({"building"} \cup Comparing, "failing") /\ UNCHANGED <<asked, resizeDone>>

\* Everything is done, the resize as well.
EndWell ==
  /\ waitSet => resizeDone
  /\ Go({"building"}, "watching")
  /\ UNCHANGED <<asked, resizeDone>>

\* The VM goes down unplanned.  The state on the disk is gone once a build
\* has ended well, and is lost where it was being written or removed.
GoDown ==
  /\ Go({"booting", "building", "failing", "watching"} \cup Comparing, "booting")
  /\ resizeDone' \in (IF vm = "watching" THEN {FALSE} ELSE {resizeDone, FALSE})
  /\ UNCHANGED asked

\* The VM stops, and its serial output is gone.
Stop ==
  /\ Go({"failing", "watching"}, "stopped")
  /\ asked' = FALSE
  /\ UNCHANGED resizeDone

\* Daisy enlarges the disk, once, after it has read the message.
Enlarge ==
  /\ asked /\ ~resized
  /\ resized' = TRUE
  /\ UNCHANGED <<waitSet, vm, asked, startSize, resizeDone>>

RunNext ==
  \/ Begin \/ Measure \/ Announce \/ Notice \/ AskForReboot
  \/ EndBadly \/ EndWell \/ GoDown \/ Stop \/ Enlarge

runVars == <<waitSet, resized, vm, asked, startSize, resizeDone>>

RunSpec == RunInit /\ [][RunNext]_runVars
=============================================================================
