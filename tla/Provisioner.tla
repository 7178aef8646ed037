---------------------------- MODULE Provisioner ----------------------------
(***************************************************************************)
(* The provisioner on the builder VM (src/pkg/provisioner), as startup.sh  *)
(* (src/data/startup.yaml) starts it on every boot: it repartitions the    *)
(* boot disk, which takes reboots, runs the configured steps, cleans up,   *)
(* and reports BuildSucceeded or BuildFailed.  What survives a reboot is   *)
(* the disk: the partition table, the boot priority, grub.cfg, the OEM     *)
(* file system and the state directory.  The machine may also go down at   *)
(* any other moment, and any command may fail.                             *)
(*                                                                         *)
(* pc is the position of the VM:                                           *)
(*   startup                      main of startup.sh chooses run or resume *)
(*   mkdir create unpack extract  Run: initState                           *)
(*   load                         Resume: loadState                        *)
(*   write                        inside state.write, then goes to ret     *)
(*   switchRoot prioritize shrink readSize announce poll relocate journal  *)
(*   resizeFS remount             repartitionBootDisk                      *)
(*   setup steps stepDone sealGrub sealMaskUpdate sealMaskOEM              *)
(*   stopServices cleanup rmdir scrub                                      *)
(*   reboot                       exit code 3, the reboot is under way     *)
(*   ended                        the outcome is on the serial console     *)
(*   poweroff off                 shutdown -h                              *)
(***************************************************************************)
EXTENDS HandleDiskLayout, Sequences, FiniteSets

CONSTANTS
  GrownEnd,    \* sectors of the disk after Daisy's resize-disk step
  MaxCrashes,  \* bound: unplanned restarts of the VM
  MaxReboots   \* bound: the count of requested reboots stops here

StepTypes ==
  {"RunScript", "InstallGPU", "InstallPackages", "SealOEM",
   "DisableAutoUpdate"}

\* provisioner.Config: boot disk fields (OEMSize "" is 0; sizes in sectors),
\* and the types of the steps.
ConfigType ==
  [reclaim : BOOLEAN, oemSize : Nat, fsSize : Nat, wait : BOOLEAN,
   steps : Seq(StepTypes)]

ASSUME ProvisionerAssumption ==
  /\ Configs \subseteq ConfigType
  /\ GrownEnd \in DiskEnds /\ GrownEnd >= ImageEnd
  /\ MaxCrashes \in Nat
  /\ MaxReboots \in Nat

\* validateOEM gives a configuration that seals both of its sizes.
ASSUME SealAssumption ==
  \A c \in Configs :
    (\E i \in DOMAIN c.steps : c.steps[i] = "SealOEM") =>
      c.oemSize # 0 /\ c.fsSize # 0

VARIABLES
  pc, ret,
  mem,        \* state.data in memory: CurrentStep and DiskResizeComplete
  startSize,  \* local of waitForDiskResize
  armed,      \* last-run.service is active: the hook runs at shutdown
  boot,       \* what the running system took from the disk when it booted
  outcome,    \* the line this boot printed: BuildSucceeded or BuildFailed
  file,       \* the state directory and its state.json
  contexts,   \* the build contexts unpacked in the state directory
  priority,   \* the root partition of the next boot (cgpt prioritize)
  copied,     \* sda5 holds a copy of sda3
  oemFS,      \* size of the OEM file system
  sealed,     \* the hash tree: none, valid, or stale (OEM changed since)
  grub,       \* grub.cfg: number of dm= entries, their count field, the hash
              \* tree that the first OEM entry is of, masked units
  asked,      \* "waiting for the boot disk size to change" is on the console
  runs,       \* history: how often each step ran to its end
  cutShort,   \* history: the hook stopped between moving and extending the
              \* OEM partition
  halfSealed, \* history: a crash left grub.cfg with the entry of a seal and
              \* without its mask
  crashes, reboots

crashVars == <<cutShort, halfSealed, crashes>>
procVars  == <<ret, mem, startSize, armed, outcome>>
dirVars   == <<file, contexts>>
diskVars  == <<priority, copied, oemFS, sealed, grub>>
histVars  == <<runs, reboots>>
worldVars == <<conf, diskEnd, hookVars, boot, asked, crashVars>>
vars      == <<pc, procVars, dirVars, diskVars, histVars, worldVars>>

NumSteps == Len(conf.steps)

MemType  == [step : Nat, resized : BOOLEAN]
NoMem    == [step |-> 0, resized |-> FALSE]

\* The state directory: missing, without state.json, with a truncated
\* state.json, or with a readable one that holds data.
FileKinds == {"nodir", "nofile", "corrupt", "ok"}
File(kind, data) == [kind |-> kind, data |-> data]
Missing == File("nodir", NoMem)
Empty   == File("nofile", NoMem)
Corrupt == File("corrupt", NoMem)
Saved(data) == File("ok", data)

Positions ==
  {"startup", "mkdir", "create", "unpack", "extract", "load", "write",
   "switchRoot", "prioritize", "shrink", "readSize", "announce", "poll",
   "relocate", "journal", "resizeFS", "remount", "setup", "steps",
   "stepDone", "sealGrub", "sealMaskUpdate", "sealMaskOEM", "stopServices",
   "cleanup", "rmdir", "scrub", "reboot", "ended", "poweroff", "off"}

\* Positions in which the provisioner process runs and may return an error.
Running == Positions \ {"startup", "reboot", "ended", "poweroff", "off"}

MaskedUnits == {"update-engine.service", "usr-share-oem.mount"}

GrubType ==
  [entries : Nat, count : {1, 2}, tree : {"none", "current", "old"},
   masked : SUBSET MaskedUnits]

TypeOK ==
  /\ HookTypeOK
  /\ pc \in Positions
  /\ ret \in {"unpack", "relocate", "steps"}
  /\ mem \in MemType
  /\ startSize \in {0} \cup DiskEnds
  /\ armed \in BOOLEAN
  /\ boot \in [root : {"sda3", "sda5"}, oem : Extent,
               masked : SUBSET MaskedUnits]
  /\ outcome \in {"none", "succeeded", "failed"}
  /\ file \in [kind : FileKinds, data : MemType]
  /\ contexts \in {"absent", "partial", "whole"}
  /\ priority \in {"sda3", "sda5"}
  /\ copied \in BOOLEAN
  /\ oemFS \in Nat
  /\ sealed \in {"none", "valid", "stale"}
  /\ grub \in GrubType
  /\ asked \in BOOLEAN
  /\ runs \in [1 .. NumSteps -> Nat]
  /\ cutShort \in BOOLEAN
  /\ halfSealed \in BOOLEAN
  /\ crashes \in 0 .. MaxCrashes
  /\ reboots \in 0 .. MaxReboots

Init ==
  /\ HookInit
  /\ diskEnd = ImageEnd
  /\ pc = "startup"
  /\ ret = "unpack"
  /\ mem = NoMem
  /\ startSize = 0
  /\ armed = FALSE
  /\ boot = [root |-> "sda3", oem |-> InitTable["oem"], masked |-> {}]
  /\ outcome = "none"
  /\ file = Missing
  /\ contexts = "absent"
  /\ priority = "sda3"
  /\ copied = FALSE
  /\ oemFS = InitTable["oem"].size
  /\ sealed = "none"
  /\ grub = [entries |-> 1, count |-> 1, tree |-> "none", masked |-> {}]
  /\ asked = FALSE
  /\ runs = [i \in 1 .. NumSteps |-> 0]
  /\ cutShort = FALSE
  /\ halfSealed = FALSE
  /\ crashes = 0
  /\ reboots = 0

-----------------------------------------------------------------------------
(* How the process moves on.  Each form says what it leaves alone.         *)

Goto(from, to) == pc = from /\ pc' = to

\* Nothing but the position changes.
Pass(from, to) ==
  /\ Goto(from, to)
  /\ UNCHANGED <<procVars, dirVars, diskVars, histVars, worldVars>>

\* state.write opens the file, which truncates it, before it writes data.
BeginWrite(from, data, next) ==
  /\ Goto(from, "write")
  /\ mem' = data
  /\ file' = Corrupt
  /\ ret' = next
  /\ UNCHANGED <<startSize, armed, outcome, contexts, diskVars, histVars,
                 worldVars>>

\* The provisioner exits with code 3 and startup.sh reboots.
RequestReboot(from) ==
  /\ Goto(from, "reboot")
  /\ reboots' = IF reboots < MaxReboots THEN reboots + 1 ELSE reboots
  /\ UNCHANGED <<procVars, dirVars, runs>>

\* The provisioner exits with another code: "BuildFailed" on the console.
Fail(from) ==
  /\ Goto(from, "ended")
  /\ outcome' = "failed"
  /\ UNCHANGED <<ret, mem, startSize, armed, dirVars, histVars, worldVars>>

-----------------------------------------------------------------------------
(* startup.sh, initState and loadState.                                    *)

\* main: a state directory means an earlier boot has begun.
Startup == Pass("startup", IF file.kind = "nodir" THEN "mkdir" ELSE "load")

\* What changes the state directory and nothing else.
DirStep(from, to, newFile, newContexts) ==
  /\ Goto(from, to)
  /\ file' = newFile
  /\ contexts' = newContexts
  /\ UNCHANGED <<procVars, diskVars, histVars, worldVars>>

InitStateMkdir == DirStep("mkdir", "create", Empty, contexts)
InitStateWrite == BeginWrite("create", NoMem, "unpack")
FinishWrite    == DirStep("write", ret, Saved(mem), contexts)
UnpackBegin    == DirStep("unpack", "extract", file, "partial")
UnpackEnd      == DirStep("extract", "switchRoot", file, "whole")

\* Mutation: the step after the last completed one is skipped on resume.
LoadStateSkips ==
  /\ Goto("load", "switchRoot")
  /\ file.kind = "ok"
  /\ mem' = [file.data EXCEPT !.step = @ + 1]
  /\ UNCHANGED <<ret, startSize, armed, outcome, dirVars, diskVars, histVars,
                 worldVars>>

LoadState ==
  /\ Goto("load", "switchRoot")
  /\ file.kind = "ok"
  /\ mem' = file.data
  /\ UNCHANGED <<ret, startSize, armed, outcome, dirVars, diskVars, histVars,
                 worldVars>>

\* state.json is missing or does not parse.
LoadStateFails ==
  file.kind # "ok" /\ Fail("load") /\ UNCHANGED diskVars

-----------------------------------------------------------------------------
(* repartitionBootDisk.                                                    *)

\* Mutation: the root device comparison is negated.
NeedsSwitchNegated == conf.reclaim /\ boot.root = "sda5"

NeedsSwitch == conf.reclaim /\ boot.root # "sda5"

SwitchRootSkip == ~NeedsSwitch /\ Pass("switchRoot", "shrink")

SwitchRootCopy ==
  /\ NeedsSwitch
  /\ Goto("switchRoot", "prioritize")
  /\ copied' = TRUE
  /\ UNCHANGED <<procVars, dirVars, priority, oemFS, sealed, grub, histVars,
                 worldVars>>

SwitchRootPrioritize ==
  /\ RequestReboot("prioritize")
  /\ priority' = "sda5"
  /\ UNCHANGED <<copied, oemFS, sealed, grub, worldVars>>

NeedsShrink == conf.reclaim /\ ~IsPartitionMinimal(table, "sda3")

ShrinkSkip == ~NeedsShrink /\ Pass("shrink", "readSize")

ShrinkSDA3 ==
  /\ NeedsShrink
  /\ RequestReboot("shrink")
  /\ table' = MinimizePartition(table, "sda3")
  /\ UNCHANGED <<conf, diskEnd, hook, startPoint, newState, faults, boot,
                 asked, crashVars, diskVars>>

NeedsWait == conf.wait /\ ~mem.resized

WaitSkip == ~NeedsWait /\ Pass("readSize", "relocate")

\* The size is read before Daisy is told that the VM waits.
WaitReadSize ==
  /\ NeedsWait
  /\ Goto("readSize", "announce")
  /\ startSize' = diskEnd
  /\ UNCHANGED <<ret, mem, armed, outcome, dirVars, diskVars, histVars,
                 worldVars>>

\* Mutation: the size is read again once Daisy has been told.
WaitAnnounceAndRead ==
  /\ Goto("announce", "poll")
  /\ asked' = TRUE
  /\ startSize' = diskEnd
  /\ UNCHANGED <<ret, mem, armed, outcome, dirVars, diskVars, histVars, conf,
                 diskEnd, hookVars, boot, crashVars>>

WaitAnnounce ==
  /\ Goto("announce", "poll")
  /\ asked' = TRUE
  /\ UNCHANGED <<procVars, dirVars, diskVars, histVars, conf, diskEnd,
                 hookVars, boot, crashVars>>

WaitResized ==
  /\ diskEnd # startSize
  /\ BeginWrite("poll", [mem EXCEPT !.resized = TRUE], "relocate")

\* Mutation: the build goes on after the timeout.
WaitTimeoutGoesOn == Pass("poll", "relocate")

\* Three minutes have passed.
WaitTimeout == Fail("poll") /\ UNCHANGED diskVars

RelocateSkip == ~NeedsRelocation /\ Pass("relocate", "resizeFS")

\* setupOnShutdownUnit: the unit is started, then journald is stopped.
RelocateArm ==
  /\ NeedsRelocation
  /\ Goto("relocate", "journal")
  /\ armed' = TRUE
  /\ UNCHANGED <<ret, mem, startSize, outcome, dirVars, diskVars, histVars,
                 worldVars>>

RelocateReboot == RequestReboot("journal") /\ UNCHANGED <<diskVars, worldVars>>

\* The comparison is "<" here and ">" in relocatePartitions.
FSResizeUnneeded ==
  \/ ~conf.reclaim /\ conf.oemSize = 0
  \/ table["oem"].start < SDA3End(table)

ResizeFSSkip == FSResizeUnneeded /\ Pass("resizeFS", "setup")

\* Mutation: resize2fs is never given a size.
NewFSSizeWhole == boot.oem.size

\* resize2fs to OEMFSSize4K if it is set, to the size of /dev/sda8 if not.
NewFSSize == IF conf.fsSize # 0 THEN conf.fsSize ELSE boot.oem.size

\* A hash tree no longer matches once the OEM partition is written to.
Stale == IF sealed = "valid" THEN "stale" ELSE sealed

\* The OEM mount is stopped; e2fsck and resize2fs write to the partition.
ResizeFS ==
  /\ ~FSResizeUnneeded
  /\ NewFSSize <= boot.oem.size
  /\ Goto("resizeFS", "remount")
  /\ oemFS' = NewFSSize
  /\ sealed' = Stale
  /\ UNCHANGED <<procVars, dirVars, priority, copied, grub, histVars,
                 worldVars>>

\* e2fsck has run; resize2fs refuses a size larger than the device.
ResizeFSFails ==
  /\ ~FSResizeUnneeded
  /\ NewFSSize > boot.oem.size
  /\ Fail("resizeFS")
  /\ sealed' = Stale
  /\ UNCHANGED <<priority, copied, oemFS, grub>>

\* Mutation: a failure to start the OEM mount is ignored.
OEMMountMaskedIgnored == FALSE

\* systemd refuses to start a unit masked on the booted command line.
OEMMountMasked == "usr-share-oem.mount" \in boot.masked

Remount      == ~OEMMountMasked /\ Pass("remount", "setup")
RemountFails == OEMMountMasked /\ Fail("remount") /\ UNCHANGED diskVars

-----------------------------------------------------------------------------
(* setup, executeSteps, stopServices and cleanup.                          *)

Setup == Pass("setup", "steps")

Current == mem.step + 1      \* the step at hand, counted from 1
AtStep(type) ==
  pc = "steps" /\ mem.step < NumSteps /\ conf.steps[Current] = type

\* The step at hand has run to its end.
StepEnds(from) ==
  /\ Goto(from, "stepDone")
  /\ runs' = [runs EXCEPT ![Current] = @ + 1]
  /\ UNCHANGED <<procVars, dirVars, reboots, worldVars>>

\* RunScript works in a directory that unpackBuildContexts made.
RunScript ==
  /\ AtStep("RunScript")
  /\ contexts # "absent"
  /\ StepEnds("steps") /\ UNCHANGED diskVars

\* The driver's and the Anthos installer's own scripts; what they install is
\* not part of this state.
InstallGPU ==
  AtStep("InstallGPU") /\ StepEnds("steps") /\ UNCHANGED diskVars

InstallPackages ==
  AtStep("InstallPackages") /\ StepEnds("steps") /\ UNCHANGED diskVars

\* A script without its directory, a hash tree without room on the device.
StepFails ==
  /\ \/ AtStep("RunScript") /\ contexts = "absent"
     \/ AtStep("SealOEM") /\ conf.fsSize >= boot.oem.size
  /\ Fail("steps") /\ UNCHANGED diskVars

\* DisableSystemdService adds the mask unless grub.cfg has it.
MaskUnit(unit) ==
  /\ grub' = [grub EXCEPT !.masked = @ \cup {unit}]
  /\ UNCHANGED <<priority, copied, oemFS, sealed>>

DisableAutoUpdate ==
  /\ AtStep("DisableAutoUpdate")
  /\ StepEnds("steps") /\ MaskUnit("update-engine.service")

\* SealOEM: veritysetup puts the hash tree behind the file system, with a new
\* salt, so that an entry for the tree before it is no longer of use.
SealFormat ==
  /\ AtStep("SealOEM")
  /\ conf.fsSize < boot.oem.size
  /\ pc' = "sealGrub"
  /\ sealed' = "valid"
  /\ grub' = [grub EXCEPT !.tree = IF @ = "none" THEN @ ELSE "old"]
  /\ UNCHANGED <<procVars, dirVars, priority, copied, oemFS, histVars,
                 worldVars>>

\* appendDMEntryToGRUB adds an entry after the others and sets the count to
\* '2', whatever it was: the kernel looks at the first OEM entry only.
SealGrub ==
  /\ Goto("sealGrub", "sealMaskUpdate")
  /\ grub' = [grub EXCEPT !.entries = @ + 1, !.count = 2,
                          !.tree = IF @ = "none" THEN "current" ELSE @]
  /\ UNCHANGED <<procVars, dirVars, priority, copied, oemFS, sealed,
                 histVars, worldVars>>

SealMaskUpdate ==
  /\ Goto("sealMaskUpdate", "sealMaskOEM")
  /\ MaskUnit("update-engine.service")
  /\ UNCHANGED <<procVars, dirVars, histVars, worldVars>>

SealMaskOEM == StepEnds("sealMaskOEM") /\ MaskUnit("usr-share-oem.mount")

\* Mutation: CurrentStep is written without having been incremented.
SaveStepUnchanged == BeginWrite("stepDone", mem, "steps")

\* CurrentStep++ and write, after the step.
SaveStep == BeginWrite("stepDone", [mem EXCEPT !.step = @ + 1], "steps")

\* Mutation: the last step is left out.
StepsDoneEarly == mem.step + 1 >= NumSteps /\ Pass("steps", "stopServices")

StepsDone    == mem.step >= NumSteps /\ Pass("steps", "stopServices")
StopServices == Pass("stopServices", "cleanup")

\* RemoveAll empties the state directory and then removes it.
CleanupEmpty == DirStep("cleanup", "rmdir", Empty, "absent")
\* Mutation: the state directory is emptied but stays.
CleanupKeepsDir == DirStep("rmdir", "scrub", Empty, contexts)

CleanupRmdir == DirStep("rmdir", "scrub", Missing, contexts)

\* The remaining files are removed: "BuildSucceeded" on the console.
Succeed ==
  /\ Goto("scrub", "ended")
  /\ outcome' = "succeeded"
  /\ UNCHANGED <<ret, mem, startSize, armed, dirVars, diskVars, histVars,
                 worldVars>>

\* Any command of the provisioner may fail, in every position.
CommandFails == \E p \in Running : Fail(p) /\ UNCHANGED diskVars

-----------------------------------------------------------------------------
(* The machine around the provisioner.                                     *)

\* After the outcome startup.sh waits up to five minutes, then shuts down.
Shutdown == Pass("ended", "poweroff")

\* The shutdown stops last-run.service, whose ExecStop is the hook.
Stopping == pc \in {"reboot", "poweroff"}

HookStart ==
  /\ Stopping /\ armed /\ hook = "idle"
  /\ hook' = "begin"
  /\ UNCHANGED <<table, startPoint, newState, faults>>

ShutdownHook ==
  /\ HookStart \/ (Stopping /\ HookStep)
  /\ cutShort' = (cutShort \/ (hook = "extend" /\ HookFault))
  /\ UNCHANGED <<pc, procVars, dirVars, diskVars, histVars, conf, diskEnd,
                 boot, asked, halfSealed, crashes>>

\* The kernel reads the table and the command line anew; memory is lost.
Reset ==
  /\ pc' = "startup"
  /\ ret' = "unpack"
  /\ mem' = NoMem
  /\ startSize' = 0
  /\ armed' = FALSE
  /\ outcome' = "none"
  /\ hook' = "idle"
  /\ startPoint' = 0
  /\ newState' = 0
  /\ boot' = [root |-> priority, oem |-> table["oem"],
              masked |-> grub.masked]
  /\ UNCHANGED <<dirVars, diskVars, histVars, conf, diskEnd, table, faults,
                 asked>>

HookFinished == armed => hook \in {"done", "error"}

\* Mutation: the services are started again without a boot of the kernel.
RebootKeepsKernel ==
  /\ pc = "reboot" /\ HookFinished
  /\ pc' = "startup"
  /\ mem' = NoMem /\ armed' = FALSE /\ hook' = "idle"
  /\ UNCHANGED <<ret, startSize, outcome, dirVars, diskVars, histVars, conf,
                 diskEnd, table, startPoint, newState, faults, boot, asked,
                 crashVars>>

Reboot ==
  /\ pc = "reboot" /\ HookFinished
  /\ Reset
  /\ UNCHANGED crashVars

PowerOff == HookFinished /\ Pass("poweroff", "off")

\* The VM is reset by the host, or by something outside the provisioner.
Crash ==
  /\ pc # "off"
  /\ crashes < MaxCrashes
  /\ crashes' = crashes + 1
  /\ cutShort' = (cutShort \/ hook = "extend")
  /\ halfSealed' =
       (halfSealed \/ (grub.entries > 1
                         /\ "usr-share-oem.mount" \notin grub.masked))
  /\ Reset

\* Daisy's resize-disk step, after it has seen the message on the console.
DaisyResize ==
  /\ asked
  /\ pc # "off"
  /\ diskEnd # GrownEnd
  /\ diskEnd' = GrownEnd
  /\ UNCHANGED <<pc, procVars, dirVars, diskVars, histVars, conf, hookVars,
                 boot, asked, crashVars>>

Stopped == pc = "off" /\ UNCHANGED vars

StartStep ==
  \/ Startup \/ InitStateMkdir \/ InitStateWrite \/ FinishWrite
  \/ UnpackBegin \/ UnpackEnd \/ LoadState \/ LoadStateFails

RepartitionStep ==
  \/ SwitchRootSkip \/ SwitchRootCopy \/ SwitchRootPrioritize
  \/ ShrinkSkip \/ ShrinkSDA3
  \/ WaitSkip \/ WaitReadSize \/ WaitAnnounce \/ WaitResized \/ WaitTimeout
  \/ RelocateSkip \/ RelocateArm \/ RelocateReboot
  \/ ResizeFSSkip \/ ResizeFS \/ ResizeFSFails \/ Remount \/ RemountFails

BuildStep ==
  \/ Setup \/ RunScript \/ InstallGPU \/ InstallPackages
  \/ DisableAutoUpdate \/ StepFails
  \/ SealFormat \/ SealGrub \/ SealMaskUpdate \/ SealMaskOEM
  \/ SaveStep \/ StepsDone
  \/ StopServices \/ CleanupEmpty \/ CleanupRmdir \/ Succeed

MachineStep == Shutdown \/ ShutdownHook \/ Reboot \/ PowerOff

VMStep == StartStep \/ RepartitionStep \/ BuildStep \/ MachineStep

Next == VMStep \/ CommandFails \/ Crash \/ DaisyResize \/ Stopped

Spec == Init /\ [][Next]_vars

\* The VM keeps running: nothing in it waits for another process for ever.
FairSpec == Spec /\ WF_vars(VMStep)

-----------------------------------------------------------------------------
(* Properties.                                                             *)

Completed(i) == runs[i] > 0
AllCompleted == \A i \in 1 .. NumSteps : Completed(i)

\* The promise of the provisioner, with the steps seen through their history.
Flow == INSTANCE ProvisioningFlow WITH
  total     <- NumSteps,
  completed <- {i \in 1 .. NumSteps : Completed(i)},
  status    <- IF pc = "off" THEN "off"
               ELSE IF outcome = "none" THEN "building" ELSE outcome

\* The provisioner implements it: first completions come in order, none is
\* forgotten, success comes after all of them (executeSteps and run, over
\* any sequence of reboots, crashes and failures).
FlowSpec == Flow!FlowSpec

\* What Daisy can tell of the VM: its position, with what is left of a reboot
\* once the provisioner has exited counted as booting, and of the disk whether
\* it has been enlarged.
Console == INSTANCE VMRun WITH
  waitSet    <- conf.wait,
  resized    <- diskEnd # ImageEnd,
  vm         <- CASE pc \in {"startup", "reboot"}  -> "booting"
                  [] pc = "announce"               -> "measured"
                  [] pc = "poll"                   -> "resizing"
                  [] pc \in {"ended", "poweroff"}  ->
                       IF outcome = "succeeded" THEN "watching" ELSE "failing"
                  [] pc = "off"                    -> "stopped"
                  [] OTHER                         -> "building",
  asked      <- asked /\ pc # "off",
  startSize  <- pc \in {"announce", "poll"} /\ startSize # ImageEnd,
  resizeDone <- mem.resized \/ file.data.resized

\* The provisioner implements the VM that DaisyWorkflow is about: it asks
\* before it waits and compares with what it read before that, never ends well
\* without the resize, and over any sequence of reboots forgets that the disk
\* has been enlarged only where the machine goes down unplanned
\* (waitForDiskResize, state.write, run_provisioner).
ConsoleSpec == Console!RunSpec

\* What a later boot will find written never runs ahead of the work: every
\* step below CurrentStep, in memory or in state.json, has run to its end
\* (executeSteps writes after the step, provisioner.go:310-317).
PersistedStepNotAhead ==
  /\ \A i \in 1 .. NumSteps : i <= mem.step => Completed(i)
  /\ file.kind = "ok" =>
       \A i \in 1 .. NumSteps : i <= file.data.step => Completed(i)

\* A step is run again only because the machine went down unplanned: the
\* reboots that the provisioner asks for never repeat one, since they all
\* come before the steps (run, provisioner.go:343-363).
RepeatsNeedACrash == \A i \in 1 .. NumSteps : runs[i] <= 1 + crashes

\* BuildSucceeded is printed only for an image on which every step has run,
\* the partitions are where the configuration wants them, and the state
\* directory is gone (run and cleanup).
SuccessIsComplete ==
  outcome = "succeeded" =>
    AllCompleted /\ ~NeedsRelocation /\ file = Missing

\* sda3 is given up only once the machine runs from sda5 and will boot from
\* it, and only a complete copy is booted (switchRoot before shrinkSDA3).
RunningRootIntact ==
  /\ priority = "sda5" => copied
  /\ table["sda3"] # InitTable["sda3"] \/ (armed /\ conf.reclaim) =>
        boot.root = "sda5" /\ priority = "sda5"

\* The partitions that follow sda3 stay where they are until the disk has
\* been enlarged, if an enlargement is coming (waitForDiskResize before
\* relocatePartitions).
RelocationAfterResize ==
  conf.wait /\ (armed \/ table["state"] # InitTable["state"]) =>
    diskEnd = GrownEnd

\* e2fsck, resize2fs and veritysetup address /dev/sda8 through the kernel,
\* which only rereads the table at boot: whenever they run on a relocated
\* OEM partition, what the kernel knows is what the table says.
KernelSeesOEM ==
  pc \in {"resizeFS", "remount", "setup", "steps", "stepDone", "sealGrub",
          "sealMaskUpdate", "sealMaskOEM"} => boot.oem = table["oem"]

\* The OEM file system never reaches past its partition, and a valid hash
\* tree lies between its end and the end of the partition (resize2fs to
\* OEMFSSize4K, veritysetup --hash-offset).
HashTreeHasRoom ==
  /\ oemFS <= table["oem"].size
  /\ sealed = "valid" => oemFS <= conf.fsSize /\ conf.fsSize < table["oem"].size

Seals == Cardinality({i \in 1 .. NumSteps : conf.steps[i] = "SealOEM"})

\* An image reported as good either does not seal the OEM partition or has
\* not had it written to since the hash tree was computed, and has its root
\* hash where the kernel looks for it: a resumed build that fscks a sealed
\* partition must fail (resizeOEMFileSystem on resume).  The exception is a
\* hash tree that has been made anew, whose entry comes too late in the line
\* (appendDMEntryToGRUB).
SealedImageVerifies ==
  outcome = "succeeded" /\ Seals > 0 =>
    /\ sealed = "valid"
    /\ "usr-share-oem.mount" \in grub.masked
    /\ grub.tree = "current" \/ grub.entries > 2

\* An attempt at relocation stopped after it had moved the stateful partition
\* and before it moved the OEM partition.
HalfRelocated ==
  /\ ~conf.reclaim
  /\ table["state"] # InitTable["state"]
  /\ ~OEMAfterSDA3

\* Repartitioning asks for at most three reboots (root switch, sda3 shrink,
\* relocation); only an unplanned restart or a failed edit adds to them,
\* each at most one, as long as the next attempt finds what the first found.
RebootsAreBounded ==
  ~HalfRelocated => reboots <= 3 + crashes + faults

\* Every build ends, with an outcome on the console and the power off: no
\* sequence of reboots, timeouts and failed commands keeps the VM up.  The
\* one exception is a build without sda3 reclaim that stays half relocated.
Terminates == <>(pc = "off") \/ <>[]HalfRelocated

One(condition) == IF condition THEN 1 ELSE 0

\* How many steps a boot can still take from where it is, with what the hook
\* has left to do when the machine goes down.
StepsToDo == NumSteps - mem.step
HookLeft ==
  [idle |-> 5, begin |-> 4, stateOnly |-> 3, state |-> 3, oem |-> 2,
   extend |-> 1, done |-> 0, error |-> 0][hook]
PlaceLeft ==
  LET all == 6 * NumSteps
      todo == 6 * StepsToDo
  IN  [off |-> 0, poweroff |-> 1 + HookLeft, ended |-> 7, scrub |-> 8,
       rmdir |-> 9, cleanup |-> 10, stopServices |-> 11,
       stepDone |-> 8 + todo, sealMaskOEM |-> 9 + todo,
       sealMaskUpdate |-> 10 + todo, sealGrub |-> 11 + todo,
       steps |-> 12 + todo, setup |-> 13 + todo, remount |-> 14 + todo,
       resizeFS |-> 15 + todo, journal |-> 16 + todo,
       relocate |-> 17 + todo, poll |-> 19 + todo, announce |-> 20 + todo,
       readSize |-> 21 + todo, shrink |-> 22 + todo,
       prioritize |-> 23 + todo, switchRoot |-> 24 + todo,
       load |-> 25 + all, extract |-> 25 + all, unpack |-> 26 + all,
       create |-> 28 + all, mkdir |-> 29 + all, startup |-> 30 + all,
       reboot |-> 31 + all + HookLeft,
       write |-> [steps |-> 13 + todo, relocate |-> 18 + todo,
                  unpack |-> 27 + all][ret]][pc]

\* Three reboots, one more for each crash and each failed edit, and the
\* boots that follow the crashes, each of fewer steps than BootLength.
BootsLeft ==
  (3 + MaxCrashes + MaxFaults - reboots) + (MaxCrashes - crashes)
BootLength == 37 + 6 * NumSteps
StepsLeft == BootsLeft * BootLength + PlaceLeft + One(diskEnd # GrownEnd)

\* A build cannot go on for ever: whatever the VM does, fails at or is
\* interrupted in, fewer steps are left after it, down to none.  The wait of
\* repartitioning for reboots, the executeSteps loop and the hook all come to
\* their end (run, provisioner.go:343-363), half relocated disks apart.
EndComesNearer ==
  [][~HalfRelocated' => StepsLeft' \in 0 .. (StepsLeft - 1)]_vars

\* Every build of an OEM size that the documentation allows ends ("this
\* value must be no smaller than 16MB", README.md:248).
AllowedSizesEnd == <>(pc = "off")

\* An interrupted build ends too: "The stateDir allows the provisioning flow
\* to be interrupted (e.g. by a reboot) and resumed" (provisioner.go:366).
InterruptedBuildsEnd == <>(pc = "off")

\* "Check if OEM partition is after sda3; if so, then we're done"
\* (disk_layout.go:195): then the OEM partition also reaches up to the
\* stateful one, the last thing HandleDiskLayout sees to, whatever attempts,
\* failed edits and crashes there were before.  The one exception is an
\* attempt that stopped just before the last edit, which that check does not
\* notice.
RelocatedIsExtended ==
  pc = "resizeFS" /\ conf.oemSize # 0 /\ ~cutShort =>
    After(table, "oem") = table["state"].start

\* "add number of entries" (seal_oem_partition.go:202): the number in grub.cfg
\* is that of its entries, although the code always writes the same one and
\* does not look for earlier entries.  It takes two seals in a configuration,
\* or a crash inside the seal, between its entry and its last mask, for it to
\* be wrong: after any other crash, also one that loses CurrentStep, the mask
\* of the OEM mount keeps the next boot from the steps.
DMCountIsRight ==
  Seals <= 1 /\ ~halfSealed => grub.count = grub.entries

\* "The stateDir allows the provisioning flow to be interrupted (e.g. by a
\* reboot) and resumed" (provisioner.go:366-367): a script that runs has its
\* whole build context, also after an interruption.
ScriptsSeeWholeContext == AtStep("RunScript") => contexts = "whole"
=============================================================================
