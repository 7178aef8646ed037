# A specification of cos-customizer

cos-customizer makes a customized Container-Optimized OS image. A user runs a
series of commands (`start-image-build`, then steps such as `run-script` or
`seal-oem`, then `finish-image-build`); the last one hands a description of
the build to Daisy, which boots a VM from the source image; on the VM the
provisioner repartitions the boot disk across several reboots, runs the
steps, and shuts down; Daisy makes the image from the disk, and the other
images of its family may be deprecated. The modules here model that in TLA+,
TLC checks them on small instances, and TLAPS proves every safety property
that the passing runs check for all values of the constants.

Paths below are relative to `src/` inside the repository, as in
`src/pkg/provisioner`.

## 1. The system

| Part | State it keeps | Operations | Interacts with |
|---|---|---|---|
| Build commands (`cmd/cos_customizer`) | none of its own; a container per command | start, run-script, install-packages, install-gpu, seal-oem, disable-auto-update, finish | local state, Compute Engine, preloader |
| Local state (`pkg/config`, `pkg/fs`) | build context archive; files `source_image`, `build`, `provisioner` | create, truncate and write, remove all | every command |
| Size computation (`finish_image_build.go`, `partutil/helpers.go`) | `BootDisk` of the provisioner config | validate, validateOEM, needDiskResize | the provisioner obeys what it decides |
| Preloader and GCS directory (`pkg/preloader`) | objects below `<workdir>/cos-customizer` | store, rewrite config, write workflow, run Daisy, clean up | GCS, Daisy, the VM reads the objects |
| Compute Engine client (`pkg/gce`) | images of a family, operations on them | ImageExists, DeprecateInFamily, ResolveMilestone | other builds in the project |
| Daisy workflow (`data/build_image.wf.json`) | VM, disks, the steps of the workflow | create, resize, wait on the serial port, stop, image | the VM's console, metadata |
| Startup script (`data/startup.yaml`), `metadata_watcher` | none | run or resume, reboot, report, shut down | serial port, `DaisyEnd` key |
| Provisioner (`pkg/provisioner`) | state directory with `state.json` and build contexts | switch root, shrink sda3, wait for resize, relocate, resize OEM file system, steps, clean up | disk, kernel, systemd, shutdown hook |
| Disk layout program (`cmd/handle_disk_layout`, `pkg/tools`, `partutil`) | the partition table | reclaim sda3, move stateful, move OEM, extend OEM | runs at shutdown, from a unit the provisioner arms |
| OEM sealing (`seal_oem_partition.go`, `grub_utils.go`) | hash tree, `grub.cfg` | veritysetup, append to the kernel command line | provisioner step |

What is hard in it:

* **Reboots and restarts.** The provisioner never knows whether it runs for
  the first time. Some progress is in `state.json`, some is read back from
  the partition table, and the two are written at different moments. The VM
  may be restarted between any two writes.
* **A program that runs during shutdown.** Relocation is done by the disk
  layout program after the provisioner has gone, in three edits that cannot
  be undone; its result is seen only by the next boot.
* **Two views of one disk.** The kernel knows the partition table of boot
  time; the tools change the one on the disk.
* **Daisy on the other end of a serial port.** Daisy and the VM only meet in
  text that one prints and the other polls for: Daisy every thirty, ten or two
  seconds, while the VM gives up on a resize after three minutes and shuts
  itself down five minutes after its verdict. Daisy may die, the VM may
  restart after it has said that it succeeded, the script may end without a word,
  and a user's script may print what Daisy looks for.
* **Several builds of one family.** Each lists the family, requests
  deprecations, and waits for operations that may end late or never; an image
  that is made between two lists is old to one build and new to the other.
* **Arithmetic.** Sizes are computed in bytes modulo 2^64 and gigabytes
  rounded up by one program, and in sectors rounded down to 4 KB by another;
  the second has no room if the first is wrong.
* **A directory as the only memory between commands**, written by truncating
  and writing, with a second file per command in the case of `install-gpu`.

What makes it correct, part by part: no step is skipped, and none repeated but
after a crash; success means that all is done; every build ends; the running
root is never given up; relocation is never refused halfway; the kernel's view
is right whenever a file system is touched; a sealed image verifies; an
accepted size fits; what the VM is given is what the commands that succeeded
asked for; an image is made only of a finished build, and its logs are
captured; every VM ends; and the newest image of a family stays usable.

## 2. The modules

```
DiskLayout <-- HandleDiskLayout <-- Provisioner --implements--> ProvisioningFlow
                     ^                  ^     \--implements--> VMRun
                     |                  |                        ^
  HandleDiskLayoutProofs <-- ProvisionerProofs                   |
                     ^                  ^                  DaisyWorkflow --implements--> DaisyRun
                     |        ProvisionerDiskProofs              ^
                     |                  ^               DaisyWorkflowProofs
                     |        ProvisionerRebootProofs
                     |
                     +----------------------\
HandleDiskLayout, OemSizing <-- SizedBuild <-- OemSizingProofs
BuildSession      <-- BuildSessionProofs
FamilyDeprecation <-- FamilyDeprecationProofs
```

(An arrow to the left or upwards is EXTENDS.) Each `MC*` module gives
constants for TLC.

**DiskLayout** has the partition table as a function from the four partitions
that matter (`oem` is sda8, `sda5` the second root, `sda3` the first, `state`
is sda1) to a start and a size in sectors, and `partutil`'s edits as pure operators:
`MinimizePartition`, `MovePartition`, `ExtendPartition`, `FindLast4KSector`.
`Fits` is what `sfdisk` accepts.

**HandleDiskLayout** is the program of that name. `hook` is its position,
`startPoint` and `newState` are its locals. `HookPlan` is everything up to
the first edit, the other steps are one edit each. `HookRefused` is an edit
that sfdisk refuses because it does not fit, `HookFault` one that fails for
any other reason; both leave the table as it is. `HookExtend` alone has an
error after its edit: `e2fsck` and `resize2fs` follow the write of the table
(`extend_partition.go:83-106`), and one of them may fail for a partition that
has been extended. `Invoke` starts the program again after an error, if
`NeedsRelocation` (the test of `relocatePartitions`) does not yet take the
table for relocated. `HookSpec` is the program alone, on any disk and with any
configuration, which is what is proved about; TLC runs it inside `SizedBuild` and
`Provisioner`, with the configurations and disks that it is really given.

**Provisioner** is the VM. Its position `pc` goes through `startup.sh`,
`initState` or `loadState`, the five functions of `repartitionBootDisk`, the
steps (one action for each of the five types) and the clean-up. A
`state.write` takes two steps, since the file is truncated first. The disk
keeps the table, `file` and `contexts` (the state directory), `priority`
(cgpt), `copied`, `oemFS`, `sealed`, `grub`; `boot` is what the running
system took from the disk at boot. `grub.tree` says whether the first dm entry
for the OEM partition, the one the kernel looks at, is of the hash tree that
is there. Shutdown disarms or runs the hook; `Crash` is a restart at any
moment; `CommandFails` is an error from whatever command is being run.
`DaisyResize` is Daisy's answer to the message, at any time after it or never.
`runs`, `crashes`, `reboots`, `cutShort` and `halfSealed` are history: how often
each step ended, the restarts of both kinds, and whether an attempt at
relocation stopped between moving and extending the OEM partition or a crash
came between the grub entry of a seal and the mask that follows it.

**ProvisioningFlow** is the abstract specification of the build: a set of
completed steps that grows in order, and a status. `Provisioner` implements it with
`completed` as the steps that ran at least once.

**VMRun** is the VM as Daisy can tell: where it is (`vm`), whether it has asked
for its disk to be enlarged (`asked`), whether the disk was larger already
when the VM read its size (`startSize`), and what it remembers of that
(`resizeDone`). `Provisioner` implements it: `resizeDone` is
`DiskResizeComplete` in memory or in `state.json`, and a reboot or a crash, a
truncated file and a lost one must together give what `AskForReboot` and
`GoDown` allow. `DaisyWorkflow` is built of its actions. So what is
checked of Daisy and the VM rests on the VM that `Provisioner` describes, and not on
a second guess of it.

**DaisyWorkflow** is Daisy beside the VM. `step`, `poll`, `workflow` and
`image` are Daisy's: each step of the workflow waits for those it depends on,
then has its call (`Effects`) or polls; every running step may fail or time
out. `vm`, `timer`, `port` and the variables of VMRun are the VM's: the script in
`startup.yaml`, action by action, with `MountFails` and `UnmountFails` where
errexit ends it. The two share `daisyEnd` (the metadata key) and
`resized`. `Tick` moves both clocks; it waits for polls that are due and steps
that can start. `early` is history: a BuildSucceeded was on the port before
the build had ended, from a user's script or from a build that a restart began
anew.

**DaisyRun** is what `finish-image-build` relies on of a run of Daisy:
the image is made at most once, while Daisy runs, and has been made when it
ends well. `DaisyWorkflow` implements it, and `BuildSession` makes its
image in the same way.

**OemSizing** follows `-oem-size` and `-disk-size-gb` through `validate`,
`loadConfigs`, `validateOEM`, `updateProvConfig` and `daisyArgs` (`disk`:
created with which size, enlarged to which); a size string is a number and a unit;
every operation wraps at `Word`.

**SizedBuild** is one size all the way: `OemSizing` on the workstation,
Daisy's disk, and then `HandleDiskLayout` on the VM with as many attempts as it takes.
The two programs share no variable. `LayoutBegins` is all that passes between them:
a string that the second program parses again and divides into sectors
(`OEMSectors`), and a disk that was created or enlarged to some size
(`DiskSectors`). `HandOverAssumption` says that the constants of both speak of
one image.

**BuildSession** is the commands on the local state. Each command is a
sequence of positions, one per write; it may fail at each (`CommandFails`,
with the deferred clean-ups of `finish-image-build`) or be killed at each
(`Killed`, without them). The contents of the GCS directory and the image with
the output name are part of the state, as other builds touch them.

**FamilyDeprecation** is `DeprecateInFamily` for several builds of a family at a
time: `pc`, `unread`, `todo`, `awaiting` and `late` are those of a build between its
image and its end (the list comes in pages, `ListPage`, which other builds and
operations come between), `ops` the operations that Compute Engine ends in any
order, at any time or never. A build that fails leaves its operations
behind, and may be repeated. `older`, `newest` and `raced` are history: which
images there were when an image was made, which was made last, and whether
one was made when another build had not ended its list of the family.

## 3. The runs

| Run | What it asks | States | Result |
|---|---|---|---|
| `provisioner` | twelve invariants, both refinements, does every step bring the end nearer, and does every build end? Eight kinds of build, two crashes, one failed edit, any command failing | 61,304 | holds, with one exception stated in `EndComesNearer` and `Terminates` |
| `small_oem` | does a build with the smallest allowed OEM size end? | | violated |
| `interrupted` | does a build with one crash and no failure end? | | violated |
| `part_context` | do scripts always see their whole build context? | | violated |
| `sized_build` | is anything refused on the VM that `finish-image-build` accepted, has the partition the size asked for, is there room for the hash tree, does the disk get its size and keep its end free, is a completed attempt complete? All sizes in all units, disk sizes, retries and two failed edits | 74,574 | holds |
| `sized_wraps` | has the partition the size that was asked for, even one too large for a word? | | violated |
| `session` | does what the VM gets agree with the commands that succeeded? | 2.29 million | holds |
| `session_foreign` | does the clean-up leave other objects alone? | | violated |
| `session_wait` | does the VM wait exactly if Daisy will resize? | | violated |
| `workflow` | what is the image made of, what has Daisy seen when the VM stops, is a resize noticed, does the VM end, is DaisyRun implemented? | 189,932 | holds |
| `family` | is a family deprecated when a build says so, does its newest image stay, does the wait end? | 90,608 | holds |
| `family_race` | are only old images deprecated? | | violated |

### Where the code does not do what it says

Each is a run that TLC finds violated, and quotes the line in its comment.

* `interrupted`: without sda3 reclaim, the new place of the
  stateful partition is computed from its current start, although the comment
  says the original start (`handle_disk_layout.go:31` and 174). After an attempt that stopped between the first two
  edits the next one asks for the OEM size once more. If the disk has no
  room for that, it fails and the VM reboots for ever; Daisy's timeout
  is what ends it.
* `small_oem`: `-oem-size=16M`, which the documentation allows, becomes 15M; the
  OEM partition is not moved, and the provisioner reboots for ever to move it.
* `sized_wraps`: `ConvertSizeToBytes` multiplies modulo 2^64
  (`helpers.go:68`), so that `-oem-size=17179869185G` is 1 GB. It is accepted with
  an 11 GB disk, and the build succeeds, with an OEM partition of 1 GB.
* `part_context`: a restart while the build contexts are unpacked is not noticed.
* `session_foreign`: the managed directory is listed by prefix without the slash.
* `session_wait`: `WaitForDiskResize` is never reset, so that it outlives a
  `finish-image-build` that was killed.
* `family_race`: `DeprecateInFamily` is said to deprecate "all of the old images"
  (`gce.go:138`); an image that another build makes between this build's
  image and the end of its list is newer, and is deprecated too.

Other properties hold but for cases that their definitions name; each
exception is a condition without which TLC finds it violated:

* `RelocatedIsExtended`: an attempt that stopped between the last two edits is
  taken for complete, and the build continues with the OEM partition
  unextended (`cutShort`). It holds whatever else fails, and wherever else the
  machine goes down.
* `DMCountIsRight`: with `seal-oem` given twice, or after a crash between the
  grub entry and the mask of the OEM mount (`halfSealed`), `SealOEM` adds an
  entry to one that is there, and the count is not that of the entries. After
  every other crash, those behind the mask included, it is: the build that
  resumes cannot start the OEM mount and fails before it seals again.
* `SealedImageVerifies`: `SealOEM` run twice leaves a first entry of a hash
  tree that has been overwritten.
* `RebootsAreBounded`, `EndComesNearer`, `Terminates`: not while half relocated (see `interrupted`).
* `AcceptedIsNotRefused`, `EndOfDiskIsSpared`: not for negative disk sizes, which
  pass for enormous ones, nor for OEM sizes that overflow (`Sound`), nor, without
  sda3 reclaim, after a failed edit (see `interrupted`). `HashTreePlanned` and
  `OEMIsAsAsked`: not for OEM sizes that overflow.
* `ImageIsComplete`, `FailureIsNoticed`: not after a BuildSucceeded that came
  `early`.
* `ResizeIsNoticed`: not after an unplanned restart. A VM that restarts after
  the resize and before `DiskResizeComplete` is written waits three
  minutes for a change that has happened, and fails.
* `VMEnds`: with Daisy dead, a VM may run on in the provisioner, or where a
  failed mount has ended the script.
* `NewestIsLive`: not if builds have `raced`.

### Bounds, and why they are enough

* The disk has 26 or 36 sectors instead of millions. The minimal size, the
  alignment and the margin are 2, 2 and 4, so that every comparison in the code has
  sizes on both sides of it and at it: OEM sizes odd and even, smaller,
  equal and larger than the partition, within and beyond what sda3 gives back.
  What depends on real sizes is proved instead (section 5).
* `MaxFaults`, `MaxCrashes`: two faults of the disk layout program reach each
  pair of its edits. Two crashes reach a crash in the recovery from a crash.
  `MCProvisioner` with three crashes, two faults and `MaxReboots` 9 has
  256,532 states and the same result.
* `MaxReboots` only stops the history counter. It is above the limit that
  `RebootsAreBounded` puts on it (3 + 2 + 1), so that a violation is seen.
* `MCConfigs` has one build of each kind that `validateOEM` and
  `updateProvConfig` can produce: no repartitioning, OEM only, reclaim only, both,
  sealing with and without `-oem-size` and twice, with and without a disk
  resize; between them they have every type of step.
* Sizes: a sector has 2 bytes, 4 KB are 4 sectors, a megabyte 8, a gigabyte 32,
  and `Word` is 1024 bytes. Forty numbers in five units lie on both sides of
  every limit and wrap several times over, and disk sizes go from -1 to
  9 GB, around the 3 GB of the image. Its OEM partition has 3 MB, of the 6 MB that
  sda3 gives back. As `validateOEM` writes whole megabytes, a size is always
  whole 4 KB here; `MCProvisioner` has the odd ones.
* Four commands are a whole session with two steps, or one with a step and a
  command repeated after it failed. One kill suffices for each property's
  worst case, as a killed command leaves nothing but the files that the state has.
  Two directories with one common and one other file name give all collisions.
  Objects of an earlier session may be in the bucket from the start. With five
  commands there are 15.8 million states and the same result.
* `workflow` has the times of the sources in units of two seconds, the largest
  that divides them all: polls every 15, 5 and 1 units, 90 for the resize and
  150 before the VM stops. One restart reaches each place of the VM; it may come
  at any of them, and the build that follows it is a whole one. `Breaks` and
  `ScriptLines` have both members, so that both commands may fail and scripts
  may print either text. With two
  restarts there are 297,399 states and the same result.
* `family` has one old image and two builds, so that each build has up to two
  operations and the builds can race either way. With two old images there are 1.9 million
  states and the same result.

Deadlock is checked in every run; where a system ends for good its
specification says so with a step that changes nothing.

Liveness runs check properties under the fairness of the next section, and a
run that is expected to be violated checks one property.

## 4. Fairness

`FairSpec` of `Provisioner` has weak fairness of `VMStep`: the provisioner,
systemd and `startup.sh` go on as long as they can. Failures, crashes and
Daisy's resize are not fair: they may never happen. The wait for the resize
ends by the timeout, which is part of `VMStep` (the loop in
`waitForDiskResize` is bounded by time, `disk_layout.go:157-186`). Under this
fairness `Terminates` says that the VM powers off, except that a build
without reclaim may stay half relocated, the case that `interrupted` shows.
Crashes are bounded in every instance; a VM that crashes for ever does not end.

`FairSpec` of `DaisyWorkflow` has weak fairness of the start and the polls of
every step, of the end of the workflow and the clean-up, which are Daisy's own
loop; of `StepFails` for every step, as a running step has a timeout
(`-default_timeout`, `preload.go:305`); of `Tick`; and of the two shutdowns, which
follow the verdict in a script that has nothing else to do. Nothing makes
the provisioner end, in which `DaisyWorkflow` differs from `Provisioner`: the
former must cope with a VM that reboots for ever, as `interrupted` and
`small_oem` do. No call of Daisy need succeed, and Daisy may die at any time.

`FairSpec` of `FamilyDeprecation` has weak fairness of the loops of one build and of its
deadline (`gce.go:97`). No operation need ever end, no build need be repeated.

## 5. What is proved

All safety and step properties of the passing runs, both refinements of `Provisioner` and
that of `DaisyWorkflow`, for all values of the constants that satisfy the named `ASSUME`s
of the modules. TLC evaluates these assumptions in the runs:

* `GeometryAssumption`, `ImageAssumption`, `DiskAssumption`,
  `ConfigAssumption` (a partition table that fits the disk, aligned, in the
  order of a COS image), `ProvisionerAssumption` (a disk never shrinks),
  `SealAssumption` (`validateOEM` gives a sealed build its sizes);
* `SizingAssumption` (units that divide each other, a default OEM size of three megabytes
  at least, which is that of `validateOEM`'s rounding);
* `HandOverAssumption` (the image of `OemSizing` and that of
  `HandleDiskLayout` are the same: its size in gigabytes is its end in sectors, sda3
  gives back what `validateOEM` counts on, and every size is a configuration);
* `SessionAssumption` (no file of a directory has the name of the archive);
* `WorkflowAssumption` (Daisy polls for the verdict more often than the VM's
  grace time);
* `FamilyAssumption` (builds make new images).

An invariant is seldom inductive as it stands; this is what was added, and why.

**HandleDiskLayout.** `NoRefusalAfterStateMove` says nothing about the table
before the first edit. `LayoutInv` adds that everything is aligned, that sda3
and sda5 stay in place, that the stateful partition lies after sda3, and how
`startPoint` and `newState` relate to the table at each position; the arithmetic
of rounding is in the lemmas at the head of `HandleDiskLayoutProofs`.
`AttemptInv` says at each position of an attempt where the partitions must be, for
`StateMoveFits` and `CompletedLayout`.

**Provisioner, the steps.** `ProgressInv` groups positions into phases
(early, steps, stepDone, late, ended, off) and says in each which steps have
run, and which have run no more often than there have been crashes. The kinds
of step (`Quiet`, `Loading`, ...) summarize sixty actions as far as progress
goes; each action is shown to be of one kind, and the invariant and `FlowSpec` are shown
for the kinds.

**Provisioner, the disk** (`ProvisionerDiskProofs`). `BootInv` ties the hook
to a shutdown that was prepared for it, so that the kernel and the table agree at
all other times and a relocation that was found done stays done; it gives
`KernelSeesOEM` and `SuccessIsComplete`. Over it come `RootInv` (sda3 is given
up only while running from sda5), `ResizeInv` (`DiskResizeComplete` implies the larger
disk; relocation waits for it), `FSInv` (file system and hash tree against the
partition, where a resize may have come between), `SealInv` (at each position, and for
what each resume will find: sealed, masked and found by the kernel, or
bound to fail), `LayoutInv` again with the resize of the disk in between
(`NothingRefusedInBuild`), `ExtendInv` (a table without a failed edit is moved
whole or not at all) and `CountInv` (the count against the entries: an entry
that an earlier boot has added came with the mask of the OEM mount, and a boot
with that mask does not get to the steps).

`MemInv` is for `ConsoleSpec`: where the provisioner may ask for a reboot,
`DiskResizeComplete` is in `state.json` if it is in memory; a truncated file
has lost it; and where it is read, memory has what the file had. From this
each action is an action of VMRun or changes nothing of it.

**Provisioner, the reboots** (`ProvisionerRebootProofs`).
`RebootsAreBounded` is proved under the hypothesis `BuildsFit`: each build
fits its disk, and an OEM size is larger than the partition (`small_oem` shows
what happens otherwise). That these are builds that `finish-image-build` accepts is
`AcceptedBuildsFit`, which proves both of `SizedBuild` for every sealed build
and every OEM size from 18M on. `BoundInv` pays for
each reboot with something that cannot be undone (root switched, sda3 minimal,
relocation done), with a crash or with a failed edit; `AimInv` says
what an attempt at relocation finds, so that one that neither fails nor crashes
reaches its aim.

**Provisioner, the end** (`ProvisionerRebootProofs`). `BuildsComeToAnEnd` is the safety half of
`Terminates`: `StepsLeft` is a number that each step makes smaller, so that
no sequence of reboots, resumes, crashes and repeated attempts goes on for ever.
It counts the boots that may still come (by `RebootsAreBounded`), each worth
as much as the longest way through a boot, and the way that is left in
this one (`PlaceLeft`, which depends on the steps still to run; `WorkInv` keeps
`CurrentStep` in range for that); Daisy's resize counts for one. The
hypothesis on `MaxReboots` only says that the history counter does not stop before the
bound. What remains to TLC is that the VM takes its next step, which is
fairness, and that there is one, which is `ENABLED`.

**OemSizing.** `SizingInv` says what each stage has established: the flag was
valid, the size is the flag's, and finally `Room`, which follows from rounding
up to gigabytes (`RoundsUp`) and down to megabytes (`Shrinks`). `HashInv` does
the same for the file system and the doubled size. `DiskHasItsSize` needs no
more than the conditions of the last stage.

**SizedBuild** (`OemSizingProofs`). `NeverRefused` joins the two programs: for every image,
alignment, size, unit and disk, an accepted build is never refused on the
VM, but for the cases that section 3 names. `BuildInv` is the invariants of both (`SizingInv`, `HashInv`, `LayoutInv`,
`AttemptInv`) and what ties them. `SizedInv`: what is written into the config is
whole megabytes, at most two of them fewer than were asked for. `HandedOver`: what the VM has is
what the flags came to. `FirstAttempt`: without sda3 reclaim and before a
failed edit nothing has moved when an attempt plans. `StatePlace`: the
stateful partition goes no further than the OEM size takes it. The step from the
check in gigabytes to the edits in sectors is one lemma, `RoomIsHandedOver`:
either the new partition ends before the stateful one, or the disk has the
room and a megabyte to spare, which is also `MegabyteIsSpared`. That
sizes are whole 4 KB, as megabytes are, is why `SizeIsAsAsked` has no
sector missing. `BuildIsTyped` needs no `NoWrap`: whatever a size wraps to
is a configuration that the layout program can take. `BuildKeepsPromises` has the
other properties of the run, from the same invariant. `AcceptedBuildsFit` is
what the proofs about reboots (above) assume of a configuration; no run lists it.

**BuildSession.** `StepInv` gives the steps their types at each position; `ConfigInv` relates the
files on disk to what the command at hand has read and which commands have
succeeded, and to where `install-gpu` stands between its two files; `CloudInv` says
what is in the bucket and whose the image is from the upload on.

**DaisyWorkflow.** `WorkflowInv` has three parts. `OrderInv` is what the
dependencies of the steps give. `RaceInv` compares the two clocks: as long as
the verdict has not been read the VM is up, and Daisy's next poll is due
before the VM's timer ends. `VerdictInv` says what a success that Daisy
has read means for the VM and the disk. `ResizeInv` orders the reading of the size, the
message and the resize for a VM that has not gone down unplanned.
`WorkflowImplementsRun` needs only that the image step makes the image.

**FamilyDeprecation.** `OlderInv` (an image that was there stays there),
`OwedInv` (a deprecation that a build owes is on a page still to come, on one
of its lists, or has happened), `ReachInv` (without a race a build lists and touches only older
images) and `NewestInv`.

Only model-checked: liveness (`Terminates`, `VMEnds`, `WaitEnds`), which the
prover cannot express. The violated runs need no proof.

## 6. What is not modelled

* Daisy's engine, Compute Engine, sfdisk, systemd and the kernel are external: they are modelled
  from how the code uses them, and are marked so in the map.
* `ResolveMilestone` and the lookup of the source image change no state; flag
  parsing, labels and licenses are carried through.
* The text of `grub.cfg`, shell scripts run by steps (they succeed or fail;
  the GPU and Anthos installers are such scripts), the
  copying of files, formats of images and archives.
* `sfdisk --move-data` is one step: a crash inside it leaves a file system
  that no code here can repair. So is the writing of `grub.cfg`: a torn one
  does not boot.
* What a step may write to the OEM partition after `SealOEM` is up to the user;
  the model only has the writes of the provisioner itself.
* A `RemoveAll` of the local state that stops halfway is followed, but what
  the next session then makes of the leftovers is only claimed once its
  `start-image-build` has succeeded (`started`).
* Two builds at a time in one GCS directory: nothing keeps them apart, and
  nothing promises that it does (`testing/parallel_test.yaml` gives each its
  own), so that a model would have nothing to check.
* `ExtendOEMPartition` is called by no command; the fakes and the test utilities are
  test doubles.

## 7. Plan

Done, in this order: DiskLayout, HandleDiskLayout, Provisioner,
ProvisioningFlow, OemSizing, BuildSession, DaisyWorkflow with DaisyRun,
FamilyDeprecation, VMRun, SizedBuild, and the proofs of section 5.

Left, in the order of what it would add:

1. `BuildSession` composed with `DaisyRun` and `FamilyDeprecation` by their
   actions, as `DaisyWorkflow` is with VMRun: today `finish-image-build`'s
   calls of Daisy and of Compute Engine agree with these modules by reading.
2. Downloads of build contexts (`state.go:75`): a truncated one would have to
   be told from a whole one, up to `tar`'s refusal of it.
3. A torn `grub.cfg`, with a model of what the boot loader does with it.
