---------------------------- MODULE BuildSession ----------------------------
(***************************************************************************)
(* A session of cos_customizer (src/cmd/cos_customizer): start-image-build *)
(* creates an archive and three files in the persistent directory, the     *)
(* commands in between each add a step to the provisioner config, and      *)
(* finish-image-build uploads what the VM needs, runs Daisy, deprecates    *)
(* old images and removes everything.  Commands come one at a time, in any *)
(* order; any of them may fail in any position or be killed there, and may *)
(* be issued again.  Someone else may create an image of the same name.    *)
(*                                                                         *)
(* What Daisy's VM does with the steps is Provisioner; whether validateOEM *)
(* accepts the sizes is OemSizing, here finish-image-build may just fail.  *)
(*                                                                         *)
(* pc is the position in the current command:                              *)
(*   idle                                                                  *)
(*   archive create fill           start-image-build                       *)
(*   load gpuTruncate gpuFill truncate provFill      adding a step         *)
(*   read check upload rewrite refill daisy gcsCleanup deprecate cleanup   *)
(*                                 finish-image-build                      *)
(***************************************************************************)
EXTENDS Naturals, Sequences

CONSTANTS
  PlainTypes,   \* bound: the kinds of step issued besides InstallGPU
  Dirs,         \* directories that -deps-dir may name
  NoDir,        \* no -deps-dir
  DepNames,     \* the base names of the files in each directory
  Foreign,      \* objects of others whose names begin like managedDir
  MaxCommands,  \* bound: commands issued
  MaxKills      \* bound: commands killed

ASSUME SessionAssumption ==
  /\ PlainTypes \subseteq
       {"RunScript", "InstallPackages", "SealOEM", "DisableAutoUpdate"}
  /\ NoDir \notin Dirs
  /\ DOMAIN DepNames = Dirs
  \* The files of a directory are stored under gcs_files/.
  /\ \A d \in Dirs : "user_build_context.tar" \notin DepNames[d]
  /\ MaxCommands \in Nat /\ MaxKills \in Nat

StepConfigs ==
  [type : PlainTypes, dir : {NoDir}]
    \cup [type : {"InstallGPU"}, dir : Dirs \cup {NoDir}]

ReclaimingTypes == {"SealOEM", "DisableAutoUpdate"}

\* No -disk-size-gb above 10; one with -oem-size, or without.
DiskFlags == {"default", "large", "largeWithOEM"}

NoStep == [type |-> "none", dir |-> NoDir]

FileNames == {"image", "build", "prov"}

VARIABLES
  archive,   \* the build context archive: absent, partial or whole
  files,     \* each file: absent, corrupt (truncated), ok
  build,     \* the contents of the build config when it is ok
  prov,      \* the contents of the provisioner config when it is ok
  pc,
  target,    \* the file that start-image-build is at
  step,      \* the step that the current command adds
  disk,      \* the flags of finish-image-build: see NeedDiskResize
  bucket,    \* objects in GCS: their names and where they came from
  output,    \* who made the image with the output name: none, ours, others
  deprecated,  \* old images of the family have been deprecated
  verdict,   \* what finish-image-build is going to return
  done,      \* history: the steps of the commands that succeeded
  started,   \* history: start-image-build has written all of its files
  commands, kills

localVars == <<target, step, disk>>
fileVars  == <<archive, files, build, prov>>
history   == <<done, started>>
worldVars == <<bucket, output, deprecated>>
vars == <<fileVars, pc, localVars, worldVars, verdict, done, started,
          commands, kills>>

EmptyBuild == [gpu |-> FALSE, dirs |-> {}]
EmptyProv  == [steps |-> <<>>, reclaim |-> FALSE, wait |-> FALSE]

\* Objects of this session, in the managed directory of its workdir.
Object(name, from) == [name |-> name, from |-> from]
ArchiveObject == Object("user_build_context.tar", NoDir)
DepObjects(dir) == {Object(n, dir) : n \in DepNames[dir]}
\* A name has one object.
Storable(new) ==
  \A o, n \in new : o.name = n.name => o = n

ManagedObjects == {ArchiveObject} \cup UNION {DepObjects(d) : d \in Dirs}

Positions ==
  {"idle", "archive", "create", "fill", "load", "gpuTruncate", "gpuFill",
   "truncate", "provFill", "read", "check", "upload", "rewrite", "refill",
   "daisy", "gcsCleanup", "deprecate", "cleanup"}

TypeOK ==
  /\ archive \in {"absent", "partial", "whole"}
  /\ files \in [FileNames -> {"absent", "corrupt", "ok"}]
  /\ build \in [gpu : BOOLEAN, dirs : SUBSET Dirs]
  /\ prov \in [steps : Seq(StepConfigs), reclaim : BOOLEAN, wait : BOOLEAN]
  /\ pc \in Positions
  /\ target \in FileNames
  /\ step \in StepConfigs \cup {NoStep}
  /\ disk \in DiskFlags
  /\ bucket \subseteq ManagedObjects \cup Foreign
  /\ output \in {"none", "ours", "others"}
  /\ deprecated \in BOOLEAN
  /\ verdict \in {"none", "success", "failure"}
  /\ done \in Seq(StepConfigs) /\ started \in BOOLEAN
  /\ commands \in 0 .. MaxCommands
  /\ kills \in 0 .. MaxKills

\* An earlier session may have left objects of its GPU files behind.
Init ==
  /\ archive = "absent"
  /\ files = [f \in FileNames |-> "absent"]
  /\ build = EmptyBuild
  /\ prov = EmptyProv
  /\ pc = "idle"
  /\ target = "image"
  /\ step = NoStep
  /\ disk = "default"
  /\ \E left \in SUBSET (ManagedObjects \ {ArchiveObject}) :
       Storable(left) /\ bucket = Foreign \cup left
  /\ output = "none"
  /\ deprecated = FALSE
  /\ verdict = "none"
  /\ done = <<>>
  /\ started = FALSE
  /\ commands = 0
  /\ kills = 0

-----------------------------------------------------------------------------
Goto(from, to) == pc = from /\ pc' = to

\* A command begins.
Begin(first) ==
  /\ Goto("idle", first)
  /\ commands < MaxCommands
  /\ commands' = commands + 1
  /\ verdict' = "none"
  /\ target' = "image"
  /\ UNCHANGED <<fileVars, worldVars, history, kills>>

IssueStart  == Begin("archive") /\ step' = NoStep /\ disk' = "default"
IssueAdd    == Begin("load") /\ step' \in StepConfigs /\ disk' = "default"
IssueFinish == Begin("read") /\ step' = NoStep /\ disk' \in DiskFlags

Files(contents) == files' = contents /\ UNCHANGED <<commands, kills>>
SetFile(name, kind) == Files([files EXCEPT ![name] = kind])

(* start-image-build.                                                      *)

\* CreateBuildContextArchive refuses an archive that exists.
StartArchive ==
  /\ Goto("archive", "create")
  /\ archive = "absent"
  /\ archive' = "whole"
  /\ done' = <<>> /\ started' = FALSE
  /\ UNCHANGED <<files, build, prov, localVars, worldVars, verdict, commands,
                 kills>>

\* tar fails, and leaves what it has written.
StartArchiveBreaks ==
  /\ Goto("archive", "idle")
  /\ archive = "absent"
  /\ archive' = "partial"
  /\ UNCHANGED <<files, build, prov, localVars, worldVars, verdict, history,
                 commands, kills>>

\* saveImage, saveBuildConfig and saveProvConfig: create, then write.
StartCreate ==
  /\ Goto("create", "fill")
  /\ SetFile(target, "corrupt")
  /\ UNCHANGED <<archive, build, prov, localVars, worldVars, verdict, history>>

StartFill ==
  /\ pc = "fill"
  /\ SetFile(target, "ok")
  /\ CASE target = "image" -> target' = "build" /\ pc' = "create"
       [] target = "build" -> target' = "prov" /\ pc' = "create"
       [] target = "prov"  -> target' = "image" /\ pc' = "idle"
  /\ build' = IF target = "build" THEN EmptyBuild ELSE build
  /\ prov' = IF target = "prov" THEN EmptyProv ELSE prov
  /\ started' = (started \/ target = "prov")
  /\ UNCHANGED <<archive, step, disk, worldVars, verdict, done>>

(* run-script, install-gpu, install-packages, seal-oem and                 *)
(* disable-auto-update.                                                    *)

HasStep(config, type) ==
  \E i \in DOMAIN config.steps : config.steps[i].type = type

\* Mutation: a second install-gpu is let through.
StepIsValidAlways == step.type = "RunScript" => archive # "absent"

\* The script is looked up in the archive; install-gpu is checked against
\* the steps that there are.
StepIsValid ==
  /\ step.type = "RunScript" => archive # "absent"
  /\ step.type = "InstallGPU" => ~HasStep(prov, "InstallGPU")

\* Mutation: install-gpu does not touch the build config.
AddLoadSkipsBuild ==
  /\ Goto("load", "truncate")
  /\ files["prov"] = "ok"
  /\ StepIsValid
  /\ UNCHANGED <<fileVars, localVars, worldVars, verdict, history, commands,
                 kills>>

\* install-gpu saves the build config before the provisioner config.
AddLoad ==
  /\ Goto("load",
          IF step.type = "InstallGPU" THEN "gpuTruncate" ELSE "truncate")
  /\ files["prov"] = "ok"
  /\ StepIsValid
  /\ UNCHANGED <<fileVars, localVars, worldVars, verdict, history, commands,
                 kills>>

\* updateBuildConfig reads the file before SaveConfigToFile truncates it.
GPUTruncate ==
  /\ Goto("gpuTruncate", "gpuFill")
  /\ files["build"] = "ok"
  /\ SetFile("build", "corrupt")
  /\ UNCHANGED <<archive, build, prov, localVars, worldVars, verdict, history>>

\* Mutation: no -deps-dir is taken for a directory.
GPUFillUnasked ==
  /\ Goto("gpuFill", "truncate")
  /\ SetFile("build", "ok")
  /\ build' = [gpu |-> TRUE, dirs |-> build.dirs \cup {step.dir}]
  /\ UNCHANGED <<archive, prov, localVars, worldVars, verdict, history>>

GPUFill ==
  /\ Goto("gpuFill", "truncate")
  /\ SetFile("build", "ok")
  /\ build' = [gpu |-> TRUE, dirs |-> build.dirs \cup ({step.dir} \ {NoDir})]
  /\ UNCHANGED <<archive, prov, localVars, worldVars, verdict, history>>

ProvTruncate ==
  /\ Goto("truncate", "provFill")
  /\ files["prov"] # "absent"
  /\ SetFile("prov", "corrupt")
  /\ UNCHANGED <<archive, build, prov, localVars, worldVars, verdict, history>>

\* Mutation: the new step goes first.
ExtendedInFront(config) ==
  [config EXCEPT !.steps = <<step>> \o @,
                 !.reclaim = @ \/ step.type \in ReclaimingTypes]

\* seal-oem and disable-auto-update also have sda3 reclaimed.
Extended(config) ==
  [config EXCEPT !.steps = Append(@, step),
                 !.reclaim = @ \/ step.type \in ReclaimingTypes]

\* The file is written; closing it may still fail the command.
ProvFill ==
  /\ Goto("provFill", "idle")
  /\ SetFile("prov", "ok")
  /\ prov' = Extended(prov)
  /\ done' \in {done, Append(done, step)}
  /\ UNCHANGED <<started, archive, build, localVars, worldVars, verdict>>

(* finish-image-build.                                                     *)

\* A return from finish-image-build, by way of the deferred clean-ups.
Return(from, to, result) ==
  /\ Goto(from, to)
  /\ verdict' = result
  /\ UNCHANGED <<fileVars, localVars, bucket, history, commands, kills>>

\* loadConfigs needs all three files.
FinishRead ==
  /\ Goto("read", "check")
  /\ \A f \in FileNames : files[f] = "ok"
  /\ UNCHANGED <<fileVars, localVars, worldVars, verdict, history, commands,
                 kills>>

\* ImageExists: a result image that is there already is a success.
FinishExists ==
  output # "none" /\ Return("check", "cleanup", "success")
    /\ UNCHANGED <<output, deprecated>>

FinishAbsent ==
  /\ Goto("check", "upload")
  /\ output = "none"
  /\ UNCHANGED <<fileVars, localVars, worldVars, verdict, history, commands,
                 kills>>

\* Mutation: files of the same name are not noticed.
CollidesNever == FALSE

\* storeInGCS: two files with the same relative path in GCS.
Collides ==
  \E d, e \in build.dirs : d # e /\ DepNames[d] \cap DepNames[e] # {}

Uploads == {ArchiveObject} \cup UNION {DepObjects(d) : d \in build.dirs}

\* Writing an object replaces what has its name; the order is that of a map.
Stored(new) ==
  {o \in bucket : \A n \in new : n.name # o.name} \cup new

StoreInGCS ==
  /\ Goto("upload", "rewrite")
  /\ ~Collides
  /\ archive # "absent"
  /\ \E new \in SUBSET Uploads :
       /\ \A u \in Uploads : \E n \in new : n.name = u.name
       /\ Storable(new)
       /\ bucket' = Stored(new)
  /\ UNCHANGED <<fileVars, localVars, output, deprecated, verdict, history,
                 commands, kills>>

StoreFails ==
  /\ Goto("upload", "gcsCleanup")
  /\ \E new \in SUBSET (IF Collides THEN {} ELSE Uploads) :
       Storable(new) /\ bucket' = Stored(new)
  /\ verdict' = "failure"
  /\ UNCHANGED <<fileVars, localVars, output, deprecated, history, commands,
                 kills>>

\* Daisy is to enlarge the disk while the VM relocates partitions.
NeedDiskResize ==
  \/ disk = "largeWithOEM"
  \/ disk = "large" /\ prov.reclaim

\* updateProvConfig saves the provisioner config for the VM once more.
RewriteProv ==
  /\ Goto("rewrite", "refill")
  /\ SetFile("prov", "corrupt")
  /\ UNCHANGED <<archive, build, prov, localVars, worldVars, verdict, history>>

RefillProv ==
  /\ Goto("refill", "daisy")
  /\ SetFile("prov", "ok")
  /\ prov' = [prov EXCEPT !.wait = @ \/ NeedDiskResize]
  /\ UNCHANGED <<archive, build, localVars, worldVars, verdict, history>>

\* Daisy creates the image and ends well.
DaisySucceeds ==
  /\ output = "none"
  /\ output' = "ours"
  /\ Return("daisy", "gcsCleanup", "success")
  /\ UNCHANGED deprecated

\* Mutation: the error of Daisy is dropped.
DaisyFailsUnnoticed ==
  /\ output' = output
  /\ Return("daisy", "gcsCleanup", "success")
  /\ UNCHANGED deprecated

\* Daisy ends with an error, at the worst after it has created the image.
DaisyFails ==
  /\ output' \in {output} \cup (IF output = "none" THEN {"ours"} ELSE {})
  /\ Return("daisy", "gcsCleanup", "failure")
  /\ UNCHANGED deprecated

\* cleanup lists by the prefix managedDir, without a slash at its end; it
\* stops at the first error, which the caller drops.
GCSCleanup ==
  /\ Goto("gcsCleanup", IF verdict = "success" THEN "deprecate" ELSE "cleanup")
  /\ bucket' \in SUBSET bucket
  /\ UNCHANGED <<fileVars, localVars, output, deprecated, verdict, history,
                 commands, kills>>

\* DeprecateInFamily, if it was asked for.
Deprecate ==
  /\ deprecated' \in {deprecated, TRUE}
  /\ Return("deprecate", "cleanup", "success")
  /\ UNCHANGED output

\* Some of the images may have been deprecated.
DeprecateFails ==
  /\ deprecated' \in {deprecated, TRUE}
  /\ Return("deprecate", "cleanup", "failure")
  /\ UNCHANGED output

\* The deferred CleanupAllPersistent; an error of it is dropped, too.
Cleanup ==
  /\ Goto("cleanup", "idle")
  /\ archive' \in {archive, "absent"}
  /\ \E left \in SUBSET FileNames :
       Files([f \in FileNames |-> IF f \in left THEN files[f] ELSE "absent"])
  /\ UNCHANGED <<build, prov, localVars, worldVars, verdict, history>>

-----------------------------------------------------------------------------
\* A command fails where it is: nothing more is written.  After its first
\* statement finish-image-build returns through the clean-ups it deferred.
CommandFails ==
  \/ /\ \E p \in {"archive", "create", "fill", "load", "gpuTruncate",
                  "gpuFill", "truncate", "provFill"} : Goto(p, "idle")
     /\ UNCHANGED <<fileVars, localVars, worldVars, verdict, history,
                    commands, kills>>
  \/ /\ \/ Return("read", "cleanup", "failure")
        \/ Return("check", "cleanup", "failure")
        \/ \E p \in {"rewrite", "refill"} : Return(p, "gcsCleanup", "failure")
     /\ UNCHANGED <<output, deprecated>>

\* The container of the command goes away; nothing deferred is run.
Killed ==
  /\ pc # "idle" /\ pc' = "idle"
  /\ kills < MaxKills
  /\ kills' = kills + 1
  /\ verdict' = "none"
  /\ UNCHANGED <<fileVars, localVars, worldVars, history, commands>>

\* Another build makes an image with the output name.
OtherImage ==
  /\ output = "none"
  /\ output' = "others"
  /\ UNCHANGED <<fileVars, pc, localVars, bucket, deprecated, verdict,
                 history, commands, kills>>

SessionEnds == pc = "idle" /\ UNCHANGED vars

Next ==
  \/ IssueStart \/ IssueAdd \/ IssueFinish
  \/ StartArchive \/ StartArchiveBreaks \/ StartCreate \/ StartFill
  \/ AddLoad \/ GPUTruncate \/ GPUFill \/ ProvTruncate \/ ProvFill
  \/ FinishRead \/ FinishExists \/ FinishAbsent \/ StoreInGCS \/ StoreFails
  \/ RewriteProv \/ RefillProv \/ DaisySucceeds \/ DaisyFails
  \/ GCSCleanup \/ Deprecate \/ DeprecateFails \/ Cleanup
  \/ CommandFails \/ Killed \/ OtherImage \/ SessionEnds

Spec == Init /\ [][Next]_vars

-----------------------------------------------------------------------------
(* Properties.                                                             *)

\* s is t with some elements left out.
IsSubSequence(s, t) ==
  \E f \in [DOMAIN s -> DOMAIN t] :
    /\ \A i, j \in DOMAIN s : i < j => f[i] < f[j]
    /\ \A i \in DOMAIN s : s[i] = t[f[i]]

\* No step of a command that reported success is lost or changes its place,
\* whatever commands failed or were killed in between: the VM runs the steps
\* in the order of the commands (SaveConfigToPath after every command).
StepsAreKept ==
  files["prov"] = "ok" => IsSubSequence(done, prov.steps)

\* "install-gpu can only be invoked once in an image build process", and the
\* VM that is to install drivers has a GPU: the build config is saved first
\* (InstallGPU.Execute, install_gpu.go:294-304).
GPUStepHasGPU ==
  started /\ files["prov"] = "ok" /\ HasStep(prov, "InstallGPU") =>
    /\ files["build"] = "ok" => build.gpu
    /\ \A i, j \in DOMAIN prov.steps :
         prov.steps[i].type = "InstallGPU" /\ prov.steps[j].type = "InstallGPU"
           => i = j

\* When Daisy starts, the VM finds in GCS the build context and the files of
\* the directory that its install-gpu step was given, and not files of the
\* same name from an earlier attempt with another directory (storeInGCS).
DepsAreThere ==
  started /\ pc = "daisy" =>
    /\ ArchiveObject \in bucket
    /\ \A i \in DOMAIN prov.steps :
         prov.steps[i].dir # NoDir =>
           DepObjects(prov.steps[i].dir) \subseteq bucket

\* "We need to resize the disk during provisioning if: 1. The requested disk
\* size is larger than default, and 2. Partitions need to be relocated"
\* (preload.go:71-74): the VM waits for a resize exactly when the workflow that
\* writeDaisyWorkflow has made will do one.
WaitIsAnswered ==
  started /\ pc = "daisy" => (prov.wait <=> NeedDiskResize)

\* Old images are only deprecated in favour of an image that this build has
\* made, whoever else makes one of the same name meanwhile.
DeprecationFollows == deprecated => output = "ours"

\* "cleanup cleans up the managed directory" (gcs.go:69): objects of others
\* stay.
OthersObjectsStay == Foreign \subseteq bucket
=============================================================================
