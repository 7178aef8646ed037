---------------------------- MODULE DaisyWorkflow ----------------------------
(***************************************************************************)
(* One build of an image as Daisy sees it (src/data/build_image.wf.json,   *)
(* with the two steps that writeDaisyWorkflow fills in) beside the VM that *)
(* it makes, as the script in src/data/startup.yaml drives it.  The two    *)
(* only meet at the serial port, which Daisy polls, at the instance        *)
(* metadata, which the VM polls, at the size of the boot disk and at the   *)
(* status of the VM.  Daisy may die, any of its steps may fail or time     *)
(* out, the VM may restart, and two commands of the script may fail where  *)
(* errexit ends it without a word.                                         *)
(*                                                                         *)
(* What the VM does is VMRun, which Provisioner implements; here each of   *)
(* its actions also does what the script and the port do with it.          *)
(*                                                                         *)
(* Time passes in Tick, in any unit that divides the intervals.            *)
(***************************************************************************)
EXTENDS VMRun

CONSTANTS
  PreloadInterval,   \* the longest time between two reads of the port in
                     \* wait-preload-finished
  ResizeInterval,    \* the same in wait-for-resize and the placeholder
  ShutdownInterval,  \* between two looks at the VM in wait-vm-shutdown
  ResizeTime,        \* how long the provisioner waits for a larger disk
  GraceTime,         \* how long the VM stays up once it has its verdict
  Breaks,            \* the commands of the script that may fail
  ScriptLines,       \* the verdicts that a user's script may print
  MaxRestarts        \* bound: restarts that nobody asked for

ASSUME WorkflowAssumption ==
  /\ PreloadInterval \in Nat \ {0} /\ ResizeInterval \in Nat \ {0}
  /\ ShutdownInterval \in Nat \ {0}
  /\ ResizeTime \in Nat /\ GraceTime \in Nat
  /\ PreloadInterval < GraceTime
  /\ Breaks \subseteq {"mount", "umount"}
  /\ ScriptLines \subseteq {"success", "failure"}
  /\ MaxRestarts \in Nat

VARIABLES
  needResize,  \* writeDaisyWorkflow put a resize into the workflow
  step,        \* each step of the workflow: waiting, running or done
  poll,        \* time left to the next poll of a step
  workflow,    \* running, failed, succeeded, or dead with Daisy
  image,       \* the output image: none, complete or broken
  timer,       \* time left where the VM counts it
  port,        \* what else there is to match on serial port 3
  daisyEnd,    \* the metadata key DaisyEnd is there
  disk,        \* what is on the boot disk: pristine, partial, complete
  early,       \* history: building went on after a BuildSucceeded
  restarts

config    == <<needResize, waitSet>>
daisyVars == <<step, poll, workflow, image>>
localVars == <<startSize, resizeDone>>
vmVars    == <<vm, timer, asked, port, localVars, disk, early, restarts>>
shared    == <<daisyEnd, resized>>
vars == <<config, daisyVars, vmVars, shared>>

Steps ==
  {"copy-gcs", "create-cidata", "setup", "run", "wait-preload-finished",
   "wait-for-resize", "resize-disk", "send-logging-end-msg",
   "wait-vm-shutdown", "image"}

\* Mutation: the shutdown is not waited for.
DependenciesNoShutdown(s) ==
  CASE s = "create-cidata"         -> {"copy-gcs"}
    [] s = "setup"                 -> {"create-cidata"}
    [] s = "run"                   -> {"setup"}
    [] s = "wait-preload-finished" -> {"run"}
    [] s = "wait-for-resize"       -> {"run"}
    [] s = "resize-disk"           -> {"wait-for-resize"}
    [] s = "send-logging-end-msg"  -> {"wait-preload-finished", "resize-disk"}
    [] s = "image"                 -> {"send-logging-end-msg"}
    [] OTHER                       -> {}

Dependencies(s) ==
  CASE s = "create-cidata"         -> {"copy-gcs"}
    [] s = "setup"                 -> {"create-cidata"}
    [] s = "run"                   -> {"setup"}
    [] s = "wait-preload-finished" -> {"run"}
    [] s = "wait-for-resize"       -> {"run"}
    [] s = "resize-disk"           -> {"wait-for-resize"}
    [] s = "send-logging-end-msg"  -> {"wait-preload-finished", "resize-disk"}
    [] s = "wait-vm-shutdown"      -> {"send-logging-end-msg"}
    [] s = "image"                 -> {"wait-vm-shutdown"}
    [] OTHER                       -> {}

\* Without a resize a placeholder that polls stands for resize-disk.
PollingSteps ==
  {"wait-preload-finished", "wait-for-resize", "wait-vm-shutdown"}
    \cup (IF needResize THEN {} ELSE {"resize-disk"})

Interval(s) ==
  CASE s = "wait-preload-finished" -> PreloadInterval
    [] s = "wait-vm-shutdown"      -> ShutdownInterval
    [] OTHER                       -> ResizeInterval

Verdicts == {"none", "success", "failure"}
Silent == [status |-> FALSE, verdict |-> "none"]

\* Where the VM counts the time.
Timed == {"resizing", "failing", "watching"}
Up    == {"booting", "building", "measured"} \cup Timed
Gone  == {"stopped", "deleted"}

TypeOK ==
  /\ needResize \in BOOLEAN /\ waitSet \in BOOLEAN
  /\ step \in [Steps -> {"waiting", "running", "done"}]
  /\ poll \in [Steps -> Nat]
  /\ \A s \in Steps : poll[s] <= Interval(s)
  /\ workflow \in {"running", "failed", "succeeded", "dead"}
  /\ image \in {"none", "complete", "broken"}
  /\ vm \in {"none", "hung"} \cup Up \cup Gone
  /\ timer \in Nat
  /\ port \in [status : BOOLEAN, verdict : Verdicts]
  /\ daisyEnd \in BOOLEAN /\ resized \in BOOLEAN /\ asked \in BOOLEAN
  /\ startSize \in BOOLEAN /\ resizeDone \in BOOLEAN
  /\ disk \in {"pristine", "partial", "complete"}
  /\ early \in BOOLEAN
  /\ restarts \in 0 .. MaxRestarts

\* updateProvConfig sets WaitForDiskResize when it is needed, and it may be
\* set already.
Init ==
  /\ needResize \in BOOLEAN /\ waitSet \in {needResize, TRUE}
  /\ step = [s \in Steps |-> "waiting"]
  /\ poll = [s \in Steps |-> 0]
  /\ workflow = "running"
  /\ image = "none"
  /\ vm = "none"
  /\ timer = 0
  /\ port = Silent /\ asked = FALSE
  /\ daisyEnd = FALSE /\ resized = FALSE
  /\ startSize = FALSE /\ resizeDone = FALSE
  /\ disk = "pristine"
  /\ early = FALSE
  /\ restarts = 0

-----------------------------------------------------------------------------
(* Daisy.                                                                  *)

Ready(s) ==
  /\ workflow = "running"
  /\ step[s] = "waiting"
  /\ \A d \in Dependencies(s) : step[d] = "done"

Running(s) == workflow = "running" /\ step[s] = "running"

\* Mutation: one interval for every poll.
StartStepOneInterval(s) ==
  /\ Ready(s)
  /\ step' = [step EXCEPT ![s] = "running"]
  /\ poll' = [poll EXCEPT ![s] = PreloadInterval]
  /\ UNCHANGED <<config, workflow, image, vmVars, shared>>

StartStep(s) ==
  /\ Ready(s)
  /\ step' = [step EXCEPT ![s] = "running"]
  /\ poll' = [poll EXCEPT ![s] = Interval(s)]
  /\ UNCHANGED <<config, workflow, image, vmVars, shared>>

StepDone(s) ==
  /\ step' = [step EXCEPT ![s] = "done"]
  /\ poll' = [poll EXCEPT ![s] = 0]
  /\ UNCHANGED workflow

Ends(how) == workflow' = how /\ poll' = [s \in Steps |-> 0] /\ UNCHANGED step

\* An image of the boot disk as it is now.
DiskImage ==
  IF vm = "stopped" /\ disk = "complete" /\ (needResize => resized)
  THEN "complete" ELSE "broken"

\* What the call of a step that does not poll brings about.
Effects(s) ==
  /\ vm' = IF s = "run" THEN "booting" ELSE vm
  /\ daisyEnd' = (daisyEnd \/ s = "send-logging-end-msg")
  /\ resized' = (resized \/ s = "resize-disk")
  /\ image' = IF s = "image" THEN DiskImage ELSE image
  /\ UNCHANGED <<config, timer, asked, port, localVars, disk, early, restarts>>

Call(s) ==
  /\ Running(s) /\ s \notin PollingSteps
  /\ Effects(s)
  /\ StepDone(s)

PollAgain(s) ==
  /\ poll' = [poll EXCEPT ![s] = Interval(s)]
  /\ UNCHANGED <<step, workflow>>

\* Mutation: BuildFailed is not looked for.
PollPreloadNoFailure ==
  /\ Running("wait-preload-finished")
  /\ IF port.verdict = "success" THEN StepDone("wait-preload-finished")
                                 ELSE PollAgain("wait-preload-finished")
  /\ UNCHANGED <<config, image, vmVars, shared>>

\* wait-preload-finished reads the port; the first verdict counts.
PollPreload ==
  /\ Running("wait-preload-finished")
  /\ CASE port.verdict = "none"    -> PollAgain("wait-preload-finished")
       [] port.verdict = "success" -> StepDone("wait-preload-finished")
       [] port.verdict = "failure" -> Ends("failed")
  /\ UNCHANGED <<config, image, vmVars, shared>>

\* Mutation: any status line will do, as it does for the placeholder.
PollForResizeAnyLine ==
  /\ Running("wait-for-resize") /\ needResize
  /\ IF port.status THEN StepDone("wait-for-resize")
                    ELSE PollAgain("wait-for-resize")
  /\ UNCHANGED <<config, image, vmVars, shared>>

\* wait-for-resize looks for the message of waitForDiskResize, or fails.
PollForResize ==
  /\ Running("wait-for-resize") /\ needResize
  /\ \/ asked /\ StepDone("wait-for-resize")
     \/ port.verdict = "failure" /\ Ends("failed")
     \/ /\ ~asked /\ port.verdict # "failure"
        /\ PollAgain("wait-for-resize")
  /\ UNCHANGED <<config, image, vmVars, shared>>

\* The placeholders of both steps look for any status line.
PollPlaceholder(s) ==
  /\ s \in {"wait-for-resize", "resize-disk"}
  /\ Running(s) /\ ~needResize
  /\ IF port.status THEN StepDone(s) ELSE PollAgain(s)
  /\ UNCHANGED <<config, image, vmVars, shared>>

PollShutdown ==
  /\ Running("wait-vm-shutdown")
  /\ IF vm = "stopped" THEN StepDone("wait-vm-shutdown")
                       ELSE PollAgain("wait-vm-shutdown")
  /\ UNCHANGED <<config, image, vmVars, shared>>

\* Mutation: the error of a step is dropped.
StepFailsUnnoticed(s) ==
  /\ Running(s)
  /\ StepDone(s)
  /\ UNCHANGED <<config, image, vmVars, shared>>

\* A step fails, before or after its call had its effect, or runs into the
\* timeout of -default_timeout.
StepFails(s) ==
  /\ Running(s)
  /\ \/ s \notin PollingSteps /\ Effects(s)
     \/ UNCHANGED <<config, image, vmVars, shared>>
  /\ Ends("failed")

WorkflowSucceeds ==
  /\ workflow = "running"
  /\ \A s \in Steps : step[s] = "done"
  /\ Ends("succeeded")
  /\ UNCHANGED <<config, image, vmVars, shared>>

\* Daisy deletes what it has created, but not the image (NoCleanup).
Cleanup ==
  /\ workflow \in {"failed", "succeeded"}
  /\ vm \notin {"none", "deleted"}
  /\ vm' = "deleted" /\ timer' = 0
  /\ UNCHANGED <<config, daisyVars, shared, asked, port, localVars, disk, early,
                 restarts>>

\* The container of finish-image-build goes away: nothing is cleaned up.
DaisyDies ==
  /\ workflow \in {"running", "failed"}
  /\ Ends("dead")
  /\ UNCHANGED <<config, image, vmVars, shared>>

-----------------------------------------------------------------------------
(* The VM: startup.sh.                                                     *)

\* What the VM's own steps leave alone; those of VMRun say the rest.
VMKeeps == UNCHANGED <<needResize, daisyVars, daisyEnd, restarts>>

SetTimer(time) == timer' = time

\* Under errexit a mount that fails ends the script: one status line, no
\* verdict and no shutdown.
MountFails ==
  /\ "mount" \in Breaks
  /\ Go({"booting"}, "hung") /\ SetTimer(0)
  /\ port' = [port EXCEPT !.status = TRUE]
  /\ VMKeeps /\ UNCHANGED <<asked, resizeDone, disk, early>>

\* The provisioner runs or resumes, and logs.
ProvisionerStarts ==
  /\ Begin /\ SetTimer(0)
  /\ port' = [port EXCEPT !.status = TRUE]
  /\ disk' = "partial"
  /\ early' = (early \/ port.verdict = "success")
  /\ VMKeeps

MeasureDisk == Measure /\ SetTimer(0) /\ VMKeeps /\ UNCHANGED <<port, disk, early>>

AwaitResize ==
  /\ Announce /\ SetTimer(ResizeTime)
  /\ VMKeeps /\ UNCHANGED <<port, disk, early>>

ResizeSeen == Notice /\ SetTimer(0) /\ VMKeeps /\ UNCHANGED <<port, disk, early>>

\* Only the first verdict on the port counts: Daisy reads it line by line.
Says(verdict) ==
  port' = [port EXCEPT !.verdict = IF @ = "none" THEN verdict ELSE @]

\* The provisioner exits with an error: BuildFailed, and a sleep.
BuildFails ==
  /\ EndBadly /\ SetTimer(GraceTime)
  /\ Says("failure")
  /\ VMKeeps /\ UNCHANGED <<disk, early>>

\* Exit code 3.
Reboots ==
  /\ AskForReboot /\ SetTimer(0)
  /\ VMKeeps /\ UNCHANGED <<port, disk, early>>

\* status puts BuildStatus: before each line of a script's output, and Daisy
\* looks for its texts anywhere in a line.
ScriptPrints ==
  /\ vm = "building" /\ (waitSet => resizeDone)
  /\ \E verdict \in ScriptLines :
       /\ Says(verdict)
       /\ early' = (early \/ verdict = "success")
  /\ VMKeeps
  /\ UNCHANGED <<waitSet, resized, vm, timer, asked, localVars, disk>>

\* The provisioner exits with 0: BuildSucceeded, and metadata_watcher.
BuildSucceeds ==
  /\ EndWell /\ SetTimer(GraceTime)
  /\ Says("success")
  /\ disk' = "complete"
  /\ VMKeeps /\ UNCHANGED early

\* Mutation: metadata_watcher gives up at once.
WatcherStopsAtOnce == TRUE

\* Mutation: metadata_watcher waits for the key as long as it takes.
WatcherStopsWithKey == daisyEnd

\* metadata_watcher returns, with the key or after five minutes.
WatcherStops == daisyEnd \/ timer = 0

\* A umount that fails ends the script, too.
UnmountFails ==
  /\ "umount" \in Breaks /\ WatcherStops
  /\ Go({"watching"}, "hung") /\ SetTimer(0)
  /\ VMKeeps /\ UNCHANGED <<asked, resizeDone, port, disk, early>>

PowerOff ==
  /\ Stop /\ SetTimer(0)
  /\ port' = Silent
  /\ VMKeeps /\ UNCHANGED <<disk, early>>

SuccessShutdown == vm = "watching" /\ WatcherStops /\ PowerOff
FailureShutdown == vm = "failing" /\ timer = 0 /\ PowerOff

\* Where a mount failed the state is what it was, where a umount did it is
\* gone.
LeaveHung ==
  /\ Go({"hung"}, "booting")
  /\ resizeDone' \in {resizeDone, FALSE}
  /\ UNCHANGED asked

\* The VM goes down and comes up again, wherever it was.
Restart ==
  /\ restarts < MaxRestarts
  /\ restarts' = restarts + 1
  /\ GoDown \/ LeaveHung
  /\ SetTimer(0)
  /\ UNCHANGED <<needResize, daisyVars, daisyEnd, port, disk, early>>

-----------------------------------------------------------------------------
\* What comes before the clock moves on: a step that can start, a poll that
\* is due, and the end of a wait on the VM.
PollDue(s) == Running(s) /\ s \in PollingSteps /\ poll[s] = 0

Tick ==
  /\ \A s \in Steps : ~Ready(s) /\ ~PollDue(s)
  /\ vm \in Timed => timer > 0
  /\ timer' = IF vm \in Timed THEN timer - 1 ELSE timer
  /\ poll' = [s \in Steps |-> IF Running(s) /\ poll[s] > 0 THEN poll[s] - 1
                                                          ELSE poll[s]]
  /\ UNCHANGED <<config, step, workflow, image, shared, vm, asked, port,
                 localVars, disk, early, restarts>>

\* Once Daisy is done nothing need happen; VMEnds says what must.
Over == workflow # "running" /\ UNCHANGED vars

Daisy ==
  \/ \E s \in Steps : StartStep(s) \/ Call(s) \/ PollPlaceholder(s)
                        \/ StepFails(s)
  \/ PollPreload \/ PollForResize \/ PollShutdown
  \/ WorkflowSucceeds \/ Cleanup \/ DaisyDies

VM ==
  \/ MountFails \/ ProvisionerStarts \/ MeasureDisk \/ AwaitResize
  \/ ResizeSeen \/ BuildFails \/ Reboots \/ ScriptPrints \/ BuildSucceeds
  \/ UnmountFails \/ SuccessShutdown \/ FailureShutdown \/ Restart

Next == Daisy \/ VM \/ Tick \/ Over

Spec == Init /\ [][Next]_vars

\* Steps that can start do, and one that never ends times out; Daisy cleans
\* up; the VM's clock runs, and what follows the verdict is not optional.
\* Nothing makes the provisioner end: it may ask for reboots for ever.
Fairness ==
  /\ \A s \in Steps : WF_vars(StartStep(s)) /\ WF_vars(StepFails(s))
  /\ WF_vars(PollPreload) /\ WF_vars(PollForResize) /\ WF_vars(PollShutdown)
  /\ \A s \in Steps : WF_vars(PollPlaceholder(s))
  /\ WF_vars(WorkflowSucceeds) /\ WF_vars(Cleanup)
  /\ WF_vars(Tick)
  /\ WF_vars(SuccessShutdown \/ UnmountFails) /\ WF_vars(FailureShutdown)

FairSpec == Spec /\ Fairness

-----------------------------------------------------------------------------
(* Properties.                                                             *)

\* The image is made of a disk on which every step of the build has ended
\* well, after the VM has stopped, and enlarged if that was asked for; unless
\* a BuildSucceeded came before the end, from a script's output or from a
\* build that a restart has begun anew (Dependencies, run_provisioner).
ImageIsComplete == image = "broken" => early

\* "Once we shut down, the serial logs will be gone. We need to give Daisy
\* time to capture the serial logs" (startup.yaml:55-58): no VM shuts itself
\* down under a living Daisy that has not read its verdict.
LogsCaptured ==
  vm = "stopped" /\ workflow = "running"
    => step["wait-preload-finished"] = "done"

\* "Under normal circumstances, Daisy will delete the VM once it sees
\* BuildFailed" (startup.yaml:44): a build that has failed is never taken for
\* one that has ended well because its VM stops in the end.
FailureIsNoticed ==
  vm = "stopped" /\ workflow = "running" /\ ~early => disk = "complete"

\* The disk is enlarged in answer to what it says: as long as it has not gone
\* down unplanned it never waits for a change that was there when it read the
\* size (waitForDiskResize, and the dependencies of resize-disk).
ResizeIsNoticed ==
  vm \in Comparing /\ restarts = 0 => ~startSize

\* The VM of a build ends, whatever happens to Daisy, once it has a verdict,
\* and with Daisy alive even if it never has one.  With Daisy dead it may run
\* on only in the provisioner, or where errexit has ended the script.
VMEnds ==
  vm \in Up \cup {"hung"} ~>
    \/ vm \in Gone
    \/ workflow = "dead" /\ vm \in {"hung", "booting", "building"} \cup Comparing

\* BuildImage's view of the workflow: the exit status of Daisy and the image.
outcome ==
  CASE workflow = "running"   -> "running"
    [] workflow = "succeeded" -> "ok"
    [] OTHER                  -> "error"

Run == INSTANCE DaisyRun WITH made <- image # "none"

\* The workflow implements what BuildImage relies on: a Daisy that ends well
\* has made the image, and none is made after it has ended.
DaisyRunSpec == Run!Spec
=============================================================================
