------------------------- MODULE DaisyWorkflowProofs -------------------------
(***************************************************************************)
(* Proofs about DaisyWorkflow, for all intervals with PreloadInterval      *)
(* below GraceTime.  OrderInv is what the dependencies give, RaceInv that  *)
(* the poll of Daisy comes before the shutdown of the VM, VerdictInv what  *)
(* a success that Daisy has read says of the VM.                           *)
(***************************************************************************)
EXTENDS DaisyWorkflow, TLAPS

OrderInv ==
  /\ step["wait-preload-finished"] # "waiting" => step["run"] = "done"
  /\ step["send-logging-end-msg"] # "waiting" =>
       /\ step["wait-preload-finished"] = "done"
       /\ step["resize-disk"] = "done"
  /\ step["wait-vm-shutdown"] # "waiting" =>
       step["send-logging-end-msg"] = "done"
  /\ step["image"] # "waiting" => step["wait-vm-shutdown"] = "done"
  /\ workflow = "running" /\ vm # "none" => step["run"] = "done"
  /\ daisyEnd => step["wait-preload-finished"] = "done"
  /\ needResize /\ step["resize-disk"] = "done" => resized
  /\ workflow = "running" /\ step["wait-vm-shutdown"] = "done" =>
       vm = "stopped"

\* A verdict is on the port for longer than Daisy takes to look.
RaceInv ==
  workflow = "running" /\ step["wait-preload-finished"] # "done" =>
    /\ vm # "stopped"
    /\ vm \in {"failing", "watching"} =>
         /\ port.verdict # "none"
         /\ step["wait-preload-finished"] = "waiting" => timer = GraceTime
         /\ step["wait-preload-finished"] = "running" =>
              poll["wait-preload-finished"] < timer

\* After a success nothing is built, or it was early.
VerdictInv ==
  /\ vm = "watching" => disk = "complete"
  /\ ~early =>
       /\ port.verdict = "success" =>
            vm \in {"watching", "booting", "hung", "deleted"}
       /\ step["wait-preload-finished"] = "done" =>
            port.verdict = "success" \/ vm \in Gone
       /\ workflow = "running" /\ vm = "stopped" => disk = "complete"
  /\ image = "broken" => early

WorkflowInv == OrderInv /\ RaceInv /\ VerdictInv

\* The types of the first state: Init.
LEMMA InitTyped == Init => TypeOK
<1> SUFFICES ASSUME Init PROVE TypeOK
  OBVIOUS
<1>1. \A s \in Steps : poll[s] <= Interval(s)
  BY WorkflowAssumption DEF Init, Interval
<1>2. /\ port \in [status : BOOLEAN, verdict : Verdicts]
      /\ restarts \in 0 .. MaxRestarts
  BY WorkflowAssumption DEF Init, Silent, Verdicts
<1> QED BY <1>1, <1>2 DEF Init, TypeOK

\* The groups in which TypeOK is kept.
DaisyTyped ==
  /\ needResize \in BOOLEAN /\ waitSet \in BOOLEAN
  /\ step \in [Steps -> {"waiting", "running", "done"}]
  /\ poll \in [Steps -> Nat]
  /\ \A s \in Steps : poll[s] <= Interval(s)
  /\ workflow \in {"running", "failed", "succeeded", "dead"}

\* An interval is a number of time units.
LEMMA IntervalTyped == \A s \in Steps : Interval(s) \in Nat \ {0}
BY WorkflowAssumption DEF Interval

\* What every step that Daisy takes does to its own variables.
LEMMA StepDoneTyped ==
  ASSUME DaisyTyped, NEW s \in Steps, StepDone(s), UNCHANGED config
  PROVE  DaisyTyped'
BY IntervalTyped DEF DaisyTyped, StepDone, config

LEMMA PollAgainTyped ==
  ASSUME DaisyTyped, NEW s \in Steps, PollAgain(s), UNCHANGED config
  PROVE  DaisyTyped'
BY IntervalTyped DEF DaisyTyped, PollAgain, config

LEMMA EndsTyped ==
  ASSUME DaisyTyped, UNCHANGED config,
         NEW how \in {"failed", "succeeded", "dead"}, Ends(how)
  PROVE  DaisyTyped'
BY IntervalTyped DEF DaisyTyped, Ends, config

\* What the steps of the VM leave to Daisy.
LEMMA VMLeaves ==
  ASSUME VM
  PROVE  UNCHANGED <<config, daisyVars, shared>>
<1> USE DEF VMKeeps, Go, config, shared
<1>1. CASE MountFails \/ ProvisionerStarts \/ MeasureDisk \/ AwaitResize
  BY <1>1 DEF MountFails, ProvisionerStarts, MeasureDisk, AwaitResize, Begin,
     Measure, Announce
<1>2. CASE ResizeSeen \/ BuildFails \/ Reboots \/ ScriptPrints \/ BuildSucceeds
  BY <1>2 DEF ResizeSeen, BuildFails, Reboots, ScriptPrints, BuildSucceeds,
     Notice, EndBadly, AskForReboot, EndWell
<1>3. CASE UnmountFails \/ SuccessShutdown \/ FailureShutdown \/ Restart
  BY <1>3 DEF UnmountFails, SuccessShutdown, FailureShutdown, PowerOff, Stop,
     Restart, GoDown, LeaveHung
<1> QED BY <1>1, <1>2, <1>3 DEF VM

\* A VM that has stopped, and one that is not there, take no step.
LEMMA VMIsUp ==
  ASSUME VM
  PROVE  vm \in Up \cup {"hung"} /\ vm' # "none"
<1> USE DEF Go, Up, Timed, Comparing
<1>1. CASE MountFails \/ ProvisionerStarts \/ MeasureDisk \/ AwaitResize
  BY <1>1 DEF MountFails, ProvisionerStarts, MeasureDisk, AwaitResize, Begin,
     Measure, Announce
<1>2. CASE ResizeSeen \/ BuildFails \/ Reboots \/ ScriptPrints \/ BuildSucceeds
  BY <1>2 DEF ResizeSeen, BuildFails, Reboots, ScriptPrints, BuildSucceeds,
     Notice, EndBadly, AskForReboot, EndWell
<1>3. CASE UnmountFails \/ SuccessShutdown \/ FailureShutdown \/ Restart
  BY <1>3 DEF UnmountFails, SuccessShutdown, FailureShutdown, PowerOff, Stop,
     Restart, GoDown, LeaveHung
<1> QED BY <1>1, <1>2, <1>3 DEF VM

\* Every step keeps the types of Daisy's own variables: Next.
LEMMA NextDaisyTyped == TypeOK /\ [Next]_vars => DaisyTyped'
<1> SUFFICES ASSUME TypeOK, [Next]_vars PROVE DaisyTyped'
  OBVIOUS
<1>0. DaisyTyped /\ port.verdict \in Verdicts
  BY DEF TypeOK, DaisyTyped
<1>1. ASSUME NEW s \in Steps, StartStep(s) PROVE DaisyTyped'
  BY <1>0, <1>1, IntervalTyped DEF StartStep, DaisyTyped, config
<1>2. ASSUME NEW s \in Steps, Call(s) PROVE DaisyTyped'
  BY <1>0, <1>2, StepDoneTyped DEF Call, Effects
<1>3. ASSUME NEW s \in Steps, PollPlaceholder(s) PROVE DaisyTyped'
  BY <1>0, <1>3, StepDoneTyped, PollAgainTyped DEF PollPlaceholder
<1>4. ASSUME NEW s \in Steps, StepFails(s) PROVE DaisyTyped'
  BY <1>0, <1>4, EndsTyped DEF StepFails, Effects
<1>5. CASE PollPreload
  BY <1>0, <1>5, StepDoneTyped, PollAgainTyped, EndsTyped
     DEF PollPreload, Steps, Verdicts
<1>6. CASE PollForResize
  BY <1>0, <1>6, StepDoneTyped, PollAgainTyped, EndsTyped
     DEF PollForResize, Steps
<1>7. CASE PollShutdown
  BY <1>0, <1>7, StepDoneTyped, PollAgainTyped DEF PollShutdown, Steps
<1>8. CASE WorkflowSucceeds \/ DaisyDies
  BY <1>0, <1>8, EndsTyped DEF WorkflowSucceeds, DaisyDies
<1>9. CASE Tick
  BY <1>0, <1>9, IntervalTyped DEF Tick, DaisyTyped, config
<1>10. CASE Cleanup \/ VM \/ UNCHANGED vars
  <2>1. UNCHANGED <<config, daisyVars>>
    BY <1>10, VMLeaves DEF Cleanup, vars
  <2> QED BY <1>0, <2>1 DEF config, daisyVars, DaisyTyped
<1> QED
  BY <1>1, <1>2, <1>3, <1>4, <1>5, <1>6, <1>7, <1>8, <1>9, <1>10
     DEF Next, Daisy, Over

\* The types of the rest.
VMTyped ==
  /\ image \in {"none", "complete", "broken"}
  /\ vm \in {"none", "hung"} \cup Up \cup Gone
  /\ timer \in Nat
  /\ port \in [status : BOOLEAN, verdict : Verdicts]
  /\ daisyEnd \in BOOLEAN /\ resized \in BOOLEAN /\ asked \in BOOLEAN
  /\ startSize \in BOOLEAN /\ resizeDone \in BOOLEAN
  /\ disk \in {"pristine", "partial", "complete"}
  /\ early \in BOOLEAN
  /\ restarts \in 0 .. MaxRestarts

\* Every step of the VM keeps the types of what it writes: VM.
LEMMA StepsVMTyped == VMTyped /\ VM => VMTyped'
<1> SUFFICES ASSUME VMTyped, VM PROVE VMTyped'
  OBVIOUS
<1> USE WorkflowAssumption
    DEF VMTyped, VMKeeps, daisyVars, Go, SetTimer, Comparing, Up, Gone, Timed
<1>1. CASE MountFails
  BY <1>1 DEF MountFails
<1>2. CASE ProvisionerStarts
  BY <1>2 DEF ProvisionerStarts, Begin
<1>3. CASE MeasureDisk
  BY <1>3 DEF MeasureDisk, Measure
<1>4. CASE AwaitResize
  BY <1>4 DEF AwaitResize, Announce
<1>5. CASE ResizeSeen
  BY <1>5 DEF ResizeSeen, Notice
<1>6. CASE BuildFails
  BY <1>6 DEF BuildFails, EndBadly, Says, Verdicts
<1>7. CASE Reboots
  BY <1>7 DEF Reboots, AskForReboot
<1>8. CASE ScriptPrints
  BY <1>8 DEF ScriptPrints, Says, Verdicts, localVars
<1>9. CASE BuildSucceeds
  BY <1>9 DEF BuildSucceeds, EndWell, Says, Verdicts
<1>10. CASE UnmountFails
  BY <1>10 DEF UnmountFails
<1>11. CASE SuccessShutdown \/ FailureShutdown
  <2>1. PowerOff
    BY <1>11 DEF SuccessShutdown, FailureShutdown
  <2>2. Silent \in [status : BOOLEAN, verdict : Verdicts]
    BY DEF Silent, Verdicts
  <2> QED BY <2>1, <2>2 DEF PowerOff, Stop
<1>12. CASE Restart
  <2>1. restarts' \in 0 .. MaxRestarts
    BY <1>12 DEF Restart
  <2>2. CASE GoDown
    BY <1>12, <2>1, <2>2 DEF Restart, GoDown
  <2>3. CASE LeaveHung
    BY <1>12, <2>1, <2>3 DEF Restart, LeaveHung
  <2> QED BY <1>12, <2>2, <2>3 DEF Restart
<1> QED
  BY <1>1, <1>2, <1>3, <1>4, <1>5, <1>6, <1>7, <1>8, <1>9, <1>10, <1>11,
     <1>12 DEF VM

\* So does every other step: Next.
LEMMA NextVMTyped == VMTyped /\ [Next]_vars => VMTyped'
<1> SUFFICES ASSUME VMTyped, [Next]_vars PROVE VMTyped'
  OBVIOUS
<1> USE DEF VMTyped, localVars
<1>1. ASSUME NEW s \in Steps, Effects(s) PROVE VMTyped'
  BY <1>1 DEF Effects, DiskImage, Up, Gone
<1>2. ASSUME UNCHANGED <<image, vmVars, shared>> PROVE VMTyped'
  BY <1>2 DEF vmVars, shared
<1>3. ASSUME NEW s \in Steps,
             StartStep(s) \/ Call(s) \/ PollPlaceholder(s) \/ StepFails(s)
      PROVE  VMTyped'
  BY <1>1, <1>2, <1>3 DEF StartStep, Call, PollPlaceholder, StepFails
<1>4. CASE PollPreload \/ PollForResize \/ PollShutdown
  BY <1>2, <1>4 DEF PollPreload, PollForResize, PollShutdown
<1>5. CASE WorkflowSucceeds \/ DaisyDies
  BY <1>2, <1>5 DEF WorkflowSucceeds, DaisyDies
<1>6. CASE Cleanup
  BY <1>6 DEF Cleanup, Gone, daisyVars, shared
<1>7. CASE Tick
  BY <1>7 DEF Tick, shared
<1>8. CASE UNCHANGED vars
  BY <1>2, <1>8 DEF vars, daisyVars, shared
<1> QED
  BY <1>3, <1>4, <1>5, <1>6, <1>7, <1>8, StepsVMTyped DEF Next, Daisy, Over

\* The types hold throughout.
THEOREM WorkflowTypes == Spec => []TypeOK
<1>1. Init => TypeOK
  BY InitTyped
<1>2. TypeOK /\ [Next]_vars => TypeOK'
  BY NextDaisyTyped, NextVMTyped DEF TypeOK, DaisyTyped, VMTyped
<1> QED BY <1>1, <1>2, PTL DEF Spec

-----------------------------------------------------------------------------
\* Nothing has been done: Init.
LEMMA InitWorkflow == Init => WorkflowInv
BY DEF Init, WorkflowInv, OrderInv, RaceInv, VerdictInv, Steps, Gone, Silent

\* The order of the steps is kept by Daisy and the VM: Dependencies.
LEMMA NextOrder == TypeOK /\ OrderInv /\ [Next]_vars => OrderInv'
<1> SUFFICES ASSUME TypeOK, OrderInv, [Next]_vars PROVE OrderInv'
  OBVIOUS
<1> USE DEF OrderInv
<1>0. step \in [Steps -> {"waiting", "running", "done"}]
  BY DEF TypeOK
<1>1. ASSUME NEW s \in Steps, StartStep(s) PROVE OrderInv'
  BY <1>0, <1>1 DEF StartStep, Ready, Dependencies, Steps, config, vmVars,
                    shared
<1>2. ASSUME NEW s \in Steps, Call(s) PROVE OrderInv'
  BY <1>0, <1>2 DEF Call, Running, Effects, StepDone, PollingSteps, Steps,
                    config
<1>3. ASSUME NEW s \in Steps, PollPlaceholder(s) PROVE OrderInv'
  BY <1>0, <1>3 DEF PollPlaceholder, Running, StepDone, PollAgain, Steps,
                    config, vmVars, shared
<1>4. ASSUME NEW s \in Steps, StepFails(s) PROVE OrderInv'
  <2>1. UNCHANGED <<config, step>> /\ workflow' = "failed"
    BY <1>4 DEF StepFails, Ends, Effects
  <2>2. daisyEnd' => step["wait-preload-finished"] = "done"
    BY <1>0, <1>4 DEF StepFails, Running, Effects, shared
  <2>3. resized => resized'
    BY <1>4 DEF StepFails, Effects, shared
  <2> QED BY <2>1, <2>2, <2>3 DEF config
<1>5. CASE PollPreload
  <2>1. StepDone("wait-preload-finished") \/ PollAgain("wait-preload-finished")
          \/ Ends("failed")
    BY <1>5 DEF PollPreload, TypeOK, Verdicts
  <2> QED BY <1>0, <1>5, <2>1 DEF PollPreload, Running, StepDone, PollAgain,
                    Ends, Steps, config, vmVars, shared
<1>6. CASE PollForResize
  BY <1>0, <1>6 DEF PollForResize, Running, StepDone, PollAgain, Ends, Steps,
                    config, vmVars, shared
<1>7. CASE PollShutdown
  BY <1>0, <1>7 DEF PollShutdown, Running, StepDone, PollAgain, Steps,
                    config, vmVars, shared
<1>8. CASE WorkflowSucceeds \/ DaisyDies
  BY <1>8 DEF WorkflowSucceeds, DaisyDies, Ends, config, vmVars, shared
<1>9. CASE Cleanup
  BY <1>9 DEF Cleanup, config, daisyVars, shared
<1>10. CASE Tick
  BY <1>10 DEF Tick, config, shared
<1>11. CASE VM
  BY <1>11, VMLeaves, VMIsUp DEF config, daisyVars, shared, Up, Timed
<1>12. CASE UNCHANGED vars
  BY <1>12 DEF vars, config, daisyVars, vmVars, shared
<1> QED
  BY <1>1, <1>2, <1>3, <1>4, <1>5, <1>6, <1>7, <1>8, <1>9, <1>10, <1>11,
     <1>12 DEF Next, Daisy, Over

\* Daisy looks before the VM has stopped: PreloadInterval < GraceTime.
LEMMA NextRace == TypeOK /\ OrderInv /\ RaceInv /\ [Next]_vars => RaceInv'
<1> SUFFICES ASSUME TypeOK, OrderInv, RaceInv, [Next]_vars PROVE RaceInv'
  OBVIOUS
<1> USE DEF RaceInv
<1>0. /\ step \in [Steps -> {"waiting", "running", "done"}]
      /\ poll \in [Steps -> Nat] /\ timer \in Nat
      /\ port.verdict \in Verdicts
      /\ PreloadInterval \in Nat /\ GraceTime \in Nat
      /\ PreloadInterval < GraceTime
      /\ "wait-preload-finished" \in Steps
  BY WorkflowAssumption DEF TypeOK, Steps
<1>1. ASSUME NEW s \in Steps, StartStep(s) PROVE RaceInv'
  <2>1. CASE s = "wait-preload-finished"
    <3>1. poll'[s] = PreloadInterval /\ step'[s] = "running"
      BY <1>0, <1>1, <2>1 DEF StartStep, Interval
    <3>2. step[s] = "waiting"
      BY <1>1 DEF StartStep, Ready
    <3> QED BY <1>0, <1>1, <2>1, <3>1, <3>2 DEF StartStep, vmVars
  <2>2. CASE s # "wait-preload-finished"
    BY <1>0, <1>1, <2>2 DEF StartStep, vmVars
  <2> QED BY <2>1, <2>2
<1>2. ASSUME NEW s \in Steps, Call(s) PROVE RaceInv'
  BY <1>0, <1>2 DEF Call, Running, Effects, StepDone, PollingSteps
<1>3. ASSUME NEW s \in Steps, PollPlaceholder(s) PROVE RaceInv'
  BY <1>0, <1>3 DEF PollPlaceholder, Running, StepDone, PollAgain, vmVars
<1>4. ASSUME NEW s \in Steps, StepFails(s) PROVE RaceInv'
  BY <1>4 DEF StepFails, Ends
<1>5. CASE PollPreload
  BY <1>0, <1>5 DEF PollPreload, Running, StepDone, PollAgain, Ends, Verdicts,
                    vmVars
<1>6. CASE PollForResize
  BY <1>0, <1>6 DEF PollForResize, Running, StepDone, PollAgain, Ends, vmVars
<1>7. CASE PollShutdown
  BY <1>0, <1>7 DEF PollShutdown, Running, StepDone, PollAgain, vmVars
<1>8. CASE WorkflowSucceeds \/ DaisyDies
  BY <1>8 DEF WorkflowSucceeds, DaisyDies, Ends
<1>9. CASE Cleanup
  BY <1>9 DEF Cleanup, daisyVars
<1>10. CASE Tick
  <2>1. SUFFICES ASSUME workflow = "running",
                        step["wait-preload-finished"] # "done",
                        vm \in {"failing", "watching"}
                 PROVE  RaceInv'
    BY <1>10 DEF Tick
  <2>2. step["wait-preload-finished"] = "running"
    <3>1. ~Ready("wait-preload-finished")
      BY <1>0, <1>10 DEF Tick
    <3>2. step["run"] = "done"
      BY <2>1 DEF OrderInv
    <3> QED BY <1>0, <2>1, <3>1, <3>2 DEF Ready, Dependencies
  <2>3. /\ timer' = timer - 1
        /\ poll["wait-preload-finished"] > 0
        /\ poll'["wait-preload-finished"] = poll["wait-preload-finished"] - 1
    BY <1>0, <1>10, <2>1, <2>2
       DEF Tick, PollDue, Running, PollingSteps, Timed
  <2> QED BY <1>0, <1>10, <2>1, <2>2, <2>3 DEF Tick
<1>11. CASE VM
  <2>1. SUFFICES ASSUME workflow = "running",
                        step["wait-preload-finished"] # "done"
                 PROVE  RaceInv'
    BY <1>11, VMLeaves DEF daisyVars
  <2>2. CASE BuildFails \/ BuildSucceeds
    <3>1. timer' = GraceTime /\ port'.verdict # "none" /\ vm' # "stopped"
      BY <1>0, <2>2 DEF TypeOK, BuildFails, BuildSucceeds, EndBadly, EndWell,
         Go, SetTimer, Says
    <3>2. step["wait-preload-finished"] = "running" =>
            poll["wait-preload-finished"] < GraceTime
      BY <1>0 DEF TypeOK, Interval
    <3> QED BY <1>11, <3>1, <3>2, VMLeaves DEF daisyVars
  <2>3. CASE SuccessShutdown \/ FailureShutdown
    <3>1. ~daisyEnd
      BY <2>1 DEF OrderInv
    <3>2. timer = 0 /\ vm \in {"failing", "watching"}
      BY <2>3, <3>1 DEF SuccessShutdown, FailureShutdown, WatcherStops
    <3> QED BY <1>0, <2>1, <3>2
  <2>4. CASE ScriptPrints
    BY <2>4 DEF ScriptPrints, VMKeeps, daisyVars
  <2>5. CASE MountFails \/ ProvisionerStarts \/ MeasureDisk \/ AwaitResize
             \/ ResizeSeen \/ Reboots \/ UnmountFails \/ Restart
    <3>1. vm' \in {"hung", "booting", "building", "measured", "resizing"}
      BY <2>5 DEF MountFails, ProvisionerStarts, MeasureDisk, AwaitResize,
         ResizeSeen, Reboots, UnmountFails, Restart, Begin, Measure, Announce,
         Notice, AskForReboot, GoDown, LeaveHung, Go
    <3> QED BY <3>1
  <2> QED BY <1>11, <2>2, <2>3, <2>4, <2>5 DEF VM
<1>12. CASE UNCHANGED vars
  BY <1>12 DEF vars, daisyVars, vmVars
<1> QED
  BY <1>1, <1>2, <1>3, <1>4, <1>5, <1>6, <1>7, <1>8, <1>9, <1>10, <1>11,
     <1>12 DEF Next, Daisy, Over

\* A success that was read stays one: startup.sh builds no more after it,
\* unless it is run again.
LEMMA NextVerdict ==
  TypeOK /\ OrderInv /\ RaceInv /\ VerdictInv /\ [Next]_vars => VerdictInv'
<1> SUFFICES ASSUME TypeOK, OrderInv, RaceInv, VerdictInv, [Next]_vars
             PROVE  VerdictInv'
  OBVIOUS
<1> USE DEF VerdictInv
<1>0. /\ step \in [Steps -> {"waiting", "running", "done"}]
      /\ port \in [status : BOOLEAN, verdict : Verdicts]
      /\ "wait-preload-finished" \in Steps
  BY DEF TypeOK, Steps
<1>1. ASSUME NEW s \in Steps, StartStep(s) PROVE VerdictInv'
  BY <1>0, <1>1 DEF StartStep, Ready, vmVars
<1>2. ASSUME NEW s \in Steps, Running(s), s \notin PollingSteps, Effects(s),
             step'["wait-preload-finished"] = step["wait-preload-finished"]
      PROVE  VerdictInv'
  <2>1. CASE s = "image"
    <3>1. workflow = "running" /\ vm = "stopped" /\ (needResize => resized)
      BY <1>0, <1>2, <2>1 DEF Running, OrderInv
    <3>2. image' = "broken" => early
      BY <1>2, <2>1, <3>1 DEF Effects, DiskImage
    <3>3. UNCHANGED <<vm, port, disk, early>>
      BY <1>2, <2>1 DEF Effects
    <3> QED BY <1>2, <3>1, <3>2, <3>3
  <2>2. CASE s = "run"
    <3>1. step["wait-preload-finished"] # "done"
      BY <1>0, <1>2, <2>2 DEF Running, OrderInv
    <3> QED BY <1>2, <2>2, <3>1 DEF Effects
  <2>3. CASE s \notin {"run", "image"}
    <3>1. workflow = "running"
      BY <1>2 DEF Running
    <3> QED BY <1>2, <2>3, <3>1 DEF Effects
  <2> QED BY <2>1, <2>2, <2>3
<1>3. ASSUME NEW s \in Steps, Call(s) PROVE VerdictInv'
  <2>1. step'["wait-preload-finished"] = step["wait-preload-finished"]
    BY <1>0, <1>3 DEF Call, StepDone, PollingSteps
  <2> QED BY <1>2, <1>3, <2>1 DEF Call
<1>4. ASSUME NEW s \in Steps, PollPlaceholder(s) PROVE VerdictInv'
  BY <1>0, <1>4 DEF PollPlaceholder, StepDone, PollAgain, vmVars
<1>5. ASSUME NEW s \in Steps, StepFails(s) PROVE VerdictInv'
  <2>1. UNCHANGED step /\ workflow' = "failed"
    BY <1>5 DEF StepFails, Ends
  <2>2. CASE s \notin PollingSteps /\ Effects(s)
    BY <1>2, <1>5, <2>1, <2>2 DEF StepFails
  <2>3. CASE UNCHANGED <<config, image, vmVars, shared>>
    BY <2>1, <2>3 DEF vmVars
  <2> QED BY <1>5, <2>2, <2>3 DEF StepFails
<1>6. CASE PollPreload
  <2>1. UNCHANGED <<image, vm, port, disk, early>>
    BY <1>6 DEF PollPreload, vmVars
  <2>2. step'["wait-preload-finished"] = "done" => port.verdict = "success"
    BY <1>0, <1>6
       DEF PollPreload, Running, StepDone, PollAgain, Ends, Verdicts
  <2>3. workflow' = "running" => workflow = "running"
    BY <1>6 DEF PollPreload, Running
  <2> QED BY <2>1, <2>2, <2>3
<1>7. CASE PollForResize
  BY <1>0, <1>7 DEF PollForResize, Running, StepDone, PollAgain, Ends, vmVars
<1>8. CASE PollShutdown
  BY <1>0, <1>8 DEF PollShutdown, StepDone, PollAgain, vmVars
<1>9. CASE WorkflowSucceeds \/ DaisyDies
  BY <1>9 DEF WorkflowSucceeds, DaisyDies, Ends, vmVars
<1>10. CASE Cleanup
  BY <1>10 DEF Cleanup, daisyVars, Gone
<1>11. CASE Tick
  BY <1>11 DEF Tick
<1>12. CASE VM
  <2>0. UNCHANGED daisyVars
    BY <1>12, VMLeaves
  <2> USE <2>0 DEF Go, daisyVars, Gone
  <2>1. CASE MountFails
    BY <2>1 DEF MountFails
  <2>2. CASE ProvisionerStarts
    <3>1. ~early' => ~early /\ port.verdict # "success"
      BY <2>2 DEF ProvisionerStarts
    <3>2. ~early' => step["wait-preload-finished"] # "done"
      BY <2>2, <3>1 DEF ProvisionerStarts, Begin
    <3>3. port'.verdict = port.verdict
      BY <1>0, <2>2 DEF ProvisionerStarts
    <3> QED BY <2>2, <3>1, <3>2, <3>3 DEF ProvisionerStarts, Begin
  <2>3. CASE MeasureDisk \/ AwaitResize \/ ResizeSeen
    BY <2>3 DEF MeasureDisk, AwaitResize, ResizeSeen, Measure, Announce, Notice
  <2>4. CASE BuildFails
    <3>1. ~early => port'.verdict # "success"
      BY <1>0, <2>4 DEF BuildFails, EndBadly, Says, Comparing
    <3> QED BY <2>4, <3>1 DEF BuildFails, EndBadly, Comparing
  <2>5. CASE Reboots
    BY <2>5 DEF Reboots, AskForReboot
  <2>6. CASE ScriptPrints
    <3>1. PICK verdict \in ScriptLines :
            Says(verdict) /\ early' = (early \/ verdict = "success")
      BY <2>6 DEF ScriptPrints
    <3>2. ~early' => port'.verdict # "success"
      BY <1>0, <2>6, <3>1 DEF ScriptPrints, Says
    <3> QED BY <2>6, <3>1, <3>2 DEF ScriptPrints
  <2>7. CASE BuildSucceeds
    <3>1. ~early => step["wait-preload-finished"] # "done"
      BY <2>7 DEF BuildSucceeds, EndWell
    <3> QED BY <2>7, <3>1 DEF BuildSucceeds, EndWell
  <2>8. CASE UnmountFails
    BY <2>8 DEF UnmountFails
  <2>9. CASE SuccessShutdown
    BY <2>9 DEF SuccessShutdown, PowerOff, Stop, Silent
  <2>10. CASE FailureShutdown
    <3>1. workflow = "running" => step["wait-preload-finished"] = "done"
      BY <1>0, <2>10, WorkflowAssumption DEF FailureShutdown, RaceInv, TypeOK
    <3>2. workflow = "running" => early
      BY <2>10, <3>1 DEF FailureShutdown
    <3> QED BY <2>10, <3>2 DEF FailureShutdown, PowerOff, Stop, Silent
  <2>11. CASE Restart
    <3>1. vm \in Up \cup {"hung"} /\ vm' = "booting"
      BY <2>11 DEF Restart, GoDown, LeaveHung, Up, Timed, Comparing
    <3>2. UNCHANGED <<port, disk, early>>
      BY <2>11 DEF Restart
    <3> QED BY <3>1, <3>2 DEF Up, Timed
  <2> QED
    BY <1>12, <2>1, <2>2, <2>3, <2>4, <2>5, <2>6, <2>7, <2>8, <2>9, <2>10,
       <2>11 DEF VM
<1>13. CASE UNCHANGED vars
  BY <1>13 DEF vars, daisyVars, vmVars
<1> QED
  BY <1>1, <1>3, <1>4, <1>5, <1>6, <1>7, <1>8, <1>9, <1>10, <1>11, <1>12,
     <1>13 DEF Next, Daisy, Over

\* WorkflowInv holds throughout.
LEMMA WorkflowInvHolds == Spec => []WorkflowInv
<1>1. Init => WorkflowInv
  BY InitWorkflow
<1>2. TypeOK /\ WorkflowInv /\ [Next]_vars => WorkflowInv'
  BY NextOrder, NextRace, NextVerdict DEF WorkflowInv
<1> QED BY <1>1, <1>2, WorkflowTypes, PTL DEF Spec

\* No image is made of an unfinished build, for all intervals: the workflow's
\* dependencies and run_provisioner's verdict.
THEOREM ImagesAreComplete == Spec => []ImageIsComplete
<1>1. WorkflowInv => ImageIsComplete
  BY DEF WorkflowInv, VerdictInv, ImageIsComplete
<1> QED BY <1>1, WorkflowInvHolds, PTL

\* The five minutes of startup.sh are enough for Daisy to capture the logs,
\* as long as it polls more often than that.
THEOREM LogsAreCaptured == Spec => []LogsCaptured
<1>1. WorkflowInv => LogsCaptured
  BY DEF WorkflowInv, RaceInv, LogsCaptured
<1> QED BY <1>1, WorkflowInvHolds, PTL

\* A failed build is noticed before its VM has stopped, as long as Daisy
\* polls more often than that.
THEOREM FailuresAreNoticed == Spec => []FailureIsNoticed
<1>1. WorkflowInv => FailureIsNoticed
  BY DEF WorkflowInv, VerdictInv, FailureIsNoticed
<1> QED BY <1>1, WorkflowInvHolds, PTL

-----------------------------------------------------------------------------
\* As long as the VM has not gone down unplanned: the disk is enlarged after
\* the VM has asked, which it does after it has read the size, and once.
ResizeInv ==
  /\ step["wait-for-resize"] # "waiting" => step["run"] = "done"
  /\ step["resize-disk"] # "waiting" => step["wait-for-resize"] = "done"
  /\ resized => needResize /\ step["wait-for-resize"] = "done"
  /\ needResize /\ step["wait-for-resize"] = "done" => asked \/ vm \in Gone
  /\ vm = "none" => ~asked
  /\ restarts = 0 =>
       /\ asked => resizeDone \/ vm \in {"resizing", "failing"} \cup Gone
       /\ vm \in Comparing => ~startSize

LEMMA NextResize ==
  TypeOK /\ OrderInv /\ ResizeInv /\ [Next]_vars => ResizeInv'
<1> SUFFICES ASSUME TypeOK, OrderInv, ResizeInv, [Next]_vars
             PROVE  ResizeInv'
  OBVIOUS
<1> USE DEF ResizeInv
<1>0. /\ step \in [Steps -> {"waiting", "running", "done"}]
      /\ {"run", "wait-for-resize", "resize-disk"} \subseteq Steps
      /\ restarts \in Nat
  BY WorkflowAssumption DEF TypeOK, Steps
<1>1. ASSUME NEW s \in Steps, StartStep(s) PROVE ResizeInv'
  BY <1>0, <1>1 DEF StartStep, Ready, Dependencies, config, vmVars, localVars,
                    shared
\* The step before its end is not waiting, those it depends on are done.
<1>2. ASSUME NEW s \in Steps, Running(s), s \notin PollingSteps, Effects(s)
      PROVE  /\ resized' => needResize /\ step["wait-for-resize"] = "done"
             /\ vm' = vm \/ (vm = "none" /\ vm' = "booting")
             /\ UNCHANGED <<config, asked, localVars, restarts>>
  <2>1. UNCHANGED <<config, asked, localVars, restarts>>
    BY <1>2 DEF Effects
  <2>2. CASE s = "run"
    BY <1>0, <1>2, <2>1, <2>2
       DEF Running, Effects, OrderInv, config
  <2>3. CASE s = "resize-disk"
    BY <1>0, <1>2, <2>1, <2>3
       DEF Running, Effects, PollingSteps, config
  <2>4. CASE s \notin {"run", "resize-disk"}
    BY <1>0, <1>2, <2>1, <2>4 DEF Effects, config
  <2> QED BY <2>2, <2>3, <2>4
<1>3. ASSUME NEW s \in Steps, Call(s) PROVE ResizeInv'
  <2>1. Running(s) /\ s \notin PollingSteps /\ Effects(s) /\ StepDone(s)
    BY <1>3 DEF Call
  <2>2. /\ resized' => needResize /\ step["wait-for-resize"] = "done"
        /\ vm' = vm \/ (vm = "none" /\ vm' = "booting")
        /\ UNCHANGED <<needResize, asked, startSize, resizeDone, restarts>>
    BY <1>2, <2>1 DEF config, localVars
  <2>3. step' = [step EXCEPT ![s] = "done"] /\ step[s] = "running"
    BY <2>1 DEF StepDone, Running
  <2>4. s # "wait-for-resize"
    BY <2>1 DEF PollingSteps
  <2> QED BY <1>0, <2>2, <2>3, <2>4 DEF Gone, Comparing
<1>4. ASSUME NEW s \in Steps, PollPlaceholder(s) PROVE ResizeInv'
  BY <1>0, <1>4 DEF PollPlaceholder, Running, StepDone, PollAgain, config,
                    vmVars, localVars, shared
<1>5. ASSUME NEW s \in Steps, StepFails(s) PROVE ResizeInv'
  <2>1. UNCHANGED step
    BY <1>5 DEF StepFails, Ends
  <2>2. CASE s \notin PollingSteps /\ Effects(s)
    BY <1>2, <1>5, <2>1, <2>2
       DEF StepFails, config, localVars, Gone, Comparing
  <2>3. CASE UNCHANGED <<config, image, vmVars, shared>>
    BY <2>1, <2>3 DEF config, vmVars, localVars, shared
  <2> QED BY <1>5, <2>2, <2>3 DEF StepFails
<1>6. CASE PollPreload
  <2>1. StepDone("wait-preload-finished") \/ PollAgain("wait-preload-finished")
          \/ Ends("failed")
    BY <1>6 DEF PollPreload, TypeOK, Verdicts
  <2> QED BY <1>0, <1>6, <2>1 DEF PollPreload, StepDone, PollAgain, Ends,
                    config, vmVars, localVars, shared
<1>7. CASE PollForResize
  BY <1>0, <1>7 DEF PollForResize, Running, StepDone, PollAgain, Ends, config,
                    vmVars, localVars, shared
<1>8. CASE PollShutdown
  BY <1>0, <1>8 DEF PollShutdown, StepDone, PollAgain, config, vmVars,
                    localVars, shared
<1>9. CASE WorkflowSucceeds \/ DaisyDies
  BY <1>9 DEF WorkflowSucceeds, DaisyDies, Ends, config, vmVars, localVars,
              shared
<1>10. CASE Cleanup
  BY <1>10 DEF Cleanup, config, daisyVars, localVars, shared, Gone, Comparing
<1>11. CASE Tick
  BY <1>11 DEF Tick, config, localVars, shared
<1>12. CASE VM
  <2>0. /\ UNCHANGED <<config, daisyVars, shared>>
        /\ vm \notin Gone /\ vm' # "none"
    BY <1>12, VMLeaves, VMIsUp DEF Up, Timed, Gone
  <2> USE <2>0 DEF config, daisyVars, shared, Go, Comparing
  <2>1. CASE MountFails \/ ProvisionerStarts
    BY <2>1 DEF MountFails, ProvisionerStarts, Begin, VMKeeps, Gone
  <2>2. CASE MeasureDisk
    BY <2>2 DEF MeasureDisk, Measure, VMKeeps, Gone
  <2>3. CASE AwaitResize \/ ResizeSeen
    BY <2>3 DEF AwaitResize, ResizeSeen, Announce, Notice, VMKeeps, Gone
  <2>4. CASE BuildFails \/ Reboots \/ BuildSucceeds
    BY <2>4 DEF BuildFails, Reboots, BuildSucceeds, EndBadly, AskForReboot,
       EndWell, VMKeeps, Gone
  <2>5. CASE ScriptPrints
    BY <2>5 DEF ScriptPrints, VMKeeps, localVars
  <2>6. CASE UnmountFails
    BY <2>6 DEF UnmountFails, VMKeeps, Gone
  <2>7. CASE SuccessShutdown \/ FailureShutdown
    <3>1. vm' = "stopped" /\ asked' = FALSE /\ startSize' = FALSE
      BY <2>7 DEF SuccessShutdown, FailureShutdown, PowerOff, Stop
    <3> QED BY <3>1 DEF Gone
  <2>8. CASE Restart
    <3>1. restarts' # 0
      BY <1>0, <2>8 DEF Restart
    <3>2. UNCHANGED asked
      BY <2>8 DEF Restart, GoDown, LeaveHung
    <3> QED BY <3>1, <3>2
  <2> QED
    BY <1>12, <2>1, <2>2, <2>3, <2>4, <2>5, <2>6, <2>7, <2>8 DEF VM
<1>13. CASE UNCHANGED vars
  BY <1>13 DEF vars, config, daisyVars, vmVars, localVars, shared
<1> QED
  BY <1>1, <1>3, <1>4, <1>5, <1>6, <1>7, <1>8, <1>9, <1>10, <1>11, <1>12,
     <1>13 DEF Next, Daisy, Over

\* A VM that has not gone down unplanned never waits for a change that was
\* there when it read the size, for all intervals.
THEOREM ResizesAreNoticed == Spec => []ResizeIsNoticed
<1>1. Init => ResizeInv
  BY DEF Init, ResizeInv, Steps, Comparing
<1>2. TypeOK /\ WorkflowInv /\ ResizeInv /\ [Next]_vars => ResizeInv'
  BY NextResize DEF WorkflowInv
<1>3. ResizeInv => ResizeIsNoticed
  BY DEF ResizeInv, ResizeIsNoticed
<1> QED BY <1>1, <1>2, <1>3, WorkflowTypes, WorkflowInvHolds, PTL DEF Spec

-----------------------------------------------------------------------------
\* A run of Daisy that goes on has made the image if its image step is done.
MadeInv == workflow = "running" => (image # "none" <=> step["image"] = "done")

\* The call of the image step makes the image, and no other does.
LEMMA EffectsMake ==
  ASSUME NEW s \in Steps, Effects(s)
  PROVE  IF s = "image" THEN image' # "none" ELSE UNCHANGED image
BY DEF Effects, DiskImage

\* MadeInv is kept by every step.
LEMMA NextMade == TypeOK /\ MadeInv /\ [Next]_vars => MadeInv'
<1> SUFFICES ASSUME TypeOK, MadeInv, [Next]_vars PROVE MadeInv'
  OBVIOUS
<1> USE DEF MadeInv
<1>0. step \in [Steps -> {"waiting", "running", "done"}] /\ "image" \in Steps
  BY DEF TypeOK, Steps
<1>1. ASSUME NEW s \in Steps, StartStep(s) PROVE MadeInv'
  BY <1>0, <1>1 DEF StartStep, Ready
<1>2. ASSUME NEW s \in Steps, Call(s) PROVE MadeInv'
  BY <1>0, <1>2, EffectsMake DEF Call, StepDone
<1>3. ASSUME NEW s \in Steps, PollPlaceholder(s) PROVE MadeInv'
  BY <1>0, <1>3 DEF PollPlaceholder, StepDone, PollAgain
<1>4. ASSUME NEW s \in Steps, StepFails(s) PROVE MadeInv'
  BY <1>4 DEF StepFails, Ends
<1>5. CASE PollPreload
  <2>1. StepDone("wait-preload-finished") \/ PollAgain("wait-preload-finished")
          \/ Ends("failed")
    BY <1>5 DEF PollPreload, TypeOK, Verdicts
  <2> QED BY <1>0, <1>5, <2>1 DEF PollPreload, StepDone, PollAgain, Ends
<1>6. CASE PollForResize \/ PollShutdown
  BY <1>0, <1>6 DEF PollForResize, PollShutdown, StepDone, PollAgain, Ends
<1>7. CASE WorkflowSucceeds \/ DaisyDies
  BY <1>7 DEF WorkflowSucceeds, DaisyDies, Ends
<1>8. CASE Cleanup \/ Tick \/ VM \/ UNCHANGED vars
  BY <1>8, VMLeaves DEF Cleanup, Tick, daisyVars, vars
<1> QED
  BY <1>1, <1>2, <1>3, <1>4, <1>5, <1>6, <1>7, <1>8 DEF Next, Daisy, Over

\* DaisyWorkflow implements DaisyRun: each step of the workflow and the VM is
\* a step of a run of Daisy as BuildImage sees it, or none.
LEMMA NextRun == TypeOK /\ MadeInv /\ [Next]_vars => [Run!Next]_(Run!vars)
<1> SUFFICES ASSUME TypeOK, MadeInv, [Next]_vars, ~ UNCHANGED Run!vars
             PROVE  Run!Next
  OBVIOUS
<1> USE DEF outcome, Run!Next, Run!Make, Run!Succeed, Run!Fail, Run!vars
<1>0. "image" \in Steps /\ workflow \in {"running", "failed", "succeeded", "dead"}
  BY DEF TypeOK, Steps
<1>1. ASSUME NEW s \in Steps, Call(s) PROVE Run!Next
  BY <1>1, EffectsMake DEF Call, Running, StepDone, MadeInv
<1>2. ASSUME NEW s \in Steps, StepFails(s) PROVE Run!Next
  BY <1>2, EffectsMake DEF StepFails, Running, Ends
<1>3. CASE PollPreload \/ PollForResize
  <2>1. UNCHANGED image /\ workflow = "running"
    BY <1>3 DEF PollPreload, PollForResize, Running
  <2>2. workflow' \in {"running", "failed"}
    BY <1>3, <2>1
       DEF PollPreload, PollForResize, StepDone, PollAgain, Ends, TypeOK,
           Verdicts
  <2> QED BY <2>1, <2>2
<1>4. CASE WorkflowSucceeds
  BY <1>0, <1>4 DEF WorkflowSucceeds, Ends, MadeInv
<1>5. CASE DaisyDies
  BY <1>0, <1>5 DEF DaisyDies, Ends
<1>6. ASSUME NEW s \in Steps, StartStep(s) \/ PollPlaceholder(s)
      PROVE  Run!Next
  BY <1>6 DEF StartStep, PollPlaceholder, StepDone, PollAgain
<1>7. CASE PollShutdown
  BY <1>7 DEF PollShutdown, StepDone, PollAgain
<1>8. CASE Cleanup \/ Tick \/ VM \/ UNCHANGED vars
  BY <1>8, VMLeaves DEF Cleanup, Tick, daisyVars, vars
<1> QED
  BY <1>1, <1>2, <1>3, <1>4, <1>5, <1>6, <1>7, <1>8 DEF Next, Daisy, Over

\* A Daisy that ends well has made the image, and none is made after it has
\* ended: what BuildImage relies on, for all intervals.
THEOREM WorkflowImplementsRun == Spec => DaisyRunSpec
<1>1. Init => Run!Init /\ MadeInv
  BY DEF Init, Steps, outcome, Run!Init, MadeInv
<1>2. TypeOK /\ MadeInv /\ [Next]_vars => MadeInv'
  BY NextMade
<1>3. TypeOK /\ MadeInv /\ [Next]_vars => [Run!Next]_(Run!vars)
  BY NextRun
<1> QED BY <1>1, <1>2, <1>3, WorkflowTypes, PTL DEF Spec, DaisyRunSpec, Run!Spec
=============================================================================
