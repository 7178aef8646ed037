------------------------- MODULE BuildSessionProofs -------------------------
(***************************************************************************)
(* Proofs about the commands of a session, for any number of commands,     *)
(* failures and kills, any directories of GPU files and any objects of     *)
(* others in the bucket.                                                   *)
(***************************************************************************)
EXTENDS BuildSession, TLAPS

-----------------------------------------------------------------------------
(* Types.                                                                  *)

LEMMA InitTyped == Init => TypeOK
<1> SUFFICES ASSUME Init PROVE TypeOK
  OBVIOUS
<1>1. prov \in [steps : Seq(StepConfigs), reclaim : BOOLEAN, wait : BOOLEAN]
      /\ done \in Seq(StepConfigs)
  BY DEF Init, EmptyProv
<1>2. bucket \subseteq ManagedObjects \cup Foreign
  BY DEF Init
<1>3. files \in [FileNames -> {"absent", "corrupt", "ok"}]
      /\ target \in FileNames
  BY DEF Init, FileNames
<1>4. build \in [gpu : BOOLEAN, dirs : SUBSET Dirs]
  BY DEF Init, EmptyBuild
<1>5. commands \in 0 .. MaxCommands /\ kills \in 0 .. MaxKills
  BY SessionAssumption DEF Init
<1> QED
  BY <1>1, <1>2, <1>3, <1>4, <1>5 DEF Init, TypeOK, Positions, DiskFlags

\* A command that goes on or returns and changes no file.
LEMMA BeginTyped ==
  ASSUME TypeOK, NEW first \in Positions, Begin(first),
         step' \in StepConfigs \cup {NoStep}, disk' \in DiskFlags
  PROVE  TypeOK'
<1>1. commands' \in 0 .. MaxCommands
  BY SessionAssumption DEF Begin, TypeOK
<1> QED
  BY <1>1 DEF Begin, Goto, TypeOK, fileVars, worldVars, history, FileNames

LEMMA ReturnTyped ==
  ASSUME TypeOK, NEW from, NEW to \in Positions,
         NEW result \in {"none", "success", "failure"},
         Return(from, to, result),
         output' \in {"none", "ours", "others"}, deprecated' \in BOOLEAN
  PROVE  TypeOK'
BY DEF Return, Goto, TypeOK, fileVars, localVars, history

\* What is stored in GCS is a managed object.
LEMMA StoredTyped ==
  ASSUME TypeOK, NEW new, new \subseteq Uploads
  PROVE  Stored(new) \subseteq ManagedObjects \cup Foreign
<1>1. Uploads \subseteq ManagedObjects
  BY DEF TypeOK, Uploads, ManagedObjects
<1> QED BY <1>1 DEF Stored, TypeOK

LEMMA StartTyped ==
  ASSUME TypeOK, StartArchive \/ StartArchiveBreaks \/ StartCreate \/ StartFill
  PROVE  TypeOK'
<1> USE DEF Goto, localVars, worldVars, history, Positions
<1>1. CASE StartArchive
  <2>1. done' \in Seq(StepConfigs)
    BY <1>1 DEF StartArchive
  <2> QED BY <1>1, <2>1 DEF StartArchive, TypeOK
<1>2. CASE StartArchiveBreaks
  BY <1>2 DEF StartArchiveBreaks, TypeOK
<1>3. CASE StartCreate
  BY <1>3 DEF StartCreate, SetFile, Files, TypeOK
<1>4. CASE StartFill
  <2>1. EmptyProv \in
          [steps : Seq(StepConfigs), reclaim : BOOLEAN, wait : BOOLEAN]
        /\ EmptyBuild \in [gpu : BOOLEAN, dirs : SUBSET Dirs]
    BY DEF EmptyProv, EmptyBuild
  <2>2. target \in {"image", "build", "prov"}
    BY DEF TypeOK, FileNames
  <2>3. pc' \in Positions /\ target' \in FileNames
    BY <1>4, <2>2 DEF StartFill, FileNames
  <2>4. build' \in {build, EmptyBuild} /\ prov' \in {prov, EmptyProv}
    BY <1>4 DEF StartFill
  <2>5. files' \in [FileNames -> {"absent", "corrupt", "ok"}]
        /\ UNCHANGED <<archive, step, disk, worldVars, verdict, done, commands,
                       kills>>
        /\ started' \in BOOLEAN
    BY <1>4 DEF StartFill, SetFile, Files, TypeOK
  <2> QED BY <2>1, <2>3, <2>4, <2>5 DEF TypeOK
<1> QED BY <1>1, <1>2, <1>3, <1>4

LEMMA AddTyped ==
  ASSUME TypeOK, AddLoad \/ GPUTruncate \/ GPUFill \/ ProvTruncate \/ ProvFill,
         step \in StepConfigs
  PROVE  TypeOK'
<1> USE DEF Goto, localVars, worldVars, history, Positions
<1>1. CASE AddLoad
  BY <1>1 DEF AddLoad, TypeOK, fileVars
<1>2. CASE GPUTruncate
  BY <1>2 DEF GPUTruncate, SetFile, Files, TypeOK
<1>3. CASE GPUFill
  <2>1. step.dir \in Dirs \cup {NoDir}
    BY DEF StepConfigs
  <2>2. build' \in [gpu : BOOLEAN, dirs : SUBSET Dirs]
    BY <1>3, <2>1 DEF GPUFill, TypeOK
  <2> QED BY <1>3, <2>2 DEF GPUFill, SetFile, Files, TypeOK
<1>4. CASE ProvTruncate
  BY <1>4 DEF ProvTruncate, SetFile, Files, TypeOK
<1>5. CASE ProvFill
  <2>1. /\ Append(prov.steps, step) \in Seq(StepConfigs)
        /\ Append(done, step) \in Seq(StepConfigs)
    BY DEF TypeOK
  <2>2. Extended(prov) \in
          [steps : Seq(StepConfigs), reclaim : BOOLEAN, wait : BOOLEAN]
    BY <2>1 DEF Extended, ReclaimingTypes, TypeOK
  <2> QED
    BY <1>5, <2>1, <2>2 DEF ProvFill, SetFile, Files, TypeOK
<1> QED BY <1>1, <1>2, <1>3, <1>4, <1>5

LEMMA FinishTyped ==
  ASSUME TypeOK,
         \/ FinishRead \/ FinishExists \/ FinishAbsent \/ StoreInGCS
         \/ StoreFails \/ RewriteProv \/ RefillProv \/ DaisySucceeds
         \/ DaisyFails \/ GCSCleanup \/ Deprecate \/ DeprecateFails
         \/ Cleanup
  PROVE  TypeOK'
<1> USE DEF Goto, fileVars, localVars, worldVars, history, Positions
<1>0. output \in {"none", "ours", "others"} /\ deprecated \in BOOLEAN
  BY DEF TypeOK
<1>1. CASE FinishRead \/ FinishAbsent
  BY <1>1 DEF FinishRead, FinishAbsent, TypeOK
<1>2. CASE FinishExists
  BY <1>0, <1>2, ReturnTyped DEF FinishExists
<1>3. CASE StoreInGCS
  BY <1>3, StoredTyped DEF StoreInGCS, TypeOK
<1>4. CASE StoreFails
  <2>1. PICK new : new \subseteq Uploads /\ bucket' = Stored(new)
    BY <1>4 DEF StoreFails
  <2>2. bucket' \subseteq ManagedObjects \cup Foreign
    BY <2>1, StoredTyped
  <2> QED BY <1>4, <2>2 DEF StoreFails, TypeOK
<1>5. CASE RewriteProv
  BY <1>5 DEF RewriteProv, SetFile, Files, TypeOK
<1>6. CASE RefillProv
  <2>1. NeedDiskResize \in BOOLEAN
    BY DEF NeedDiskResize, TypeOK
  <2>2. prov' \in [steps : Seq(StepConfigs), reclaim : BOOLEAN, wait : BOOLEAN]
    BY <1>6, <2>1 DEF RefillProv, TypeOK
  <2> QED BY <1>6, <2>2 DEF RefillProv, SetFile, Files, TypeOK
<1>7. CASE DaisySucceeds \/ DaisyFails
  BY <1>0, <1>7, ReturnTyped DEF DaisySucceeds, DaisyFails
<1>8. CASE GCSCleanup
  BY <1>8 DEF GCSCleanup, TypeOK
<1>9. CASE Deprecate \/ DeprecateFails
  BY <1>0, <1>9, ReturnTyped DEF Deprecate, DeprecateFails
<1>10. CASE Cleanup
  BY <1>10 DEF Cleanup, Files, TypeOK
<1> QED
  BY <1>1, <1>2, <1>3, <1>4, <1>5, <1>6, <1>7, <1>8, <1>9, <1>10

LEMMA OtherTyped ==
  ASSUME TypeOK, CommandFails \/ Killed \/ OtherImage \/ SessionEnds
  PROVE  TypeOK'
<1> USE DEF Goto, fileVars, localVars, worldVars, history, Positions
<1>1. CASE CommandFails
  BY <1>1 DEF CommandFails, Return, TypeOK
<1>2. CASE Killed
  BY <1>2, SessionAssumption DEF Killed, TypeOK
<1>3. CASE OtherImage
  BY <1>3 DEF OtherImage, TypeOK
<1>4. CASE SessionEnds
  BY <1>4 DEF SessionEnds, vars, TypeOK
<1> QED BY <1>1, <1>2, <1>3, <1>4

-----------------------------------------------------------------------------
(* What the files have of the commands that succeeded.                     *)

StartPositions == {"create", "fill"}
AddPositions   == {"gpuTruncate", "gpuFill", "truncate", "provFill"}
SavePositions  == {"truncate", "provFill"}

\* A command that adds a step has one to add.
StepInv == pc \in {"load"} \cup AddPositions => step \in StepConfigs

\* What a step asks for is in the build config.
Backed(s) ==
  /\ s.type = "InstallGPU" => build.gpu
  /\ s.dir # NoDir => s.dir \in build.dirs

OneGPU(steps) ==
  \A i, j \in DOMAIN steps :
    steps[i].type = "InstallGPU" /\ steps[j].type = "InstallGPU" => i = j

\* While start-image-build fills the files there is nothing to keep; while a
\* step is added the build config is ahead of the provisioner config.
ConfigInv ==
  /\ pc \in StartPositions => ~started /\ done = <<>>
  /\ IsSubSequence(done, prov.steps)
  /\ OneGPU(prov.steps)
  /\ pc \in AddPositions /\ step.type = "InstallGPU" =>
       ~HasStep(prov, "InstallGPU")
  /\ pc \in SavePositions => Backed(step)
  /\ started => \A i \in DOMAIN prov.steps : Backed(prov.steps[i])

\* Steps other than install-gpu have no directory.
LEMMA OnlyGPUHasDir ==
  ASSUME NEW s \in StepConfigs, s.type # "InstallGPU"
  PROVE  s.dir = NoDir
BY DEF StepConfigs

\* Nothing is a part of everything.
LEMMA EmptyIsSubSequence ==
  ASSUME NEW S, NEW t \in Seq(S)
  PROVE  IsSubSequence(<<>>, t)
<1> DEFINE f == [i \in DOMAIN <<>> |-> 0]
<1>1. f \in [DOMAIN <<>> -> DOMAIN t] /\ DOMAIN <<>> = {}
  OBVIOUS
<1> QED BY <1>1 DEF IsSubSequence

\* A part of a sequence is a part of a longer one.
LEMMA SubSequenceOfLonger ==
  ASSUME NEW S, NEW s \in Seq(S), NEW t \in Seq(S), NEW x \in S,
         IsSubSequence(s, t)
  PROVE  IsSubSequence(s, Append(t, x))
<1>1. PICK f \in [DOMAIN s -> DOMAIN t] :
        /\ \A i, j \in DOMAIN s : i < j => f[i] < f[j]
        /\ \A i \in DOMAIN s : s[i] = t[f[i]]
  BY DEF IsSubSequence
<1>2. f \in [DOMAIN s -> DOMAIN Append(t, x)]
  BY <1>1
<1>3. \A i \in DOMAIN s : s[i] = Append(t, x)[f[i]]
  BY <1>1
<1> QED BY <1>1, <1>2, <1>3 DEF IsSubSequence

\* The same element may be put at the end of both.
LEMMA SubSequenceGrows ==
  ASSUME NEW S, NEW s \in Seq(S), NEW t \in Seq(S), NEW x \in S,
         IsSubSequence(s, t)
  PROVE  IsSubSequence(Append(s, x), Append(t, x))
<1>1. PICK f \in [DOMAIN s -> DOMAIN t] :
        /\ \A i, j \in DOMAIN s : i < j => f[i] < f[j]
        /\ \A i \in DOMAIN s : s[i] = t[f[i]]
  BY DEF IsSubSequence
<1> DEFINE s2 == Append(s, x)
           t2 == Append(t, x)
           g == [i \in DOMAIN s2 |-> IF i \in DOMAIN s THEN f[i]
                                                      ELSE Len(t) + 1]
<1>2. /\ DOMAIN s = 1 .. Len(s) /\ DOMAIN t = 1 .. Len(t)
      /\ DOMAIN s2 = 1 .. Len(s) + 1 /\ DOMAIN t2 = 1 .. Len(t) + 1
      /\ Len(s) \in Nat /\ Len(t) \in Nat
  OBVIOUS
<1>3. /\ (\A i \in DOMAIN s : s2[i] = s[i]) /\ s2[Len(s) + 1] = x
      /\ (\A i \in DOMAIN t : t2[i] = t[i]) /\ t2[Len(t) + 1] = x
  OBVIOUS
<1> HIDE DEF s2, t2
<1>4. g \in [DOMAIN s2 -> DOMAIN t2]
  BY <1>1, <1>2
<1>5. \A i, j \in DOMAIN s2 : i < j => g[i] < g[j]
  BY <1>1, <1>2
<1>6. \A i \in DOMAIN s2 : s2[i] = t2[g[i]]
  BY <1>1, <1>2, <1>3
<1> QED BY <1>4, <1>5, <1>6 DEF IsSubSequence, s2, t2

\* What keeps the configs and is elsewhere afterwards keeps the invariant.
LEMMA ConfigFrame ==
  ASSUME ConfigInv, UNCHANGED <<build, prov, history>>,
         pc' \notin StartPositions \cup AddPositions
  PROVE  ConfigInv'
BY DEF ConfigInv, Backed, OneGPU, IsSubSequence, HasStep, SavePositions,
       AddPositions, history

LEMMA InitConfig == Init => StepInv /\ ConfigInv
<1> SUFFICES ASSUME Init PROVE StepInv /\ ConfigInv
  OBVIOUS
<1>1. IsSubSequence(done, prov.steps)
  <2>1. prov.steps \in Seq(StepConfigs) /\ done = <<>>
    BY DEF Init, EmptyProv
  <2> QED BY <2>1, EmptyIsSubSequence
<1> QED
  BY <1>1 DEF Init, EmptyProv, StepInv, ConfigInv, OneGPU, StartPositions,
              AddPositions, SavePositions

\* The step at hand stays one.
LEMMA NextStep == TypeOK /\ StepInv /\ [Next]_vars => StepInv'
<1> SUFFICES ASSUME TypeOK, StepInv, [Next]_vars PROVE StepInv'
  OBVIOUS
<1> USE DEF StepInv, AddPositions, Goto, localVars, history
<1>1. CASE IssueStart \/ IssueAdd \/ IssueFinish
  BY <1>1 DEF IssueStart, IssueAdd, IssueFinish, Begin
<1>2. CASE StartArchive \/ StartArchiveBreaks \/ StartCreate
  BY <1>2 DEF StartArchive, StartArchiveBreaks, StartCreate
<1>3. CASE StartFill
  BY <1>3 DEF StartFill, TypeOK, FileNames
<1>4. CASE AddLoad \/ GPUTruncate \/ GPUFill \/ ProvTruncate \/ ProvFill
  BY <1>4 DEF AddLoad, GPUTruncate, GPUFill, ProvTruncate, ProvFill
<1>5. CASE FinishRead \/ FinishExists \/ FinishAbsent \/ StoreInGCS \/ StoreFails
             \/ RewriteProv \/ RefillProv
  BY <1>5 DEF FinishRead, FinishExists, FinishAbsent, StoreInGCS, StoreFails,
              RewriteProv, RefillProv, Return
<1>6. CASE DaisySucceeds \/ DaisyFails \/ GCSCleanup \/ Deprecate
             \/ DeprecateFails \/ Cleanup
  BY <1>6 DEF DaisySucceeds, DaisyFails, GCSCleanup, Deprecate,
              DeprecateFails, Cleanup, Return
<1>7. CASE CommandFails \/ Killed \/ OtherImage \/ SessionEnds \/ UNCHANGED vars
  BY <1>7 DEF CommandFails, Return, Killed, OtherImage, SessionEnds, vars
<1> QED BY <1>1, <1>2, <1>3, <1>4, <1>5, <1>6, <1>7 DEF Next

LEMMA SessionTypes == Spec => [](TypeOK /\ StepInv)
<1>1. Init => TypeOK /\ StepInv
  BY InitTyped, InitConfig
<1>2. TypeOK /\ StepInv /\ [Next]_vars => TypeOK'
  <2> SUFFICES ASSUME TypeOK, StepInv, [Next]_vars PROVE TypeOK'
    OBVIOUS
  <2>1. CASE IssueStart \/ IssueAdd \/ IssueFinish
    BY <2>1, BeginTyped
       DEF IssueStart, IssueAdd, IssueFinish, Positions, DiskFlags
  <2>2. CASE AddLoad \/ GPUTruncate \/ GPUFill \/ ProvTruncate \/ ProvFill
    <3>1. step \in StepConfigs
      BY <2>2 DEF StepInv, AddPositions, AddLoad, GPUTruncate, GPUFill,
                  ProvTruncate, ProvFill, Goto
    <3> QED BY <2>2, <3>1, AddTyped
  <2>3. CASE UNCHANGED vars
    BY <2>3 DEF vars, fileVars, localVars, worldVars, TypeOK
  <2> QED
    BY <2>1, <2>2, <2>3, StartTyped, FinishTyped, OtherTyped DEF Next
<1> QED BY <1>1, <1>2, NextStep, PTL DEF Spec

LEMMA NextConfig ==
  TypeOK /\ StepInv /\ ConfigInv /\ [Next]_vars => ConfigInv'
<1> SUFFICES ASSUME TypeOK, StepInv, ConfigInv, [Next]_vars PROVE ConfigInv'
  OBVIOUS
<1> USE DEF Goto, localVars, history, fileVars
<1>0. prov.steps \in Seq(StepConfigs) /\ done \in Seq(StepConfigs)
      /\ target \in FileNames
  BY DEF TypeOK
<1>1. CASE IssueStart \/ IssueAdd \/ IssueFinish
  BY <1>1, ConfigFrame
     DEF IssueStart, IssueAdd, IssueFinish, Begin, StartPositions,
         AddPositions
<1>2. CASE StartArchive
  <2>1. IsSubSequence(<<>>, prov.steps)
    BY <1>0, EmptyIsSubSequence
  <2> QED
    BY <1>2, <2>1 DEF StartArchive, ConfigInv, AddPositions, SavePositions
<1>3. CASE StartArchiveBreaks
  BY <1>3, ConfigFrame DEF StartArchiveBreaks, StartPositions, AddPositions
<1>4. CASE StartCreate
  <2>1. UNCHANGED <<build, prov, done, started, step>> /\ pc' = "fill"
        /\ pc = "create"
    BY <1>4 DEF StartCreate
  <2> QED
    BY <2>1 DEF ConfigInv, StartPositions, AddPositions, SavePositions
<1>5. CASE StartFill
  <2>1. ~started /\ done = <<>> /\ pc' \in {"create", "idle"}
        /\ UNCHANGED done /\ prov' \in {prov, EmptyProv}
        /\ started' = (target = "prov")
        /\ (target = "prov" => prov' = EmptyProv /\ pc' = "idle")
    BY <1>0, <1>5 DEF StartFill, ConfigInv, StartPositions, FileNames
  <2>2. EmptyProv.steps \in Seq(StepConfigs) /\ EmptyProv.steps = <<>>
        /\ DOMAIN EmptyProv.steps = {}
    BY DEF EmptyProv
  <2>3. OneGPU(prov'.steps)
    BY <2>1, <2>2 DEF ConfigInv, OneGPU
  <2>4. IsSubSequence(done', prov'.steps)
    BY <1>0, <2>1, <2>2, EmptyIsSubSequence
  <2>5. started' => DOMAIN prov'.steps = {}
    BY <2>1, <2>2
  <2> QED
    BY <2>1, <2>3, <2>4, <2>5
       DEF ConfigInv, StartPositions, AddPositions, SavePositions
<1>6. CASE AddLoad
  <2>1. UNCHANGED <<build, prov, done, started, step>>
        /\ pc' \in {"gpuTruncate", "truncate"}
        /\ (pc' = "truncate" => step.type # "InstallGPU")
        /\ (step.type = "InstallGPU" => ~HasStep(prov, "InstallGPU"))
    BY <1>6 DEF AddLoad, StepIsValid
  <2>2. pc' \in SavePositions => Backed(step)
    BY <1>6, <2>1, OnlyGPUHasDir DEF StepInv, SavePositions, Backed, AddLoad
  <2> QED
    BY <2>1, <2>2 DEF ConfigInv, StartPositions, Backed
<1>7. CASE GPUTruncate \/ ProvTruncate
  <2>1. UNCHANGED <<build, prov, done, started, step>>
        /\ \/ pc = "gpuTruncate" /\ pc' = "gpuFill"
           \/ pc = "truncate" /\ pc' = "provFill"
    BY <1>7 DEF GPUTruncate, ProvTruncate
  <2> QED
    BY <2>1 DEF ConfigInv, StartPositions, AddPositions, SavePositions, Backed
<1>8. CASE GPUFill
  <2>1. UNCHANGED <<prov, done, started, step>> /\ pc = "gpuFill"
        /\ pc' = "truncate" /\ build'.gpu
        /\ build'.dirs = build.dirs \cup ({step.dir} \ {NoDir})
    BY <1>8 DEF GPUFill
  <2>2. \A s : Backed(s) => Backed(s)'
    BY <2>1 DEF Backed
  <2>3. Backed(step)'
    BY <2>1 DEF Backed
  <2> QED
    BY <2>1, <2>2, <2>3
       DEF ConfigInv, StartPositions, AddPositions, SavePositions
<1>9. CASE ProvFill
  <2>1. UNCHANGED <<build, started>> /\ pc = "provFill" /\ pc' = "idle"
        /\ prov' = Extended(prov) /\ done' \in {done, Append(done, step)}
    BY <1>9 DEF ProvFill, SetFile, Files
  <2>2. step \in StepConfigs
    BY <2>1 DEF StepInv, AddPositions
  <2>3. prov'.steps = Append(prov.steps, step)
    BY <1>0, <2>1 DEF Extended, TypeOK
  <2>4. IsSubSequence(done', prov'.steps)
    BY <1>0, <2>1, <2>2, <2>3, SubSequenceOfLonger, SubSequenceGrows
       DEF ConfigInv
  <2>5. /\ DOMAIN prov'.steps = DOMAIN prov.steps \cup {Len(prov.steps) + 1}
        /\ \A i \in DOMAIN prov.steps : prov'.steps[i] = prov.steps[i]
        /\ prov'.steps[Len(prov.steps) + 1] = step
    BY <1>0, <2>2, <2>3
  <2>6. OneGPU(prov'.steps)
    BY <2>1, <2>5 DEF ConfigInv, OneGPU, HasStep, AddPositions
  <2>7. Backed(step)' /\ \A s : Backed(s) => Backed(s)'
    BY <2>1, <1>9 DEF ConfigInv, SavePositions, Backed, ProvFill
  <2> QED
    BY <2>1, <2>4, <2>5, <2>6, <2>7
       DEF ConfigInv, StartPositions, AddPositions, SavePositions
<1>10. CASE FinishRead \/ FinishExists \/ FinishAbsent \/ StoreInGCS
              \/ StoreFails \/ RewriteProv
  BY <1>10, ConfigFrame
     DEF FinishRead, FinishExists, FinishAbsent, StoreInGCS, StoreFails,
         RewriteProv, Return, StartPositions, AddPositions
<1>11. CASE RefillProv
  <2>1. UNCHANGED <<build, done, started>> /\ pc' = "daisy"
        /\ prov'.steps = prov.steps
    BY <1>11 DEF RefillProv, TypeOK
  <2> QED
    BY <2>1 DEF ConfigInv, StartPositions, AddPositions, SavePositions, Backed
<1>12. CASE DaisySucceeds \/ DaisyFails \/ GCSCleanup \/ Deprecate
              \/ DeprecateFails \/ Cleanup
  BY <1>12, ConfigFrame
     DEF DaisySucceeds, DaisyFails, GCSCleanup, Deprecate, DeprecateFails,
         Cleanup, Return, StartPositions, AddPositions
<1>13. CASE CommandFails \/ Killed
  BY <1>13, ConfigFrame
     DEF CommandFails, Return, Killed, StartPositions, AddPositions
<1>14. CASE OtherImage \/ SessionEnds \/ UNCHANGED vars
  BY <1>14 DEF OtherImage, SessionEnds, vars, ConfigInv, Backed
<1> QED
  BY <1>1, <1>2, <1>3, <1>4, <1>5, <1>6, <1>7, <1>8, <1>9, <1>10, <1>11,
     <1>12, <1>13, <1>14 DEF Next

-----------------------------------------------------------------------------
(* What is in the cloud.                                                   *)

StoredPositions == {"rewrite", "refill", "daisy"}

\* From the uploads to the start of Daisy they are in the bucket; a success
\* of Daisy that has not been reported yet is an image of this build.
CloudInv ==
  /\ pc \in StoredPositions => Uploads \subseteq bucket
  /\ pc = "gcsCleanup" /\ verdict = "success" => output = "ours"
  /\ pc = "deprecate" => output = "ours"
  /\ deprecated => output = "ours"

\* Without a collision the last writer of a name is its only one: a set of
\* uploads that has every name has every upload.
LEMMA AllNamesAllUploads ==
  ASSUME TypeOK, ~Collides, NEW new \in SUBSET Uploads,
         \A u \in Uploads : \E n \in new : n.name = u.name
  PROVE  Uploads \subseteq Stored(new)
<1>1. ASSUME NEW u \in Uploads, NEW n \in Uploads, n.name = u.name
      PROVE  n = u
  <2>1. \A o \in Uploads :
          \/ o = [name |-> "user_build_context.tar", from |-> NoDir]
          \/ \E d \in build.dirs : \E x \in DepNames[d] :
               o = [name |-> x, from |-> d]
    BY DEF Uploads, ArchiveObject, DepObjects, Object
  <2>2. build.dirs \subseteq Dirs
    BY DEF TypeOK
  <2>3. \A d, e \in build.dirs : \A x \in DepNames[d] :
          x \in DepNames[e] => d = e
    BY DEF Collides
  <2>4. \A d \in build.dirs : "user_build_context.tar" \notin DepNames[d]
    BY <2>2, SessionAssumption
  <2>5. CASE u = [name |-> "user_build_context.tar", from |-> NoDir]
    BY <1>1, <2>1, <2>4, <2>5
  <2>6. CASE \E d \in build.dirs : \E x \in DepNames[d] :
               u = [name |-> x, from |-> d]
    BY <1>1, <2>1, <2>3, <2>4, <2>6
  <2> QED BY <2>1, <2>5, <2>6
<1>2. \A u \in Uploads : u \in new
  BY <1>1
<1> QED BY <1>2 DEF Stored

LEMMA InitCloud == Init => CloudInv
BY DEF Init, CloudInv, StoredPositions

LEMMA NextCloud == TypeOK /\ CloudInv /\ [Next]_vars => CloudInv'
<1> SUFFICES ASSUME TypeOK, CloudInv, [Next]_vars PROVE CloudInv'
  OBVIOUS
<1> USE DEF CloudInv, StoredPositions, Goto, worldVars
<1>1. CASE IssueStart \/ IssueAdd \/ IssueFinish
  BY <1>1 DEF IssueStart, IssueAdd, IssueFinish, Begin
<1>2. CASE StartArchive \/ StartArchiveBreaks \/ StartCreate
  BY <1>2 DEF StartArchive, StartArchiveBreaks, StartCreate
<1>3. CASE StartFill
  BY <1>3 DEF StartFill, TypeOK, FileNames
<1>4. CASE AddLoad \/ GPUTruncate \/ GPUFill \/ ProvTruncate \/ ProvFill
  BY <1>4 DEF AddLoad, GPUTruncate, GPUFill, ProvTruncate, ProvFill
<1>5. CASE FinishRead \/ FinishExists \/ FinishAbsent
  BY <1>5 DEF FinishRead, FinishExists, FinishAbsent, Return
<1>6. CASE StoreInGCS
  <2>1. PICK new \in SUBSET Uploads :
          /\ \A u \in Uploads : \E n \in new : n.name = u.name
          /\ bucket' = Stored(new)
    BY <1>6 DEF StoreInGCS
  <2>2. ~Collides /\ Uploads' = Uploads
    BY <1>6 DEF StoreInGCS, fileVars, Uploads
  <2>3. Uploads \subseteq bucket'
    BY <2>1, <2>2, AllNamesAllUploads
  <2> QED BY <1>6, <2>2, <2>3 DEF StoreInGCS
<1>7. CASE StoreFails
  BY <1>7 DEF StoreFails
<1>8. CASE RewriteProv \/ RefillProv
  BY <1>8 DEF RewriteProv, RefillProv, Uploads
<1>9. CASE DaisySucceeds \/ DaisyFails
  BY <1>9 DEF DaisySucceeds, DaisyFails, Return
<1>10. CASE GCSCleanup \/ Deprecate \/ DeprecateFails \/ Cleanup
  <2>1. CASE GCSCleanup
    BY <2>1 DEF GCSCleanup
  <2>2. CASE Deprecate \/ DeprecateFails
    BY <2>2 DEF Deprecate, DeprecateFails, Return
  <2>3. CASE Cleanup
    <3>1. pc' = "idle" /\ UNCHANGED <<output, deprecated>>
      BY <2>3 DEF Cleanup
    <3> QED BY <3>1
  <2> QED BY <1>10, <2>1, <2>2, <2>3
<1>11. CASE CommandFails \/ Killed \/ SessionEnds \/ UNCHANGED vars
  BY <1>11 DEF CommandFails, Return, Killed, SessionEnds, vars, fileVars,
               Uploads
<1>12. CASE OtherImage
  BY <1>12 DEF OtherImage, fileVars, Uploads
<1> QED
  BY <1>1, <1>2, <1>3, <1>4, <1>5, <1>6, <1>7, <1>8, <1>9, <1>10, <1>11,
     <1>12 DEF Next

-----------------------------------------------------------------------------
(* Theorems.                                                               *)

LEMMA SessionInvariant == Spec => [](TypeOK /\ StepInv /\ ConfigInv /\ CloudInv)
<1>1. Init => ConfigInv /\ CloudInv
  BY InitConfig, InitCloud
<1> QED
  BY <1>1, SessionTypes, NextConfig, NextCloud, PTL DEF Spec

\* Every variable of a session stays in its type (TypeOK), however many
\* commands are issued, fail or are killed.
THEOREM SessionTypeCorrect == Spec => []TypeOK
BY SessionTypes, PTL

\* The provisioner config has the steps of the commands that reported success,
\* in their order (SaveConfigToPath, ProvFill).
THEOREM StepsKept == Spec => []StepsAreKept
<1>1. ConfigInv => StepsAreKept
  BY DEF ConfigInv, StepsAreKept
<1> QED BY <1>1, SessionInvariant, PTL

\* A VM that is to install GPU drivers has a GPU, and installs them once
\* (InstallGPU.Execute).
THEOREM GPUIsThereOnce == Spec => []GPUStepHasGPU
<1>1. ConfigInv => GPUStepHasGPU
  BY DEF ConfigInv, GPUStepHasGPU, OneGPU, HasStep, Backed
<1> QED BY <1>1, SessionInvariant, PTL

\* The files of the directory that the VM's install-gpu step names are in the
\* bucket when Daisy starts (storeInGCS), whatever was there before.
THEOREM DepsStored == Spec => []DepsAreThere
<1>1. ConfigInv /\ CloudInv => DepsAreThere
  BY DEF ConfigInv, CloudInv, StoredPositions, DepsAreThere, Backed, Uploads
<1> QED BY <1>1, SessionInvariant, PTL

\* Old images are deprecated for the sake of an image of this build only
\* (FinishImageBuild.Execute).
THEOREM DeprecationIsOurs == Spec => []DeprecationFollows
<1>1. CloudInv => DeprecationFollows
  BY DEF CloudInv, DeprecationFollows
<1> QED BY <1>1, SessionInvariant, PTL
=============================================================================
