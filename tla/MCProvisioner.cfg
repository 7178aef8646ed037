CONSTANTS
  Align = 2
  MinSize = 2
  Margin = 4
  InitTable <- MCInitTable
  ImageEnd = 26
  GrownEnd = 36
  DiskEnds = {26, 36}
  Configs <- MCConfigs
  MaxFaults = 1
  MaxCrashes = 2
  MaxReboots = 7
SPECIFICATION FairSpec
INVARIANTS
  TypeOK
  PersistedStepNotAhead
  RepeatsNeedACrash
  SuccessIsComplete
  RunningRootIntact
  RelocationAfterResize
  KernelSeesOEM
  HashTreeHasRoom
  SealedImageVerifies
  RelocatedIsExtended
  DMCountIsRight
  RebootsAreBounded
PROPERTIES
  FlowSpec
  ConsoleSpec
  EndComesNearer
  Terminates
