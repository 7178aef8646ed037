SPECIFICATION FairSpec
CONSTANTS
  PreloadInterval = 15
  ResizeInterval = 5
  ShutdownInterval = 1
  ResizeTime = 90
  GraceTime = 150
  Breaks <- AllBreaks
  ScriptLines <- AllVerdicts
  MaxRestarts = 1
INVARIANTS
  TypeOK
  ImageIsComplete
  LogsCaptured
  FailureIsNoticed
  ResizeIsNoticed
PROPERTIES
  VMEnds
  DaisyRunSpec
