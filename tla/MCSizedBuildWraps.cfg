CONSTANTS
  Word = 1024
  UnitSize <- MCUnitSize
  Block = 8
  DefaultOEM = 3
  ImgSize = 3
  ReclaimedMB = 6
  Numbers <- MCNumbers
  DiskFlags <- MCDiskFlags
  Align = 4
  MinSize = 4
  Margin = 4
  InitTable <- MCInitTable
  ImageEnd = 96
  DiskEnds <- MCDiskEnds
  Configs <- MCConfigs
  MaxFaults = 2
SPECIFICATION BuildSpec
INVARIANTS
  OEMIsAsDocumented
