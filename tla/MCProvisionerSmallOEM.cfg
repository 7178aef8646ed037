CONSTANTS
  Align = 2
  MinSize = 2
  Margin = 4
  InitTable <- MCInitTable
  ImageEnd = 26
  GrownEnd = 36
  DiskEnds = {26, 36}
  Configs <- MCSmallOEMConfigs
  MaxFaults = 0
  MaxCrashes = 0
  MaxReboots = 7
SPECIFICATION FairSpec
PROPERTY AllowedSizesEnd
