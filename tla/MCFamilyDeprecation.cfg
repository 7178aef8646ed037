SPECIFICATION FairSpec
CONSTANTS
  Old = {o1}
  Builds = {b1, b2}
  NoImage = NoImage
INVARIANTS
  TypeOK
  SuccessMeansDeprecated
  NewestIsLive
PROPERTIES
  WaitEnds
