SPECIFICATION Spec
CONSTANTS
  Old = {o1}
  Builds = {b1, b2}
  NoImage = NoImage
INVARIANTS
  OnlyOldDeprecated
