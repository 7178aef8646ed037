CONSTANTS
  d1 = d1
  d2 = d2
  none = none
  PlainTypes = {"RunScript", "SealOEM"}
  Dirs = {d1, d2}
  NoDir = none
  DepNames <- MCDepNames
  Foreign = {}
  MaxCommands = 4
  MaxKills = 1
SPECIFICATION Spec
INVARIANT WaitIsAnswered
