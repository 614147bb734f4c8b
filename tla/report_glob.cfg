SPECIFICATION Spec
CONSTANTS
  Artifacts <- MCArtifacts
  Slices <- MCSlices
  Recorded <- MCRecorded
  Stem <- BracketStem
  Tag <- MCTag
  Elfs = {"e1", "e2", "o"}
  NoElf = ""
  NoSection = ""
  Commands <- MCCommands
  Fates <- NoFates
  GlobMatch <- Bracket
  MaxCommands = 1
  MaxUpsets = 0
INVARIANT AggregateExact
CHECK_DEADLOCK FALSE
