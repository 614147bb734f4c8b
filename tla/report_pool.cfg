SPECIFICATION Spec
CONSTANTS
  Artifacts <- MCArtifacts
  Slices <- MCSlices
  Recorded <- MCRecorded
  Stem <- MCStem
  Tag <- MCTag
  Elfs = {"e1", "e2", "o"}
  NoElf = ""
  NoSection = ""
  Commands <- MCCommands
  Fates <- MCFates
  GlobMatch <- SameName
  MaxCommands = 2
  MaxUpsets = 1
INVARIANTS CacheExact InventoriedOnce JoinedRight ExitStatus AggregateExact OutputExact
PROPERTIES FailureKeepsAggregate Terminates
CHECK_DEADLOCK FALSE
