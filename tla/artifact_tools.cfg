SPECIFICATION ToolsSpec
CONSTANTS
  Translations = {t1, t2}
  Ctxs = {0, 7}
  Codes <- MCCodes
  MaxCount = 2
  Filters <- MCFilters
  Paths = {"run", "x"}
  Kinds <- MCKinds
  EdgeSets <- MCEdgeSets
  Bases = {1}
  Sizes = {2}
  Tos = {0, 2}
  Maps <- MCMaps
  Campaigns <- MCCampaigns
  MaxCommands = 2
SYMMETRY Symmetry
INVARIANTS ExpansionMatches TableAccepted Conserved TornRejected
PROPERTY ScrubKeeps
CHECK_DEADLOCK FALSE
