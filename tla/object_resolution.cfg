SPECIFICATION Spec
CONSTANTS
  MaxFiles = 2
  MaxRivals = 3
  Places <- MCPlaces
  Walk <- MCWalk
  ObjSuffixes <- MCSuffixes
  Paths <- MCPaths
  LoaderWidths <- MCLoaderWidths
  Widths <- MCWidths
  Machines = {"rv"}
  Runs <- MCRuns
INVARIANTS CodeThatRan TrueFileMatches ResolvedAsPromised ExitTruthful
CHECK_DEADLOCK FALSE
