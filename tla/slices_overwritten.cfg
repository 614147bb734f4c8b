SPECIFICATION Spec
CONSTANTS
  MaxFiles = 2
  MaxRivals = 2
  Places <- MCPlaces
  Walk <- MCWalk
  ObjSuffixes <- MCSuffixes
  Paths <- MCPaths
  LoaderWidths <- MCLoaderWidths
  Widths <- MCWidths
  Machines = {"rv", "arm"}
  Runs <- MCRuns
INVARIANT SlicesKept
CHECK_DEADLOCK FALSE
