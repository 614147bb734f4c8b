SPECIFICATION Spec
CONSTANTS
  Headers <- MCHeaders
  Images <- MCImages
  Secs <- MCSecs
  Discarded = {"gone"}
  Place <- MCPlace
  Size <- MCSize
  Lines = {0, 2}
  Advances = {0, 1, 2}
  NoSec = NoSec
  NoFile = NoFile
  NoDir = NoDir
  Calls <- MCCalls
  Bases = {"a", NoSec}
  Symbols <- MCSymbols
  Top = 255
INVARIANTS RowsExact CallSitesExact DenominatorExact FunctionsRight
CHECK_DEADLOCK FALSE
