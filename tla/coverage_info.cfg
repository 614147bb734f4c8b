SPECIFICATION Spec
CONSTANTS
  NoAddr = NoAddr
  Dash = Dash
  None = None
  Elfs = {"e1", "e2"}
  Code <- MCCode
  Symbols <- MCSymbols
  Origin <- MCOrigin
  Frames <- MCFrames
  Tests = {"t1", "t2"}
  ElfOf <- MCElfOf
  Runs <- MCRuns
  MaxInsns <- MCMaxInsns
  i = i
  j = j
  Infos = {i, j}
  Inputs <- MCInputs
  MaxCommands = 4
SYMMETRY InfoSymmetry
INVARIANTS LinesExact BranchesExact FunctionsShown HonestDenominator
CHECK_DEADLOCK FALSE
