SPECIFICATION Spec
CONSTANTS
  Vcpus = {0}
  VcpuCap = 1
  Blocks = {"A", "A1", "H", "X"}
  Start <- MCStart
  Size <- MCSize
  InRange <- WithoutX
  Contexts = {0, 1}
  HaveDiscon = TRUE
  Options <- UniOptions
  NoBlock = NoBlock
  NoAddr = NoAddr
  MaxEntries = 3
  MaxSwitches = 2
INVARIANTS PendingSource ExitsAccount ExpansionExact
PROPERTIES EdgesExact
