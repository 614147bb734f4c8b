SPECIFICATION Spec
CONSTANTS
  Vcpus = {0, 1}
  VcpuCap = 2
  Blocks = {"A", "A1", "B1"}
  Start <- MCStart
  Size <- MCSize
  InRange <- AllInRange
  Contexts = {0}
  HaveDiscon = TRUE
  Options <- TbOption
  NoBlock = NoBlock
  NoAddr = NoAddr
  MaxEntries = 2
  MaxSwitches = 0
INVARIANTS ExpansionExact
