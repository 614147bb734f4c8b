SPECIFICATION Spec
CONSTANTS
  Vcpus = {0, 1}
  VcpuCap = 2
  Blocks = {"A", "H"}
  Start <- MCStart
  Size <- MCSize
  InRange <- AllInRange
  Contexts = {0}
  HaveDiscon = TRUE
  Options <- UserFlush
  NoBlock = NoBlock
  NoAddr = NoAddr
  MaxEntries = 2
  MaxSwitches = 0
PROPERTIES FlushAlone
