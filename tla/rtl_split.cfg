SPECIFICATION Spec
CONSTANTS
  oa = oa
  ob = ob
  oc = oc
  text = text
  cold = cold
  ao = ao
  bo = bo
  NoFile = NoFile
  NoObject = NoObject
  NoAddr = NoAddr
  NoWindow = NoWindow
  Vcpus = {1}
  Objects = {oa, ob, oc}
  Sections = {text, cold}
  Executable = {text, cold}
  Layout <- MCLayout
  File <- MCFile
  Lost <- MCLostCold
  Bases <- OaMoves
  BaseCode = {1, 2, 3}
  StateHook = 2
  LoadHook = 3
  LoadHookGiven = {TRUE, FALSE}
  HooksInRange = FALSE
  RTL_MAX_OBJS = 4
  MaxCalls = 3
  MaxRuns = 2
INVARIANTS MapInForce SlicesExact BaseExact SliceEdgesExact LoadedIsReported
CHECK_DEADLOCK FALSE
