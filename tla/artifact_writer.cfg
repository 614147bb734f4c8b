SPECIFICATION WriterSpec
CONSTANTS
  Procs = {p1, p2}
  Flushers = {p1}
  Before = Earlier
  Chunks = 2
  SyncSupported = TRUE
  NoFile = NoFile
  Nothing = Nothing
  Dest = Dest
INVARIANTS LastIsExitCopy PublishedWhole TmpRemoved ModeKept
PROPERTIES ReplacedAtomically
CHECK_DEADLOCK FALSE
