SPECIFICATION Spec
CONSTANTS
  Remote = {1}
  NoRemote = 0
  Faults = FALSE
  ClipFrames = 1
  MaxEvents = 2
  MaxServers = 1
  MaxExtra = 0
INVARIANT ReadsWholeReplies
CHECK_DEADLOCK FALSE
